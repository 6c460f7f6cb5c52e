---------------------------- MODULE MCPeerFanout ----------------------------
(* Instances of PeerFanout for TLC.                                        *)
EXTENDS PeerFanout, TLC

\* Sparse: every agent probes the next one in id order, and only that one.
RingBuild(snap, mode) ==
    LET ids == DOMAIN snap
        Next1(a) == IF \E b \in ids : b > a
                    THEN CHOOSE b \in ids : b > a /\ \A c \in ids : c > a => b <= c
                    ELSE CHOOSE b \in ids : \A c \in ids : b <= c
    IN  IF mode = "full" THEN NoPlan ELSE [a \in ids |-> {Next1(a)} \ {a}]

MCOwner == [s \in Streams |-> s]
BothOfOne == [s \in Streams |-> 1]
=============================================================================
