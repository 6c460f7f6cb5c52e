------------------------------ MODULE MeshPlan ------------------------------
(***************************************************************************)
(* The sparse probe plan (internal/controller/meshplan).                   *)
(*                                                                         *)
(* Build is a pure function of the snapshot it is handed and of the        *)
(* topology config: a ring over the agents in node-name order, a few       *)
(* cross-zone chords per agent chosen by highest random weight, and one    *)
(* probe for every ordered pair of zones still unobserved.  The snapshot   *)
(* lists the registry's map in whatever order Go iterates it, and every    *)
(* change of the fleet builds the plan anew.                               *)
(***************************************************************************)
EXTENDS Naturals, Sequences, FiniteSets, SequencesExt, Graphs

CONSTANTS
    Ids,        \* agent ids; numbers, as ids are compared
    Zones,      \* zone names, the empty one included
    Placements, \* which node each agent runs on; numbers, as names are compared
    Zonings,    \* which zone each agent is in
    Weights,    \* pair scores
    Configs,    \* sparse blocks: ring degree, zone chords, auto threshold
    NoPlan      \* the nil plan: full mesh

\* What is hashed against an id: the probing agent, or the zone pair to repair.
Keys == {<<i>> : i \in Ids} \cup (Zones \X Zones)

ASSUME MeshConstants ==
    /\ Ids \subseteq Nat
    /\ Placements \subseteq [Ids -> Nat] /\ Zonings \subseteq [Ids -> Zones]
    /\ Weights \subseteq [Keys -> [Ids -> Nat]]
    /\ Configs \subseteq [degree : Nat \ {0}, chords : Nat, threshold : Nat]

VARIABLES
    fleet,    \* the registered ids
    node,     \* node[i]: the node agent i runs on
    zone,     \* zone[i]: its zone
    weight,   \* weight[k][i]: pairScore of the hash of k and of i's
    cfg,      \* the sparse block in force
    plan      \* what Build returned for the last snapshot

vars == <<fleet, node, zone, weight, cfg, plan>>

Smaller(a, b) == IF a < b THEN a ELSE b

-----------------------------------------------------------------------------
(* Build.                                                                  *)

\* Node-name order, the id breaking ties between agents of one node.
ByNodeOnly(i, j) == node[i] < node[j]       \* as if there were no tiebreak
Before(i, j) == node[i] < node[j] \/ (node[i] = node[j] /\ i < j)
Ring(snapshot) == SortSeq(snapshot, Before)
At(ring, i) == CHOOSE p \in DOMAIN ring : ring[p] = i

Others(ring) == IF Len(ring) = 0 THEN 0 ELSE Len(ring) - 1
Unclamped(ring) == cfg.degree               \* as if a degree past the fleet's size were kept
RingDegree(ring) == Smaller(cfg.degree, Others(ring))
ZoneChords(ring) == Smaller(cfg.chords, Others(ring))

\* As if the ring were not closed.
LinePeers(ring, i) ==
    {ring[p] : p \in {At(ring, i) + d : d \in 1..RingDegree(ring)} \cap DOMAIN ring}

\* Each agent's successors on the ring.
RingPeers(ring, i) ==
    {ring[((At(ring, i) + d - 1) % Len(ring)) + 1] : d \in 1..RingDegree(ring)}

\* scored.outranks: the higher weight for key k, ties broken by ring order.
Outranks(ring, k, i, j) ==
    IF weight[k][i] # weight[k][j] THEN weight[k][i] > weight[k][j]
    ELSE At(ring, i) < At(ring, j)

\* pushBest: c joins the window of at most keep candidates and moves up past those it outranks.
PushBest(ring, k, best, c, keep) ==
    LET window == IF Len(best) < keep THEN best ELSE Front(best)
        stays == {p \in DOMAIN window : ~Outranks(ring, k, c, window[p])}
        ahead == IF stays = {} THEN 0 ELSE CHOOSE p \in stays : \A q \in stays : q <= p
    IN  IF Len(best) < keep \/ Outranks(ring, k, c, Last(best))
        THEN SubSeq(window, 1, ahead) \o <<c>> \o SubSeq(window, ahead + 1, Len(window))
        ELSE best

\* How many candidates the window keeps: chords may fall on ring edges.
ChordsOnly(ring) == ZoneChords(ring)        \* as if no spare entries were kept
Keep(ring) == ZoneChords(ring) + RingDegree(ring)

\* addChords, for one agent: the best candidates of other zones that the ring does not give it.
Chords(ring, i) ==
    LET scan(best, j) == IF zone[j] = zone[i] THEN best ELSE PushBest(ring, <<i>>, best, j, Keep(ring))
        extra == SelectSeq(FoldLeft(scan, << >>, ring), LAMBDA j : j \notin RingPeers(ring, i))
    IN  IF ZoneChords(ring) = 0 THEN {}
        ELSE ToSet(SubSeq(extra, 1, Smaller(ZoneChords(ring), Len(extra))))

\* argmaxByScore over the agents of zone z.
Winner(ring, z, salt) ==
    CHOOSE i \in ToSet(ring) : zone[i] = z /\
        \A j \in ToSet(ring) \ {i} : zone[j] = z => Outranks(ring, salt, i, j)

ZonesOf(ring) == {zone[i] : i \in ToSet(ring)}

\* repairZonePairs: the ordered zone pairs that the edges so far leave unobserved ...
UnorderedGaps(ring, adj) ==                 \* as if one direction were enough
    {zz \in ZonesOf(ring) \X ZonesOf(ring) : zz[1] # zz[2] /\
        ~\E i \in ToSet(ring) : \E j \in adj[i] : {zone[i], zone[j]} = {zz[1], zz[2]}}
Uncovered(ring, adj) ==
    {zz \in ZonesOf(ring) \X ZonesOf(ring) : zz[1] # zz[2] /\
        ~\E i \in ToSet(ring) : \E j \in adj[i] : zone[i] = zz[1] /\ zone[j] = zz[2]}

\* ... get one probe each.
Repair(ring, adj) ==
    [i \in ToSet(ring) |-> adj[i] \cup
        {Winner(ring, zz[2], zz) : zz \in {g \in Uncovered(ring, adj) : i = Winner(ring, g[1], g)}}]

Build(snapshot) ==
    LET ring == Ring(snapshot)
        adj == [i \in ToSet(ring) |-> RingPeers(ring, i) \cup Chords(ring, i)]
    IN  IF cfg.threshold > 0 /\ Len(snapshot) < cfg.threshold THEN NoPlan
        ELSE Repair(ring, adj)

-----------------------------------------------------------------------------
(* The fleet changes, and the OnChange callback builds on a snapshot of    *)
(* arbitrary order.                                                        *)

Init ==
    /\ fleet = {}
    /\ node \in Placements /\ zone \in Zonings
    /\ weight \in Weights /\ cfg \in Configs
    /\ plan = Build(<< >>)

Rebuild == \E snapshot \in SetToSeqs(fleet') : plan' = Build(snapshot)

Register(i) ==
    /\ i \notin fleet
    /\ fleet' = fleet \cup {i}
    /\ Rebuild
    /\ UNCHANGED <<node, zone, weight, cfg>>

Deregister(i) ==
    /\ i \in fleet
    /\ fleet' = fleet \ {i}
    /\ Rebuild
    /\ UNCHANGED <<node, zone, weight, cfg>>

Next == \E i \in Ids : Register(i) \/ Deregister(i)

Spec == Init /\ [][Next]_vars

-----------------------------------------------------------------------------
(* Properties.                                                             *)

Edges == {e \in fleet \X fleet : e[2] \in plan[e[1]]}

\* A plan lists, for exactly the registered agents, registered agents other than itself.
TypeOK ==
    plan # NoPlan =>
        /\ DOMAIN plan = fleet
        /\ \A i \in fleet : plan[i] \subseteq fleet \ {i}

\* Replicas agree: the order in which Go iterates the registry's map never shows in the plan,
\* not even when weights collide or two agents share a node ("N controller replicas agree").
ReplicasAgree == plan = Build(SetToSeq(fleet))

\* Probes reach every agent from every agent: the ring survives any fleet size and any degree.
StronglyConnected ==
    plan # NoPlan =>
        LET reach == ConnectionsIn([node |-> fleet, edge |-> Edges])
        IN  \A i, j \in fleet : i # j => reach[i, j]

\* Every ordered pair of zones with agents on both sides is observed by some probe, which is
\* what zone-level alerting rests on.
ZonePairsObserved ==
    plan # NoPlan =>
        \A i, j \in fleet : zone[i] # zone[j] =>
            \E e \in Edges : zone[e[1]] = zone[i] /\ zone[e[2]] = zone[j]

\* Reference for the windowed scan: an agent's non-ring probes include its zoneChords best
\* candidates among ALL agents of other zones it does not reach over the ring.
ChordsAreBest ==
    plan # NoPlan =>
        LET ring == Ring(SetToSeq(fleet))
            rivals(i) == {j \in fleet \ RingPeers(ring, i) : zone[j] # zone[i]}
        IN  \A i \in fleet, j \in fleet :
                j \in rivals(i) /\ Cardinality({r \in rivals(i) : Outranks(ring, <<i>>, r, j)})
                                     < ZoneChords(ring)
                    => j \in plan[i]

=============================================================================
