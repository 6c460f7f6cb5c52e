--------------------------- MODULE MCTaskDispatch ---------------------------
EXTENDS TaskDispatch, TLC

\* Every subscription slot belongs to one agent: a reconnect overlaps two streams of it.
ReconnectOwner == LET a == CHOOSE x \in Agents : TRUE IN [c \in Chans |-> a]

\* Tasks are alike, and so are the slots of one agent.
Alike == Permutations(Tasks) \cup Permutations(Chans)

=============================================================================
