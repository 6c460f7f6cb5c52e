----------------------------- MODULE MCMeshPlan -----------------------------
EXTENDS MeshPlan

\* Node order as id order, against it, and two agents to a node as in a rolling restart.
MCPlacements == {[i \in Ids |-> i], [i \in Ids |-> 5 - i], [i \in Ids |-> i % 2]}

\* Every way to spread the agents over the zones, up to the zones' names.
MCZonings ==
    {z \in [Ids -> Zones] :
        \A i \in Ids : z[i] = 0 \/ \E j \in Ids : j < i /\ z[j] = z[i] - 1}

\* Congruences stand for the hash: modulo 5 every agent ranks the fleet in an order of its
\* own, modulo 3 and 7 some pairs collide and others do not.
Score(q, n, k, i) == (k * i + q * i * i) % n
MCWeights ==
    {[k \in Keys |-> [i \in Ids |->
        Score(qn[1], qn[2], IF Len(k) = 1 THEN k[1] ELSE k[1] + 2 * k[2], i)]] :
            qn \in {<<0, 5>>, <<0, 3>>, <<1, 7>>}}

MCConfigs ==
    {[degree |-> d, chords |-> c, threshold |-> 0] : d \in 1..2, c \in 0..2}
        \cup {[degree |-> 1, chords |-> 1, threshold |-> 3]}
=============================================================================
