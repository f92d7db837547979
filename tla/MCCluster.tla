----------------------------- MODULE MCCluster ------------------------------
(* Three keys on two nodes, for TLC.                                       *)
EXTENDS Cluster, TLC

CONSTANTS n1, n2, k1, k2, k3, c1, c2

\* k1 has the hash of a node, k2 is before all nodes and k3 beyond them.
MChashFunc == n2 :> 2 @@ n1 :> 5 @@ k1 :> 5 @@ k2 :> 1 @@ k3 :> 7

\* n2's configuration lists its peer twice, and an empty name.
MCPeers == n1 :> <<n2>> @@ n2 :> <<n1, "", n1>>

\* Nothing tells the members apart.
MCSymmetry == Permutations(Members)

\* c1 is connected to n1, so that two of the keys are remote; c2 to n2.
MCCoordinator == [c \in Clients |-> IF c = c1 THEN n1 ELSE n2]
=============================================================================
