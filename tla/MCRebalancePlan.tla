-------------------------- MODULE MCRebalancePlan --------------------------
(* Eight servers on four hypervisors.  The placements are those that list the
   servers hypervisor by hypervisor; at most two servers share a name. *)
EXTENDS RebalancePlan

CONSTANTS h1, h2, h3, h4

Four == {h1, h2, h3, h4}
Rank == <<h1, h2, h3, h4>>
Blocks ==
  {[s \in Listing |-> Rank[1 + Cardinality({i \in 1 .. 3 : s > cut[i]})]] :
     cut \in [1 .. 3 -> 0 .. N]}
OneDoubled ==
  {[s \in Listing |-> IF s = b THEN a ELSE s] : a, b \in Listing}
=============================================================================
