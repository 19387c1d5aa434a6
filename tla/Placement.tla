------------------------------ MODULE Placement -----------------------------
(***************************************************************************)
(* GET /api/hypervisors/sort/:criteria and free/:criteria: the order in    *)
(* which HypervisorScheduler puts a listing of the hypervisors and the one *)
(* that GetHypervisorWithSensitiveCriteria takes from it.  sort.Sort is    *)
(* not stable, so several orders are possible results.                     *)
(***************************************************************************)
EXTENDS Integers, Sequences, Functions

\* What the code reads of a hypervisor.
IsHypervisor(h) ==
  /\ h.status \in {"enabled", "disabled"} /\ h.state \in {"up", "down"}
  /\ h.vcpusUsed \in Int /\ h.freeRamMB \in Int

IsListing(hs) == \A i \in 1..Len(hs) : IsHypervisor(hs[i])

\* The zero value of a Hypervisor, which is what no choice looks like.
NoHypervisor == [status |-> "", state |-> "", vcpusUsed |-> 0, freeRamMB |-> 0]

Usable(h) == h.status = "enabled" /\ h.state = "up"

\* Less of the two sort types: the larger number comes first.
Before(criteria, g, h) ==
  \/ criteria = "cpu" /\ g.vcpusUsed > h.vcpusUsed
  \/ criteria = "memory" /\ g.freeRamMB > h.freeRamMB

\* hs rearranged, with no pair the wrong way round; any other criteria
\* leaves the listing as it came.
Scheduled(criteria, hs, sorted) ==
  IF criteria \notin {"cpu", "memory"}
    THEN sorted = hs
    ELSE /\ \E p \in Bijection(1..Len(hs), 1..Len(hs)) :
              sorted = [i \in 1..Len(hs) |-> hs[p[i]]]
         /\ \A i, j \in 1..Len(sorted) : i < j => ~Before(criteria, sorted[j], sorted[i])

\* What the loop holds after n turns: the last one it may use.
Held(sorted, n, h) ==
  \/ \E i \in 1..n :
       /\ h = sorted[i] /\ Usable(h)
       /\ \A j \in (i + 1)..n : ~Usable(sorted[j])
  \/ h = NoHypervisor /\ \A i \in 1..n : ~Usable(sorted[i])

\* What the loop keeps in the end.
Picked(sorted, h) == Held(sorted, Len(sorted), h)

-----------------------------------------------------------------------------
\* What the answer is: one of the listing that can be used, unless there is
\* none, and of those with the least vCPUs in use, or with the least memory
\* free.
Choice(criteria, hs, h) ==
  /\ h = NoHypervisor <=> \A i \in 1..Len(hs) : ~Usable(hs[i])
  /\ h # NoHypervisor =>
       /\ \E i \in 1..Len(hs) : h = hs[i]
       /\ Usable(h)
       /\ \A i \in 1..Len(hs) :
            Usable(hs[i]) => /\ criteria = "cpu" => h.vcpusUsed <= hs[i].vcpusUsed
                             /\ criteria = "memory" => h.freeRamMB <= hs[i].freeRamMB
=============================================================================
