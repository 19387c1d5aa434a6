------------------------------ MODULE MCDaemon ------------------------------
(* Small instances of Daemon and of Placement. *)
EXTENDS Daemon, Placement

Three == {"c1", "c2", "c3"}
Two == {"c1", "c2"}
TwoStarts == {"s1", "s2"}
OneStop == {"t1"}

\* Up to three hypervisors, in use, disabled or down, with loads that tie.
Hypervisors == [status : {"enabled", "disabled"}, state : {"up"},
                vcpusUsed : {0, 1}, freeRamMB : {0, 1}]
                 \cup [status : {"enabled"}, state : {"down"},
                       vcpusUsed : {0}, freeRamMB : {0, 1}]
Listings == UNION {[1..n -> Hypervisors] : n \in 0..3}
Orders(hs) == {[i \in 1..Len(hs) |-> hs[p[i]]] : p \in Bijection(1..Len(hs), 1..Len(hs))}

\* Whatever is picked from an order of a listing is the right choice, and
\* something always is.
ASSUME PlacementAssumption ==
  \A criteria \in {"cpu", "memory", "disk"}, hs \in Listings :
    /\ \A sorted \in Orders(hs), h \in Hypervisors \cup {NoHypervisor} :
         (Scheduled(criteria, hs, sorted) /\ Picked(sorted, h)) => Choice(criteria, hs, h)
    /\ \E sorted \in Orders(hs), h \in Hypervisors \cup {NoHypervisor} :
         Scheduled(criteria, hs, sorted) /\ Picked(sorted, h)
=============================================================================
