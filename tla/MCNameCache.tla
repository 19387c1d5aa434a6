----------------------------- MODULE MCNameCache -----------------------------
(* A small instance of NameCache: one hypervisor, and the empty name of a server
   that is on none. *)
EXTENDS NameCache, TLC

CONSTANTS h1, unplaced, s1, s2, r1, r2

TwoHosts == {h1, unplaced}
TwoIds == {s1, s2}
TwoHandlers == {r1, r2}

\* Nothing but identity tells hypervisors, ids or handlers apart.
Symmetry == Permutations(TwoHosts) \cup Permutations(TwoIds) \cup Permutations(TwoHandlers)
=============================================================================
