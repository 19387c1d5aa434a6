------------------------------ MODULE MCLaunch ------------------------------
(* A small instance of Launch. *)
EXTENDS Launch

TwoStrings == {"a", "b"}
\* Negative, refused, one host, several, and more than there are strings.
FiveCounts == {-1, 0, 1, 2, 3}
=============================================================================
