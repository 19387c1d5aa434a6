---------------------------- MODULE MCDeleteMode ----------------------------
(* Small instances of DeleteMode: two names, one of which two servers share. *)
EXTENDS DeleteMode

CONSTANTS x, y, i1, i2, i3

ThreeIds == {i1, i2, i3}
SharedName == [id \in ThreeIds |-> IF id = i3 THEN y ELSE x]
TwoNodes == <<x, y>>
Repeated == <<x, y, x>>
=============================================================================
