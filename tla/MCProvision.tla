---------------------------- MODULE MCProvision -----------------------------
(* Small instances of Provision. *)
EXTENDS Provision

CONSTANTS h1, h2

TwoWorkers == {1, 2}
TwoHosts == [w \in TwoWorkers |-> IF w = 1 THEN h1 ELSE h2]
=============================================================================
