---------------------------- MODULE MCMigration -----------------------------
(* Small instances of Migration. *)
EXTENDS Migration

CONSTANTS a, b

TwoServers == {a, b}
TwoJobs == <<a, b>>
Repeated == <<a, b, a>>
=============================================================================
