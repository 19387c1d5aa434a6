------------------------------ MODULE BatchRun ------------------------------
(***************************************************************************)
(* What a batch run of nodeup promises, whichever mode it runs in: the     *)
(* create, migrate, rebalance and delete modes each do one job per host,   *)
(* wait for the jobs or do them in turn, and exit with a status that says  *)
(* whether one of them failed.                                             *)
(*                                                                         *)
(* A job that fails is "failed" when the failure is on record before the   *)
(* run may end, and "late" when it is recorded only after the job has left *)
(* the group the run waits for: then the exit status may miss it.          *)
(***************************************************************************)
CONSTANT Jobs

VARIABLES
  verdict,    \* verdict[j]: how job j ended
  exit        \* how the run ended, and with which status

vars == <<verdict, exit>>

Verdicts == {"pending", "ok", "failed", "late"}
Exits == {"running", "clean", "flagged", "aborted"}

Init ==
  /\ verdict = [j \in Jobs |-> "pending"]
  /\ exit = "running"

\* A job is decided once, and never changes its mind.
Settle(j) ==
  /\ exit = "running"
  /\ verdict[j] = "pending"
  /\ \E v \in Verdicts \ {"pending"} : verdict' = [verdict EXCEPT ![j] = v]
  /\ UNCHANGED exit

\* Status 0: every job is decided, and no recorded failure is swept away.
FinishClean ==
  /\ exit = "running"
  /\ \A j \in Jobs : verdict[j] \in {"ok", "late"}
  /\ exit' = "clean"
  /\ UNCHANGED verdict

\* Status 1: every job is decided, and there is a failure to report.
FinishFlagged ==
  /\ exit = "running"
  /\ \A j \in Jobs : verdict[j] # "pending"
  /\ \E j \in Jobs : verdict[j] \in {"failed", "late"}
  /\ exit' = "flagged"
  /\ UNCHANGED verdict

\* A signal, a fatal log line or a panic ends the run whatever the jobs do.
Abort ==
  /\ exit = "running"
  /\ exit' = "aborted"
  /\ UNCHANGED verdict

Next ==
  \/ \E j \in Jobs : Settle(j)
  \/ FinishClean
  \/ FinishFlagged
  \/ Abort

Spec == Init /\ [][Next]_vars
=============================================================================
