----------------------------- MODULE Migration ------------------------------
(***************************************************************************)
(* Live migration.  Migrate.Init starts one goroutine per name in -hosts;  *)
(* Rebalance.rebalance walks its plan and calls MigrateHost itself, one    *)
(* server after the other (Sequential).  MigrateHost asks OpenStack for    *)
(* the migration, starts a poller goroutine and waits for the poller's     *)
(* result or for a timer.                                                  *)
(*                                                                         *)
(* OpenStack is external: a migration it accepted ends on the new          *)
(* hypervisor, back on the old one, in ERROR, or not at all.               *)
(***************************************************************************)
EXTENDS Integers, FiniteSets

CONSTANTS
  N,           \* how many hosts the mode migrates
  Servers,
  ServerOf     \* ServerOf[j]: the server of the j-th host; names may repeat

Jobs == 1..N

ASSUME NAssumption == N \in Nat \ {0}
ASSUME ServerOfAssumption == ServerOf \in [Jobs -> Servers]

VARIABLES
  next,        \* the host whose turn it is in the loop of the main goroutine
  job,         \* job[j]: where MigrateHost is for host j
  outcome,     \* outcome[j]: what it returns and why
  poller,      \* poller[j]: where its poller goroutine is
  stop,        \* jobs whose doneCh (a buffer of one) holds a value
  status,      \* status[s]: the state OpenStack reports for s
  moved,       \* servers that reached the hypervisor asked for
  mode,        \* which flag started the run
  exitcode,    \* nodeup.Exitcode
  wg,          \* counter of the WaitGroup
  proc         \* running, or what ended the process

cloudVars == <<status, moved>>
procVars == <<mode, exitcode, wg, proc>>
jobVars == <<next, job, outcome, poller, stop>>
vars == <<jobVars, cloudVars, procVars>>

\* busy: already MIGRATING.  refused: LiveMigrate failed.
Failures == {"busy", "refused", "timeout"}
Done == {"returned", "end"}

TypeOK ==
  /\ next \in 1..(N + 1)
  /\ job \in [Jobs -> {"idle", "check", "request", "wait", "stop", "returned", "end"}]
  /\ outcome \in [Jobs -> {"pending", "ok"} \cup Failures]
  /\ poller \in [Jobs -> {"off", "poll", "send"}]
  /\ stop \subseteq Jobs
  /\ status \in [Servers -> {"ACTIVE", "MIGRATING", "ERROR"}]
  /\ moved \subseteq Servers
  /\ mode \in {"migrate", "rebalance"}
  /\ exitcode \in {0, 1}
  /\ wg \in Int
  /\ proc \in {"running", "main", "signal", "fatal", "panic"}

\* Servers may be in any state when the run starts.
Init ==
  /\ next = 1
  /\ job = [j \in Jobs |-> "idle"]
  /\ outcome = [j \in Jobs |-> "pending"]
  /\ poller = [j \in Jobs |-> "off"]
  /\ stop = {}
  /\ status \in [Servers -> {"ACTIVE", "MIGRATING", "ERROR"}]
  /\ moved = {}
  /\ mode \in {"migrate", "rebalance"}
  /\ exitcode = 0
  /\ wg = 0
  /\ proc = "running"

-----------------------------------------------------------------------------
\* The rebalance mode calls MigrateHost where the migrate mode spawns it.
Sequential == mode = "rebalance"

At(j, l) == proc = "running" /\ job[j] = l

Goto(j, l) == job' = [job EXCEPT ![j] = l]

Polling(j) == proc = "running" /\ poller[j] = "poll"

\* log.Fatal and a nil dereference end the process from any goroutine.
Die(how) ==
  /\ proc' = how
  /\ UNCHANGED <<jobVars, cloudVars, mode, exitcode, wg>>

\* MigrateHost returns: the deferred wg.Done runs first.
Leave(j, o) ==
  /\ Goto(j, "returned")
  /\ outcome' = [outcome EXCEPT ![j] = o]
  /\ wg' = wg - 1

\* Mutant: wg.Add moved into MigrateHost's goroutine, and lost.
LaunchNoAdd(j) ==
  /\ At(j, "idle")
  /\ next = j
  /\ next' = next + 1
  /\ Goto(j, "check")
  /\ UNCHANGED <<outcome, poller, stop, cloudVars, procVars>>

\* One turn of the main loop: IDFromName, whose error is fatal, wg.Add and
\* MigrateHost.  The rebalance mode calls it, so the turn before has ended.
Launch(j) ==
  /\ At(j, "idle")
  /\ next = j
  /\ Sequential => \A i \in 1..(j - 1) : job[i] = "end"
  /\ \/ Die("fatal")
     \/ /\ next' = next + 1
        /\ Goto(j, "check")
        /\ wg' = wg + 1
        /\ UNCHANGED <<outcome, poller, stop, cloudVars, mode, exitcode, proc>>

\* GetServer; when it fails, serverInfo is nil and reading its status panics.
Check(j) ==
  /\ At(j, "check")
  /\ \/ Die("panic")
     \/ /\ status[ServerOf[j]] = "MIGRATING"
        /\ Leave(j, "busy")
        /\ UNCHANGED <<next, poller, stop, cloudVars, mode, exitcode, proc>>
     \/ /\ status[ServerOf[j]] # "MIGRATING"
        /\ Goto(j, "request")
        /\ UNCHANGED <<next, outcome, poller, stop, cloudVars, procVars>>

\* Migrate: OpenStack refuses a server that is not ACTIVE, and may refuse any;
\* an error may also reach MigrateHost of a migration that was accepted.
Request(j) ==
  /\ At(j, "request")
  /\ \/ /\ Leave(j, "refused")
        /\ UNCHANGED <<next, poller, stop, cloudVars, mode, exitcode, proc>>
     \/ /\ status[ServerOf[j]] = "ACTIVE"
        /\ status' = [status EXCEPT ![ServerOf[j]] = "MIGRATING"]
        /\ \/ /\ Leave(j, "refused")
              /\ UNCHANGED <<next, poller, stop, moved, mode, exitcode, proc>>
           \/ /\ poller' = [poller EXCEPT ![j] = "poll"]
              /\ Goto(j, "wait")
              /\ UNCHANGED <<next, outcome, stop, moved, procVars>>

\* Mutant: the status of the server is not looked at.
PollHasty(j) ==
  /\ Polling(j)
  /\ poller' = [poller EXCEPT ![j] = "send"]
  /\ UNCHANGED <<next, job, outcome, stop, cloudVars, procVars>>

\* Mutant: the poller gives up on a server in ERROR and tells nobody.
PollGivesUp(j) ==
  /\ Polling(j)
  /\ \/ /\ status[ServerOf[j]] = "ACTIVE"
        /\ poller' = [poller EXCEPT ![j] = "send"]
     \/ /\ status[ServerOf[j]] = "ERROR"
        /\ poller' = [poller EXCEPT ![j] = "off"]
  /\ UNCHANGED <<next, job, outcome, stop, cloudVars, procVars>>

\* A tick of the poller that finds the server ACTIVE; any other state, ERROR
\* included, is polled again.  A failed GetServer panics.
Poll(j) ==
  /\ Polling(j)
  /\ \/ /\ status[ServerOf[j]] = "ACTIVE"
        /\ poller' = [poller EXCEPT ![j] = "send"]
        /\ UNCHANGED <<next, job, outcome, stop, cloudVars, procVars>>
     \/ Die("panic")

\* The poller finds doneCh filled.
PollerStops(j) ==
  /\ Polling(j)
  /\ j \in stop
  /\ stop' = stop \ {j}
  /\ poller' = [poller EXCEPT ![j] = "off"]
  /\ UNCHANGED <<next, job, outcome, cloudVars, procVars>>

\* resCh is not buffered: the poller's send and MigrateHost's receive meet.
Receive(j) ==
  /\ At(j, "wait")
  /\ poller[j] = "send"
  /\ poller' = [poller EXCEPT ![j] = "off"]
  /\ Leave(j, "ok")
  /\ UNCHANGED <<next, stop, cloudVars, mode, exitcode, proc>>

\* The timer of one hour fires first.
Expire(j) ==
  /\ At(j, "wait")
  /\ Goto(j, "stop")
  /\ UNCHANGED <<next, outcome, poller, stop, cloudVars, procVars>>

\* Mutant: the poller is not told.
SendStopSilent(j) ==
  /\ At(j, "stop")
  /\ Leave(j, "timeout")
  /\ UNCHANGED <<next, poller, stop, cloudVars, mode, exitcode, proc>>

\* Mutant: doneCh without a buffer.
SendStopUnbuffered(j) ==
  /\ At(j, "stop")
  /\ Polling(j)
  /\ poller' = [poller EXCEPT ![j] = "off"]
  /\ Leave(j, "timeout")
  /\ UNCHANGED <<next, stop, cloudVars, mode, exitcode, proc>>

\* doneCh <- true, with room for one value.
SendStop(j) ==
  /\ At(j, "stop")
  /\ j \notin stop
  /\ stop' = stop \cup {j}
  /\ Leave(j, "timeout")
  /\ UNCHANGED <<next, poller, cloudVars, mode, exitcode, proc>>

\* Mutant: the last host decides.
RecordLast(j) ==
  /\ At(j, "returned")
  /\ Goto(j, "end")
  /\ exitcode' = IF outcome[j] = "ok" THEN 0 ELSE 1
  /\ UNCHANGED <<next, outcome, poller, stop, cloudVars, mode, wg, proc>>

\* Mutant: the failures are counted.
RecordSum(j) ==
  /\ At(j, "returned")
  /\ Goto(j, "end")
  /\ exitcode' = IF outcome[j] = "ok" THEN exitcode ELSE exitcode + 1
  /\ UNCHANGED <<next, outcome, poller, stop, cloudVars, mode, wg, proc>>

\* `if !MigrateHost(...) { Exitcode = 1 }`, after the deferred wg.Done.
Record(j) ==
  /\ At(j, "returned")
  /\ Goto(j, "end")
  /\ exitcode' = IF outcome[j] = "ok" THEN exitcode ELSE 1
  /\ UNCHANGED <<next, outcome, poller, stop, cloudVars, mode, wg, proc>>

\* wg.Wait returns and os.Exit reads the code.
MainExit ==
  /\ proc = "running"
  /\ next = N + 1
  /\ wg = 0
  /\ Sequential => \A j \in Jobs : job[j] = "end"
  /\ proc' = "main"
  /\ UNCHANGED <<jobVars, cloudVars, mode, exitcode, wg>>

\* SIGINT or SIGTERM: Stop exits with 0.
Signal == proc = "running" /\ Die("signal")

\* OpenStack ends a migration: done, rolled back, or failed.
CloudEnds(s) ==
  /\ proc = "running"
  /\ status[s] = "MIGRATING"
  /\ \/ status' = [status EXCEPT ![s] = "ACTIVE"] /\ moved' = moved \cup {s}
     \/ status' = [status EXCEPT ![s] = "ACTIVE"] /\ UNCHANGED moved
     \/ status' = [status EXCEPT ![s] = "ERROR"] /\ UNCHANGED moved
  /\ UNCHANGED <<jobVars, procVars>>

Halted == proc # "running" /\ UNCHANGED vars

MigrateHost(j) ==
  \/ Launch(j) \/ Check(j) \/ Request(j) \/ Receive(j)
  \/ Expire(j) \/ SendStop(j) \/ Record(j)

Poller(j) == Poll(j) \/ PollerStops(j)

Next ==
  \/ \E j \in Jobs : MigrateHost(j) \/ Poller(j)
  \/ \E s \in Servers : CloudEnds(s)
  \/ MainExit
  \/ Signal
  \/ Halted

\* Remote calls answer, the timer fires, and the scheduler runs everybody.
Fairness ==
  /\ \A j \in Jobs : WF_vars(MigrateHost(j)) /\ WF_vars(Poller(j))
  /\ WF_vars(MainExit)

Spec == Init /\ [][Next]_vars
FairSpec == Spec /\ Fairness

\* The status the process ends with.
ExitStatus ==
  CASE proc = "main"   -> exitcode
    [] proc = "signal" -> 0
    [] proc = "fatal"  -> 1
    [] proc = "panic"  -> 2

-----------------------------------------------------------------------------
\* Properties.

\* A run that ends of itself leaves a server migrating, of which it reported a
\* host done, only if it reports another of that server failed: it was found
\* migrating, the request came back with an error, or the hour was over
\* (openstack.go:489-534).
ExitLeavesNoneMigrating ==
  proc = "main" =>
    \A j \in Jobs :
      (status[ServerOf[j]] = "MIGRATING" /\ outcome[j] = "ok") =>
        \E i \in Jobs : ServerOf[i] = ServerOf[j] /\ outcome[i] \in Failures

\* A poller that outlives its MigrateHost has been told to stop, unless it is
\* stuck in the send nobody will receive.
OrphanToldToStop ==
  \A j \in Jobs :
    (job[j] \in Done /\ poller[j] # "off") =>
      outcome[j] = "timeout" /\ (poller[j] = "poll" => j \in stop)

\* A failure on record before the run ended of itself is in its exit status:
\* no later success takes it back, and where MigrateHost is called rather than
\* spawned every failure is on record (migrate.go:50-52, rebalance.go:177-179).
RecordedFailureReported ==
  (proc = "main" /\ \E j \in Jobs :
      (Sequential \/ job[j] = "end") /\ outcome[j] \in Failures) => ExitStatus = 1

\* Everybody who waits is let go, and no sooner than he should: a waiting
\* MigrateHost has its poller, the one whose timer fired finds room in doneCh,
\* and wg.Wait returns when every MigrateHost has (openstack.go:494-537).
WaitersReleased ==
  /\ \A j \in Jobs : /\ job[j] = "wait" => poller[j] # "off"
                     /\ job[j] = "stop" => j \notin stop
  /\ (next = N + 1 /\ \A j \in Jobs : job[j] \in Done) => wg = 0
  /\ proc = "main" => \A j \in Jobs : job[j] \in Done

\* The run ends: a timed out MigrateHost is not held up by its poller.
Terminates == <>(proc # "running")

\* A run is a batch: see BatchRun.  Only a called MigrateHost has its failure
\* on record before wg.Wait.
Verdict ==
  [j \in Jobs |-> CASE outcome[j] \in {"pending", "ok"} -> outcome[j]
                    [] OTHER -> IF Sequential THEN "failed" ELSE "late"]

Exit ==
  IF proc = "running" THEN "running"
  ELSE IF proc # "main" THEN "aborted"
  ELSE IF exitcode = 0 THEN "clean" ELSE "flagged"

Batch == INSTANCE BatchRun WITH verdict <- Verdict, exit <- Exit

\* The exit status of a migration run is that of a batch.
ImplementsBatchRun == Batch!Spec

\* "Migrate to hypervisor" (cmd.go:144): a host reported as migrated has got
\* there.
SuccessMeansMoved ==
  \A j \in Jobs : outcome[j] = "ok" => ServerOf[j] \in moved
=============================================================================
