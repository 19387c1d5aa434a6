-------------------------- MODULE MigrationProofs ---------------------------
(***************************************************************************)
(* Theorems about Migration, for any number of hosts, with names repeated  *)
(* or not, in both of its modes.                                           *)
(***************************************************************************)
EXTENDS Migration, FiniteSetTheorems, TLAPS

USE NAssumption, ServerOfAssumption DEF Sequential

\* Where a job and its poller can be, together.
Placed ==
  /\ \A j \in Jobs : job[j] # "idle" <=> j < next
  /\ \A j \in Jobs : outcome[j] # "pending" <=> job[j] \in Done
  /\ \A j \in Jobs : poller[j] # "off"
        => job[j] \in {"wait", "stop"} \/ outcome[j] = "timeout"
  /\ \A j \in Jobs : job[j] = "wait" => poller[j] # "off"
  /\ \A j \in stop : outcome[j] = "timeout"
  /\ \A j \in Jobs : (job[j] \in Done /\ poller[j] = "poll") => j \in stop

\* The exit code knows every failure that has been recorded, and only those.
Recorded ==
  /\ \A j \in Jobs : (job[j] = "end" /\ outcome[j] # "ok") => exitcode = 1
  /\ exitcode = 1 => \E j \in Jobs : outcome[j] \in Failures
  /\ (Sequential /\ proc = "main") => \A j \in Jobs : job[j] = "end"

\* Whoever asked for the migration that is going on still waits, gave up,
\* or was told it had failed.
\* A migration nobody asked for is only there while nobody was told "done".
Owned ==
  \A s \in Servers :
    status[s] = "MIGRATING" =>
      \/ \E i \in Jobs : /\ ServerOf[i] = s
                        /\ \/ job[i] \in {"wait", "stop"} /\ poller[i] = "poll"
                           \/ outcome[i] \in {"timeout", "refused"}
      \/ \A i \in Jobs : ServerOf[i] = s => poller[i] = "off" /\ outcome[i] # "ok"

MInv == TypeOK /\ Placed /\ Recorded /\ Owned

LEMMA MInit == Init => MInv
<1> SUFFICES ASSUME Init PROVE MInv
  OBVIOUS
<1> USE DEF Init
<1>1. TypeOK
  BY DEF TypeOK
<1>2. Placed
  BY DEF Placed, Done, Jobs
<1>3. Recorded
  BY DEF Recorded
<1>4. Owned
  BY DEF Owned
<1> QED
  BY <1>1, <1>2, <1>3, <1>4 DEF MInv

LEMMA TypeStep == TypeOK /\ [Next]_vars => TypeOK'
<1> SUFFICES ASSUME TypeOK, [Next]_vars PROVE TypeOK'
  OBVIOUS
<1> USE DEF TypeOK, Failures, At, Goto,
        Polling, Die, Leave, cloudVars, procVars, jobVars, vars
<1>1. ASSUME NEW j \in Jobs, Launch(j) PROVE TypeOK'
  <2>1. CASE next' = next + 1
    <3>1. next' \in 1..(N + 1)
      BY <1>1, <2>1 DEF Launch, Jobs
    <3>2. /\ job' = [job EXCEPT ![j] = "check"]
          /\ wg' = wg + 1
          /\ UNCHANGED <<outcome, poller, stop, status, moved, mode, exitcode, proc>>
      BY <1>1, <2>1 DEF Launch
    <3> HIDE DEF vars, jobVars
    <3> QED
      BY <3>1, <3>2
  <2>2. CASE Die("fatal")
    BY <2>2
  <2> QED
    BY <1>1, <2>1, <2>2 DEF Launch
<1>2. ASSUME NEW j \in Jobs, Check(j) PROVE TypeOK'
  BY <1>2 DEF Check
<1>3. ASSUME NEW j \in Jobs, Request(j) PROVE TypeOK'
  BY <1>3 DEF Request
<1>4. ASSUME NEW j \in Jobs, Receive(j) PROVE TypeOK'
  BY <1>4 DEF Receive
<1>5. ASSUME NEW j \in Jobs, Expire(j) PROVE TypeOK'
  BY <1>5 DEF Expire
<1>6. ASSUME NEW j \in Jobs, SendStop(j) PROVE TypeOK'
  BY <1>6 DEF SendStop
<1>7. ASSUME NEW j \in Jobs, Record(j) PROVE TypeOK'
  BY <1>7 DEF Record
<1>8. ASSUME NEW j \in Jobs, Poll(j) PROVE TypeOK'
  BY <1>8 DEF Poll
<1>9. ASSUME NEW j \in Jobs, PollerStops(j) PROVE TypeOK'
  BY <1>9 DEF PollerStops
<1>10. ASSUME NEW s \in Servers, CloudEnds(s) PROVE TypeOK'
  BY <1>10 DEF CloudEnds
<1>11. CASE MainExit
  BY <1>11 DEF MainExit
<1>12. CASE Signal
  BY <1>12 DEF Signal
<1>13. CASE UNCHANGED vars
  BY <1>13
<1> QED
  BY <1>1, <1>2, <1>3, <1>4, <1>5, <1>6, <1>7, <1>8, <1>9, <1>10, <1>11, <1>12, <1>13
  DEF Next, MigrateHost, Poller, Halted

LEMMA PlacedStep == TypeOK /\ Placed /\ [Next]_vars => Placed'
<1> SUFFICES ASSUME TypeOK, Placed, [Next]_vars PROVE Placed'
  OBVIOUS
<1> USE DEF TypeOK, Placed, Failures, Done, At, Goto,
        Polling, Die, Leave, cloudVars, procVars, jobVars, vars
<1>1. ASSUME NEW j \in Jobs, Launch(j) PROVE Placed'
  <2>1. CASE /\ next = j
             /\ next' = j + 1
             /\ job[j] = "idle"
             /\ job' = [job EXCEPT ![j] = "check"]
             /\ UNCHANGED <<outcome, poller, stop>>
    <3>1. \A i \in Jobs : i \in Int /\ (i < j + 1 <=> i < j \/ i = j)
      BY DEF Jobs
    <3>2. \A i \in Jobs : job'[i] # "idle" <=> i < next'
      BY <2>1, <3>1
    <3> QED
      BY <2>1, <3>2
  <2>2. CASE Die("fatal")
    BY <2>2
  <2> QED
    BY <1>1, <2>1, <2>2 DEF Launch
<1>2. ASSUME NEW j \in Jobs, Check(j) PROVE Placed'
  BY <1>2 DEF Check
<1>3. ASSUME NEW j \in Jobs, Request(j) PROVE Placed'
  BY <1>3 DEF Request
<1>4. ASSUME NEW j \in Jobs, Receive(j) PROVE Placed'
  BY <1>4 DEF Receive
<1>5. ASSUME NEW j \in Jobs, Expire(j) PROVE Placed'
  BY <1>5 DEF Expire
<1>6. ASSUME NEW j \in Jobs, SendStop(j) PROVE Placed'
  BY <1>6 DEF SendStop
<1>7. ASSUME NEW j \in Jobs, Record(j) PROVE Placed'
  BY <1>7 DEF Record
<1>8. ASSUME NEW j \in Jobs, Poll(j) PROVE Placed'
  BY <1>8 DEF Poll
<1>9. ASSUME NEW j \in Jobs, PollerStops(j) PROVE Placed'
  BY <1>9 DEF PollerStops
<1>10. ASSUME NEW s \in Servers, CloudEnds(s) PROVE Placed'
  BY <1>10 DEF CloudEnds
<1>11. CASE MainExit
  BY <1>11 DEF MainExit
<1>12. CASE Signal
  BY <1>12 DEF Signal
<1>13. CASE UNCHANGED vars
  BY <1>13
<1> QED
  BY <1>1, <1>2, <1>3, <1>4, <1>5, <1>6, <1>7, <1>8, <1>9, <1>10, <1>11, <1>12, <1>13
  DEF Next, MigrateHost, Poller, Halted

LEMMA RecordedStep == TypeOK /\ Placed /\ Recorded /\ [Next]_vars => Recorded'
<1> SUFFICES ASSUME TypeOK, Placed, Recorded, [Next]_vars PROVE Recorded'
  OBVIOUS
<1> USE DEF TypeOK, Placed, Recorded, Failures, Done, At, Goto,
        Polling, Die, Leave, cloudVars, procVars, jobVars, vars
<1>1. ASSUME NEW j \in Jobs, Launch(j) PROVE Recorded'
  BY <1>1 DEF Launch, Jobs
<1>2. ASSUME NEW j \in Jobs, Check(j) PROVE Recorded'
  BY <1>2 DEF Check
<1>3. ASSUME NEW j \in Jobs, Request(j) PROVE Recorded'
  BY <1>3 DEF Request
<1>4. ASSUME NEW j \in Jobs, Receive(j) PROVE Recorded'
  BY <1>4 DEF Receive
<1>5. ASSUME NEW j \in Jobs, Expire(j) PROVE Recorded'
  BY <1>5 DEF Expire
<1>6. ASSUME NEW j \in Jobs, SendStop(j) PROVE Recorded'
  BY <1>6 DEF SendStop
<1>7. ASSUME NEW j \in Jobs, Record(j) PROVE Recorded'
  BY <1>7 DEF Record
<1>8. ASSUME NEW j \in Jobs, Poll(j) PROVE Recorded'
  BY <1>8 DEF Poll
<1>9. ASSUME NEW j \in Jobs, PollerStops(j) PROVE Recorded'
  BY <1>9 DEF PollerStops
<1>10. ASSUME NEW s \in Servers, CloudEnds(s) PROVE Recorded'
  BY <1>10 DEF CloudEnds
<1>11. CASE MainExit
  BY <1>11 DEF MainExit
<1>12. CASE Signal
  BY <1>12 DEF Signal
<1>13. CASE UNCHANGED vars
  BY <1>13
<1> QED
  BY <1>1, <1>2, <1>3, <1>4, <1>5, <1>6, <1>7, <1>8, <1>9, <1>10, <1>11, <1>12, <1>13
  DEF Next, MigrateHost, Poller, Halted

LEMMA OwnedStep == TypeOK /\ Placed /\ Owned /\ [Next]_vars => Owned'
<1> SUFFICES ASSUME TypeOK, Placed, Owned, [Next]_vars PROVE Owned'
  OBVIOUS
<1> USE DEF TypeOK, Placed, Owned, Failures, Done, At, Goto,
        Polling, Die, Leave, cloudVars, procVars, jobVars, vars
<1>1. ASSUME NEW j \in Jobs, Launch(j) PROVE Owned'
  BY <1>1 DEF Launch
<1>2. ASSUME NEW j \in Jobs, Check(j) PROVE Owned'
  BY <1>2 DEF Check
<1>3. ASSUME NEW j \in Jobs, Request(j) PROVE Owned'
  BY <1>3 DEF Request
<1>4. ASSUME NEW j \in Jobs, Receive(j) PROVE Owned'
  BY <1>4 DEF Receive
<1>5. ASSUME NEW j \in Jobs, Expire(j) PROVE Owned'
  BY <1>5 DEF Expire
<1>6. ASSUME NEW j \in Jobs, SendStop(j) PROVE Owned'
  BY <1>6 DEF SendStop
<1>7. ASSUME NEW j \in Jobs, Record(j) PROVE Owned'
  BY <1>7 DEF Record
<1>8. ASSUME NEW j \in Jobs, Poll(j) PROVE Owned'
  BY <1>8 DEF Poll
<1>9. ASSUME NEW j \in Jobs, PollerStops(j) PROVE Owned'
  BY <1>9 DEF PollerStops
<1>10. ASSUME NEW s \in Servers, CloudEnds(s) PROVE Owned'
  BY <1>10 DEF CloudEnds
<1>11. CASE MainExit
  BY <1>11 DEF MainExit
<1>12. CASE Signal
  BY <1>12 DEF Signal
<1>13. CASE UNCHANGED vars
  BY <1>13
<1> QED
  BY <1>1, <1>2, <1>3, <1>4, <1>5, <1>6, <1>7, <1>8, <1>9, <1>10, <1>11, <1>12, <1>13
  DEF Next, MigrateHost, Poller, Halted

-----------------------------------------------------------------------------
\* The jobs the WaitGroup waits for.
Live == {j \in Jobs : job[j] \notin {"idle"} \cup Done}

\* A step leaves the group alone, or one job joins or leaves it.
Regroup ==
  \/ Live' = Live /\ wg' = wg
  \/ \E j \in Jobs : j \notin Live /\ Live' = Live \cup {j} /\ wg' = wg + 1
  \/ \E j \in Jobs : j \in Live /\ Live' = Live \ {j} /\ wg' = wg - 1

LEMMA RegroupStep == TypeOK /\ [Next]_vars => Regroup
<1> SUFFICES ASSUME TypeOK, [Next]_vars PROVE Regroup
  OBVIOUS
<1> USE DEF TypeOK, Regroup, Live, Done, At, Goto,
        Polling, Die, Leave, cloudVars, procVars, jobVars, vars
<1>1. ASSUME NEW j \in Jobs, Launch(j) PROVE Regroup
  <2>1. CASE job' = [job EXCEPT ![j] = "check"] /\ job[j] = "idle" /\ wg' = wg + 1
    <3>1. j \notin Live /\ Live' = Live \cup {j}
      BY <2>1
    <3> QED
      BY <2>1, <3>1
  <2>2. CASE Die("fatal")
    BY <2>2
  <2> QED
    BY <1>1, <2>1, <2>2 DEF Launch
<1>2. ASSUME NEW j \in Jobs, Check(j) PROVE Regroup
  BY <1>2 DEF Check
<1>3. ASSUME NEW j \in Jobs, Request(j) PROVE Regroup
  BY <1>3 DEF Request
<1>4. ASSUME NEW j \in Jobs, Receive(j) PROVE Regroup
  BY <1>4 DEF Receive
<1>5. ASSUME NEW j \in Jobs, Expire(j) PROVE Regroup
  BY <1>5 DEF Expire
<1>6. ASSUME NEW j \in Jobs, SendStop(j) PROVE Regroup
  BY <1>6 DEF SendStop
<1>7. ASSUME NEW j \in Jobs, Record(j) PROVE Regroup
  BY <1>7 DEF Record
<1>8. ASSUME NEW j \in Jobs, Poll(j) PROVE Regroup
  BY <1>8 DEF Poll
<1>9. ASSUME NEW j \in Jobs, PollerStops(j) PROVE Regroup
  BY <1>9 DEF PollerStops
<1>10. ASSUME NEW s \in Servers, CloudEnds(s) PROVE Regroup
  BY <1>10 DEF CloudEnds
<1>11. CASE MainExit
  BY <1>11 DEF MainExit
<1>12. CASE Signal
  BY <1>12 DEF Signal
<1>13. CASE UNCHANGED vars
  BY <1>13
<1> QED
  BY <1>1, <1>2, <1>3, <1>4, <1>5, <1>6, <1>7, <1>8, <1>9, <1>10, <1>11, <1>12, <1>13
  DEF Next, MigrateHost, Poller, Halted

Waiting ==
  /\ wg = Cardinality(Live)
  /\ proc = "main" => \A j \in Jobs : job[j] \in Done

LEMMA LiveIsFinite == IsFiniteSet(Live)
<1>1. IsFiniteSet(Jobs)
  BY FS_Interval DEF Jobs
<1> QED
  BY <1>1, FS_Subset DEF Live

LEMMA WaitingInit == Init => Waiting
<1> SUFFICES ASSUME Init PROVE Waiting
  OBVIOUS
<1>1. Live = {}
  BY DEF Init, Live
<1> QED
  BY <1>1, FS_EmptySet DEF Init, Waiting

LEMMA WaitingStep == TypeOK /\ Placed /\ Waiting /\ [Next]_vars => Waiting'
<1> SUFFICES ASSUME TypeOK, Placed, Waiting, [Next]_vars PROVE Waiting'
  OBVIOUS
<1>1. wg' = Cardinality(Live)'
  <2>1. CASE Live' = Live /\ wg' = wg
    BY <2>1 DEF Waiting
  <2>2. ASSUME NEW j \in Jobs, j \notin Live, Live' = Live \cup {j}, wg' = wg + 1
        PROVE wg' = Cardinality(Live)'
    BY <2>2, LiveIsFinite, FS_AddElement DEF Waiting
  <2>3. ASSUME NEW j \in Jobs, j \in Live, Live' = Live \ {j}, wg' = wg - 1
        PROVE wg' = Cardinality(Live)'
    BY <2>3, LiveIsFinite, FS_RemoveElement DEF Waiting
  <2> QED
    BY <2>1, <2>2, <2>3, RegroupStep DEF Regroup
<1>2. ASSUME proc' = "main", NEW j \in Jobs PROVE job'[j] \in Done
  <2>1. CASE MainExit
    <3>1. Live = {}
      BY <2>1, LiveIsFinite, FS_EmptySet DEF MainExit, Waiting
    <3>2. job[j] # "idle"
      BY <2>1 DEF MainExit, Placed, Jobs
    <3> QED
      BY <2>1, <3>1, <3>2 DEF MainExit, Live, jobVars
  <2>2. CASE ~MainExit
    <3>1. proc = "main" /\ UNCHANGED vars
      BY <1>2, <2>2 DEF Next, MigrateHost, Poller, Halted, Signal, CloudEnds,
        At, Polling, Die, procVars, vars,
        Launch, Check, Request, Receive, Expire, SendStop, Record, Poll, PollerStops
    <3> QED
      BY <3>1 DEF Waiting, vars, jobVars
  <2> QED
    BY <2>1, <2>2
<1> QED
  BY <1>1, <1>2 DEF Waiting

-----------------------------------------------------------------------------
IInv == MInv /\ Waiting

LEMMA Invariance == Spec => []IInv
<1>1. Init => IInv
  BY MInit, WaitingInit DEF IInv
<1>2. IInv /\ [Next]_vars => IInv'
  BY TypeStep, PlacedStep, RecordedStep, OwnedStep, WaitingStep DEF IInv, MInv
<1> QED
  BY <1>1, <1>2, PTL DEF Spec

\* The channel buffers, pollers and jobs of MigrateHost keep their types in
\* both modes (openstack.go:480-538).
THEOREM TypeCorrect == Spec => []TypeOK
<1>1. IInv => TypeOK
  BY DEF IInv, MInv
<1> QED
  BY <1>1, Invariance, PTL

\* In both modes a failure on record before the end is in the exit status, and
\* in the rebalance mode every failure is (migrate.go:50-52,
\* rebalance.go:177-179).
THEOREM RecordedReported == Spec => []RecordedFailureReported
<1>1. IInv => RecordedFailureReported
  BY DEF IInv, Waiting, MInv, Recorded, RecordedFailureReported, ExitStatus, Failures
<1> QED
  BY <1>1, Invariance, PTL

\* Whoever waits in a migration can be released: a waiting MigrateHost by its
\* poller or its timer, a timed out one by the room in doneCh, and wg.Wait by
\* the last wg.Done and by no earlier one (openstack.go:494-537).
THEOREM NobodyStuck == Spec => []WaitersReleased
<1>1. IInv => WaitersReleased
  <2> SUFFICES ASSUME IInv PROVE WaitersReleased
    OBVIOUS
  <2> USE DEF IInv, MInv, Placed
  <2>1. ASSUME NEW j \in Jobs
        PROVE  /\ job[j] = "wait" => poller[j] # "off"
               /\ job[j] = "stop" => j \notin stop
    BY DEF Done
  <2>2. ASSUME \A j \in Jobs : job[j] \in Done PROVE wg = 0
    <3>1. Live = {}
      BY <2>2 DEF Live
    <3> QED
      BY <3>1, FS_EmptySet DEF Waiting
  <2>3. proc = "main" => \A j \in Jobs : job[j] \in Done
    BY DEF Waiting
  <2> QED
    BY <2>1, <2>2, <2>3 DEF WaitersReleased
<1> QED
  BY <1>1, Invariance, PTL

\* A poller left behind has been told to stop, or waits in a send for ever.
THEOREM OrphansTold == Spec => []OrphanToldToStop
<1>1. IInv => OrphanToldToStop
  BY DEF IInv, MInv, TypeOK, Placed, OrphanToldToStop, Done
<1> QED
  BY <1>1, Invariance, PTL

\* A normal exit leaves no server migrating behind a host that was reported
\* done, unless the run has given up on that server.
THEOREM NoneLeftMigrating == Spec => []ExitLeavesNoneMigrating
<1>1. IInv => ExitLeavesNoneMigrating
  BY DEF IInv, MInv, Waiting, Owned, ExitLeavesNoneMigrating, Done, Failures
<1> QED
  BY <1>1, Invariance, PTL

-----------------------------------------------------------------------------
\* What a step of Migration is to the batch.
Progress ==
  \/ outcome' = outcome /\ mode' = mode /\ proc = "running" /\ proc' = "running"
  \/ /\ proc = "running" /\ proc' = "running" /\ mode' = mode
     /\ \E j \in Jobs, o \in {"ok"} \cup Failures :
          outcome[j] = "pending" /\ outcome' = [outcome EXCEPT ![j] = o]
  \/ MainExit
  \/ /\ proc = "running" /\ proc' \in {"signal", "fatal", "panic"}
     /\ outcome' = outcome /\ mode' = mode
  \/ UNCHANGED vars

LEMMA ProgressStep == IInv /\ [Next]_vars => Progress
<1> SUFFICES ASSUME IInv, [Next]_vars PROVE Progress
  OBVIOUS
<1> USE DEF IInv, MInv, TypeOK, Placed, Failures, Done, Progress, At, Goto,
        Polling, Leave, Die, jobVars, procVars
<1>1. ASSUME NEW j \in Jobs, Launch(j) PROVE Progress
  BY <1>1 DEF Launch
<1>2. ASSUME NEW j \in Jobs, Check(j) PROVE Progress
  BY <1>2 DEF Check
<1>3. ASSUME NEW j \in Jobs, Request(j) PROVE Progress
  BY <1>3 DEF Request
<1>4. ASSUME NEW j \in Jobs, Receive(j) PROVE Progress
  BY <1>4 DEF Receive
<1>5. ASSUME NEW j \in Jobs, Expire(j) PROVE Progress
  BY <1>5 DEF Expire
<1>6. ASSUME NEW j \in Jobs, SendStop(j) PROVE Progress
  BY <1>6 DEF SendStop
<1>7. ASSUME NEW j \in Jobs, Record(j) PROVE Progress
  BY <1>7 DEF Record
<1>8. ASSUME NEW j \in Jobs, Poll(j) PROVE Progress
  BY <1>8 DEF Poll
<1>9. ASSUME NEW j \in Jobs, PollerStops(j) PROVE Progress
  BY <1>9 DEF PollerStops
<1>10. ASSUME NEW s \in Servers, CloudEnds(s) PROVE Progress
  BY <1>10 DEF CloudEnds
<1>11. CASE MainExit
  BY <1>11
<1>12. CASE Signal
  BY <1>12 DEF Signal
<1>13. CASE UNCHANGED vars
  BY <1>13
<1> QED
  BY <1>1, <1>2, <1>3, <1>4, <1>5, <1>6, <1>7, <1>8, <1>9, <1>10, <1>11, <1>12, <1>13
  DEF Next, MigrateHost, Poller, Halted

LEMMA BatchInit == Init => Batch!Init
  BY DEF Init, Batch!Init, Verdict, Exit

LEMMA BatchStep == IInv /\ [Next]_vars => [Batch!Next]_(Batch!vars)
<1> SUFFICES ASSUME IInv, [Next]_vars PROVE [Batch!Next]_(Batch!vars)
  OBVIOUS
<1> USE DEF IInv, MInv, TypeOK
<1>1. CASE outcome' = outcome /\ mode' = mode /\ proc = "running" /\ proc' = "running"
  BY <1>1 DEF Batch!vars, Verdict, Exit
<1>2. ASSUME proc = "running", proc' = "running", mode' = mode,
             NEW j \in Jobs, NEW o \in {"ok"} \cup Failures,
             outcome[j] = "pending", outcome' = [outcome EXCEPT ![j] = o]
      PROVE  Batch!Settle(j)
  <2> DEFINE v == CASE o \in {"pending", "ok"} -> o
                    [] OTHER -> IF Sequential THEN "failed" ELSE "late"
  <2>1. v \in Batch!Verdicts \ {"pending"}
    BY DEF Batch!Verdicts, Failures
  <2>2. Verdict' = [Verdict EXCEPT ![j] = v]
    BY <1>2 DEF Verdict
  <2>3. Verdict[j] = "pending"
    BY <1>2 DEF Verdict
  <2> QED
    BY <1>2, <2>1, <2>2, <2>3 DEF Batch!Settle, Exit
<1>3. CASE MainExit
  <2>1. Verdict' = Verdict /\ Exit = "running"
    BY <1>3 DEF MainExit, jobVars, Verdict, Exit
  <2>2. /\ \A j \in Jobs : job[j] \in Done
        /\ Sequential => \A j \in Jobs : job[j] = "end"
    <3>1. proc' = "main" /\ job' = job
      BY <1>3 DEF MainExit, jobVars
    <3>2. Waiting'
      BY WaitingStep
    <3> QED
      BY <1>3, <3>1, <3>2 DEF Waiting, MainExit
  <2>3. \A j \in Jobs : outcome[j] # "pending"
    BY <2>2 DEF Placed
  <2>4. CASE exitcode = 0
    <3>1. Exit' = "clean"
      BY <1>3, <2>4 DEF MainExit, Exit
    <3>2. Sequential => \A j \in Jobs : outcome[j] = "ok"
      BY <2>2, <2>4 DEF Recorded
    <3>3. \A j \in Jobs : Verdict[j] \in {"ok", "late"}
      BY <2>3, <3>2 DEF Verdict, Failures
    <3> QED
      BY <2>1, <3>1, <3>3 DEF Batch!Next, Batch!FinishClean
  <2>5. CASE exitcode = 1
    <3>1. Exit' = "flagged"
      BY <1>3, <2>5 DEF MainExit, Exit
    <3>2. \E j \in Jobs : outcome[j] \in Failures
      BY <2>5 DEF Recorded
    <3>3. \E j \in Jobs : Verdict[j] \in {"failed", "late"}
      BY <3>2 DEF Verdict, Failures
    <3>4. \A j \in Jobs : Verdict[j] # "pending"
      BY <2>3 DEF Verdict, Failures
    <3> QED
      BY <2>1, <3>1, <3>3, <3>4 DEF Batch!Next, Batch!FinishFlagged
  <2> QED
    BY <2>4, <2>5
<1>4. CASE /\ proc = "running" /\ proc' \in {"signal", "fatal", "panic"}
           /\ outcome' = outcome /\ mode' = mode
  BY <1>4 DEF Batch!Next, Batch!Abort, Verdict, Exit
<1>5. CASE UNCHANGED vars
  BY <1>5 DEF vars, jobVars, procVars, Batch!vars, Verdict, Exit
<1> QED
  BY <1>1, <1>2, <1>3, <1>4, <1>5, ProgressStep DEF Progress, Batch!Next

\* Both migration modes implement BatchRun; the rebalance mode does so with
\* every failure on record.
THEOREM Refinement == Spec => ImplementsBatchRun
<1>1. Spec => Batch!Spec
  BY BatchInit, BatchStep, Invariance, PTL DEF Spec, Batch!Spec
<1> QED
  BY <1>1 DEF ImplementsBatchRun
=============================================================================
