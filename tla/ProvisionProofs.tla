-------------------------- MODULE ProvisionProofs ---------------------------
(***************************************************************************)
(* Theorems about Provision, for any number of hosts, addresses and polls. *)
(***************************************************************************)
EXTENDS Provision, FiniteSetTheorems, TLAPS

Cleanup == {"destroy", "getclient", "delclient", "delnode"}

\* Why the counters stay within their bounds.
Counters ==
  \A w \in Workers :
    /\ pc[w] \in Early => polls[w] < PollLimit
    /\ pc[w] \in Early \cup {"open"} => passes[w] = 0
    /\ pc[w] \in Loop => passes[w] < ips[w]

TypeInv == TypeOK /\ Counters

LEMMA TypeInit == Init => TypeInv
<1> SUFFICES ASSUME Init PROVE TypeInv
  OBVIOUS
<1> USE PollLimitAssumption, MaxIPsAssumption DEF Init
<1>1. TypeOK
  <2>1. /\ pc \in [Workers -> Labels]
        /\ outcome \in [Workers -> Outcomes]
        /\ server \in [Workers -> {"none", "BUILD", "ACTIVE", "ERROR", "deleted"}]
    BY DEF Labels, Outcomes, Failures
  <2>2. /\ polls \in [Workers -> 0..PollLimit]
        /\ ips \in [Workers -> 0..MaxIPs]
        /\ passes \in [Workers -> 0..MaxIPs]
    OBVIOUS
  <2>3. /\ delAsked \subseteq Workers /\ private \subseteq Workers /\ routed \subseteq Workers
        /\ chefClient \subseteq {HostOf[w] : w \in Workers}
        /\ chefNode \subseteq {HostOf[w] : w \in Workers}
    OBVIOUS
  <2>4. /\ keypair \in {"absent", "ours", "other"}
        /\ exitcode \in {0, 1}
        /\ wg \in Int
        /\ proc \in {"running", "main", "signal", "fatal", "panic"}
    OBVIOUS
  <2>5. usePrivate \in BOOLEAN /\ ignoreFail \in BOOLEAN
    OBVIOUS
  <2> QED
    BY <2>1, <2>2, <2>3, <2>4, <2>5, Zenon DEF TypeOK
<1>2. Counters
  BY DEF Counters, Early, Loop
<1> QED
  BY <1>1, <1>2 DEF TypeInv

LEMMA TypeStep == TypeInv /\ [Next]_vars => TypeInv'
<1> SUFFICES ASSUME TypeInv, [Next]_vars PROVE TypeInv'
  OBVIOUS
<1> USE PollLimitAssumption, MaxIPsAssumption
    DEF TypeInv, TypeOK, Counters, Labels, Outcomes, Failures, Early, Loop,
        At, Goto, Leave, Die, hostVars, workerVars, cloudVars, chefVars,
        procVars, vars
<1>1. ASSUME NEW w \in Workers, Spawn(w) PROVE TypeInv'
  BY <1>1 DEF Spawn
<1>2. ASSUME NEW w \in Workers, Lookup(w) PROVE TypeInv'
  BY <1>2 DEF Lookup, FindResources, Refuse
<1>3. ASSUME NEW w \in Workers, ListKeys(w) PROVE TypeInv'
  BY <1>3 DEF ListKeys
<1>4. ASSUME NEW w \in Workers, DropKey(w) PROVE TypeInv'
  BY <1>4 DEF DropKey
<1>5. ASSUME NEW w \in Workers, NewKey(w) PROVE TypeInv'
  BY <1>5 DEF NewKey
<1>6. ASSUME NEW w \in Workers, CreateServer(w) PROVE TypeInv'
  BY <1>6 DEF CreateServer, Refuse
<1>7. ASSUME NEW w \in Workers, Info(w) PROVE TypeInv'
  BY <1>7 DEF Info
<1>8. ASSUME NEW w \in Workers, Poll(w) PROVE TypeInv'
  BY <1>8 DEF Poll, PollSettled, Unloop
<1>9. ASSUME NEW w \in Workers, Reap(w) PROVE TypeInv'
  BY <1>9 DEF Reap, DeleteServer
<1>10. ASSUME NEW w \in Workers, OpenLog(w) PROVE TypeInv'
  BY <1>10 DEF OpenLog, GetAddress
<1>11. ASSUME NEW w \in Workers, CheckSSHPort(w) PROVE TypeInv'
  BY <1>11 DEF CheckSSHPort
<1>12. ASSUME NEW w \in Workers, Connect(w) \/ Upload(w) PROVE TypeInv'
  BY <1>12 DEF Connect, Upload, AssertBootstrap
<1>13. ASSUME NEW w \in Workers, Route(w) PROVE TypeInv'
  BY <1>13 DEF Route, AssertBootstrap
<1>14. ASSUME NEW w \in Workers, Prepare(w) PROVE TypeInv'
  BY <1>14 DEF Prepare, AssertBootstrap
<1>15. ASSUME NEW w \in Workers, Converge(w) PROVE TypeInv'
  BY <1>15 DEF Converge, AssertBootstrap
<1>16. ASSUME NEW w \in Workers, Finish(w) PROVE TypeInv'
  BY <1>16 DEF Finish, AssertBootstrap
<1>17. ASSUME NEW w \in Workers, Destroy(w) PROVE TypeInv'
  BY <1>17 DEF Destroy, DeleteServer
<1>18. ASSUME NEW w \in Workers, GetClient(w) PROVE TypeInv'
  BY <1>18 DEF GetClient, GiveUp
<1>19. ASSUME NEW w \in Workers, DelClient(w) PROVE TypeInv'
  BY <1>19 DEF DelClient, GiveUp
<1>20. ASSUME NEW w \in Workers, DelNode(w) PROVE TypeInv'
  BY <1>20 DEF DelNode, GiveUp
<1>21. ASSUME NEW w \in Workers, Record(w) PROVE TypeInv'
  BY <1>21 DEF Record
<1>22. ASSUME NEW w \in Workers, CloudBuild(w) PROVE TypeInv'
  BY <1>22 DEF CloudBuild
<1>23. CASE MainExit
  BY <1>23 DEF MainExit
<1>24. CASE Signal
  BY <1>24 DEF Signal
<1>25. CASE UNCHANGED vars
  BY <1>25
<1> QED
  BY <1>1, <1>2, <1>3, <1>4, <1>5, <1>6, <1>7, <1>8, <1>9, <1>10, <1>11,
     <1>12, <1>13, <1>14, <1>15, <1>16, <1>17, <1>18, <1>19, <1>20, <1>21, <1>22,
     <1>23, <1>24, <1>25
  DEF Next, Work, CreateStep, BootstrapStep, Halted

\* Type correctness: no counter of a goroutine leaves its bounds, and the exit
\* code is 0 or 1, for any number of goroutines.
THEOREM TypeCorrect == Spec => []TypeOK
<1>1. Spec => []TypeInv
  BY TypeInit, TypeStep, PTL DEF Spec
<1> QED
  BY <1>1, PTL DEF TypeInv

-----------------------------------------------------------------------------
Done == {"returned", "end"}

\* The outcome is decided exactly when the goroutine leaves the happy path.
Decided ==
  \A w \in Workers :
    /\ pc[w] \in Early \cup Loop \cup {"open"} => outcome[w] = "pending"
    /\ pc[w] = "reap" => outcome[w] \in {"fault", "unreachable"}
    /\ pc[w] \in Cleanup => outcome[w] = "bootstrap"
    /\ pc[w] \in Done => outcome[w] # "pending"

\* The exit code knows every bootstrap failure, and nothing but failures.
Recorded ==
  /\ \A w \in Workers : (outcome[w] = "bootstrap" /\ pc[w] \in Done) => exitcode = 1
  /\ \A w \in Workers : (outcome[w] \in Failures /\ pc[w] = "end") => exitcode = 1
  /\ exitcode = 1 => \E w \in Workers : outcome[w] \in Failures

\* Servers are deleted for the outcomes that call for it.
Deletions ==
  \A w \in Workers :
    /\ w \in delAsked => outcome[w] \in {"fault", "unreachable", "bootstrap"}
    /\ outcome[w] \in {"fault", "unreachable", "bootstrap"}
         => w \in delAsked \/ pc[w] \in {"reap", "destroy"}
    /\ ignoreFail => outcome[w] # "bootstrap"

\* Nobody is about to create a server with somebody else's key.
Keyed == \A w \in Workers : pc[w] = "create" => keypair # "other"

Outcome == Decided /\ Recorded /\ Deletions /\ Keyed

LEMMA OutcomeInit == Init => Outcome
  BY DEF Init, Outcome, Decided, Recorded, Deletions, Keyed, Early, Loop, Cleanup, Done

LEMMA OutcomeStep == TypeInv /\ Outcome /\ [Next]_vars => Outcome'
<1> SUFFICES ASSUME TypeInv, Outcome, [Next]_vars PROVE Outcome'
  OBVIOUS
<1> USE DEF TypeInv, TypeOK, Labels, Outcomes, Failures, Early, Loop, Cleanup, Done,
        Outcome, Decided, Recorded, Deletions, Keyed,
        At, Goto, Leave, Die, hostVars, workerVars, cloudVars, chefVars,
        procVars, vars
<1>1. ASSUME NEW w \in Workers, Spawn(w) PROVE Outcome'
  BY <1>1 DEF Spawn
<1>2. ASSUME NEW w \in Workers, Lookup(w) PROVE Outcome'
  BY <1>2 DEF Lookup, FindResources, Refuse
<1>3. ASSUME NEW w \in Workers, ListKeys(w) PROVE Outcome'
  BY <1>3 DEF ListKeys
<1>4. ASSUME NEW w \in Workers, DropKey(w) PROVE Outcome'
  BY <1>4 DEF DropKey
<1>5. ASSUME NEW w \in Workers, NewKey(w) PROVE Outcome'
  BY <1>5 DEF NewKey
<1>6. ASSUME NEW w \in Workers, CreateServer(w) PROVE Outcome'
  BY <1>6 DEF CreateServer, Refuse
<1>7. ASSUME NEW w \in Workers, Info(w) PROVE Outcome'
  BY <1>7 DEF Info
<1>8. ASSUME NEW w \in Workers, Poll(w) PROVE Outcome'
  BY <1>8 DEF Poll, PollSettled, Unloop
<1>9. ASSUME NEW w \in Workers, Reap(w) PROVE Outcome'
  BY <1>9 DEF Reap, DeleteServer
<1>10. ASSUME NEW w \in Workers, OpenLog(w) PROVE Outcome'
  BY <1>10 DEF OpenLog, GetAddress
<1>11. ASSUME NEW w \in Workers, CheckSSHPort(w) PROVE Outcome'
  BY <1>11 DEF CheckSSHPort
<1>12. ASSUME NEW w \in Workers, Connect(w) \/ Upload(w) PROVE Outcome'
  BY <1>12 DEF Connect, Upload, AssertBootstrap
<1>13. ASSUME NEW w \in Workers, Route(w) PROVE Outcome'
  BY <1>13 DEF Route, AssertBootstrap
<1>14. ASSUME NEW w \in Workers, Prepare(w) PROVE Outcome'
  BY <1>14 DEF Prepare, AssertBootstrap
<1>15. ASSUME NEW w \in Workers, Converge(w) PROVE Outcome'
  BY <1>15 DEF Converge, AssertBootstrap
<1>16. ASSUME NEW w \in Workers, Finish(w) PROVE Outcome'
  BY <1>16 DEF Finish, AssertBootstrap
<1>17. ASSUME NEW w \in Workers, Destroy(w) PROVE Outcome'
  BY <1>17 DEF Destroy, DeleteServer
<1>18. ASSUME NEW w \in Workers, GetClient(w) PROVE Outcome'
  BY <1>18 DEF GetClient, GiveUp
<1>19. ASSUME NEW w \in Workers, DelClient(w) PROVE Outcome'
  BY <1>19 DEF DelClient, GiveUp
<1>20. ASSUME NEW w \in Workers, DelNode(w) PROVE Outcome'
  BY <1>20 DEF DelNode, GiveUp
<1>21. ASSUME NEW w \in Workers, Record(w) PROVE Outcome'
  BY <1>21 DEF Record
<1>22. ASSUME NEW w \in Workers, CloudBuild(w) PROVE Outcome'
  BY <1>22 DEF CloudBuild
<1>23. CASE MainExit
  BY <1>23 DEF MainExit
<1>24. CASE Signal
  BY <1>24 DEF Signal
<1>25. CASE UNCHANGED vars
  BY <1>25
<1> QED
  BY <1>1, <1>2, <1>3, <1>4, <1>5, <1>6, <1>7, <1>8, <1>9, <1>10, <1>11,
     <1>12, <1>13, <1>14, <1>15, <1>16, <1>17, <1>18, <1>19, <1>20, <1>21, <1>22,
     <1>23, <1>24, <1>25
  DEF Next, Work, CreateStep, BootstrapStep, Halted

-----------------------------------------------------------------------------
\* A private host has passed through Route with the flag up by the time it is
\* prepared: the flag never goes down again.
Gateway ==
  \A w \in private :
    /\ usePrivate
    /\ (~ignoreFail /\ (pc[w] \in {"prepare", "converge", "finish"} \/ passes[w] > 0))
         => w \in routed

\* Converged hosts stay converged: nobody else deletes the server, and nobody
\* cleans up after a hostname he does not share.
Converged ==
  \A w \in Workers :
    /\ pc[w] \in Loop \cup {"open"} => server[w] = "ACTIVE"
    /\ outcome[w] = "ok" => server[w] = "ACTIVE"
    /\ (~ignoreFail /\ Unshared(w)) =>
         /\ pc[w] = "finish" \/ (pc[w] \in Loop /\ passes[w] > 0)
              => HostOf[w] \in chefClient \cap chefNode
         /\ outcome[w] = "ok" /\ ips[w] > 0
              => HostOf[w] \in chefClient \cap chefNode

\* A host with addresses is done only after a pass over one of them.
Passed ==
  \A w \in Workers : (outcome[w] = "ok" /\ ips[w] > 0) => passes[w] > 0

Hosts == Gateway /\ Converged /\ Passed

LEMMA HostsInit == Init => Hosts
  BY DEF Init, Hosts, Gateway, Converged, Passed, Loop

LEMMA HostsStep == TypeInv /\ Outcome /\ Hosts /\ [Next]_vars => Hosts'
<1> SUFFICES ASSUME TypeInv, Outcome, Hosts, [Next]_vars PROVE Hosts'
  OBVIOUS
<1> USE DEF TypeInv, TypeOK, Counters, Labels, Outcomes, Failures, Early, Loop, Cleanup,
        Done, Outcome, Decided, Hosts, Gateway, Converged, Passed, Unshared,
        At, Goto, Leave, Die, hostVars, workerVars, cloudVars, chefVars,
        procVars, vars
<1>1. ASSUME NEW w \in Workers, Spawn(w) PROVE Hosts'
  BY <1>1 DEF Spawn
<1>2. ASSUME NEW w \in Workers, Lookup(w) PROVE Hosts'
  BY <1>2 DEF Lookup, FindResources, Refuse
<1>3. ASSUME NEW w \in Workers, ListKeys(w) PROVE Hosts'
  BY <1>3 DEF ListKeys
<1>4. ASSUME NEW w \in Workers, DropKey(w) PROVE Hosts'
  BY <1>4 DEF DropKey
<1>5. ASSUME NEW w \in Workers, NewKey(w) PROVE Hosts'
  BY <1>5 DEF NewKey
<1>6. ASSUME NEW w \in Workers, CreateServer(w) PROVE Hosts'
  BY <1>6 DEF CreateServer, Refuse
<1>7. ASSUME NEW w \in Workers, Info(w) PROVE Hosts'
  BY <1>7 DEF Info
<1>8. ASSUME NEW w \in Workers, Poll(w) PROVE Hosts'
  BY <1>8 DEF Poll, PollSettled, Unloop
<1>9. ASSUME NEW w \in Workers, Reap(w) PROVE Hosts'
  BY <1>9 DEF Reap, DeleteServer
<1>10. ASSUME NEW w \in Workers, OpenLog(w) PROVE Hosts'
  BY <1>10 DEF OpenLog, GetAddress
<1>11. ASSUME NEW w \in Workers, CheckSSHPort(w) PROVE Hosts'
  BY <1>11 DEF CheckSSHPort
<1>12. ASSUME NEW w \in Workers, Connect(w) \/ Upload(w) PROVE Hosts'
  BY <1>12 DEF Connect, Upload, AssertBootstrap
<1>13. ASSUME NEW w \in Workers, Route(w) PROVE Hosts'
  BY <1>13 DEF Route, AssertBootstrap
<1>14. ASSUME NEW w \in Workers, Prepare(w) PROVE Hosts'
  BY <1>14 DEF Prepare, AssertBootstrap
<1>15. ASSUME NEW w \in Workers, Converge(w) PROVE Hosts'
  BY <1>15 DEF Converge, AssertBootstrap
<1>16. ASSUME NEW w \in Workers, Finish(w) PROVE Hosts'
  BY <1>16 DEF Finish, AssertBootstrap
<1>17. ASSUME NEW w \in Workers, Destroy(w) PROVE Hosts'
  BY <1>17 DEF Destroy, DeleteServer
<1>18. ASSUME NEW w \in Workers, GetClient(w) PROVE Hosts'
  BY <1>18 DEF GetClient, GiveUp
<1>19. ASSUME NEW w \in Workers, DelClient(w) PROVE Hosts'
  BY <1>19 DEF DelClient, GiveUp
<1>20. ASSUME NEW w \in Workers, DelNode(w) PROVE Hosts'
  BY <1>20 DEF DelNode, GiveUp
<1>21. ASSUME NEW w \in Workers, Record(w) PROVE Hosts'
  BY <1>21 DEF Record
<1>22. ASSUME NEW w \in Workers, CloudBuild(w) PROVE Hosts'
  BY <1>22 DEF CloudBuild
<1>23. CASE MainExit
  BY <1>23 DEF MainExit
<1>24. CASE Signal
  BY <1>24 DEF Signal
<1>25. CASE UNCHANGED vars
  BY <1>25
<1> QED
  BY <1>1, <1>2, <1>3, <1>4, <1>5, <1>6, <1>7, <1>8, <1>9, <1>10, <1>11,
     <1>12, <1>13, <1>14, <1>15, <1>16, <1>17, <1>18, <1>19, <1>20, <1>21, <1>22,
     <1>23, <1>24, <1>25
  DEF Next, Work, CreateStep, BootstrapStep, Halted

-----------------------------------------------------------------------------
\* The goroutines the WaitGroup waits for.
Live == {w \in Workers : pc[w] \notin Off}

\* A step leaves the group alone, or one goroutine joins or leaves it.
Regroup ==
  \/ Live' = Live /\ wg' = wg
  \/ \E w \in Workers : w \notin Live /\ Live' = Live \cup {w} /\ wg' = wg + 1
  \/ \E w \in Workers : w \in Live /\ Live' = Live \ {w} /\ wg' = wg - 1

LEMMA RegroupStep == TypeInv /\ [Next]_vars => Regroup
<1> SUFFICES ASSUME TypeInv, [Next]_vars PROVE Regroup
  OBVIOUS
<1> USE DEF TypeInv, TypeOK, Labels, Regroup, Live, Off,
        At, Goto, Leave, Die, hostVars, workerVars, cloudVars, chefVars,
        procVars, vars
<1>1. ASSUME NEW w \in Workers, Spawn(w) PROVE Regroup
  BY <1>1 DEF Spawn
<1>2. ASSUME NEW w \in Workers, Lookup(w) PROVE Regroup
  BY <1>2 DEF Lookup, FindResources, Refuse
<1>3. ASSUME NEW w \in Workers, ListKeys(w) PROVE Regroup
  BY <1>3 DEF ListKeys
<1>4. ASSUME NEW w \in Workers, DropKey(w) PROVE Regroup
  BY <1>4 DEF DropKey
<1>5. ASSUME NEW w \in Workers, NewKey(w) PROVE Regroup
  BY <1>5 DEF NewKey
<1>6. ASSUME NEW w \in Workers, CreateServer(w) PROVE Regroup
  BY <1>6 DEF CreateServer, Refuse
<1>7. ASSUME NEW w \in Workers, Info(w) PROVE Regroup
  BY <1>7 DEF Info
<1>8. ASSUME NEW w \in Workers, Poll(w) PROVE Regroup
  BY <1>8 DEF Poll, PollSettled, Unloop
<1>9. ASSUME NEW w \in Workers, Reap(w) PROVE Regroup
  BY <1>9 DEF Reap, DeleteServer
<1>10. ASSUME NEW w \in Workers, OpenLog(w) PROVE Regroup
  BY <1>10 DEF OpenLog, GetAddress
<1>11. ASSUME NEW w \in Workers, CheckSSHPort(w) PROVE Regroup
  BY <1>11 DEF CheckSSHPort
<1>12. ASSUME NEW w \in Workers, Connect(w) \/ Upload(w) PROVE Regroup
  BY <1>12 DEF Connect, Upload, AssertBootstrap
<1>13. ASSUME NEW w \in Workers, Route(w) PROVE Regroup
  BY <1>13 DEF Route, AssertBootstrap
<1>14. ASSUME NEW w \in Workers, Prepare(w) PROVE Regroup
  BY <1>14 DEF Prepare, AssertBootstrap
<1>15. ASSUME NEW w \in Workers, Converge(w) PROVE Regroup
  BY <1>15 DEF Converge, AssertBootstrap
<1>16. ASSUME NEW w \in Workers, Finish(w) PROVE Regroup
  BY <1>16 DEF Finish, AssertBootstrap
<1>17. ASSUME NEW w \in Workers, Destroy(w) PROVE Regroup
  BY <1>17 DEF Destroy, DeleteServer
<1>18. ASSUME NEW w \in Workers, GetClient(w) PROVE Regroup
  BY <1>18 DEF GetClient, GiveUp
<1>19. ASSUME NEW w \in Workers, DelClient(w) PROVE Regroup
  BY <1>19 DEF DelClient, GiveUp
<1>20. ASSUME NEW w \in Workers, DelNode(w) PROVE Regroup
  BY <1>20 DEF DelNode, GiveUp
<1>21. ASSUME NEW w \in Workers, Record(w) PROVE Regroup
  BY <1>21 DEF Record
<1>22. ASSUME NEW w \in Workers, CloudBuild(w) PROVE Regroup
  BY <1>22 DEF CloudBuild
<1>23. CASE MainExit
  BY <1>23 DEF MainExit
<1>24. CASE Signal
  BY <1>24 DEF Signal
<1>25. CASE UNCHANGED vars
  BY <1>25
<1> QED
  BY <1>1, <1>2, <1>3, <1>4, <1>5, <1>6, <1>7, <1>8, <1>9, <1>10, <1>11,
     <1>12, <1>13, <1>14, <1>15, <1>16, <1>17, <1>18, <1>19, <1>20, <1>21, <1>22,
     <1>23, <1>24, <1>25
  DEF Next, Work, CreateStep, BootstrapStep, Halted

Waiting ==
  /\ wg = Cardinality(Live)
  /\ proc = "main" => \A w \in Workers : pc[w] \in Done

LEMMA LiveIsFinite == IsFiniteSet(Live)
  BY WorkersAssumption, FS_Subset DEF Live

LEMMA WaitingInit == Init => Waiting
<1> SUFFICES ASSUME Init PROVE Waiting
  OBVIOUS
<1>1. Live = {}
  BY DEF Init, Live, Off
<1> QED
  BY <1>1, FS_EmptySet DEF Init, Waiting

LEMMA WaitingStep == TypeInv /\ Waiting /\ [Next]_vars => Waiting'
<1> SUFFICES ASSUME TypeInv, Waiting, [Next]_vars PROVE Waiting'
  OBVIOUS
<1>1. wg' = Cardinality(Live)'
  <2>1. CASE Live' = Live /\ wg' = wg
    BY <2>1 DEF Waiting
  <2>2. ASSUME NEW w \in Workers, w \notin Live, Live' = Live \cup {w}, wg' = wg + 1
        PROVE wg' = Cardinality(Live)'
    BY <2>2, LiveIsFinite, FS_AddElement DEF Waiting
  <2>3. ASSUME NEW w \in Workers, w \in Live, Live' = Live \ {w}, wg' = wg - 1
        PROVE wg' = Cardinality(Live)'
    BY <2>3, LiveIsFinite, FS_RemoveElement DEF Waiting
  <2> QED
    BY <2>1, <2>2, <2>3, RegroupStep DEF Regroup
<1>2. ASSUME proc' = "main", NEW w \in Workers PROVE pc'[w] \in Done
  <2>1. CASE MainExit
    <3>1. Live = {}
      BY <2>1, LiveIsFinite, FS_EmptySet DEF MainExit, Waiting
    <3> QED
      BY <2>1, <3>1 DEF MainExit, Live, Off, Done, workerVars
  <2>2. CASE ~MainExit
    <3>1. proc = "main" /\ UNCHANGED vars
      BY <1>2, <2>2 DEF Next, Work, CreateStep, BootstrapStep, Halted, Signal,
        CloudBuild, At, Die, procVars, vars,
        Spawn, Lookup, FindResources, Refuse, ListKeys, DropKey, NewKey, CreateServer,
        Info, Poll, PollSettled, Reap, OpenLog, GetAddress, CheckSSHPort, Connect, Upload, Route, Prepare,
        Converge, Finish, Destroy, GetClient, DelClient, DelNode, Record
    <3> QED
      BY <3>1 DEF Waiting, vars, workerVars
  <2> QED
    BY <2>1, <2>2
<1> QED
  BY <1>1, <1>2 DEF Waiting

-----------------------------------------------------------------------------
IInv == TypeInv /\ Outcome /\ Hosts /\ Waiting

LEMMA Invariance == Spec => []IInv
<1>1. Init => IInv
  BY TypeInit, OutcomeInit, HostsInit, WaitingInit DEF IInv
<1>2. IInv /\ [Next]_vars => IInv'
  BY TypeStep, OutcomeStep, HostsStep, WaitingStep DEF IInv
<1> QED
  BY <1>1, <1>2, PTL DEF Spec

\* wg.Wait waits for the goroutines under way, for any number of hosts, and is
\* not left waiting for nobody (nodeup.go:86-101).
THEOREM WaitExact == Spec => []WaitIsExact
<1>1. IInv => NoneUnderWay
  BY DEF IInv, Waiting, NoneUnderWay, Done
<1>2. IInv => NoneAwaited
  <2> SUFFICES ASSUME IInv, \A w \in Workers : pc[w] \in {"returned", "end"}
               PROVE  wg = 0
    BY DEF NoneAwaited
  <2>1. Live = {}
    BY DEF Live, Off
  <2> QED
    BY <2>1, FS_EmptySet DEF IInv, Waiting
<1> QED
  BY <1>1, <1>2, Invariance, PTL DEF WaitIsExact

\* Whatever the order of the goroutines that write the exit code, a failure
\* that is written stays, and assertBootstrap's always is (nodeup.go:90-92).
THEOREM RecordedReported == Spec => []RecordedFailureReported
<1>1. IInv => RecordedFailureReported
  BY DEF IInv, Waiting, Outcome, Recorded, RecordedFailureReported, ExitStatus
<1> QED
  BY <1>1, Invariance, PTL

\* "ok" means converged, for every host whose name is not generated twice.
THEOREM Success == Spec => []SuccessMeansConverged
<1>1. IInv => SuccessMeansConverged
  BY DEF IInv, Hosts, Converged, SuccessMeansConverged
<1> QED
  BY <1>1, Invariance, PTL

\* The shared UsePrivateNetwork never leaves a private host without a gateway.
THEOREM GatewayConfigured == Spec => []PrivateHostGetsGateway
<1>1. IInv => PrivateHostGetsGateway
  <2> SUFFICES ASSUME IInv, NEW w \in Workers,
                      outcome[w] = "ok", w \in private, ips[w] > 0, ~ignoreFail
               PROVE  w \in routed
    BY DEF PrivateHostGetsGateway
  <2>1. passes[w] > 0
    BY DEF IInv, Hosts, Passed
  <2> QED
    BY <2>1 DEF IInv, Hosts, Gateway
<1> QED
  BY <1>1, Invariance, PTL

\* Which failures delete their server, and which leave it, is settled.
THEOREM DeletionMatchesOutcome == Spec => []DeletedExactlyOnFault
<1>1. IInv => DeletedExactlyOnFault
  BY DEF IInv, Outcome, Deletions, DeletedExactlyOnFault
<1> QED
  BY <1>1, Invariance, PTL

\* createAdminKey's races may fail a run, but never sneak in another key.
THEOREM OurKeyOnly == Spec => CreatedWithOurKey
<1>1. IInv /\ [Next]_vars =>
        [\A w \in Workers :
           (server[w] = "none" /\ server'[w] = "BUILD") => keypair = "ours"]_vars
  <2>1. SUFFICES ASSUME IInv, [Next]_vars, NEW w \in Workers,
                        server[w] = "none", server'[w] = "BUILD"
                 PROVE  keypair = "ours"
    BY DEF vars, cloudVars
  <2>2. \/ server' = server
        \/ \E v \in Workers : CreateServer(v)
        \/ \E v \in Workers, s \in {"ACTIVE", "ERROR", "deleted"} :
             server' = [server EXCEPT ![v] = s]
    BY <2>1 DEF Next, Work, CreateStep, BootstrapStep, Halted, Signal, MainExit,
      CloudBuild, Die, vars, workerVars, cloudVars, DeleteServer,
      Spawn, Lookup, FindResources, Refuse, ListKeys, DropKey, NewKey,
      Info, Poll, PollSettled, Reap, OpenLog, GetAddress, CheckSSHPort, Connect, Upload, Route, Prepare,
      Converge, Finish, Destroy, GetClient, DelClient, DelNode, Record
  <2>3. \E v \in Workers : CreateServer(v)
    BY <2>1, <2>2 DEF IInv, TypeInv, TypeOK
  <2>4. PICK v \in Workers : CreateServer(v)
    BY <2>3
  <2>5. pc[v] = "create" /\ keypair # "absent"
    BY <2>1, <2>4 DEF CreateServer, Refuse, At, Die, cloudVars, IInv, TypeInv, TypeOK
  <2> QED
    BY <2>1, <2>5 DEF IInv, TypeInv, TypeOK, Outcome, Keyed
<1> QED
  BY <1>1, Invariance, PTL DEF Spec, CreatedWithOurKey

-----------------------------------------------------------------------------
\* Bounded work.

\* There is a bound for every goroutine.
LEMMA StepsCount == ASSUME TypeInv, NEW w \in Workers PROVE StepsLeft(w) \in Nat
<1> USE PollLimitAssumption, MaxIPsAssumption
    DEF TypeInv, TypeOK, Counters, Labels, Early, Loop, StepsLeft
<1>1. /\ polls[w] \in 0..PollLimit /\ ips[w] \in Nat /\ passes[w] \in Nat
      /\ pc[w] \in Loop => passes[w] < ips[w]
  OBVIOUS
<1>2. CASE pc[w] \in Early
  BY <1>1, <1>2
<1>3. CASE pc[w] \in Loop
  BY <1>1, <1>3
<1>4. CASE pc[w] \notin Early \cup Loop
  BY <1>4
<1> QED
  BY <1>2, <1>3, <1>4

\* A goroutine's step does not touch where another one is.
Elsewhere(w) ==
  \A v \in Workers \ {w} :
    pc'[v] = pc[v] /\ polls'[v] = polls[v] /\ ips'[v] = ips[v] /\ passes'[v] = passes[v]

\* A step of w leaves w fewer steps, unless it ends the process.
LEMMA WorkShrinks ==
  ASSUME TypeInv, NEW w \in Workers, Work(w)
  PROVE  /\ Elsewhere(w)
         /\ \/ proc' # "running" /\ UNCHANGED workerVars
            \/ proc' = "running" /\ StepsLeft(w)' \in 0 .. (StepsLeft(w) - 1)
<1> USE PollLimitAssumption, MaxIPsAssumption
    DEF TypeInv, TypeOK, Counters, Labels, Early, Loop, StepsLeft, Elsewhere,
        At, Goto, Leave, Die, hostVars, workerVars, procVars
<1>1. CASE Spawn(w)
  BY <1>1 DEF Spawn
<1>2. CASE Lookup(w)
  BY <1>2 DEF Lookup, FindResources, Refuse
<1>3. CASE ListKeys(w)
  BY <1>3 DEF ListKeys
<1>4. CASE DropKey(w)
  BY <1>4 DEF DropKey
<1>5. CASE NewKey(w)
  BY <1>5 DEF NewKey
<1>6. CASE CreateServer(w)
  BY <1>6 DEF CreateServer, Refuse
<1>7. CASE Info(w)
  BY <1>7 DEF Info
<1>8. CASE Poll(w)
  BY <1>8 DEF Poll, PollSettled, Unloop
<1>9. CASE Reap(w)
  BY <1>9 DEF Reap, DeleteServer
<1>10. CASE OpenLog(w)
  BY <1>10 DEF OpenLog, GetAddress
<1>11. CASE CheckSSHPort(w)
  BY <1>11 DEF CheckSSHPort
<1>12. CASE Connect(w)
  BY <1>12 DEF Connect, AssertBootstrap
<1>13. CASE Upload(w)
  BY <1>13 DEF Upload, AssertBootstrap
<1>14. CASE Route(w)
  BY <1>14 DEF Route, AssertBootstrap
<1>15. CASE Prepare(w)
  BY <1>15 DEF Prepare, AssertBootstrap
<1>16. CASE Converge(w)
  BY <1>16 DEF Converge, AssertBootstrap
<1>17. CASE Finish(w)
  <2>1. pc[w] = "finish" /\ passes[w] \in Nat /\ ips[w] \in Nat /\ passes[w] < ips[w]
    BY <1>17 DEF Finish
  <2>2. StepsLeft(w) = 6 + 7 * (ips[w] - passes[w] - 1)
    BY <2>1
  <2>3. CASE proc' # "running"
    BY <1>17, <2>3 DEF Finish, AssertBootstrap
  <2>4. CASE pc'[w] = "port" /\ passes'[w] = passes[w] + 1 /\ proc' = "running"
    <3>1. passes[w] + 1 < ips[w] /\ Elsewhere(w) /\ ips' = ips
      BY <1>17, <2>1, <2>4 DEF Finish, AssertBootstrap
    <3>2. StepsLeft(w)' = 12 + 7 * (ips[w] - passes[w] - 2)
      BY <2>1, <2>4, <3>1
    <3> QED
      BY <2>1, <2>2, <2>4, <3>1, <3>2
  <2>5. CASE pc'[w] \in {"returned", "destroy"} /\ proc' = "running"
    <3>1. StepsLeft(w)' \in {1, 5} /\ Elsewhere(w)
      BY <1>17, <2>5 DEF Finish, AssertBootstrap
    <3> QED
      BY <2>1, <2>2, <2>5, <3>1
  <2> QED
    BY <1>17, <2>1, <2>3, <2>4, <2>5 DEF Finish, AssertBootstrap
<1>18. CASE Destroy(w)
  BY <1>18 DEF Destroy, DeleteServer
<1>19. CASE GetClient(w)
  BY <1>19 DEF GetClient, GiveUp
<1>20. CASE DelClient(w)
  BY <1>20 DEF DelClient, GiveUp
<1>21. CASE DelNode(w)
  BY <1>21 DEF DelNode, GiveUp
<1>22. CASE Record(w)
  BY <1>22 DEF Record
<1> QED
  BY <1>1, <1>2, <1>3, <1>4, <1>5, <1>6, <1>7, <1>8, <1>9, <1>10, <1>11, <1>12,
      <1>13, <1>14, <1>15, <1>16, <1>17, <1>18, <1>19, <1>20, <1>21, <1>22
  DEF Work, CreateStep, BootstrapStep

\* A goroutine that stays where it is has as many steps left.
LEMMA StepsStay ==
  ASSUME NEW w \in Workers,
         pc'[w] = pc[w], polls'[w] = polls[w], ips'[w] = ips[w], passes'[w] = passes[w]
  PROVE  StepsLeft(w)' = StepsLeft(w)
BY DEF StepsLeft

\* No goroutine of the create mode runs for ever: for any number of hosts,
\* polls and addresses each of its steps brings it nearer to its end
\* (openstack.go:222-255, nodeup.go:99-171).
THEOREM WorkIsBounded == Spec => BoundedWork
<1> DEFINE Bounded(w) ==
      /\ StepsLeft(w)' \in 0 .. StepsLeft(w)
      /\ (Work(w) /\ proc' = "running") => StepsLeft(w)' # StepsLeft(w)
<1>1. TypeInv /\ [Next]_vars => [\A w \in Workers : Bounded(w)]_vars
  <2> SUFFICES ASSUME TypeInv, [Next]_vars, NEW w \in Workers PROVE Bounded(w)
    OBVIOUS
  <2>1. StepsLeft(w) \in Nat
    BY StepsCount
  <2>2. CASE Work(w) /\ proc' = "running"
    BY <2>1, <2>2, WorkShrinks
  <2>3. CASE ~(Work(w) /\ proc' = "running")
    <3>1. \/ UNCHANGED workerVars
          \/ \E v \in Workers \ {w} : Work(v)
      BY <2>3, WorkShrinks
      DEF Next, CloudBuild, MainExit, Signal, Die, Halted, vars
    <3>2. /\ pc'[w] = pc[w] /\ polls'[w] = polls[w]
          /\ ips'[w] = ips[w] /\ passes'[w] = passes[w]
      BY <3>1, WorkShrinks DEF Elsewhere, workerVars, hostVars
    <3>3. StepsLeft(w)' = StepsLeft(w)
      BY <3>2, StepsStay
    <3> QED
      BY <2>1, <2>3, <3>3
  <2> QED
    BY <2>2, <2>3
<1>2. Spec => []TypeInv
  BY TypeInit, TypeStep, PTL DEF Spec
<1> QED
  BY <1>1, <1>2, PTL DEF Spec, BoundedWork

-----------------------------------------------------------------------------
\* What a step of Provision is to the batch: nothing, the decision of one
\* host, the end through wg.Wait, or an abort.
Progress ==
  \/ outcome' = outcome /\ proc = "running" /\ proc' = "running"
  \/ /\ proc = "running" /\ proc' = "running"
     /\ \E w \in Workers, o \in Outcomes \ {"pending"} :
          outcome[w] = "pending" /\ outcome' = [outcome EXCEPT ![w] = o]
  \/ MainExit
  \/ /\ proc = "running" /\ proc' \in {"signal", "fatal", "panic"}
     /\ outcome' = outcome
  \/ UNCHANGED vars

LEMMA ProgressStep == IInv /\ [Next]_vars => Progress
<1> SUFFICES ASSUME IInv, [Next]_vars PROVE Progress
  OBVIOUS
<1> USE DEF IInv, TypeInv, TypeOK, Outcome, Decided, Failures, Outcomes, Early, Loop,
        Cleanup, Progress, At, Goto, Leave, Die, workerVars, procVars
<1>1. ASSUME NEW w \in Workers, Spawn(w) PROVE Progress
  BY <1>1 DEF Spawn
<1>2. ASSUME NEW w \in Workers, Lookup(w) PROVE Progress
  BY <1>2 DEF Lookup, FindResources, Refuse
<1>3. ASSUME NEW w \in Workers, ListKeys(w) PROVE Progress
  BY <1>3 DEF ListKeys
<1>4. ASSUME NEW w \in Workers, DropKey(w) PROVE Progress
  BY <1>4 DEF DropKey
<1>5. ASSUME NEW w \in Workers, NewKey(w) PROVE Progress
  BY <1>5 DEF NewKey
<1>6. ASSUME NEW w \in Workers, CreateServer(w) PROVE Progress
  BY <1>6 DEF CreateServer, Refuse
<1>7. ASSUME NEW w \in Workers, Info(w) PROVE Progress
  BY <1>7 DEF Info
<1>8. ASSUME NEW w \in Workers, Poll(w) PROVE Progress
  BY <1>8 DEF Poll, PollSettled, Unloop
<1>9. ASSUME NEW w \in Workers, Reap(w) PROVE Progress
  BY <1>9 DEF Reap, DeleteServer
<1>10. ASSUME NEW w \in Workers, OpenLog(w) PROVE Progress
  BY <1>10 DEF OpenLog, GetAddress
<1>11. ASSUME NEW w \in Workers, CheckSSHPort(w) PROVE Progress
  BY <1>11 DEF CheckSSHPort
<1>12. ASSUME NEW w \in Workers, Connect(w) \/ Upload(w) PROVE Progress
  BY <1>12 DEF Connect, Upload, AssertBootstrap
<1>13. ASSUME NEW w \in Workers, Route(w) PROVE Progress
  BY <1>13 DEF Route, AssertBootstrap
<1>14. ASSUME NEW w \in Workers, Prepare(w) PROVE Progress
  BY <1>14 DEF Prepare, AssertBootstrap
<1>15. ASSUME NEW w \in Workers, Converge(w) PROVE Progress
  BY <1>15 DEF Converge, AssertBootstrap
<1>16. ASSUME NEW w \in Workers, Finish(w) PROVE Progress
  BY <1>16 DEF Finish, AssertBootstrap
<1>17. ASSUME NEW w \in Workers, Destroy(w) PROVE Progress
  BY <1>17 DEF Destroy, DeleteServer
<1>18. ASSUME NEW w \in Workers, GetClient(w) PROVE Progress
  BY <1>18 DEF GetClient, GiveUp
<1>19. ASSUME NEW w \in Workers, DelClient(w) PROVE Progress
  BY <1>19 DEF DelClient, GiveUp
<1>20. ASSUME NEW w \in Workers, DelNode(w) PROVE Progress
  BY <1>20 DEF DelNode, GiveUp
<1>21. ASSUME NEW w \in Workers, Record(w) PROVE Progress
  BY <1>21 DEF Record
<1>22. ASSUME NEW w \in Workers, CloudBuild(w) PROVE Progress
  BY <1>22 DEF CloudBuild
<1>23. CASE MainExit
  BY <1>23
<1>24. CASE Signal
  BY <1>24 DEF Signal
<1>25. CASE UNCHANGED vars
  BY <1>25
<1> QED
  BY <1>1, <1>2, <1>3, <1>4, <1>5, <1>6, <1>7, <1>8, <1>9, <1>10, <1>11,
     <1>12, <1>13, <1>14, <1>15, <1>16, <1>17, <1>18, <1>19, <1>20, <1>21, <1>22,
     <1>23, <1>24, <1>25
  DEF Next, Work, CreateStep, BootstrapStep, Halted

LEMMA BatchInit == Init => Batch!Init
  BY DEF Init, Batch!Init, Verdict, Exit

LEMMA BatchStep == IInv /\ [Next]_vars => [Batch!Next]_(Batch!vars)
<1> SUFFICES ASSUME IInv, [Next]_vars PROVE [Batch!Next]_(Batch!vars)
  OBVIOUS
<1> USE DEF IInv, TypeInv, TypeOK
<1>1. CASE outcome' = outcome /\ proc = "running" /\ proc' = "running"
  BY <1>1 DEF Batch!vars, Verdict, Exit
<1>2. ASSUME proc = "running", proc' = "running",
             NEW w \in Workers, NEW o \in Outcomes \ {"pending"},
             outcome[w] = "pending", outcome' = [outcome EXCEPT ![w] = o]
      PROVE  Batch!Settle(w)
  <2> DEFINE v == CASE o = "bootstrap"         -> "failed"
                    [] o \in {"pending", "ok"} -> o
                    [] OTHER                   -> "late"
  <2>1. v \in Batch!Verdicts \ {"pending"}
    BY DEF Batch!Verdicts, Outcomes, Failures
  <2>2. Verdict' = [Verdict EXCEPT ![w] = v]
    BY <1>2 DEF Verdict
  <2>3. Verdict[w] = "pending"
    BY <1>2 DEF Verdict
  <2> QED
    BY <1>2, <2>1, <2>2, <2>3 DEF Batch!Settle, Exit
<1>3. CASE MainExit
  <2>1. Verdict' = Verdict /\ Exit = "running"
    BY <1>3 DEF MainExit, workerVars, Verdict, Exit
  <2>2. \A w \in Workers : pc[w] \in Done
    <3>1. proc' = "main" /\ pc' = pc
      BY <1>3 DEF MainExit, workerVars
    <3>2. Waiting'
      BY WaitingStep
    <3> QED
      BY <3>1, <3>2 DEF Waiting
  <2>3. \A w \in Workers : outcome[w] # "pending"
    BY <2>2 DEF Outcome, Decided
  <2>4. CASE exitcode = 0
    <3>1. Exit' = "clean"
      BY <1>3, <2>4 DEF MainExit, Exit
    <3>2. \A w \in Workers : outcome[w] # "bootstrap"
      BY <2>2, <2>4 DEF Outcome, Recorded
    <3>3. \A w \in Workers : Verdict[w] \in {"ok", "late"}
      BY <2>3, <3>2 DEF Verdict, Outcomes, Failures
    <3> QED
      BY <2>1, <3>1, <3>3 DEF Batch!Next, Batch!FinishClean
  <2>5. CASE exitcode = 1
    <3>1. Exit' = "flagged"
      BY <1>3, <2>5 DEF MainExit, Exit
    <3>2. \E w \in Workers : outcome[w] \in Failures
      BY <2>5 DEF Outcome, Recorded
    <3>3. \E w \in Workers : Verdict[w] \in {"failed", "late"}
      BY <3>2 DEF Verdict, Failures
    <3>4. \A w \in Workers : Verdict[w] # "pending"
      BY <2>3 DEF Verdict, Outcomes, Failures
    <3> QED
      BY <2>1, <3>1, <3>3, <3>4 DEF Batch!Next, Batch!FinishFlagged
  <2> QED
    BY <2>4, <2>5
<1>4. CASE /\ proc = "running" /\ proc' \in {"signal", "fatal", "panic"}
           /\ outcome' = outcome
  BY <1>4 DEF Batch!Next, Batch!Abort, Verdict, Exit
<1>5. CASE UNCHANGED vars
  BY <1>5 DEF vars, workerVars, procVars, Batch!vars, Verdict, Exit
<1> QED
  BY <1>1, <1>2, <1>3, <1>4, <1>5, ProgressStep DEF Progress, Batch!Next

\* Provision implements BatchRun: the exit status of a create run is that of a
\* batch of its hosts.
THEOREM Refinement == Spec => ImplementsBatchRun
<1>1. Spec => Batch!Spec
  BY BatchInit, BatchStep, Invariance, PTL DEF Spec, Batch!Spec
<1> QED
  BY <1>1 DEF ImplementsBatchRun
=============================================================================
