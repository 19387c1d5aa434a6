----------------------------- MODULE Provision ------------------------------
(***************************************************************************)
(* The create mode of nodeup.  NodeUP.Init starts one goroutine per        *)
(* generated hostname; each runs bootstrapHost: it creates a server in     *)
(* OpenStack (CreateSever), waits until it is ACTIVE, connects by ssh,     *)
(* uploads files, runs the Chef bootstrap commands and, on an error,       *)
(* deletes the server and its Chef client.  The main goroutine waits on a  *)
(* WaitGroup and exits with o.Exitcode.                                    *)
(*                                                                         *)
(* A step is the code between two calls that leave the process, so the     *)
(* goroutines interleave wherever a remote call lets them.  OpenStack, the *)
(* Chef server and the remote shell are external: they answer with any     *)
(* outcome the code distinguishes.                                         *)
(***************************************************************************)
EXTENDS Integers, FiniteSets

CONSTANTS
  Workers,      \* one goroutine per hostname
  HostOf,       \* HostOf[w]: the hostname passed to goroutine w
  PollLimit,    \* status polls before CreateSever gives up (10 in the code)
  MaxIPs        \* bound: addresses a server may have of one kind

ASSUME WorkersAssumption == IsFiniteSet(Workers)
ASSUME PollLimitAssumption == PollLimit \in Nat \ {0}
ASSUME MaxIPsAssumption == MaxIPs \in Nat \ {0}

VARIABLES
  \* per goroutine
  pc,           \* the next call to make
  outcome,      \* what bootstrapHost returns, once it is decided, and why
  polls,        \* i of CreateSever's wait loop
  ips,          \* how many addresses GetAddress returned
  passes,       \* how many of them have been bootstrapped
  private,      \* those whose GetAddress fell back to private addresses
  routed,       \* those whose host had its default gateway configured
  \* OpenStack and the Chef server
  server,       \* server[w]: the server goroutine w created
  delAsked,     \* goroutines that called DeleteServer
  keypair,      \* the admin keypair: absent, with our key, with another key
  chefClient,   \* hostnames with a Chef client
  chefNode,     \* hostnames with a Chef node
  \* the process
  ignoreFail,   \* the flag -ignoreFail
  exitcode,     \* o.Exitcode
  usePrivate,   \* o.UsePrivateNetwork, shared by all goroutines
  wg,           \* counter of the WaitGroup
  proc          \* running, or what ended the process

hostVars == <<polls, ips, passes, private, routed>>
workerVars == <<pc, outcome, hostVars>>
cloudVars == <<server, delAsked, keypair>>
chefVars == <<chefClient, chefNode>>
procVars == <<ignoreFail, exitcode, usePrivate, wg, proc>>
vars == <<workerVars, cloudVars, chefVars, procVars>>

Labels == {"idle", "lookup", "keys", "dropkey", "newkey", "create",
           "info", "poll", "reap", "open", "port", "connect", "upload",
           "route", "prepare", "converge", "finish", "destroy", "getclient",
           "delclient", "delnode", "returned", "end"}

\* Labels of a goroutine the WaitGroup is waiting for.
Off == {"idle", "returned", "end"}

\* refused, timeout: CreateSever gave up.  fault: the server went to ERROR.
\* nolog: no log file.  unreachable: no ssh port.  bootstrap: assertBootstrap.
Failures == {"refused", "timeout", "fault", "nolog", "unreachable", "bootstrap"}
Outcomes == {"pending", "ok"} \cup Failures

TypeOK ==
  /\ pc \in [Workers -> Labels]
  /\ outcome \in [Workers -> Outcomes]
  /\ polls \in [Workers -> 0..PollLimit]
  /\ ips \in [Workers -> 0..MaxIPs]
  /\ passes \in [Workers -> 0..MaxIPs]
  /\ private \subseteq Workers
  /\ routed \subseteq Workers
  /\ server \in [Workers -> {"none", "BUILD", "ACTIVE", "ERROR", "deleted"}]
  /\ delAsked \subseteq Workers
  /\ keypair \in {"absent", "ours", "other"}
  /\ chefClient \subseteq {HostOf[w] : w \in Workers}
  /\ chefNode \subseteq {HostOf[w] : w \in Workers}
  /\ ignoreFail \in BOOLEAN
  /\ exitcode \in {0, 1}
  /\ usePrivate \in BOOLEAN
  /\ wg \in Int
  /\ proc \in {"running", "main", "signal", "fatal", "panic"}

Init ==
  /\ pc = [w \in Workers |-> "idle"]
  /\ outcome = [w \in Workers |-> "pending"]
  /\ polls = [w \in Workers |-> 0]
  /\ ips = [w \in Workers |-> 0]
  /\ passes = [w \in Workers |-> 0]
  /\ private = {}
  /\ routed = {}
  /\ server = [w \in Workers |-> "none"]
  /\ delAsked = {}
  /\ keypair \in {"absent", "ours", "other"}
  /\ chefClient = {}
  /\ chefNode = {}
  /\ ignoreFail \in BOOLEAN
  /\ exitcode = 0
  /\ usePrivate = FALSE
  /\ wg = 0
  /\ proc = "running"

-----------------------------------------------------------------------------
\* Building blocks of the steps.

At(w, l) == proc = "running" /\ pc[w] = l

Goto(w, l) == pc' = [pc EXCEPT ![w] = l]

\* log.Fatal exits with 1 and a panic with 2, from whichever goroutine.
Die(how) ==
  /\ proc' = how
  /\ UNCHANGED <<workerVars, cloudVars, chefVars, ignoreFail, exitcode, usePrivate, wg>>

\* bootstrapHost returns: its deferred wg.Done runs before the caller sees
\* the result.
Leave(w, o) ==
  /\ Goto(w, "returned")
  /\ outcome' = [outcome EXCEPT ![w] = o]
  /\ wg' = wg - 1

\* Mutant: the counter is raised by nobody.
SpawnNoAdd(w) ==
  /\ At(w, "idle")
  /\ Goto(w, "lookup")
  /\ UNCHANGED <<outcome, hostVars, cloudVars, chefVars, procVars>>

\* Init: wg.Add(1) and the go statement for one hostname.
Spawn(w) ==
  /\ At(w, "idle")
  /\ Goto(w, "lookup")
  /\ wg' = wg + 1
  /\ UNCHANGED <<outcome, hostVars, cloudVars, chefVars, ignoreFail, exitcode, usePrivate, proc>>

-----------------------------------------------------------------------------
\* CreateSever.

\* CreateSever returns an error before there is a server.
Refuse(w) ==
  /\ Leave(w, "refused")
  /\ UNCHANGED <<hostVars, cloudVars, chefVars, ignoreFail, exitcode, usePrivate, proc>>

\* getFlavorByName and getImageByName are fatal, getNetworkIDs returns its error.
FindResources(w) ==
  \/ Die("fatal")
  \/ Refuse(w)
  \/ /\ Goto(w, "keys")
     /\ UNCHANGED <<outcome, hostVars, cloudVars, chefVars, procVars>>

\* isServerExist is fatal too.  A listing that fails, or that shows the name
\* twice, reads as "does not exist", so nothing keeps two goroutines off the
\* same name.
Lookup(w) == At(w, "lookup") /\ (Die("fatal") \/ FindResources(w))

\* createAdminKey: list the keypairs and look for ours.
ListKeys(w) ==
  /\ At(w, "keys")
  /\ \/ Die("panic")
     \/ /\ Goto(w, CASE keypair = "ours"   -> "create"
                     [] keypair = "other"  -> "dropkey"
                     [] keypair = "absent" -> "newkey")
        /\ UNCHANGED <<outcome, hostVars, cloudVars, chefVars, procVars>>

\* createAdminKey: delete the keypair of our name; an error is only logged.
DropKey(w) ==
  /\ At(w, "dropkey")
  /\ keypair' \in {"absent", keypair}
  /\ Goto(w, "newkey")
  /\ UNCHANGED <<outcome, hostVars, server, delAsked, chefVars, procVars>>

\* Mutant: a name conflict counts as created.
NewKeyLenient(w) ==
  /\ At(w, "newkey")
  /\ keypair' = IF keypair = "absent" THEN "ours" ELSE keypair
  /\ Goto(w, "create")
  /\ UNCHANGED <<outcome, hostVars, server, delAsked, chefVars, procVars>>

\* createAdminKey: OpenStack refuses a second keypair of the same name, and
\* any error is fatal.
NewKey(w) ==
  /\ At(w, "newkey")
  /\ \/ /\ keypair = "absent"
        /\ keypair' = "ours"
        /\ Goto(w, "create")
        /\ UNCHANGED <<outcome, hostVars, server, delAsked, chefVars, procVars>>
     \/ Die("fatal")

\* servers.Create names the keypair, so it fails when there is none.  When its
\* answer is lost the server is there and CreateSever knows nothing of it.
CreateServer(w) ==
  /\ At(w, "create")
  /\ \/ /\ keypair # "absent"
        /\ server' = [server EXCEPT ![w] = "BUILD"]
        /\ Goto(w, "info")
        /\ UNCHANGED <<outcome, hostVars, delAsked, keypair, chefVars, procVars>>
     \/ /\ keypair # "absent"
        /\ server' = [server EXCEPT ![w] = "BUILD"]
        /\ Leave(w, "refused")
        /\ UNCHANGED <<hostVars, delAsked, keypair, chefVars, ignoreFail, exitcode,
                       usePrivate, proc>>
     \/ Refuse(w)

\* The first GetServer: when it fails, info is nil and info.Name panics.
Info(w) ==
  /\ At(w, "info")
  /\ \/ Die("panic")
     \/ /\ Goto(w, "poll")
        /\ UNCHANGED <<outcome, hostVars, cloudVars, chefVars, procVars>>

\* The wait loop is left with its counter.
Unloop(w) == polls' = [polls EXCEPT ![w] = 0]

\* The turn that finds the server ACTIVE, or in ERROR.
PollSettled(w) ==
  /\ Unloop(w)
  /\ \/ server[w] = "ACTIVE" /\ Goto(w, "open") /\ UNCHANGED outcome
     \/ /\ server[w] = "ERROR"
        /\ Goto(w, "reap")
        /\ outcome' = [outcome EXCEPT ![w] = "fault"]
  /\ UNCHANGED wg

\* Mutant: the turns are not counted.
PollForever(w) ==
  /\ At(w, "poll")
  /\ PollSettled(w)
  /\ UNCHANGED <<ips, passes, private, routed, cloudVars, chefVars,
                 ignoreFail, exitcode, usePrivate, proc>>

\* Mutant: a server in ERROR is returned as an error and left behind.
PollKeepsFault(w) ==
  /\ At(w, "poll")
  /\ Unloop(w)
  /\ \/ server[w] = "ACTIVE" /\ Goto(w, "open") /\ UNCHANGED <<outcome, wg>>
     \/ server[w] = "ERROR" /\ Leave(w, "fault")
  /\ UNCHANGED <<ips, passes, private, routed, cloudVars, chefVars,
                 ignoreFail, exitcode, usePrivate, proc>>

\* One turn of the wait loop.  The status is compared with one that is never
\* assigned, so every turn that finds neither ACTIVE nor ERROR is counted.  A
\* failed GetServer leaves a nil info, and info.Status panics.
Poll(w) ==
  /\ At(w, "poll")
  /\ \/ Die("panic")
     \/ /\ \/ PollSettled(w)
           \/ /\ server[w] = "BUILD"
              /\ polls[w] + 1 < PollLimit
              /\ polls' = [polls EXCEPT ![w] = @ + 1]
              /\ UNCHANGED <<pc, outcome, wg>>
           \/ /\ server[w] = "BUILD"
              /\ polls[w] + 1 = PollLimit
              /\ Unloop(w)
              /\ Leave(w, "timeout")
        /\ UNCHANGED <<ips, passes, private, routed, cloudVars, chefVars,
                       ignoreFail, exitcode, usePrivate, proc>>

\* DeleteServer: a failed call is logged and leaves the server.
DeleteServer(w) ==
  /\ delAsked' = delAsked \cup {w}
  /\ \/ server' = [server EXCEPT ![w] = "deleted"]
     \/ UNCHANGED server
  /\ UNCHANGED keypair

\* The server in ERROR, or without an ssh port, is deleted and the goroutine
\* gives up.
Reap(w) ==
  /\ At(w, "reap")
  /\ DeleteServer(w)
  /\ Leave(w, outcome[w])
  /\ UNCHANGED <<hostVars, chefVars, ignoreFail, exitcode, usePrivate, proc>>

-----------------------------------------------------------------------------
\* bootstrapHost, after CreateSever returned a server.

\* Mutant: the shared flag follows the host whose addresses were read last.
OpenLogResets(w) ==
  /\ At(w, "open")
  /\ \E n \in 1..MaxIPs, p \in BOOLEAN :
       /\ ips' = [ips EXCEPT ![w] = n]
       /\ private' = IF p THEN private \cup {w} ELSE private
       /\ usePrivate' = p
  /\ Goto(w, "port")
  /\ UNCHANGED <<outcome, polls, passes, routed, cloudVars, chefVars,
                 ignoreFail, exitcode, wg, proc>>

\* GetAddress: the public addresses if there are any, else the private ones,
\* possibly none.  Every goroutine shares the flag this sets.
GetAddress(w, n, p) ==
  /\ n > 0 \/ p
  /\ ips' = [ips EXCEPT ![w] = n]
  /\ private' = IF p THEN private \cup {w} ELSE private
  /\ usePrivate' = (usePrivate \/ p)

\* os.Create of the log file, then the addresses.  Without one the loop body
\* never runs.
OpenLog(w) ==
  /\ At(w, "open")
  /\ \/ /\ Leave(w, "nolog")
        /\ UNCHANGED <<hostVars, cloudVars, chefVars, ignoreFail, exitcode, usePrivate, proc>>
     \/ \E n \in 0..MaxIPs, p \in BOOLEAN :
          /\ GetAddress(w, n, p)
          /\ IF n = 0 THEN Leave(w, "ok")
                      ELSE Goto(w, "port") /\ UNCHANGED <<outcome, wg>>
          /\ UNCHANGED <<polls, passes, routed, cloudVars, chefVars,
                         ignoreFail, exitcode, proc>>

\* checkSSHPort with all its retries.  -ignoreFail is not consulted.
CheckSSHPort(w) ==
  /\ At(w, "port")
  /\ \/ Goto(w, "connect") /\ UNCHANGED outcome
     \/ Goto(w, "reap") /\ outcome' = [outcome EXCEPT ![w] = "unreachable"]
  /\ UNCHANGED <<hostVars, cloudVars, chefVars, procVars>>

\* assertBootstrap on an error: skipped under -ignoreFail, else the host goes.
AssertBootstrap(w, next) ==
  IF ignoreFail THEN Goto(w, next) /\ UNCHANGED outcome
                ELSE /\ Goto(w, "destroy")
                     /\ outcome' = [outcome EXCEPT ![w] = "bootstrap"]

\* ssh.New.  Under -ignoreFail a failure leaves a nil client, on which the
\* first upload panics.
Connect(w) ==
  /\ At(w, "connect")
  /\ \/ /\ \/ Goto(w, "upload") /\ UNCHANGED outcome
           \/ ~ignoreFail /\ AssertBootstrap(w, "upload")
        /\ UNCHANGED <<hostVars, cloudVars, chefVars, procVars>>
     \/ ignoreFail /\ Die("panic")

\* chef.New and the four TransferFile calls.  A lost connection leaves no sftp
\* session, and walking the directory with it panics.
Upload(w) ==
  /\ At(w, "upload")
  /\ \/ /\ \/ Goto(w, "route") /\ UNCHANGED outcome
           \/ AssertBootstrap(w, "route")
        /\ UNCHANGED <<hostVars, cloudVars, chefVars, procVars>>
     \/ Die("panic")

\* configureDefaultGateway, when the shared flag asks for it.
Route(w) ==
  /\ At(w, "route")
  /\ \/ /\ \/ /\ ~usePrivate
              /\ Goto(w, "prepare")
              /\ UNCHANGED <<outcome, routed>>
           \/ /\ usePrivate
              /\ Goto(w, "prepare")
              /\ routed' = routed \cup {w}
              /\ UNCHANGED outcome
           \/ /\ usePrivate
              /\ AssertBootstrap(w, "prepare")
              /\ UNCHANGED routed
        /\ UNCHANGED <<polls, ips, passes, private, cloudVars, chefVars, procVars>>
     \/ usePrivate /\ Die("panic")

\* runCommands up to the first chef-client: `sudo mkdir /etc/chef` fails on a
\* host that has been through here.
Prepare(w) ==
  /\ At(w, "prepare")
  /\ \/ /\ \/ passes[w] = 0 /\ Goto(w, "converge") /\ UNCHANGED outcome
           \/ AssertBootstrap(w, "converge")
        /\ UNCHANGED <<hostVars, cloudVars, chefVars, procVars>>
     \/ Die("panic")

\* Mutant: RunCommandPipe's error is not checked.
ConvergeUnchecked(w) ==
  /\ At(w, "converge")
  /\ \/ /\ chefClient' = chefClient \cup {HostOf[w]}
        /\ chefNode' = chefNode \cup {HostOf[w]}
     \/ UNCHANGED chefVars
  /\ Goto(w, "finish")
  /\ UNCHANGED <<outcome, hostVars, cloudVars, procVars>>

\* chef-client with the validation key: registers the client, then saves the
\* node.  It may fail before, between and after.
Converge(w) ==
  /\ At(w, "converge")
  /\ \/ /\ chefClient' = chefClient \cup {HostOf[w]}
        /\ chefNode' = chefNode \cup {HostOf[w]}
        /\ Goto(w, "finish")
        /\ UNCHANGED <<outcome, hostVars, cloudVars, procVars>>
     \/ /\ \/ UNCHANGED chefVars
           \/ chefClient' = chefClient \cup {HostOf[w]} /\ UNCHANGED chefNode
           \/ /\ chefClient' = chefClient \cup {HostOf[w]}
              /\ chefNode' = chefNode \cup {HostOf[w]}
        /\ AssertBootstrap(w, "finish")
        /\ UNCHANGED <<hostVars, cloudVars, procVars>>
     \/ Die("panic")

\* Mutant: a command that fails is tried again with the whole address.
FinishRetries(w) ==
  /\ At(w, "finish")
  /\ \/ /\ passes' = [passes EXCEPT ![w] = @ + 1]
        /\ IF passes[w] + 1 = ips[w]
           THEN Leave(w, "ok")
           ELSE Goto(w, "port") /\ UNCHANGED <<outcome, wg>>
        /\ UNCHANGED <<polls, ips, private, routed, cloudVars, chefVars,
                       ignoreFail, exitcode, usePrivate, proc>>
     \/ Goto(w, "port") /\ UNCHANGED <<outcome, hostVars, cloudVars, chefVars, procVars>>

\* The commands after it, then the next address or the end of the loop.
Finish(w) ==
  /\ At(w, "finish")
  /\ \/ /\ passes' = [passes EXCEPT ![w] = @ + 1]
        /\ IF passes[w] + 1 = ips[w]
           THEN Leave(w, "ok")
           ELSE Goto(w, "port") /\ UNCHANGED <<outcome, wg>>
        /\ UNCHANGED <<polls, ips, private, routed, cloudVars, chefVars,
                       ignoreFail, exitcode, usePrivate, proc>>
     \/ /\ ~ignoreFail
        /\ AssertBootstrap(w, "finish")
        /\ UNCHANGED <<hostVars, cloudVars, chefVars, procVars>>
     \/ Die("panic")

-----------------------------------------------------------------------------
\* assertBootstrap: DeleteIfError, then CleanupNode, then o.Exitcode = 1.

Destroy(w) ==
  /\ At(w, "destroy")
  /\ DeleteServer(w)
  /\ Goto(w, "getclient")
  /\ UNCHANGED <<outcome, hostVars, chefVars, procVars>>

\* Every return of assertBootstrap on this path sets the code first.
GiveUp(w) ==
  /\ exitcode' = 1
  /\ Leave(w, "bootstrap")

\* isClientExist: any error reads as "no client", and nothing is cleaned up.
GetClient(w) ==
  /\ At(w, "getclient")
  /\ \/ /\ HostOf[w] \in chefClient
        /\ Goto(w, "delclient")
        /\ UNCHANGED <<outcome, exitcode, wg>>
     \/ GiveUp(w)
  /\ UNCHANGED <<hostVars, cloudVars, chefVars, ignoreFail, usePrivate, proc>>

\* deleteChefClient: on an error the node is not even tried.
DelClient(w) ==
  /\ At(w, "delclient")
  /\ \/ /\ chefClient' = chefClient \ {HostOf[w]}
        /\ Goto(w, "delnode")
        /\ UNCHANGED <<outcome, exitcode, wg>>
     \/ GiveUp(w) /\ UNCHANGED chefClient
  /\ UNCHANGED <<chefNode, hostVars, cloudVars, ignoreFail, usePrivate, proc>>

\* deleteChefNode
DelNode(w) ==
  /\ At(w, "delnode")
  /\ chefNode' \in {chefNode, chefNode \ {HostOf[w]}}
  /\ GiveUp(w)
  /\ UNCHANGED <<chefClient, hostVars, cloudVars, ignoreFail, usePrivate, proc>>

-----------------------------------------------------------------------------
\* The goroutine of Init, its main goroutine and the signal handler.

\* Mutant: the failures are added up.
RecordSum(w) ==
  /\ At(w, "returned")
  /\ Goto(w, "end")
  /\ exitcode' = IF outcome[w] = "ok" THEN exitcode ELSE exitcode + 1
  /\ UNCHANGED <<outcome, hostVars, cloudVars, chefVars, ignoreFail, usePrivate, wg, proc>>

\* Mutant: the last goroutine decides.
RecordLast(w) ==
  /\ At(w, "returned")
  /\ Goto(w, "end")
  /\ exitcode' = IF outcome[w] = "ok" THEN 0 ELSE 1
  /\ UNCHANGED <<outcome, hostVars, cloudVars, chefVars, ignoreFail, usePrivate, wg, proc>>

\* `if !o.bootstrapHost(...) { o.Exitcode = 1 }`, after the deferred wg.Done.
Record(w) ==
  /\ At(w, "returned")
  /\ Goto(w, "end")
  /\ exitcode' = IF outcome[w] = "ok" THEN exitcode ELSE 1
  /\ UNCHANGED <<outcome, hostVars, cloudVars, chefVars, ignoreFail, usePrivate, wg, proc>>

\* wg.Wait returns and os.Exit reads the code.
MainExit ==
  /\ proc = "running"
  /\ \A w \in Workers : pc[w] # "idle"
  /\ wg = 0
  /\ proc' = "main"
  /\ UNCHANGED <<workerVars, cloudVars, chefVars, ignoreFail, exitcode, usePrivate, wg>>

\* SIGINT or SIGTERM: Stop exits with 0.
Signal == proc = "running" /\ Die("signal")

\* The status the process ends with.
ExitStatus ==
  CASE proc = "main"   -> exitcode
    [] proc = "signal" -> 0
    [] proc = "fatal"  -> 1
    [] proc = "panic"  -> 2

\* OpenStack builds the server, or fails to.
CloudBuild(w) ==
  /\ proc = "running"
  /\ server[w] = "BUILD"
  /\ server' = [server EXCEPT ![w] = "ACTIVE"] \/ server' = [server EXCEPT ![w] = "ERROR"]
  /\ UNCHANGED <<workerVars, delAsked, keypair, chefVars, procVars>>

Halted == proc # "running" /\ UNCHANGED vars

CreateStep(w) ==
  \/ Spawn(w) \/ Lookup(w)
  \/ ListKeys(w) \/ DropKey(w) \/ NewKey(w)
  \/ CreateServer(w) \/ Info(w) \/ Poll(w) \/ Reap(w)

BootstrapStep(w) ==
  \/ OpenLog(w) \/ CheckSSHPort(w) \/ Connect(w) \/ Upload(w)
  \/ Route(w) \/ Prepare(w) \/ Converge(w) \/ Finish(w)
  \/ Destroy(w) \/ GetClient(w) \/ DelClient(w) \/ DelNode(w)
  \/ Record(w)

Work(w) == CreateStep(w) \/ BootstrapStep(w)

Next ==
  \/ \E w \in Workers : Work(w) \/ CloudBuild(w)
  \/ MainExit
  \/ Signal
  \/ Halted

\* Each remote call answers and each goroutine is scheduled.  Nothing obliges
\* OpenStack to finish building.
Fairness == (\A w \in Workers : WF_vars(Work(w))) /\ WF_vars(MainExit)

Spec == Init /\ [][Next]_vars
FairSpec == Spec /\ Fairness

-----------------------------------------------------------------------------
\* Properties.

\* When the main goroutine ends the process, no bootstrapHost is under way.
NoneUnderWay ==
  proc = "main" => \A w \in Workers : pc[w] \in {"returned", "end"}

\* Once every bootstrapHost has returned, whichever way, the counter is back at
\* zero.
NoneAwaited == (\A w \in Workers : pc[w] \in {"returned", "end"}) => wg = 0

\* wg.Wait waits for every bootstrapHost, and for nothing else: each path
\* through Init and bootstrapHost matches its wg.Add with one wg.Done
\* (nodeup.go:86-101).
WaitIsExact == NoneUnderWay /\ NoneAwaited

\* A failure on record before the exit is in the status, and no goroutine's
\* success takes it back.  One of the bootstrap is on record whatever the
\* scheduler does between wg.Done and the caller, as assertBootstrap sets the
\* code on every path before it returns (nodeup.go:89-93, 310-335).
RecordedFailureReported ==
  (proc = "main" /\ \E w \in Workers :
      \/ outcome[w] = "bootstrap"
      \/ pc[w] = "end" /\ outcome[w] \in Failures) => ExitStatus = 1

\* No other goroutine bootstraps the same hostname.
Unshared(w) == \A v \in Workers : HostOf[v] = HostOf[w] => v = w

\* A host with an address that bootstrapHost calls done is running and is
\* known to the Chef server, even when other goroutines clean up after theirs.
SuccessMeansConverged ==
  \A w \in Workers :
    (outcome[w] = "ok" /\ ips[w] > 0 /\ ~ignoreFail /\ Unshared(w))
      => server[w] = "ACTIVE" /\ HostOf[w] \in chefClient \cap chefNode

\* A host reached over a private address has its default gateway by the time
\* it is done, although the flag that asks for it is shared by all goroutines.
PrivateHostGetsGateway ==
  \A w \in Workers :
    (outcome[w] = "ok" /\ w \in private /\ ips[w] > 0 /\ ~ignoreFail) => w \in routed

\* A server is deleted for a fault, for an unreachable ssh port and for a
\* bootstrap error, and then only: success, a timeout, and a missing log file
\* leave it.  -ignoreFail rules out the third, and only the third, of the
\* three (nodeup.go:104-135, 310-314).
DeletedExactlyOnFault ==
  \A w \in Workers :
    /\ pc[w] \in {"returned", "end"} =>
         (w \in delAsked <=> outcome[w] \in {"fault", "unreachable", "bootstrap"})
    /\ ignoreFail => outcome[w] # "bootstrap"

\* A server is only ever created while the keypair of our name carries our
\* key, however the goroutines' list, delete and create calls interleave.
CreatedWithOurKey ==
  [][\A w \in Workers :
       (server[w] = "none" /\ server'[w] = "BUILD") => keypair = "ours"]_vars

\* The labels before a server is ACTIVE, and those of one address.
Early == {"idle", "lookup", "keys", "dropkey", "newkey", "create",
          "info", "poll"}
Loop == {"port", "connect", "upload", "route", "prepare", "converge", "finish"}

\* The steps a goroutine has left, at most: those before the wait loop, its
\* turns, seven for each address, and those after an error.
StepsLeft(w) ==
  LET l == pc[w]
      within ==
        CASE l = "idle"                       -> 13
          [] l \in {"lookup", "port"}         -> 12
          [] l \in {"keys", "connect"}        -> 11
          [] l \in {"dropkey", "upload"}      -> 10
          [] l \in {"newkey", "route"}        -> 9
          [] l \in {"create", "prepare"}      -> 8
          [] l \in {"info", "converge"}       -> 7
          [] l \in {"poll", "open", "finish"} -> 6
          [] l = "destroy"                    -> 5
          [] l = "getclient"                  -> 4
          [] l = "delclient"                  -> 3
          [] l \in {"delnode", "reap"}        -> 2
          [] l = "returned"                   -> 1
          [] OTHER                            -> 0
      turns == IF l \in Early THEN PollLimit - polls[w] ELSE 0
      addresses ==
        IF l \in Early \cup {"open"} THEN MaxIPs
        ELSE IF l \in Loop THEN ips[w] - passes[w] - 1 ELSE 0
  IN within + turns + 7 * addresses

\* bootstrapHost cannot go on for ever: every step of a goroutine, the turns
\* of its wait loop and of the loop over the addresses included, leaves it
\* fewer steps, and nobody else gives it any (openstack.go:222-255,
\* nodeup.go:120-136).
BoundedWork ==
  [][\A w \in Workers :
       /\ StepsLeft(w)' \in 0 .. StepsLeft(w)
       /\ (Work(w) /\ proc' = "running") => StepsLeft(w)' # StepsLeft(w)]_vars

\* The run ends, whatever OpenStack does with the servers.
Terminates == <>(proc # "running")

\* A run is a batch: see BatchRun.
Verdict ==
  [w \in Workers |-> CASE outcome[w] = "bootstrap"         -> "failed"
                       [] outcome[w] \in {"pending", "ok"} -> outcome[w]
                       [] OTHER                            -> "late"]

Exit ==
  IF proc = "running" THEN "running"
  ELSE IF proc # "main" THEN "aborted"
  ELSE IF exitcode = 0 THEN "clean" ELSE "flagged"

Batch == INSTANCE BatchRun WITH Jobs <- Workers, verdict <- Verdict, exit <- Exit

\* The exit status of a run is that of a batch: 0 only if no recorded failure
\* is swept away, 1 only if there is one.
ImplementsBatchRun == Batch!Spec

\* "Waiting for workers to finish" (nodeup.go:95), then the exit with their
\* code: every failed host should be in it.
FailureReported ==
  (proc = "main" /\ \E w \in Workers : outcome[w] \in Failures) => ExitStatus = 1
=============================================================================
