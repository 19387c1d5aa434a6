------------------------------- MODULE Daemon -------------------------------
(***************************************************************************)
(* The actions of the HTTP daemon on one server: start, stop and chef, and *)
(* the progress entry they share.  echo runs each request in a goroutine   *)
(* of its own, and serverChefRun leaves the chef run to one more.  The     *)
(* entry lives in a cache under the server's id alone, so that entries of  *)
(* different servers never meet and one server is enough here.             *)
(***************************************************************************)
EXTENDS Integers, FiniteSets

CONSTANTS
  ChefRequests,    \* POST /api/servers/:id/chef
  StartRequests,   \* POST /api/servers/:id/start
  StopRequests     \* POST /api/servers/:id/stop

Requests == ChefRequests \cup StartRequests \cup StopRequests

ASSUME DistinctAssumption ==
  /\ ChefRequests \cap StartRequests = {}
  /\ ChefRequests \cap StopRequests = {}
  /\ StartRequests \cap StopRequests = {}

VARIABLES
  req,      \* req[r]: where the handler of request r is
  reply,    \* reply[r]: what it answered
  run,      \* run[r]: where the chef goroutine it spawned is
  entry,    \* the Progress in the cache
  power,    \* the server in OpenStack
  daemon    \* up, or down with a panic or a fatal log line

vars == <<req, reply, run, entry, power, daemon>>

\* 0, 1 and 99 in the code.  type.go:29 documents the last as 100, which no
\* line of the code writes or compares with.
States == {"ok", "error", "inProgress"}

NoEntry == [action |-> "none", state |-> "none"]
ChefMark == [action |-> "chef", state |-> "inProgress"]
Entries == [action : {"chef", "start"}, state : States] \cup {NoEntry}

\* Types: the request, chef run and progress states of rest.go.  busy:
\* "Already running".  refused: the server of a start is ACTIVE.
TypeOK ==
  /\ req \in [Requests -> {"idle", "lookup", "dial", "check", "call", "save", "done"}]
  /\ reply \in [Requests -> {"none", "ok", "busy", "refused", "error"}]
  /\ run \in [Requests -> {"off", "begin", "exec", "done"}]
  /\ entry \in Entries
  /\ power \in {"SHUTOFF", "STARTING", "ACTIVE", "STOPPING"}
  /\ daemon \in {"up", "down"}

Init ==
  /\ req = [r \in Requests |-> "idle"]
  /\ reply = [r \in Requests |-> "none"]
  /\ run = [r \in Requests |-> "off"]
  /\ entry = NoEntry
  /\ power \in {"SHUTOFF", "ACTIVE"}
  /\ daemon = "up"

-----------------------------------------------------------------------------
At(r, l) == daemon = "up" /\ req[r] = l

Goto(r, l) == req' = [req EXCEPT ![r] = l] /\ UNCHANGED reply

Reply(r, answer) ==
  /\ req' = [req EXCEPT ![r] = "done"]
  /\ reply' = [reply EXCEPT ![r] = answer]

\* saveState replaces whatever the server's entry says of any action.
SaveState(action, state) == entry' = [action |-> action, state |-> state]

\* isAlreadyInProgress does not look at the action.
IsAlreadyInProgress == entry.state = "inProgress"

\* serverChefRun: the check.
ChefCheck(r) ==
  /\ At(r, "idle")
  /\ IF IsAlreadyInProgress THEN Reply(r, "busy") ELSE Goto(r, "lookup")
  /\ UNCHANGED <<run, entry, power, daemon>>

\* serverChefRun: the log file, whose error is logged, and GetServer.
ChefLookup(r) ==
  /\ At(r, "lookup")
  /\ Reply(r, "error") \/ Goto(r, "dial")
  /\ UNCHANGED <<run, entry, power, daemon>>

\* Mutant: the run is marked before ssh has got through.
ChefDialMarks(r) ==
  /\ At(r, "dial")
  /\ SaveState("chef", "inProgress")
  /\ \/ Reply(r, "error") /\ UNCHANGED run
     \/ Reply(r, "ok") /\ run' = [run EXCEPT ![r] = "begin"]
  /\ UNCHANGED <<power, daemon>>

\* Mutant: a failure to connect is saved like one of the run.
ChefDialSavesError(r) ==
  /\ At(r, "dial")
  /\ \/ Reply(r, "error") /\ SaveState("chef", "error") /\ UNCHANGED run
     \/ Reply(r, "ok") /\ run' = [run EXCEPT ![r] = "begin"] /\ UNCHANGED entry
  /\ UNCHANGED <<power, daemon>>

\* serverChefRun: ssh to the addresses in turn; the first that answers gets
\* the run, and the request is answered before the run has begun.
ChefDial(r) ==
  /\ At(r, "dial")
  /\ \/ Reply(r, "error") /\ UNCHANGED run
     \/ Reply(r, "ok") /\ run' = [run EXCEPT ![r] = "begin"]
  /\ UNCHANGED <<entry, power, daemon>>

\* The goroutine marks the run.
RunBegin(r) ==
  /\ daemon = "up"
  /\ run[r] = "begin"
  /\ SaveState("chef", "inProgress")
  /\ run' = [run EXCEPT ![r] = "exec"]
  /\ UNCHANGED <<req, reply, power, daemon>>

\* Mutant: the error path returns without saving.
RunFinishSilent(r) ==
  /\ daemon = "up"
  /\ run[r] = "exec"
  /\ SaveState("chef", "ok") \/ UNCHANGED entry
  /\ run' = [run EXCEPT ![r] = "done"]
  /\ UNCHANGED <<req, reply, power, daemon>>

\* RunCommandPipe returns; without a session or a log file it panics.
RunFinish(r) ==
  /\ daemon = "up"
  /\ run[r] = "exec"
  /\ \/ /\ SaveState("chef", "ok") \/ SaveState("chef", "error")
        /\ run' = [run EXCEPT ![r] = "done"]
        /\ UNCHANGED daemon
     \/ daemon' = "down" /\ UNCHANGED <<run, entry>>
  /\ UNCHANGED <<req, reply, power>>

\* startServer: GetServerDetail; a server that is stopping is still ACTIVE.
StartDetail(r) ==
  /\ At(r, "idle")
  /\ \/ Reply(r, "error")
     \/ power \in {"ACTIVE", "STOPPING"} /\ Reply(r, "refused")
     \/ power \in {"SHUTOFF", "STARTING"} /\ Goto(r, "check")
  /\ UNCHANGED <<run, entry, power, daemon>>

\* startServer: both checks read the same entry.
StartCheck(r) ==
  /\ At(r, "check")
  /\ IF IsAlreadyInProgress THEN Reply(r, "busy") ELSE Goto(r, "call")
  /\ UNCHANGED <<run, entry, power, daemon>>

\* startServer: StartServer, which OpenStack accepts of a stopped server only.
StartCall(r) ==
  /\ At(r, "call")
  /\ \/ Reply(r, "error") /\ UNCHANGED power
     \/ power = "SHUTOFF" /\ power' = "STARTING" /\ Goto(r, "save")
  /\ UNCHANGED <<run, entry, daemon>>

\* startServer: the mark, which no one takes back.
StartSave(r) ==
  /\ At(r, "save")
  /\ SaveState("start", "inProgress")
  /\ Reply(r, "ok")
  /\ UNCHANGED <<run, power, daemon>>

\* Mutant: a stop is marked the way a start is.
StopSaves(r) ==
  /\ At(r, "idle")
  /\ \/ Reply(r, "error") /\ UNCHANGED <<power, entry>>
     \/ /\ power = "ACTIVE"
        /\ power' = "STOPPING"
        /\ SaveState("stop", "inProgress")
        /\ Reply(r, "ok")
  /\ UNCHANGED <<run, daemon>>

\* stopServer keeps no progress.
Stop(r) ==
  /\ At(r, "idle")
  /\ \/ Reply(r, "error") /\ UNCHANGED power
     \/ power = "ACTIVE" /\ power' = "STOPPING" /\ Reply(r, "ok")
  /\ UNCHANGED <<run, entry, daemon>>

\* The cache drops the entry 60 minutes after it was saved.
Expire ==
  /\ daemon = "up"
  /\ entry # NoEntry
  /\ entry' = NoEntry
  /\ UNCHANGED <<req, reply, run, power, daemon>>

\* getSortedHypervisorsByCriteria and getHypervisorByCriteria: the one
\* failed listing that ends the process, with all it has under way.
Schedule ==
  /\ daemon = "up"
  /\ daemon' \in {"up", "down"}
  /\ UNCHANGED <<req, reply, run, entry, power>>

\* OpenStack finishes what it accepted.
CloudPower ==
  /\ daemon = "up"
  /\ \/ power = "STARTING" /\ power' = "ACTIVE"
     \/ power = "STOPPING" /\ power' = "SHUTOFF"
  /\ UNCHANGED <<req, reply, run, entry, daemon>>

Idle ==
  /\ daemon = "down" \/ \A r \in Requests : req[r] = "done" /\ run[r] \in {"off", "done"}
  /\ UNCHANGED vars

Handler ==
  \/ \E r \in ChefRequests : ChefCheck(r) \/ ChefLookup(r) \/ ChefDial(r)
  \/ \E r \in StartRequests : StartDetail(r) \/ StartCheck(r) \/ StartCall(r) \/ StartSave(r)
  \/ \E r \in StopRequests : Stop(r)

Next ==
  \/ Handler
  \/ \E r \in ChefRequests : RunBegin(r) \/ RunFinish(r)
  \/ Expire
  \/ Schedule
  \/ CloudPower
  \/ Idle

Spec == Init /\ [][Next]_vars

-----------------------------------------------------------------------------
\* Properties.

\* An entry that says chef is running tells the truth, whatever was saved,
\* overwritten and dropped before: each goroutine of serverChefRun replaces
\* its mark when its chef-client ends (rest.go:250-256).
InProgressIsTrue ==
  entry = ChefMark => \E r \in ChefRequests : run[r] = "exec"

Started == \E r \in StartRequests : reply[r] = "ok"

\* Nobody is told "Already running" but while chef-client does run on the
\* server, or after a start that OpenStack accepted: what failed on its way
\* there, or has ended, refuses nobody (rest.go:163-171, 224-256).
RefusedForCause ==
  [][\A r \in Requests :
       (reply[r] # "busy" /\ reply'[r] = "busy")
         => (\E q \in ChefRequests : run[q] = "exec") \/ Started]_vars

\* A chef run under way has its mark overwritten only by the end of another
\* run, let in beside it, or by the mark of an accepted start; a request that
\* is refused or fails leaves the mark alone (rest.go:224-258, 287-291).
OverwrittenForCause ==
  \A r \in ChefRequests :
    (run[r] = "exec" /\ entry \notin {ChefMark, NoEntry})
      => (\E q \in ChefRequests : run[q] = "done") \/ Started

\* "Already running" (rest.go:225): a second chef run is refused while one
\* is under way.
ChefRunExclusive ==
  \A r, q \in ChefRequests : (run[r] = "exec" /\ run[q] = "exec") => r = q
=============================================================================
