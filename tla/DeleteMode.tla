----------------------------- MODULE DeleteMode -----------------------------
(***************************************************************************)
(* The delete mode: for each name of -deleteNodes, in order, look up the   *)
(* server, delete it, and remove the Chef client and node of that name.    *)
(* No step stops the loop; a failed one is at best remembered in the exit  *)
(* status.  An operator may run the same command again.                    *)
(*                                                                         *)
(* Others create and delete servers meanwhile.  OpenStack never uses an id *)
(* twice, and two servers may carry one name.                              *)
(***************************************************************************)
EXTENDS Integers, Sequences, FiniteSets

CONSTANTS
  Ids,        \* server ids
  NameOf,     \* NameOf[id]: the name the server has, if it ever exists
  Nodes,      \* the names of -deleteNodes, split at the commas
  NoId,       \* the empty id of a failed lookup
  MaxRounds   \* how often the command is run

Names == {Nodes[i] : i \in 1 .. Len(Nodes)}

ASSUME NodesAssumption == Nodes \in Seq(Names) /\ Len(Nodes) > 0
ASSUME IdAssumption == IsFiniteSet(Ids) /\ NoId \notin Ids
ASSUME RoundAssumption == MaxRounds \in Nat \ {0}

VARIABLES
  turn,      \* the entry of Nodes the loop is at
  pc,        \* the next remote call of that turn, or os.Exit after the last
  sid,       \* serverID
  exit,      \* the exit status so far
  failed,    \* the turns of this run in which a deletion failed
  cached,    \* whether IDFromName has a listing in its cache
  listing,   \* that listing
  proc,      \* how the run ended, if it has
  round,     \* which run of the command this is
  alive,     \* the servers that exist
  born,      \* those that ever did
  gone,      \* those this run had deleted
  clients,   \* the Chef clients
  nodes,     \* the Chef nodes
  found,     \* the turns of this run that saw a Chef client
  said,      \* the names this run called deleted from Chef
  unclean    \* whether a node was without its client before the first run, or
             \* an earlier run ended otherwise than with status 0

status == <<exit, failed>>
loop == <<turn, pc, sid, status, proc, round>>
cache == <<cached, listing>>
cloud == <<alive, born, gone>>
chef == <<clients, nodes, found, said>>
vars == <<loop, cache, cloud, chef, unclean>>

Node == Nodes[turn]

\* Types of every variable.
TypeOK ==
  /\ turn \in 1 .. Len(Nodes)
  /\ pc \in {"lookup", "delete", "getclient", "delclient", "delnode", "exit"}
  /\ sid \in Ids \cup {NoId}
  /\ exit \in {0, 1}
  /\ failed \subseteq 1 .. Len(Nodes)
  /\ cached \in BOOLEAN
  /\ listing \subseteq Ids
  /\ proc \in {"running", "clean", "flagged", "killed"}
  /\ round \in 1 .. MaxRounds
  /\ alive \subseteq born /\ born \subseteq Ids
  /\ gone \subseteq born \ alive
  /\ clients \subseteq Names /\ nodes \subseteq Names
  /\ found \subseteq 1 .. Len(Nodes)
  /\ said \subseteq Names
  /\ unclean \in BOOLEAN

\* A name may have a client without a node, or a node without a client, which
\* an earlier run of this command or anybody else left behind.
Init ==
  /\ turn = 1 /\ pc = "lookup" /\ sid = NoId /\ exit = 0 /\ failed = {}
  /\ proc = "running" /\ round = 1
  /\ cached = FALSE /\ listing = {}
  /\ alive \in SUBSET Ids /\ born = alive /\ gone = {}
  /\ clients \in SUBSET Names /\ nodes \in SUBSET Names
  /\ found = {} /\ said = {}
  /\ unclean = ~(nodes \subseteq clients)

-----------------------------------------------------------------------------
At(l) == proc = "running" /\ pc = l

Goto(l) == pc' = l /\ UNCHANGED <<turn, proc>>

\* Mutant: one turn too many.
NextTurnPast ==
  /\ UNCHANGED proc
  /\ IF turn <= Len(Nodes)
       THEN turn' = turn + 1 /\ pc' = "lookup"
       ELSE pc' = "exit" /\ UNCHANGED turn

\* The loop's next turn, or what follows the last.
NextTurn ==
  /\ UNCHANGED proc
  /\ IF turn < Len(Nodes)
       THEN turn' = turn + 1 /\ pc' = "lookup"
       ELSE pc' = "exit" /\ UNCHANGED turn

\* A deletion fails: the exit status remembers it, whichever turn it was.
Fail == exit' = 1 /\ failed' = failed \cup {turn}

\* IDFromName: a name must be in the listing once.
Match(servers) == {id \in servers : NameOf[id] = Node}

\* Mutant: the first match will do.
ResolveAny(servers) ==
  IF Match(servers) # {} THEN CHOOSE id \in Match(servers) : TRUE ELSE NoId

Resolve(servers) ==
  IF Cardinality(Match(servers)) = 1 THEN CHOOSE id \in Match(servers) : TRUE ELSE NoId

\* IDFromName: the listing comes from the cache, or from OpenStack and is
\* then cached; a failed listing is not, and yields no id.
IDFromName ==
  \/ cached /\ sid' = Resolve(listing) /\ UNCHANGED cache
  \/ ~cached /\ sid' = Resolve(alive) /\ cached' = TRUE /\ listing' = alive
  \/ ~cached /\ sid' = NoId /\ UNCHANGED cache

\* Mutant: `exit := 0` inside the loop.
LookupForgets ==
  /\ At("lookup")
  /\ IDFromName
  /\ Goto("delete")
  /\ exit' = 0
  /\ UNCHANGED <<failed, round, cloud, chef, unclean>>

\* The lookup; its error is only logged.
Lookup ==
  /\ At("lookup")
  /\ IDFromName
  /\ Goto("delete")
  /\ UNCHANGED <<status, round, cloud, chef, unclean>>

\* Mutant: a failed lookup skips the deletion, and its error with it.
DeleteServerSkips ==
  /\ At("delete")
  /\ \/ /\ sid \in born
        /\ alive' = alive \ {sid}
        /\ gone' = gone \cup {sid}
        /\ UNCHANGED status
     \/ /\ exit' = (IF sid = NoId THEN exit ELSE 1)
        /\ failed' = failed \cup {turn}
        /\ UNCHANGED <<alive, gone>>
  /\ Goto("getclient")
  /\ UNCHANGED <<sid, round, cache, born, chef, unclean>>

\* DeleteServer.  OpenStack never accepts the empty id, may refuse any
\* request, and may accept one for a server that is already going.
DeleteServer ==
  /\ At("delete")
  /\ \/ /\ sid \in born
        /\ alive' = alive \ {sid}
        /\ gone' = gone \cup {sid}
        /\ UNCHANGED status
     \/ Fail /\ UNCHANGED <<alive, gone>>
  /\ Goto("getclient")
  /\ UNCHANGED <<sid, round, cache, born, chef, unclean>>

\* isClientExist: an error reads as absent, and absent is nothing to do.
GetClient ==
  /\ At("getclient")
  /\ \/ /\ Node \in clients
        /\ found' = found \cup {turn}
        /\ Goto("delclient")
        /\ UNCHANGED said
     \/ /\ said' = said \cup {Node}
        /\ NextTurn
        /\ UNCHANGED found
  /\ UNCHANGED <<status, sid, round, cache, cloud, clients, nodes, unclean>>

\* Mutant: the error of deleteChefClient is dropped.
DelClientSilent ==
  /\ At("delclient")
  /\ \/ clients' = clients \ {Node} /\ Goto("delnode") /\ UNCHANGED status
     \/ NextTurn /\ failed' = failed \cup {turn} /\ UNCHANGED <<exit, clients>>
  /\ UNCHANGED <<sid, round, cache, cloud, nodes, found, said, unclean>>

\* deleteChefClient.
DelClient ==
  /\ At("delclient")
  /\ \/ clients' = clients \ {Node} /\ Goto("delnode") /\ UNCHANGED status
     \/ NextTurn /\ Fail /\ UNCHANGED clients
  /\ UNCHANGED <<sid, round, cache, cloud, nodes, found, said, unclean>>

\* Mutant: the error of deleteChefNode is dropped.
DelNodeSilent ==
  /\ At("delnode")
  /\ \/ nodes' = nodes \ {Node} /\ UNCHANGED failed
     \/ failed' = failed \cup {turn} /\ UNCHANGED nodes
  /\ said' = said \cup {Node}
  /\ NextTurn
  /\ UNCHANGED <<exit, sid, round, cache, cloud, clients, found, unclean>>

\* deleteChefNode; an error leaves the node without its client, and a node
\* that is not there is one.
DelNode ==
  /\ At("delnode")
  /\ NextTurn
  /\ \/ /\ Node \in nodes
        /\ nodes' = nodes \ {Node}
        /\ said' = said \cup {Node}
        /\ UNCHANGED status
     \/ Fail /\ UNCHANGED <<nodes, said>>
  /\ UNCHANGED <<sid, round, cache, cloud, clients, found, unclean>>

\* os.Exit(exit), after the last turn.
Exit ==
  /\ At("exit")
  /\ proc' = IF exit = 0 THEN "clean" ELSE "flagged"
  /\ UNCHANGED <<turn, pc, sid, status, round, cache, cloud, chef, unclean>>

\* SIGINT or SIGTERM: Stop exits with status 0.
Signal ==
  /\ proc = "running"
  /\ proc' = "killed"
  /\ UNCHANGED <<turn, pc, sid, status, round, cache, cloud, chef, unclean>>

\* The listing leaves the cache after ten minutes.
Expire ==
  /\ proc = "running" /\ cached
  /\ cached' = FALSE
  /\ UNCHANGED <<loop, listing, cloud, chef, unclean>>

\* The operator runs the command again, with an empty cache.
Rerun ==
  /\ proc # "running" /\ round < MaxRounds
  /\ round' = round + 1
  /\ turn' = 1 /\ pc' = "lookup" /\ sid' = NoId /\ proc' = "running"
  /\ exit' = 0 /\ failed' = {}
  /\ cached' = FALSE /\ listing' = {}
  /\ gone' = {} /\ found' = {} /\ said' = {}
  /\ unclean' = (unclean \/ proc # "clean")
  /\ UNCHANGED <<alive, born, clients, nodes>>

\* Another user creates a server, or deletes one.
CloudChange ==
  /\ \/ \E id \in Ids \ born : alive' = alive \cup {id} /\ born' = born \cup {id}
     \/ \E id \in alive : alive' = alive \ {id} /\ UNCHANGED born
  /\ UNCHANGED <<loop, cache, gone, chef, unclean>>

Step == Lookup \/ DeleteServer \/ GetClient \/ DelClient \/ DelNode \/ Exit

\* The last run is over.
Halted == proc # "running" /\ UNCHANGED vars

Next == Step \/ Signal \/ Expire \/ Rerun \/ CloudChange \/ Halted

Spec == Init /\ [][Next]_vars

-----------------------------------------------------------------------------
\* A server is deleted only if the listing that named it held no other
\* server of the name on the command line, whatever turns, failed lookups
\* and stale listings came before (openstack.go:454-467, nodeup.go:62-66).
DeletesUnambiguous == [][\A id \in gone' \ gone : Match(listing) = {id}]_vars

\* Status 0 means that a server was deleted for every name: the status
\* remembers a failure of any turn, lookups included (nodeup.go:60-82).
CleanExitDeleted ==
  proc = "clean" => \A i \in 1 .. Len(Nodes) : \E id \in gone : NameOf[id] = Nodes[i]

\* Status 0 also means that every Chef client the run saw is gone, and its
\* node with it (chef.go:140-156, nodeup.go:73-77).
CleanExitCleaned ==
  proc = "clean" => \A i \in found : Nodes[i] \notin clients \cup nodes

\* A node left without its client, which no later run finds again, was
\* reported by the run that left it so: by its exit status, or because that
\* run was killed (chef.go:148-153).
HalfCleanedReported ==
  \A n \in nodes \ clients : (pc = "delnode" /\ Node = n) \/ exit = 1 \/ unclean

\* A run of the command is a batch, see BatchRun: a turn that is over is
\* decided, and each failure is on record before os.Exit.
Verdict ==
  [i \in 1 .. Len(Nodes) |->
     IF i < turn \/ pc = "exit" THEN IF i \in failed THEN "failed" ELSE "ok"
     ELSE "pending"]

BatchExit == IF proc = "killed" THEN "aborted" ELSE proc

Batch == INSTANCE BatchRun
         WITH Jobs <- 1 .. Len(Nodes), verdict <- Verdict, exit <- BatchExit

\* The exit status of every run is that of a batch: a failure of any turn is
\* flagged, and only a failure is; running the command again starts the next
\* batch (nodeup.go:59-83).
ImplementsBatchRun ==
  Batch!Init /\ [][Batch!Next \/ (Rerun /\ Batch!Init')]_(Batch!vars)

\* "successfully deleted from chef" (nodeup.go:79) is said of names that have
\* no client left.  It is not so: isClientExist takes an error for an absent
\* client (chef.go:172).
ReportedGone == said \cap clients = {}
=============================================================================
