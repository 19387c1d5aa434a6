--------------------------- MODULE RebalancePlan ---------------------------
(***************************************************************************)
(* The rebalance mode: from one listing of the servers whose names match   *)
(* -hosts, how many each hypervisor should hold, which servers go where,   *)
(* and their migration one after the other.  What happens inside           *)
(* MigrateHost is module Migration; here it is its effect.  With no server *)
(* listed the run is over before it begins: here there is one at least.    *)
(*                                                                         *)
(* Servers are numbered in the order of the listing.  Go's map iteration   *)
(* and unstable sort leave the order of hypervisors open.                  *)
(***************************************************************************)
EXTENDS Integers, FiniteSets, Functions

CONSTANTS
  N,             \* the number of servers listed
  Hypervisors,
  Placements,    \* where the servers may be found
  Namings        \* and how they may be named

Listing == 1 .. N

ASSUME CountAssumption == N \in Nat \ {0} /\ IsFiniteSet(Hypervisors)
ASSUME PlacementAssumption == Placements \subseteq [Listing -> Hypervisors]
ASSUME NamingAssumption == Namings \subseteq [Listing -> Listing]

VARIABLES
  start,     \* start[s]: the hypervisor server s was listed on
  name,      \* name[s]: its name
  at,        \* at[s]: the hypervisor it is on now
  pc,        \* planning, or carrying out the plan
  plan,      \* the plan, by name
  todo,      \* the names of the plan not yet dealt with
  exit,      \* the exit status so far
  proc       \* how the run ended, if it has

vars == <<start, name, at, pc, plan, todo, exit, proc>>

Load(placement, h) == Cardinality({s \in Listing : placement[s] = h})

\* Types of every variable; the plan is a map from some of the names.
TypeOK ==
  /\ start \in [Listing -> Hypervisors] /\ name \in [Listing -> Listing]
  /\ at \in [Listing -> Hypervisors]
  /\ pc \in {"plan", "run"}
  /\ DOMAIN plan \subseteq Listing
  /\ \A n \in DOMAIN plan : plan[n] \in Hypervisors
  /\ todo \subseteq DOMAIN plan
  /\ exit \in {0, 1}
  /\ proc \in {"running", "clean", "flagged", "fatal", "killed"}

Init ==
  /\ start \in Placements /\ name \in Namings /\ at = start
  /\ pc = "plan" /\ plan = <<>> /\ todo = {}
  /\ exit = 0 /\ proc = "running"

-----------------------------------------------------------------------------
\* GetServers or a GetServerDetail fails: the run ends before it has a plan.
ListFails ==
  /\ proc = "running" /\ pc = "plan"
  /\ proc' = "fatal"
  /\ UNCHANGED <<start, name, at, pc, plan, todo, exit>>

\* calculateUsage: a hypervisor is known by the servers it holds.
Used == {start[s] : s \in Listing}

\* Mutant: rounded down.
BestWedthDown == N \div Cardinality(Used)

\* calculateBestWedth: the average, rounded up.
BestWedth ==
  LET count == N \div Cardinality(Used)
  IN  IF count * Cardinality(Used) = N THEN count ELSE count + 1

\* vmByHypervisor[h] lists the servers of h as the listing does; which one is s?
Turn(s) == Cardinality({t \in Listing : start[t] = start[s] /\ t <= s})

\* Mutant: one more than it has too many.
LeavingOneMore == {s \in Listing : Turn(s) <= Load(start, start[s]) - BestWedth + 1}

\* findMigration: the first servers of a hypervisor that has too many.
Leaving == {s \in Listing : Turn(s) <= Load(start, start[s]) - BestWedth}

\* calculateMigration: a place for each server a hypervisor has too few.
Rooms == {r \in Used \X (1 .. BestWedth) : r[2] > Load(start, r[1])}

\* Equal elements of a sequence stand together.
InBlocks(seq) ==
  \A i, j, k \in DOMAIN seq : i < j /\ j < k /\ seq[i] = seq[k] => seq[j] = seq[i]

\* migrateVMList: hypervisor by hypervisor in the order of a map, that is in
\* any order, and of each the servers as they were listed.
MigrateVMLists ==
  {vms \in Bijection(1 .. Cardinality(Leaving), Leaving) :
     /\ InBlocks([j \in DOMAIN vms |-> start[vms[j]]])
     /\ \A i, j \in DOMAIN vms :
          i < j /\ start[vms[i]] = start[vms[j]] => vms[i] < vms[j]}

\* migrateTo, place by place: hypervisor by hypervisor as sort.Sort(HSorted)
\* left them, descending, with equals in any order.
PlaceLists ==
  {places \in Bijection(1 .. Cardinality(Rooms), Rooms) :
     /\ InBlocks([j \in DOMAIN places |-> places[j][1]])
     /\ \A i, j \in DOMAIN places :
          i < j => Load(start, places[i][1]) >= Load(start, places[j][1])}

\* findMigration: the j-th server takes the j-th place while there are both;
\* the plan is a map, so the last server of a name decides.
Pairs(vms, places) == DOMAIN vms \cap DOMAIN places

Latest(vms, places, n) ==
  CHOOSE j \in Pairs(vms, places) :
    /\ name[vms[j]] = n
    /\ \A k \in Pairs(vms, places) : name[vms[k]] = n => k <= j

Plan(vms, places) ==
  [n \in {name[vms[j]] : j \in Pairs(vms, places)} |-> places[Latest(vms, places, n)][1]]

\* The plan is made without a remote call.  With nothing to migrate the
\* process exits.
FindMigration ==
  /\ proc = "running" /\ pc = "plan"
  /\ pc' = "run"
  /\ \E vms \in MigrateVMLists, places \in PlaceLists : plan' = Plan(vms, places)
  /\ todo' = DOMAIN plan'
  /\ proc' = (IF Leaving = {} THEN "clean" ELSE "running")
  /\ UNCHANGED <<start, name, at, exit>>

Bearers(n) == {s \in Listing : name[s] = n}

\* Mutant: the exit code counts failures.
MigrateCounting(n) ==
  /\ proc = "running" /\ pc = "run" /\ n \in todo
  /\ Cardinality(Bearers(n)) = 1
  /\ \E s \in Bearers(n) : at' = [at EXCEPT ![s] = plan[n]] \/ UNCHANGED at
  /\ exit' \in {exit, exit + 1}
  /\ todo' = todo \ {n}
  /\ UNCHANGED <<start, name, pc, plan, proc>>

\* One turn of rebalance's loop.  A name two servers carry, or a lookup that
\* fails, is fatal.  MigrateHost may report success although the server has
\* stayed, or failure although it moves.
Migrate(n) ==
  /\ proc = "running" /\ pc = "run" /\ n \in todo
  /\ \/ /\ Cardinality(Bearers(n)) = 1
        /\ \E s \in Bearers(n) : at' = [at EXCEPT ![s] = plan[n]] \/ UNCHANGED at
        /\ exit' \in {exit, 1}
        /\ todo' = todo \ {n}
        /\ UNCHANGED proc
     \/ proc' = "fatal" /\ UNCHANGED <<at, exit, todo>>
  /\ UNCHANGED <<start, name, pc, plan>>

\* wg.Wait and os.Exit.
MainExit ==
  /\ proc = "running" /\ pc = "run" /\ todo = {}
  /\ proc' = (IF exit = 0 THEN "clean" ELSE "flagged")
  /\ UNCHANGED <<start, name, at, pc, plan, todo, exit>>

\* SIGINT or SIGTERM.
Signal ==
  /\ proc = "running"
  /\ proc' = "killed"
  /\ UNCHANGED <<start, name, at, pc, plan, todo, exit>>

Halted == proc # "running" /\ UNCHANGED vars

Next ==
  \/ ListFails
  \/ FindMigration
  \/ \E n \in todo : Migrate(n)
  \/ MainExit
  \/ Signal
  \/ Halted

Spec == Init /\ [][Next]_vars

-----------------------------------------------------------------------------
\* Wherever a rebalance stops, it has not made things worse: every move
\* leaves a hypervisor with more than its share for one that has room, in
\* whatever order and with whatever failures (rebalance.go:105-181).
MovesHelp ==
  [][\A s \in Listing : at'[s] # at[s] =>
       /\ Load(at, at[s]) > BestWedth
       /\ Load(at', at'[s]) <= BestWedth]_vars

\* A plan whose migrations all took place leaves no hypervisor with more than
\* the least even share, if no two servers have one name
\* (rebalance.go:96-162).
Share(t) == t * Cardinality(Used) >= N

Balanced ==
  /\ proc \in {"clean", "flagged"}
  /\ \A s, t \in Listing : name[s] = name[t] => s = t
  /\ \A n \in DOMAIN plan : \A s \in Bearers(n) : at[s] = plan[n]
  => \A h \in Hypervisors, t \in 1 .. N : Share(t) => Load(at, h) <= t
=============================================================================
