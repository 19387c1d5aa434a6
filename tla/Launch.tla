------------------------------- MODULE Launch -------------------------------
(***************************************************************************)
(* From the command line to the first goroutine: params checks what was    *)
(* given, createConnect connects, Run enters one mode, and the create mode *)
(* makes up its host names.  What is required depends on the mode in       *)
(* conditions spread over three functions and written twice, and several   *)
(* modes may be asked for at once.                                         *)
(***************************************************************************)
EXTENDS Integers, Sequences

CONSTANTS
  Strings,    \* what the password generator returns
  Counts,     \* values of -count
  MaxNames    \* bound of the generator's loop in the model

ASSUME CountAssumption == Counts \subseteq Int /\ MaxNames \in Nat

Flags == {"daemon", "migrate", "rebalance", "delete"}

\* Settings that are required together: the Chef server's, those of a host
\* to create, the public key, where to migrate what, the OpenStack account,
\* and the project.
Settings == {"chef", "host", "pubkey", "target", "account", "project"}

Files == {"validation", "key", "pubkey"}

\* A -name that is "*", that contains one, that contains none.
Masks == {"bare", "wild", "fixed"}

VARIABLES
  modes,      \* the modes asked for, "delete" by a -deleteNodes
  given,      \* the settings that are there
  unreadable, \* the files that cannot be read
  count,      \* -count
  mask,       \* -name
  proc,       \* where the process is
  pems,       \* the files it has the content of
  clients,    \* the clients it has made
  draws       \* the random parts of the names so far

commandLine == <<modes, given, unreadable, count, mask>>
vars == <<commandLine, proc, pems, clients, draws>>

Started == {"daemon", "migrate", "rebalance", "delete", "names", "spawn"}

\* Types; of the names there are never more than asked for.
TypeOK ==
  /\ modes \subseteq Flags /\ given \subseteq Settings /\ unreadable \subseteq Files
  /\ count \in Counts /\ mask \in Masks
  /\ proc \in {"log", "params", "openstack", "chef", "dispatch", "init", "fatal", "panic"} \cup Started
  /\ pems \subseteq Files
  /\ clients \subseteq {"openstack", "chef"}
  /\ draws \in Seq(Strings)
  /\ Len(draws) <= MaxNames
  /\ count >= 0 => Len(draws) <= count

Init ==
  /\ modes \in SUBSET Flags /\ given \in SUBSET Settings /\ unreadable \in SUBSET Files
  /\ count \in Counts /\ mask \in Masks
  /\ proc = "log"
  /\ pems = {} /\ clients = {} /\ draws = <<>>

-----------------------------------------------------------------------------
\* params: Chef's settings are wanted unless hosts are only moved.
EnableChef == modes \cap {"migrate", "rebalance"} = {}

\* Neither the delete mode nor the daemon creates a host.
CreatesHosts == EnableChef /\ modes \cap {"delete", "daemon"} = {}

\* Mutant: the project is asked for only when nothing but the daemon is.
RequiredLax ==
  UNION {
    {"account"},
    IF EnableChef THEN {"chef", "pubkey"} ELSE {},
    IF CreatesHosts THEN {"host"} ELSE {},
    IF ~EnableChef /\ "rebalance" \notin modes THEN {"target"} ELSE {},
    IF modes = {"daemon"} THEN {"project"} ELSE {} }

\* What params refuses to do without.
Required ==
  UNION {
    {"account"},
    IF EnableChef THEN {"chef", "pubkey"} ELSE {},
    IF CreatesHosts THEN {"host"} ELSE {},
    IF ~EnableChef /\ "rebalance" \notin modes THEN {"target"} ELSE {},
    IF "daemon" \in modes THEN {"project"} ELSE {} }

\* Mutant: the count is not looked at.
AcceptedUncounted ==
  /\ Required \subseteq given
  /\ EnableChef => "pubkey" \notin unreadable

\* An unreadable public key is fatal; the other two files only leave an
\* error in the log.
Accepted ==
  /\ Required \subseteq given
  /\ CreatesHosts => count # 0
  /\ EnableChef => "pubkey" \notin unreadable

\* makeLog: an unknown LOG_TYPE is fatal.
MakeLog ==
  /\ proc = "log"
  /\ proc' \in {"params", "fatal"}
  /\ UNCHANGED <<commandLine, pems, clients, draws>>

\* params fails for want of something, or of a current user.
Params ==
  /\ proc = "params"
  /\ \/ proc' = "fatal" /\ UNCHANGED pems
     \/ /\ Accepted
        /\ proc' = "openstack"
        /\ pems' = IF EnableChef THEN Files \ unreadable ELSE {}
  /\ UNCHANGED <<commandLine, clients, draws>>

\* createConnect: openstack.New ends the process if it gets no client.
OpenstackNew ==
  /\ proc = "openstack"
  /\ \/ proc' = "fatal" /\ UNCHANGED clients
     \/ proc' = "chef" /\ clients' = {"openstack"}
  /\ UNCHANGED <<commandLine, pems, draws>>

\* createConnect decides about Chef once more.
ConnectChef == modes \cap {"migrate", "rebalance"} = {}

\* createConnect: NewChefClient, which fails without a proper key.
NewChefClient ==
  /\ proc = "chef"
  /\ \/ ~ConnectChef /\ proc' = "dispatch" /\ UNCHANGED clients
     \/ ConnectChef /\ proc' = "fatal" /\ UNCHANGED clients
     \/ /\ ConnectChef /\ "key" \in pems
        /\ clients' = clients \cup {"chef"}
        /\ proc' = "dispatch"
  /\ UNCHANGED <<commandLine, pems, draws>>

\* Run: the first mode that was asked for never comes back.
Dispatch ==
  /\ proc = "dispatch"
  /\ proc' = IF "daemon" \in modes THEN "daemon"
             ELSE IF "migrate" \in modes THEN "migrate"
             ELSE IF "rebalance" \in modes THEN "rebalance" ELSE "init"
  /\ UNCHANGED <<commandLine, pems, clients, draws>>

IsWildcard == mask \in {"bare", "wild"}

\* Mutant: several hosts of one fixed name go ahead.
InitModeUnchecked ==
  /\ proc = "init"
  /\ proc' = IF "delete" \in modes THEN "delete" ELSE "names"
  /\ UNCHANGED <<commandLine, pems, clients, draws>>

\* NodeUP.Init up to the delete loop or the generator.
InitMode ==
  /\ proc = "init"
  /\ proc' = IF count > 1 /\ ~IsWildcard THEN "panic"
             ELSE IF "delete" \in modes THEN "delete" ELSE "names"
  /\ UNCHANGED <<commandLine, pems, clients, draws>>

\* A name as the sequence of its parts.
Name(s) ==
  CASE mask = "bare" -> <<s>>
    [] mask = "wild" -> <<"mask", s>>
    [] mask = "fixed" -> <<"mask">>

Names == [i \in 1..Len(draws) |-> Name(draws[i])]

\* contains looks for the random part among the whole names.
Drawn(s) == \E i \in 1..Len(draws) : Names[i] = <<s>>

\* Mutant: a turn is made without asking whether the count is reached.
DrawOn ==
  /\ proc = "names"
  /\ Len(draws) < MaxNames
  /\ \E s \in Strings : draws' = IF Drawn(s) THEN draws ELSE Append(draws, s)
  /\ UNCHANGED <<commandLine, proc, pems, clients>>

\* One turn of the generator.
Draw ==
  /\ proc = "names"
  /\ Len(draws) # count /\ Len(draws) < MaxNames
  /\ \E s \in Strings : draws' = IF Drawn(s) THEN draws ELSE Append(draws, s)
  /\ UNCHANGED <<commandLine, proc, pems, clients>>

\* i == count: Init starts a goroutine for every name.
Spawn ==
  /\ proc = "names"
  /\ Len(draws) = count
  /\ proc' = "spawn"
  /\ UNCHANGED <<commandLine, pems, clients, draws>>

\* A mode is under way, the process has ended, or the bound is reached.
Idle ==
  /\ proc \in (Started \ {"names"}) \cup {"fatal", "panic"} \/ Len(draws) = MaxNames
  /\ UNCHANGED vars

Next ==
  \/ MakeLog \/ Params \/ OpenstackNew \/ NewChefClient \/ Dispatch \/ InitMode
  \/ Draw \/ Spawn
  \/ Idle

Spec == Init /\ [][Next]_vars

-----------------------------------------------------------------------------
\* Properties.

\* No mode meets a client that was not made: params, createConnect and Run
\* agree about who needs which, in every combination of modes (nodeup.go:73
\* and 90 use Chef, everything uses OpenStack).
ClientsReady ==
  /\ proc \in Started => "openstack" \in clients
  /\ proc \in {"delete", "names", "spawn"} => "chef" \in clients /\ "key" \in pems

\* No mode that creates hosts, and no daemon, begins without its settings,
\* whatever other modes were asked for (cmd.go:210-238, 276-279).
SettingsReady ==
  /\ proc \in {"names", "spawn"} => {"host", "pubkey", "chef"} \subseteq given
  /\ proc \in {"names", "spawn"} => "pubkey" \in pems
  /\ proc = "daemon" => "project" \in given

\* Whatever modes are asked for together, the one that runs finds its clients,
\* and the daemon and the create mode their settings: params, createConnect
\* and Run agree (cmd.go:83-101, 150-285).  The settings of the migrate mode
\* are TargetGiven's.
ModeReady == ClientsReady /\ SettingsReady

\* "Please provide -hosts string", "Please provide -hypervisor string"
\* (cmd.go:242, 246): the migrate mode has been given what to migrate where.
TargetGiven == proc = "migrate" => "target" \in given

\* Goroutines are started for as many hosts as -count says, at least one: a
\* count of zero is refused in params, and a negative one never gets through
\* the generator (cmd.go:214, nodeup.go:214).
AsManyAsAsked == proc = "spawn" => Len(draws) = count /\ count >= 1

\* Two hosts of one run get one name only if the generator drew one string
\* twice for a mask with more to it than the asterisk (nodeup.go:221).
TwinsOnlyRedrawn ==
  proc = "spawn" =>
    \A i, j \in 1..Len(draws) :
      (i # j /\ Names[i] = Names[j]) => mask = "wild" /\ draws[i] = draws[j]
=============================================================================
