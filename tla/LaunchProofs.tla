---------------------------- MODULE LaunchProofs ----------------------------
(***************************************************************************)
(* What holds when a mode begins, for every command line, any strings and  *)
(* any count.                                                              *)
(***************************************************************************)
EXTENDS Launch, TLAPS

USE CountAssumption

\* Past params everything required is there; past createConnect so are the
\* clients.
Checked ==
  /\ proc \notin {"log", "params", "fatal"}
       => Accepted /\ pems = IF EnableChef THEN Files \ unreadable ELSE {}
  /\ proc = "chef" => clients = {"openstack"}
  /\ proc \in {"dispatch", "init", "panic"} \cup Started
       => /\ clients = {"openstack"} \cup (IF ConnectChef THEN {"chef"} ELSE {})
          /\ ConnectChef => "key" \in pems

\* The mode under way is one that was asked for, the first in Run's order.
Entered ==
  /\ proc = "daemon" => "daemon" \in modes
  /\ proc = "migrate" => "migrate" \in modes
  /\ proc \in {"init", "delete", "names", "spawn"}
       => modes \cap {"daemon", "migrate", "rebalance"} = {}
  /\ proc \in {"names", "spawn"} => "delete" \notin modes /\ (count > 1 => IsWildcard)

\* What contains does see: a repeated string under the bare mask.
Named ==
  /\ proc \notin {"names", "spawn"} => draws = <<>>
  /\ proc = "spawn" => Len(draws) = count
  /\ mask = "bare" => \A i, j \in 1..Len(draws) : draws[i] = draws[j] => i = j

IInv == TypeOK /\ Checked /\ Entered /\ Named

LEMMA InitIInv == Init => IInv
BY DEF Init, IInv, TypeOK, Checked, Entered, Named, Flags, Settings, Files, Masks, Started

\* Under the bare mask a string is a name, and contains finds it.
LEMMA DrawNamed ==
  ASSUME TypeOK, Named, Draw PROVE TypeOK' /\ Named'
<1>1. PICK s \in Strings : draws' = IF Drawn(s) THEN draws ELSE Append(draws, s)
  BY DEF Draw
<1>2. UNCHANGED <<modes, given, unreadable, count, mask, proc, pems, clients>>
  BY DEF Draw, commandLine
<1>3. CASE Drawn(s)
  BY <1>1, <1>2, <1>3 DEF TypeOK, Named
<1>4. CASE ~Drawn(s)
  <2>1. /\ draws' = Append(draws, s) /\ Len(draws') = Len(draws) + 1
        /\ draws' \in Seq(Strings)
        /\ \A i \in 1..Len(draws) : draws'[i] = draws[i]
        /\ draws'[Len(draws) + 1] = s
    BY <1>1, <1>4 DEF TypeOK
  <2>2. TypeOK'
    BY <1>2, <2>1 DEF TypeOK, Draw
  <2>3. ASSUME mask = "bare", NEW i \in 1..Len(draws) PROVE draws[i] # s
    BY <1>4, <2>3 DEF Drawn, Names, Name
  <2>4. mask = "bare" => \A i, j \in 1..Len(draws') : draws'[i] = draws'[j] => i = j
    BY <2>1, <2>3 DEF Named, TypeOK
  <2>5. Named'
    BY <1>2, <2>4 DEF Named, Draw
  <2> QED
    BY <2>2, <2>5
<1> QED
  BY <1>3, <1>4

LEMMA StepIInv == IInv /\ [Next]_vars => IInv'
<1> SUFFICES ASSUME IInv, [Next]_vars PROVE IInv'
  OBVIOUS
<1>1. CASE MakeLog \/ Params \/ OpenstackNew \/ NewChefClient
  <2> USE DEF MakeLog, Params, OpenstackNew, NewChefClient
  <2>1. UNCHANGED <<modes, given, unreadable, count, mask, draws>>
    BY <1>1 DEF commandLine
  <2>2. pems' \subseteq Files /\ clients' \subseteq {"openstack", "chef"}
    BY <1>1 DEF IInv, TypeOK
  <2>3. /\ proc \in {"log", "params", "openstack", "chef"}
        /\ proc' \in {"params", "openstack", "chef", "dispatch", "fatal"}
    BY <1>1
  <2>4. (Accepted' <=> Accepted) /\ (EnableChef' <=> EnableChef) /\ (ConnectChef' <=> ConnectChef)
    BY <2>1 DEF Accepted, Required, CreatesHosts, EnableChef, ConnectChef
  <2>5. Checked'
    BY <1>1, <2>1, <2>4 DEF IInv, Checked, Started
  <2> HIDE DEF MakeLog, Params, OpenstackNew, NewChefClient
  <2>6. TypeOK'
    BY <2>1, <2>2, <2>3 DEF IInv, TypeOK
  <2>7. Entered' /\ Named'
    BY <2>1, <2>3 DEF IInv, Entered, Named
  <2> QED
    BY <2>5, <2>6, <2>7 DEF IInv
<1>2. CASE Dispatch \/ InitMode \/ Spawn
  <2>1. UNCHANGED <<modes, given, unreadable, count, mask, pems, clients, draws>>
    BY <1>2 DEF Dispatch, InitMode, Spawn, commandLine
  <2>2. TypeOK' /\ Named'
    BY <1>2, <2>1 DEF IInv, TypeOK, Named, Dispatch, InitMode, Spawn, Started
  <2>3. Entered'
    BY <1>2, <2>1 DEF IInv, Entered, Dispatch, InitMode, Spawn, IsWildcard
  <2>4. Checked'
    BY <1>2, <2>1 DEF IInv, Checked, Dispatch, InitMode, Spawn, Started, Accepted, Required,
                      CreatesHosts, EnableChef, ConnectChef
  <2> QED
    BY <2>2, <2>3, <2>4 DEF IInv
<1>3. CASE Draw
  <2>1. UNCHANGED <<modes, given, unreadable, count, mask, proc, pems, clients>>
    BY <1>3 DEF Draw, commandLine
  <2>2. Checked' /\ Entered'
    BY <2>1 DEF IInv, Checked, Entered, Accepted, Required, CreatesHosts, EnableChef,
                ConnectChef, IsWildcard
  <2> QED
    BY <1>3, <2>2, DrawNamed DEF IInv
<1>4. CASE UNCHANGED vars
  BY <1>4 DEF vars, commandLine, IInv, TypeOK, Checked, Entered, Named, Accepted, Required,
              CreatesHosts, EnableChef, ConnectChef, IsWildcard
<1> QED
  BY <1>1, <1>2, <1>3, <1>4 DEF Next, Idle

LEMMA AlwaysIInv == Spec => []IInv
BY InitIInv, StepIInv, PTL DEF Spec

\* The launch keeps its types, and the generator never makes more names than
\* a count that is not negative (nodeup.go:213-225).
THEOREM TypeCorrect == Spec => []TypeOK
BY AlwaysIInv, PTL DEF IInv

\* Whatever modes are asked for together, the one that runs has its clients,
\* and the daemon and the create mode their settings (cmd.go:83-101, 150-285,
\* nodeup.go:73); the migrate mode may be without its own, see TargetGiven.
THEOREM ModeIsReady == Spec => []ModeReady
<1>1. IInv => ClientsReady
  BY DEF IInv, Checked, Entered, ClientsReady, Started, ConnectChef
<1>2. IInv => SettingsReady
  <2> SUFFICES ASSUME IInv PROVE SettingsReady
    OBVIOUS
  <2>1. CASE proc \in {"names", "spawn"}
    <3>1. EnableChef /\ CreatesHosts /\ Accepted /\ pems = Files \ unreadable
      BY <2>1 DEF IInv, Checked, Entered, EnableChef, CreatesHosts
    <3> QED
      BY <2>1, <3>1 DEF SettingsReady, Accepted, Required, Files
  <2>2. CASE proc = "daemon"
    BY <2>2 DEF IInv, Checked, Entered, SettingsReady, Accepted, Required, EnableChef
  <2>3. CASE proc \notin {"names", "spawn", "daemon"}
    BY <2>3 DEF SettingsReady
  <2> QED
    BY <2>1, <2>2, <2>3
<1> QED
  BY <1>1, <1>2, AlwaysIInv, PTL DEF ModeReady

\* The number of hosts started is -count, and positive (cmd.go:214,
\* nodeup.go:214).
THEOREM CountKept == Spec => []AsManyAsAsked
<1>1. IInv => AsManyAsAsked
  <2> SUFFICES ASSUME IInv, proc = "spawn" PROVE Len(draws) = count /\ count >= 1
    BY DEF AsManyAsAsked
  <2>1. Len(draws) = count /\ Len(draws) \in Nat
    BY DEF IInv, Named, TypeOK
  <2>2. Accepted /\ CreatesHosts
    BY DEF IInv, Checked, Entered, CreatesHosts, EnableChef
  <2> QED
    BY <2>1, <2>2 DEF Accepted
<1> QED
  BY <1>1, AlwaysIInv, PTL

\* The generator misses a repeated name only under a mask with more to it
\* than the asterisk (nodeup.go:221).
THEOREM TwinsRedrawn == Spec => []TwinsOnlyRedrawn
<1>1. IInv => TwinsOnlyRedrawn
  <2> SUFFICES ASSUME IInv, proc = "spawn",
                      NEW i \in 1..Len(draws), NEW j \in 1..Len(draws), i # j,
                      Names[i] = Names[j]
               PROVE  mask = "wild" /\ draws[i] = draws[j]
    BY DEF TwinsOnlyRedrawn
  <2>1. Name(draws[i]) = Name(draws[j])
    BY DEF Names
  <2>2. CASE mask = "bare"
    BY <2>1, <2>2 DEF Name, IInv, Named
  <2>3. CASE mask = "wild"
    BY <2>1, <2>3 DEF Name
  <2>4. mask # "fixed"
    BY DEF IInv, TypeOK, Named, Entered, IsWildcard
  <2> QED
    BY <2>2, <2>3, <2>4 DEF IInv, TypeOK, Masks
<1> QED
  BY <1>1, AlwaysIInv, PTL
=============================================================================
