---------------------------- MODULE DaemonProofs ----------------------------
(***************************************************************************)
(* What the daemon's progress entry promises, for any number of requests,  *)
(* and what its choice of a hypervisor is, for any listing.                *)
(***************************************************************************)
EXTENDS Daemon, Placement, TLAPS

\* A request that was answered, or has its chef run, is over: nothing touches
\* its answer or its run's beginning again.
Answered ==
  /\ \A r \in ChefRequests : run[r] # "off" => req[r] = "done"
  /\ \A r \in StartRequests : reply[r] # "none" => req[r] = "done"

\* Every entry but a chef mark, which InProgressIsTrue is about, has its cause:
\* a result the run that ended with it, a start's the start.
Caused ==
  /\ (entry.action = "chef" /\ entry.state # "inProgress")
       => \E q \in ChefRequests : run[q] = "done"
  /\ entry.action = "start" => Started

IInv == TypeOK /\ Answered /\ InProgressIsTrue /\ Caused

LEMMA InitIInv == Init => IInv
BY DEF Init, IInv, TypeOK, Answered, InProgressIsTrue, Caused, Requests, Entries, NoEntry, ChefMark

LEMMA TypeStep == TypeOK /\ [Next]_vars => TypeOK'
<1> SUFFICES ASSUME TypeOK, [Next]_vars PROVE TypeOK'
  OBVIOUS
<1> USE DEF TypeOK, Requests, States, Entries
<1>1. ASSUME NEW r \in ChefRequests, ChefCheck(r) \/ ChefLookup(r) \/ ChefDial(r) PROVE TypeOK'
  BY <1>1 DEF ChefCheck, ChefLookup, ChefDial, At, Goto, Reply
<1>2. ASSUME NEW r \in ChefRequests, RunBegin(r) \/ RunFinish(r) PROVE TypeOK'
  BY <1>2 DEF RunBegin, RunFinish, SaveState
<1>3. ASSUME NEW r \in StartRequests, StartDetail(r) \/ StartCheck(r) \/ StartCall(r)
      PROVE  TypeOK'
  BY <1>3 DEF StartDetail, StartCheck, StartCall, At, Goto, Reply
<1>4. ASSUME NEW r \in StartRequests, StartSave(r) PROVE TypeOK'
  BY <1>4 DEF StartSave, SaveState, At, Reply
<1>5. ASSUME NEW r \in StopRequests, Stop(r) PROVE TypeOK'
  BY <1>5 DEF Stop, At, Reply
<1>6. CASE Expire \/ Schedule \/ CloudPower
  BY <1>6 DEF Expire, Schedule, CloudPower
<1>7. CASE UNCHANGED vars
  BY <1>7 DEF vars
<1> QED
  BY <1>1, <1>2, <1>3, <1>4, <1>5, <1>6, <1>7 DEF Next, Handler, Idle

LEMMA StepIInv == IInv /\ [Next]_vars => IInv'
<1> SUFFICES ASSUME IInv, [Next]_vars PROVE (Answered /\ InProgressIsTrue /\ Caused)'
  BY TypeStep DEF IInv
<1> USE DEF IInv, TypeOK, Answered, InProgressIsTrue, Caused, Started, Requests, NoEntry, ChefMark
<1> USE DistinctAssumption
<1>1. ASSUME NEW r \in ChefRequests, ChefCheck(r) \/ ChefLookup(r)
      PROVE  (Answered /\ InProgressIsTrue /\ Caused)'
  BY <1>1 DEF ChefCheck, ChefLookup, At, Goto, Reply
<1>2. ASSUME NEW r \in ChefRequests, ChefDial(r)
      PROVE  (Answered /\ InProgressIsTrue /\ Caused)'
  BY <1>2 DEF ChefDial, At, Reply
<1>3. ASSUME NEW r \in ChefRequests, RunBegin(r)
      PROVE  (Answered /\ InProgressIsTrue /\ Caused)'
  BY <1>3 DEF RunBegin, SaveState
<1>4. ASSUME NEW r \in ChefRequests, RunFinish(r)
      PROVE  (Answered /\ InProgressIsTrue /\ Caused)'
  BY <1>4 DEF RunFinish, SaveState
<1>5. ASSUME NEW r \in StartRequests,
             StartDetail(r) \/ StartCheck(r) \/ StartCall(r)
      PROVE  (Answered /\ InProgressIsTrue /\ Caused)'
  BY <1>5 DEF StartDetail, StartCheck, StartCall, At, Goto, Reply
<1>6. ASSUME NEW r \in StartRequests, StartSave(r)
      PROVE  (Answered /\ InProgressIsTrue /\ Caused)'
  BY <1>6 DEF StartSave, SaveState, At, Reply
<1>7. ASSUME NEW r \in StopRequests, Stop(r)
      PROVE  (Answered /\ InProgressIsTrue /\ Caused)'
  BY <1>7 DEF Stop, At, Reply
<1>8. CASE Expire \/ Schedule \/ CloudPower
  BY <1>8 DEF Expire, Schedule, CloudPower
<1>9. CASE UNCHANGED vars
  BY <1>9 DEF vars
<1> QED
  BY <1>1, <1>2, <1>3, <1>4, <1>5, <1>6, <1>7, <1>8, <1>9 DEF Next, Handler, Idle

LEMMA AlwaysIInv == Spec => []IInv
BY InitIInv, StepIInv, PTL DEF Spec

\* The progress entry and every handler's position keep their types
\* (rest.go:284-325).
THEOREM TypeCorrect == Spec => []TypeOK
BY AlwaysIInv, PTL DEF IInv

\* GET /api/servers/:id/action never reports a chef run that has ended as
\* still in progress, however many requests raced (rest.go:249-257).
THEOREM ProgressTruthful == Spec => []InProgressIsTrue
BY AlwaysIInv, PTL DEF IInv

\* However the requests of a server interleave, one is answered "Already
\* running" only while chef-client runs or after an accepted start
\* (rest.go:163-171, 224-256).
THEOREM RefusalsCaused == Spec => RefusedForCause
<1> DEFINE Cause == (\E q \in ChefRequests : run[q] = "exec") \/ Started
<1>1. IInv /\ IsAlreadyInProgress => Cause
  BY DEF IInv, TypeOK, Entries, NoEntry, ChefMark, InProgressIsTrue, Caused, IsAlreadyInProgress
<1>2. ASSUME IInv, Next, NEW r \in Requests, reply[r] # "busy", reply'[r] = "busy"
      PROVE  IsAlreadyInProgress
  <2> USE <1>2 DEF IInv, TypeOK, Requests, At, Goto, Reply
  <2>1. ASSUME NEW q \in ChefRequests, ChefCheck(q) \/ ChefLookup(q) \/ ChefDial(q)
        PROVE  IsAlreadyInProgress
    BY <2>1 DEF ChefCheck, ChefLookup, ChefDial
  <2>2. ASSUME NEW q \in StartRequests,
               StartDetail(q) \/ StartCheck(q) \/ StartCall(q) \/ StartSave(q)
        PROVE  IsAlreadyInProgress
    BY <2>2 DEF StartDetail, StartCheck, StartCall, StartSave
  <2>3. ASSUME NEW q \in StopRequests, Stop(q) PROVE IsAlreadyInProgress
    BY <2>3 DEF Stop
  <2>4. CASE reply' = reply
    BY <2>4
  <2> QED
    BY <2>1, <2>2, <2>3, <2>4
    DEF Next, Handler, RunBegin, RunFinish, Expire, Schedule, CloudPower, Idle, vars
<1>3. IInv /\ [Next]_vars =>
        [\A r \in Requests : (reply[r] # "busy" /\ reply'[r] = "busy") => Cause]_vars
  BY <1>1, <1>2
<1> QED
  BY <1>3, AlwaysIInv, PTL DEF Spec, RefusedForCause

\* No request that is refused or fails takes the mark of a chef run away,
\* nor does anything but another run's end, a start or time (rest.go:224-258).
THEOREM MarksOverwritten == Spec => []OverwrittenForCause
<1>1. IInv => OverwrittenForCause
  BY DEF IInv, TypeOK, States, Entries, NoEntry, ChefMark, Caused, OverwrittenForCause
<1> QED
  BY <1>1, AlwaysIInv, PTL

-----------------------------------------------------------------------------
\* An order of the listing has the same hypervisors.
LEMMA SameHypervisors ==
  ASSUME NEW criteria, NEW S, NEW hs \in Seq(S), NEW sorted, Scheduled(criteria, hs, sorted)
  PROVE  /\ Len(sorted) = Len(hs)
         /\ \A i \in 1..Len(hs) : \E j \in 1..Len(hs) : hs[i] = sorted[j]
         /\ \A i \in 1..Len(hs) : \E j \in 1..Len(hs) : sorted[i] = hs[j]
<1>1. CASE criteria \notin {"cpu", "memory"}
  BY <1>1 DEF Scheduled
<1>2. CASE criteria \in {"cpu", "memory"}
  <2>1. PICK p \in Bijection(1..Len(hs), 1..Len(hs)) : sorted = [i \in 1..Len(hs) |-> hs[p[i]]]
    BY <1>2 DEF Scheduled
  <2>2. p \in [1..Len(hs) -> 1..Len(hs)]
    BY DEF Bijection, Injection
  <2>3. \A i \in 1..Len(hs) : \E j \in 1..Len(hs) : p[j] = i
    BY DEF Bijection, Surjection
  <2>4. Len(sorted) = Len(hs)
    <3>1. sorted \in [1..Len(hs) -> S] /\ Len(hs) \in Nat
      BY <2>1, <2>2
    <3>2. sorted \in Seq(S)
      BY <3>1
    <3> QED
      BY <3>1, <3>2
  <2>5. \A i \in 1..Len(hs) : sorted[i] = hs[p[i]]
    BY <2>1
  <2>6. ASSUME NEW i \in 1..Len(hs) PROVE \E j \in 1..Len(hs) : hs[i] = sorted[j]
    BY <2>3, <2>5
  <2>7. ASSUME NEW i \in 1..Len(hs) PROVE \E j \in 1..Len(hs) : sorted[i] = hs[j]
    BY <2>2, <2>5
  <2> QED
    BY <2>4, <2>6, <2>7
<1> QED
  BY <1>1, <1>2

\* One turn of the loop (openstack.go:385-387): it takes the hypervisor in
\* hand if that can be used, and otherwise keeps what it held.
LEMMA LoopTurn ==
  ASSUME NEW sorted, NEW n \in Nat, NEW h, Held(sorted, n, h)
  PROVE  Held(sorted, n + 1, IF Usable(sorted[n + 1]) THEN sorted[n + 1] ELSE h)
<1>1. n + 1 \in 1..(n + 1) /\ \A i \in 1..(n + 1) : i \in 1..n \/ i = n + 1
  OBVIOUS
<1>2. CASE Usable(sorted[n + 1])
  BY <1>1, <1>2 DEF Held
<1>3. CASE ~Usable(sorted[n + 1])
  <2>1. CASE h = NoHypervisor /\ \A i \in 1..n : ~Usable(sorted[i])
    BY <1>1, <1>3, <2>1 DEF Held
  <2>2. ASSUME NEW i \in 1..n, h = sorted[i], Usable(h),
               \A j \in (i + 1)..n : ~Usable(sorted[j])
        PROVE  Held(sorted, n + 1, h)
    <3>1. \A j \in (i + 1)..(n + 1) : j \in (i + 1)..n \/ j = n + 1
      OBVIOUS
    <3> QED
      BY <1>3, <2>2, <3>1 DEF Held
  <2> QED
    BY <1>3, <2>1, <2>2 DEF Held
<1> QED
  BY <1>2, <1>3

\* Before its first turn the loop holds the zero value (openstack.go:383), so
\* with LoopTurn it always holds what Held says, and Picked in the end.
LEMMA LoopStart == ASSUME NEW sorted PROVE Held(sorted, 0, NoHypervisor)
BY DEF Held

\* Whatever order the sort makes of equals, the daemon offers a hypervisor
\* that can be used if there is one, the least busy by vCPUs or the fullest
\* by memory (openstack.go:365-391).
THEOREM ChoiceSound ==
  ASSUME NEW criteria, NEW S, NEW hs \in Seq(S), NEW sorted, NEW h,
         IsListing(hs), Scheduled(criteria, hs, sorted), Picked(sorted, h)
  PROVE  Choice(criteria, hs, h)
<1>1. /\ Len(sorted) = Len(hs)
      /\ \A i \in 1..Len(hs) : \E j \in 1..Len(hs) : hs[i] = sorted[j]
      /\ \A i \in 1..Len(hs) : \E j \in 1..Len(hs) : sorted[i] = hs[j]
  BY SameHypervisors
<1>2. ~Usable(NoHypervisor)
  BY DEF Usable, NoHypervisor
<1>3. CASE h = NoHypervisor
  BY <1>1, <1>2, <1>3 DEF Picked, Held, Choice
<1>4. CASE h # NoHypervisor
  <2>1. PICK i \in 1..Len(sorted) :
          /\ h = sorted[i] /\ Usable(h)
          /\ \A j \in (i + 1)..Len(sorted) : ~Usable(sorted[j])
    BY <1>4 DEF Picked, Held
  <2>2. ASSUME NEW j \in 1..Len(sorted), Usable(sorted[j]), criteria \in {"cpu", "memory"}
        PROVE  ~Before(criteria, h, sorted[j]) \/ j = i
    BY <2>1, <2>2 DEF Scheduled
  <2>3. ASSUME NEW k \in 1..Len(hs), Usable(hs[k])
        PROVE  /\ criteria = "cpu" => h.vcpusUsed <= hs[k].vcpusUsed
               /\ criteria = "memory" => h.freeRamMB <= hs[k].freeRamMB
    <3>1. PICK j \in 1..Len(sorted) : hs[k] = sorted[j]
      BY <1>1
    <3>2. IsHypervisor(hs[k]) /\ IsHypervisor(h)
      BY <1>1, <2>1 DEF IsListing
    <3>3. /\ hs[k].vcpusUsed \in Int /\ h.vcpusUsed \in Int
          /\ hs[k].freeRamMB \in Int /\ h.freeRamMB \in Int
      BY <3>2 DEF IsHypervisor
    <3>4. CASE j = i
      BY <2>1, <3>1, <3>3, <3>4
    <3>5. CASE j # i /\ criteria \in {"cpu", "memory"}
      <4>1. ~Before(criteria, h, hs[k])
        BY <2>2, <2>3, <3>1, <3>5
      <4> QED
        BY <3>3, <4>1 DEF Before
    <3> QED
      BY <3>4, <3>5
  <2> QED
    BY <1>1, <1>4, <2>1, <2>3 DEF Choice
<1> QED
  BY <1>3, <1>4
=============================================================================
