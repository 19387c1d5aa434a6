--------------------------- MODULE NameCacheProofs --------------------------
(***************************************************************************)
(* The ages of the daemon's answers about a name, for any hypervisors,     *)
(* servers, handlers and times to live.                                    *)
(***************************************************************************)
EXTENDS NameCache, TLAPS

USE TimeAssumption, NoneAssumption

-----------------------------------------------------------------------------
\* Types.

LEMMA InitTypes == Init => TypeOK
BY DEF Init, TypeOK, Bearers, LongAgo

LEMMA CloudTypes ==
  ASSUME TypeOK, Cloud PROVE TypeOK'
<1> USE DEF TypeOK
<1>1. ASSUME NEW i \in Ids, Delete(i) PROVE TypeOK'
  BY <1>1 DEF Delete, Become
<1>2. ASSUME NEW i \in Ids, NEW h \in Hosts, Create(i, h) \/ Migrate(i, h) PROVE TypeOK'
  BY <1>2 DEF Create, Migrate, Become
<1> QED
  BY <1>1, <1>2 DEF Cloud

LEMMA StepTypes == TypeOK /\ [Next]_vars => TypeOK'
<1> SUFFICES ASSUME TypeOK, [Next]_vars PROVE TypeOK'
  OBVIOUS
<1>1. ASSUME NEW r \in Handlers, Ask(r) \/ List(r) \/ Save(r) PROVE TypeOK'
  BY <1>1 DEF TypeOK, Ask, List, Save, Return, At, cloudVars, Bearers
<1>2. ASSUME NEW r \in Handlers, Resolve(r) \/ Keep(r) PROVE TypeOK'
  <2>1. ASSUME NEW S \in SUBSET Ids, Take(r, S)
        PROVE  /\ pc' \in [Handlers -> {"idle", "resolve", "list", "keep", "detail", "save"}]
               /\ began' \in [Handlers -> 0..MaxTime]
               /\ snap' \in [Handlers -> SUBSET Ids]
               /\ sid' \in [Handlers -> Ids \cup {None}]
               /\ got' \in [Handlers -> Hosts \cup {None}]
               /\ \A q \in Handlers : pc'[q] = "detail" => sid'[q] \in Ids
               /\ \A q \in Handlers : pc'[q] = "save" => got'[q] \in Hosts
    BY <2>1 DEF TypeOK, Take, Return
  <2> QED
    BY <1>2, <2>1 DEF TypeOK, Resolve, Keep, At, cloudVars
<1>3. ASSUME NEW r \in Handlers, Detail(r) PROVE TypeOK'
  BY <1>3 DEF TypeOK, Detail, Return, At, cloudVars, Bearers
<1>4. CASE Tick
  BY <1>4 DEF TypeOK, Tick, cloudVars
<1>5. CASE UNCHANGED vars
  BY <1>5 DEF TypeOK, vars, cloudVars
<1> QED
  BY <1>1, <1>2, <1>3, <1>4, <1>5, CloudTypes DEF Next, Handler

\* The handlers and both caches keep their types; in particular the handler
\* goes on only with an id, and stores only a hypervisor (rest.go:193-209).
THEOREM TypeCorrect == Spec => []TypeOK
BY InitTypes, StepTypes, PTL DEF Spec

-----------------------------------------------------------------------------
\* The refinement, and with it the age of an answer.

LEMMA InitReads == Init => Reads!Init
BY DEF Init, Reads!Init, Phase, Truth, Bearers, LongAgo

\* What the cloud does is a change of the truth.
LEMMA CloudReads ==
  ASSUME TypeOK, Cloud PROVE Reads!Change
<1>1. \A h : Become(h) => UNCHANGED Phase
  BY DEF Become, Phase
<1>2. ASSUME NEW h, Become(h), host' \in [Ids -> Hosts \cup {None}] PROVE Reads!Change
  BY <1>1, <1>2 DEF Become, Reads!Change, Truth, Bearers
<1>3. TypeOK'
  BY CloudTypes
<1> QED
  BY <1>2, <1>3 DEF Cloud, Create, Delete, Migrate, TypeOK

\* A handler's step as those see it who see the answers only.
LEMMA PhaseStep ==
  ASSUME TypeOK, NEW r \in Handlers, NEW l,
         pc' = [pc EXCEPT ![r] = l]
  PROVE  Phase' = [Phase EXCEPT ![r] = IF l \in {"idle", "save"} THEN l ELSE "fetch"]
BY DEF TypeOK, Phase

LEMMA PhaseAt ==
  ASSUME NEW r \in Handlers
  PROVE  Phase[r] = IF pc[r] \in {"idle", "save"} THEN pc[r] ELSE "fetch"
BY DEF Phase

LEMMA TruthStays == UNCHANGED host => UNCHANGED Truth
BY DEF Truth, Bearers

LEMMA StepReads == TypeOK /\ [Next]_vars => [Reads!Next]_(Reads!vars)
<1> SUFFICES ASSUME TypeOK, [Next]_vars PROVE [Reads!Next]_(Reads!vars)
  OBVIOUS
<1>1. ASSUME NEW r \in Handlers, Ask(r) PROVE Reads!Ask(r) \/ UNCHANGED Reads!vars
  <2>1. CASE Found
    <3>1. UNCHANGED Phase
      BY <1>1, <2>1 DEF Ask, Phase
    <3> QED
      BY <1>1, <2>1, <3>1, TruthStays DEF Ask, Reads!vars, cloudVars
  <2>2. CASE ~Found
    <3>1. Phase' = [Phase EXCEPT ![r] = "fetch"] /\ Phase[r] = "idle"
      BY <1>1, <2>2, PhaseAt, PhaseStep DEF Ask, At
    <3> QED
      BY <1>1, <2>2, <3>1, TruthStays DEF Ask, Found, Reads!Ask, Reads!Found, cloudVars
  <2> QED
    BY <2>1, <2>2
<1>2. ASSUME NEW r \in Handlers, Return(r), pc[r] \in {"resolve", "list", "keep", "detail"},
             UNCHANGED <<now, cloudVars, entry, entryExp>>
      PROVE  Reads!Fail(r)
  <2>1. Phase' = [Phase EXCEPT ![r] = "idle"] /\ Phase[r] = "fetch"
    BY <1>2, PhaseAt, PhaseStep DEF Return
  <2> QED
    BY <1>2, <2>1, TruthStays DEF Return, Reads!Fail, Reads!Return, cloudVars
<1>3. ASSUME NEW r \in Handlers, NEW l \in {"resolve", "list", "keep", "detail"},
             pc[r] \in {"resolve", "list", "keep"},
             pc' = [pc EXCEPT ![r] = l],
             UNCHANGED <<now, cloudVars, entry, entryExp, began, got>>
      PROVE  UNCHANGED Reads!vars
  <2>1. UNCHANGED Phase
    BY <1>3 DEF Phase, TypeOK
  <2> QED
    BY <1>3, <2>1, TruthStays DEF Reads!vars, cloudVars
<1>4. ASSUME NEW r \in Handlers, Resolve(r) \/ Keep(r)
      PROVE  Reads!Fail(r) \/ UNCHANGED Reads!vars
  BY <1>2, <1>3, <1>4 DEF Resolve, Keep, Take, At
<1>5. ASSUME NEW r \in Handlers, List(r) PROVE Reads!Fail(r) \/ UNCHANGED Reads!vars
  BY <1>2, <1>3, <1>5 DEF List, At
<1>6. ASSUME NEW r \in Handlers, Detail(r) PROVE Reads!Fail(r) \/ Reads!Fetch(r)
  <2>1. CASE Return(r)
    BY <1>2, <1>6, <2>1 DEF Detail, At
  <2>2. CASE ~Return(r)
    <3>1. /\ pc[r] = "detail" /\ sid[r] \in Bearers
          /\ got' = [got EXCEPT ![r] = host[sid[r]]]
          /\ pc' = [pc EXCEPT ![r] = "save"]
          /\ UNCHANGED <<now, cloudVars, entry, entryExp, began>>
      BY <1>6, <2>2 DEF Detail, At
    <3>2. Phase' = [Phase EXCEPT ![r] = "save"] /\ Phase[r] = "fetch"
      BY <3>1, PhaseAt, PhaseStep
    <3>3. host[sid[r]] \in Truth
      BY <3>1 DEF Truth
    <3> QED
      BY <3>1, <3>2, <3>3, TruthStays DEF Reads!Fetch, cloudVars
  <2> QED
    BY <2>1, <2>2
<1>7. ASSUME NEW r \in Handlers, Save(r) PROVE Reads!Save(r)
  <2>1. Phase' = [Phase EXCEPT ![r] = "idle"] /\ Phase[r] = "save"
    BY <1>7, PhaseAt, PhaseStep DEF Save, At, Return
  <2> QED
    BY <1>7, <2>1, TruthStays DEF Save, Return, Reads!Save, Reads!Return, cloudVars
<1>8. CASE Tick
  <2>1. UNCHANGED Phase
    BY <1>8 DEF Tick, Phase
  <2>2. \A r \in Handlers : Phase[r] # "idle" => pc[r] # "idle"
    BY PhaseAt
  <2>3. Reads!Tick
    BY <1>8, <2>1, <2>2, TruthStays DEF Tick, Reads!Tick, cloudVars
  <2> QED
    BY <2>3 DEF Reads!Next
<1>9. CASE UNCHANGED vars
  <2>1. UNCHANGED Phase
    BY <1>9 DEF vars, Phase
  <2> QED
    BY <1>9, <2>1, TruthStays DEF vars, cloudVars, Reads!vars
<1> QED
  BY <1>1, <1>4, <1>5, <1>6, <1>7, <1>8, <1>9, CloudReads DEF Next, Handler, Reads!Next

\* Two caches and their racing handlers are one read-through cache
\* (rest.go:185-212, openstack.go:428-467).
THEOREM Refinement == Spec => ImplementsCachedRead
BY InitReads, StepReads, TypeCorrect, PTL DEF Spec, ImplementsCachedRead, Reads!Spec

Ages == INSTANCE CachedReadProofs WITH
  Values <- Hosts, NoValue <- None, Readers <- Handlers, TTL <- NameTTL,
  truth <- Truth, expiry <- entryExp, pc <- Phase

\* An answer names a hypervisor that had a server of the name on it within
\* the time to live and one flight (rest.go:188-210).
THEOREM AnswersFresh == Spec => []FreshAnswers
<1>1. Ages!Spec => []Ages!Fresh
  BY Ages!AnswersFresh, TimeAssumption, NoneAssumption DEF Ages!Readable
<1>2. Reads!Init => Ages!Init
  BY DEF Reads!Init, Ages!Init
<1>3. [Reads!Next]_(Reads!vars) => [Ages!Next]_(Ages!vars)
  <2>1. ASSUME NEW r PROVE /\ Reads!Ask(r) => Ages!Ask(r)
                           /\ Reads!Fetch(r) => Ages!Fetch(r)
    BY DEF Reads!Ask, Ages!Ask, Reads!Found, Ages!Found, Reads!Fetch, Ages!Fetch
  <2>2. ASSUME NEW r PROVE /\ Reads!Fail(r) => Ages!Fail(r)
                           /\ Reads!Save(r) => Ages!Save(r)
    BY DEF Reads!Fail, Ages!Fail, Reads!Save, Ages!Save, Reads!Return, Ages!Return
  <2>3. (Reads!Change => Ages!Change) /\ (Reads!Tick => Ages!Tick)
    BY DEF Reads!Change, Ages!Change, Reads!Tick, Ages!Tick
  <2>4. Reads!vars = Ages!vars /\ (UNCHANGED Reads!vars => UNCHANGED Ages!vars)
    BY DEF Reads!vars, Ages!vars
  <2> QED
    BY <2>1, <2>2, <2>3, <2>4 DEF Reads!Next, Ages!Next
<1>4. Ages!Fresh => FreshAnswers
  BY DEF Ages!Fresh, Reads!Fresh, Ages!Found, Reads!Found, Ages!LastRight, Reads!LastRight,
         FreshAnswers
<1> QED
  BY <1>1, <1>2, <1>3, <1>4, Refinement, PTL DEF Ages!Spec, Reads!Spec, ImplementsCachedRead

-----------------------------------------------------------------------------
\* The age of a listing, and of what is read from it.

\* The past is past, and no request is overdue.
Timely ==
  /\ changed <= now /\ soleEnd <= now /\ listExp <= now + ListTTL
  /\ \A r \in Handlers : pc[r] # "idle" => began[r] <= now /\ now <= began[r] + Flight

\* What a set of ids, listed at time t or later, tells of the servers of the
\* name, given who they are, when they changed and when one was alone: if
\* it is wrong by now they changed since, and if it is one id, one was alone.
Tells(S, t, bear, change, sole) ==
  /\ S # bear => change >= t
  /\ Sole(S) => sole >= t

\* The time that a listing found in the cache at time t was taken, at least.
Taken(t) == t - (ListTTL + Flight)

HandlerAges ==
  \A r \in Handlers :
    /\ pc[r] = "keep" => Tells(snap[r], began[r], Bearers, changed, LastSole)
    /\ pc[r] = "detail" => Tells({sid[r]}, Taken(began[r]), Bearers, changed, LastSole)
    /\ pc[r] = "save" => LastSole >= Taken(began[r])

CacheAges ==
  /\ Listed => Tells(list, Taken(listExp), Bearers, changed, LastSole)
  /\ Found => LastSole >= entryExp - (NameTTL + ListTTL + 2 * Flight)

IInv == TypeOK /\ Timely /\ HandlerAges /\ CacheAges

LEMMA InitIInv == Init => IInv
<1> SUFFICES ASSUME Init PROVE IInv
  OBVIOUS
<1>1. Timely /\ HandlerAges /\ CacheAges
  BY DEF Init, Timely, HandlerAges, CacheAges, LongAgo, Listed, Found
<1> QED
  BY <1>1, InitTypes DEF IInv

\* Becoming something else is on record; staying the same costs nothing.
LEMMA History ==
  ASSUME TypeOK, Timely, [Next]_vars
  PROVE  /\ LastSole \in Int /\ LastSole' \in Int /\ changed' \in Int
         /\ LastSole' >= LastSole
         /\ changed' >= changed
         /\ Bearers' # Bearers => changed' = now
<1>1. CASE Cloud
  <2>1. PICK h : Become(h)
    BY <1>1 DEF Cloud, Create, Delete, Migrate
  <2>2. /\ changed' = IF Bearers' # Bearers THEN now ELSE changed
        /\ soleEnd' = IF Sole(Bearers) /\ Bearers' # Bearers THEN now ELSE soleEnd
        /\ now' = now
    BY <2>1 DEF Become
  <2>3. now \in Int /\ changed \in Int /\ soleEnd \in Int /\ changed <= now /\ soleEnd <= now
    BY DEF TypeOK, Timely
  <2>4. Bearers' = Bearers => (Sole(Bearers)' <=> Sole(Bearers))
    BY DEF Sole, SoleIn
  <2> QED
    BY <2>2, <2>3, <2>4 DEF LastSole
<1>2. CASE UNCHANGED cloudVars /\ now' \in {now, now + 1}
  <2>1. Bearers' = Bearers /\ (Sole(Bearers)' <=> Sole(Bearers))
    BY <1>2 DEF cloudVars, Bearers, Sole, SoleIn
  <2>2. /\ now \in Int /\ changed \in Int /\ soleEnd \in Int /\ soleEnd <= now
        /\ changed' = changed /\ soleEnd' = soleEnd
    BY <1>2 DEF TypeOK, Timely, cloudVars
  <2> QED
    BY <1>2, <2>1, <2>2 DEF LastSole
<1>3. Cloud \/ (UNCHANGED cloudVars /\ now' \in {now, now + 1})
  BY DEF Next, Handler, Ask, Resolve, List, Keep, Detail, Save, Tick, vars
<1> QED
  BY <1>1, <1>2, <1>3

\* What was told stays true: whatever changes after t changes after t.
LEMMA TellsStays ==
  ASSUME TypeOK, Timely, [Next]_vars,
         NEW S, NEW t \in Int, t <= now, Tells(S, t, Bearers, changed, LastSole)
  PROVE  Tells(S, t, Bearers', changed', LastSole')
<1>1. now \in Int /\ changed \in Int
  BY DEF TypeOK
<1> QED
  BY <1>1, History DEF Tells

LEMMA TimelyStep == TypeOK /\ Timely /\ [Next]_vars => Timely'
<1> SUFFICES ASSUME TypeOK, Timely, [Next]_vars PROVE Timely'
  OBVIOUS
<1> USE DEF TypeOK, Timely
<1>1. ASSUME NEW r \in Handlers, Ask(r) \/ List(r) \/ Detail(r) \/ Save(r) PROVE Timely'
  BY <1>1 DEF Ask, List, Detail, Save, Return, At, cloudVars
<1>2. ASSUME NEW r \in Handlers, Resolve(r) \/ Keep(r) PROVE Timely'
  <2>1. /\ UNCHANGED <<now, cloudVars>>
        /\ pc[r] # "idle"
        /\ \/ began' = began /\ \E l : pc' = [pc EXCEPT ![r] = l]
           \/ Return(r)
        /\ listExp' \in {listExp, now + ListTTL}
    BY <1>2 DEF Resolve, Keep, Take, At
  <2> QED
    BY <2>1 DEF Return, cloudVars
<1>3. CASE Cloud
  <2>1. PICK h : Become(h)
    BY <1>3 DEF Cloud, Create, Delete, Migrate
  <2> QED
    BY <2>1 DEF Become
<1>4. CASE Tick
  BY <1>4 DEF Tick, cloudVars
<1>5. CASE UNCHANGED vars
  BY <1>5 DEF vars, cloudVars
<1> QED
  BY <1>1, <1>2, <1>3, <1>4, <1>5 DEF Next, Handler

\* A handler's own calls do not change the world.
LEMMA HandlerStill ==
  ASSUME NEW r \in Handlers, Handler(r)
  PROVE  /\ now' = now /\ Bearers' = Bearers /\ changed' = changed
         /\ LastSole' = LastSole
<1>1. UNCHANGED <<now, cloudVars>>
  BY DEF Handler, Ask, Resolve, List, Keep, Detail, Save
<1> QED
  BY <1>1 DEF cloudVars, Bearers, LastSole, Sole, SoleIn

\* IDFromName, on a listing that tells of time t.
LEMMA TakeTells ==
  ASSUME TypeOK, NEW r \in Handlers, NEW S, NEW t \in Int, Take(r, S),
         Tells(S, t, Bearers, changed, LastSole),
         Taken(began[r]) <= t
  PROVE  \/ pc'[r] = "idle"
         \/ /\ pc'[r] = "detail" /\ began'[r] = began[r]
            /\ Tells({sid'[r]}, Taken(began[r]), Bearers, changed, LastSole)
<1>1. CASE Return(r)
  BY <1>1 DEF Return, TypeOK
<1>2. ASSUME NEW i \in Ids, S = {i}, sid' = [sid EXCEPT ![r] = i],
             pc' = [pc EXCEPT ![r] = "detail"], began' = began
      PROVE  /\ pc'[r] = "detail" /\ began'[r] = began[r]
             /\ Tells({sid'[r]}, Taken(began[r]), Bearers, changed, LastSole)
  <2>1. {sid'[r]} = S /\ pc'[r] = "detail"
    BY <1>2 DEF TypeOK
  <2>2. \A x \in Int : x >= t => x >= Taken(began[r])
    BY DEF Taken, TypeOK
  <2>3. changed \in Int /\ LastSole \in Int
    BY DEF TypeOK, LastSole
  <2> QED
    BY <1>2, <2>1, <2>2, <2>3 DEF Tells
<1> QED
  BY <1>1, <1>2 DEF Take, SoleIn

LEMMA HandlerAgesStep == IInv /\ [Next]_vars => HandlerAges'
<1> SUFFICES ASSUME IInv, [Next]_vars, NEW q \in Handlers
             PROVE  /\ pc'[q] = "keep"
                          => Tells(snap'[q], began'[q], Bearers', changed', LastSole')
                    /\ pc'[q] = "detail"
                          => Tells({sid'[q]}, Taken(began'[q]), Bearers', changed', LastSole')
                    /\ pc'[q] = "save" => LastSole' >= Taken(began'[q])
  BY DEF HandlerAges, Taken
<1>1. /\ now \in Int /\ began[q] \in Int /\ Taken(began[q]) \in Int
      /\ pc[q] # "idle" => began[q] <= now /\ Taken(began[q]) <= now
  BY DEF IInv, TypeOK, Timely, Taken
<1>2. \A S : \A t \in Int :
        (t <= now /\ Tells(S, t, Bearers, changed, LastSole))
          => Tells(S, t, Bearers', changed', LastSole')
  BY TellsStays DEF IInv
<1>3. LastSole \in Int /\ LastSole' \in Int /\ LastSole' >= LastSole
  BY History DEF IInv
<1>4. CASE pc'[q] = pc[q] /\ began'[q] = began[q] /\ snap'[q] = snap[q] /\ sid'[q] = sid[q]
  <2>1. ASSUME pc[q] = "save" PROVE LastSole' >= Taken(began[q])
    <3>1. LastSole >= Taken(began[q])
      BY <2>1 DEF IInv, HandlerAges
    <3> QED
      BY <1>1, <1>3, <3>1
  <2> QED
    BY <1>1, <1>2, <1>4, <2>1 DEF IInv, HandlerAges
<1>5. CASE pc'[q] \in {"idle", "resolve", "list"}
  BY <1>5
<1>6. CASE List(q)
  <2>1. CASE snap' = [snap EXCEPT ![q] = Bearers] /\ pc' = [pc EXCEPT ![q] = "keep"]
             /\ began' = began
    <3>1. snap'[q] = Bearers /\ pc'[q] = "keep" /\ began'[q] = began[q]
      BY <2>1 DEF IInv, TypeOK
    <3>2. Sole(Bearers) => LastSole >= began[q]
      BY <1>1, <1>6 DEF LastSole, List, At
    <3>3. Tells(Bearers, began[q], Bearers, changed, LastSole)
      BY <3>2 DEF Tells
    <3> QED
      BY <1>6, <3>1, <3>3, HandlerStill DEF Handler
  <2>2. CASE Return(q)
    BY <1>5, <2>2 DEF Return, IInv, TypeOK
  <2> QED
    BY <1>6, <2>1, <2>2 DEF List
<1>7. CASE Resolve(q) \/ Keep(q)
  <2>1. CASE pc' = [pc EXCEPT ![q] = "list"]
    BY <1>5, <2>1 DEF IInv, TypeOK
  <2>2. CASE Listed /\ Take(q, list) /\ pc[q] # "idle"
    <3>1. Taken(listExp) \in Int /\ Taken(began[q]) <= Taken(listExp)
      BY <1>1, <2>2 DEF IInv, TypeOK, Taken, Listed
    <3>2. Tells(list, Taken(listExp), Bearers, changed, LastSole)
      BY <2>2 DEF IInv, CacheAges
    <3> QED
      BY <1>7, <2>2, <3>1, <3>2, TakeTells, HandlerStill DEF IInv, Handler
  <2>3. CASE Take(q, snap[q]) /\ pc[q] = "keep"
    <3>1. Taken(began[q]) <= began[q]
      BY <1>1 DEF Taken
    <3>2. Tells(snap[q], began[q], Bearers, changed, LastSole)
      BY <2>3 DEF IInv, HandlerAges
    <3> QED
      BY <1>1, <1>7, <2>3, <3>1, <3>2, TakeTells, HandlerStill DEF IInv, Handler
  <2> QED
    BY <1>7, <2>1, <2>2, <2>3 DEF Resolve, Keep, At
<1>8. CASE Detail(q)
  <2>1. CASE Return(q)
    BY <1>5, <2>1 DEF Return, IInv, TypeOK
  <2>2. CASE pc' = [pc EXCEPT ![q] = "save"] /\ began' = began
    <3>1. pc'[q] = "save" /\ began'[q] = began[q] /\ pc[q] = "detail" /\ sid[q] \in Ids
      BY <1>8, <2>2 DEF Detail, At, IInv, TypeOK
    <3>2. Sole({sid[q]})
      BY <3>1 DEF Sole, SoleIn
    <3> QED
      BY <1>1, <1>3, <3>1, <3>2 DEF IInv, HandlerAges, Tells
  <2> QED
    BY <1>8, <2>1, <2>2 DEF Detail
<1>9. CASE Ask(q) \/ Save(q)
  BY <1>4, <1>5, <1>9 DEF Ask, Save, Return, IInv, TypeOK
<1>10. ASSUME NEW r \in Handlers, r # q, Handler(r)
       PROVE  pc'[q] = pc[q] /\ began'[q] = began[q] /\ snap'[q] = snap[q] /\ sid'[q] = sid[q]
  BY <1>10 DEF Handler, Ask, Resolve, List, Keep, Take, Detail, Save, Return, IInv, TypeOK
<1>11. CASE Cloud \/ Tick \/ UNCHANGED vars
  BY <1>4, <1>11 DEF Cloud, Create, Delete, Migrate, Become, Tick, vars
<1> QED
  BY <1>4, <1>6, <1>7, <1>8, <1>9, <1>10, <1>11 DEF Next, Handler

LEMMA CacheAgesStep == IInv /\ [Next]_vars => CacheAges'
<1> SUFFICES ASSUME IInv, [Next]_vars PROVE CacheAges'
  OBVIOUS
<1>1. now \in Int /\ listExp \in Int /\ entryExp \in Int
  BY DEF IInv, TypeOK
<1>2. \A S : \A t \in Int :
        (t <= now /\ Tells(S, t, Bearers, changed, LastSole))
          => Tells(S, t, Bearers', changed', LastSole')
  BY TellsStays DEF IInv
<1>3. LastSole \in Int /\ LastSole' \in Int /\ LastSole' >= LastSole
  BY History DEF IInv
<1>4. now' \in {now, now + 1}
  BY DEF Next, Handler, Cloud, Create, Delete, Migrate, Become, Ask, Resolve, List, Keep,
         Detail, Save, Tick, vars
<1>5. ASSUME listExp' = listExp, list' = list
      PROVE  Listed' => Tells(list', Taken(listExp'), Bearers', changed', LastSole')
  <2>1. Taken(listExp) \in Int /\ Taken(listExp) <= now
    BY <1>1 DEF IInv, Timely, Taken
  <2> QED
    BY <1>1, <1>2, <1>4, <1>5, <2>1 DEF IInv, CacheAges, Listed
<1>6. ASSUME entryExp' = entryExp
      PROVE  Found' => LastSole' >= entryExp' - (NameTTL + ListTTL + 2 * Flight)
  BY <1>1, <1>3, <1>4, <1>6 DEF IInv, CacheAges, Found
<1>7. ASSUME NEW r \in Handlers, Ask(r) \/ Resolve(r) \/ List(r) \/ Detail(r) PROVE CacheAges'
  BY <1>5, <1>6, <1>7 DEF CacheAges, Ask, Resolve, List, Detail
<1>8. ASSUME NEW r \in Handlers, Keep(r) PROVE CacheAges'
  <2>1. /\ list' = snap[r] /\ listExp' = now + ListTTL /\ entryExp' = entryExp
        /\ pc[r] = "keep"
    BY <1>8 DEF Keep, At
  <2>2. Tells(snap[r], began[r], Bearers, changed, LastSole)
    BY <2>1 DEF IInv, HandlerAges
  <2>3. began[r] \in Int /\ Taken(now + ListTTL) <= began[r] /\ Taken(now + ListTTL) \in Int
    BY <1>1, <2>1 DEF IInv, TypeOK, Timely, Taken
  <2>4. \A x \in Int : x >= began[r] => x >= Taken(now + ListTTL)
    BY <2>3
  <2>5. Tells(snap[r], Taken(now + ListTTL), Bearers, changed, LastSole)
    BY <1>3, <2>2, <2>4 DEF Tells, IInv, TypeOK
  <2> QED
    BY <1>6, <1>8, <2>1, <2>5, HandlerStill DEF CacheAges, Handler
<1>9. ASSUME NEW r \in Handlers, Save(r) PROVE CacheAges'
  <2>1. /\ entryExp' = now + NameTTL /\ listExp' = listExp /\ list' = list
        /\ pc[r] = "save"
    BY <1>9 DEF Save, At
  <2>2. LastSole >= began[r] - (ListTTL + Flight) /\ began[r] \in Int /\ now <= began[r] + Flight
    <3>1. LastSole >= Taken(began[r])
      BY <2>1 DEF IInv, HandlerAges
    <3>2. began[r] \in Int /\ now <= began[r] + Flight
      BY <2>1 DEF IInv, TypeOK, Timely
    <3> QED
      BY <3>1, <3>2 DEF Taken
  <2>3. LastSole' >= entryExp' - (NameTTL + ListTTL + 2 * Flight)
    BY <1>1, <1>3, <2>1, <2>2
  <2> QED
    BY <1>5, <2>1, <2>3 DEF CacheAges
<1>10. CASE Cloud \/ UNCHANGED vars
  BY <1>5, <1>6, <1>10 DEF CacheAges, Cloud, Create, Delete, Migrate, Become, vars
<1>11. CASE Tick
  <2>1. ~(now' <= listExp) => ~Listed'
    BY <1>1, <1>4, <1>11 DEF Tick, Listed, IInv, TypeOK
  <2>2. ~(now' <= entryExp) => ~Found'
    BY <1>1, <1>4, <1>11 DEF Tick, Found, IInv, TypeOK
  <2> QED
    BY <1>5, <1>6, <1>11, <2>1, <2>2 DEF Tick, CacheAges
<1> QED
  BY <1>7, <1>8, <1>9, <1>10, <1>11 DEF Next, Handler

LEMMA AlwaysIInv == Spec => []IInv
<1>1. IInv /\ [Next]_vars => IInv'
  BY StepTypes, TimelyStep, HandlerAgesStep, CacheAgesStep DEF IInv
<1> QED
  BY <1>1, InitIInv, PTL DEF Spec

\* An answer is given only for a name that had exactly one server within
\* both times to live and two flights (rest.go:193, openstack.go:434-466).
THEOREM AnswersUnambiguous == Spec => []AnsweredWasSole
<1>1. IInv => AnsweredWasSole
  <2> SUFFICES ASSUME IInv PROVE AnsweredWasSole
    OBVIOUS
  <2>1. now \in Int /\ entryExp \in Int /\ LastSole \in Int
    BY DEF IInv, TypeOK, LastSole
  <2> QED
    BY <2>1 DEF IInv, CacheAges, AnsweredWasSole, Found
<1> QED
  BY <1>1, AlwaysIInv, PTL

\* "Not found", said of a name that one server bears, is the fault of a
\* change within the listing's time to live and two flights.
THEOREM MissesJustified == Spec => MissJustified
<1> DEFINE A == \A r \in Handlers :
                 (Misses(r) /\ Sole(Bearers)) => changed >= now - (ListTTL + 2 * Flight)
<1>1. IInv /\ [Next]_vars => [A]_vars
  <2> SUFFICES ASSUME IInv, [Next]_vars, NEW r \in Handlers, Misses(r), Sole(Bearers)
               PROVE  changed >= now - (ListTTL + 2 * Flight) \/ UNCHANGED vars
    OBVIOUS
  <2>1. /\ now \in Int /\ changed \in Int /\ listExp \in Int /\ began[r] \in Int
        /\ now <= began[r] + Flight
    BY DEF IInv, TypeOK, Timely, Misses, At
  <2>2. CASE pc[r] = "detail" /\ sid[r] \notin Bearers
    <3>1. {sid[r]} # Bearers
      BY <2>2
    <3>2. Tells({sid[r]}, Taken(began[r]), Bearers, changed, LastSole)
      BY <2>2 DEF IInv, HandlerAges
    <3>3. changed >= Taken(began[r])
      BY <3>1, <3>2 DEF Tells
    <3> QED
      BY <2>1, <3>3 DEF Taken
  <2>3. CASE Resolve(r)
    <3>1. Listed /\ ~Sole(list)
      BY <2>3 DEF Resolve, Take, Misses, At, IInv, TypeOK
    <3>2. list # Bearers
      BY <3>1
    <3> QED
      BY <2>1, <3>1, <3>2 DEF IInv, CacheAges, Tells, Taken, Listed
  <2>4. CASE Keep(r)
    <3>1. ~Sole(snap[r]) /\ pc[r] = "keep"
      BY <2>4 DEF Keep, Take, Misses, At, IInv, TypeOK
    <3>2. snap[r] # Bearers
      BY <3>1
    <3>3. changed >= began[r]
      BY <3>1, <3>2 DEF IInv, HandlerAges, Tells
    <3> QED
      BY <2>1, <3>3
  <2>5. CASE pc[r] \in {"resolve", "keep"} /\ ~Resolve(r) /\ ~Keep(r)
    <3>1. ASSUME NEW q \in Handlers, Handler(q), q # r PROVE pc'[r] = pc[r]
      BY <3>1 DEF Handler, Ask, Resolve, List, Keep, Take, Detail, Save, Return, IInv, TypeOK
    <3>2. CASE Cloud \/ Tick \/ UNCHANGED vars
      BY <2>5, <3>2 DEF Cloud, Create, Delete, Migrate, Become, Tick, vars, Misses
    <3>3. ~(Ask(r) \/ List(r) \/ Detail(r) \/ Save(r))
      BY <2>5 DEF Ask, List, Detail, Save, At
    <3> QED
      BY <2>5, <3>1, <3>2, <3>3 DEF Next, Handler, Misses
  <2> QED
    BY <2>2, <2>3, <2>4, <2>5 DEF Misses, At
<1> QED
  BY <1>1, AlwaysIInv, PTL DEF Spec, MissJustified
=============================================================================
