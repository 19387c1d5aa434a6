-------------------------- MODULE CachedReadProofs --------------------------
(***************************************************************************)
(* How old a cached answer can be, for any values, readers and times.      *)
(***************************************************************************)
EXTENDS CachedRead, TLAPS

USE DEF Readable

Types ==
  /\ now \in Nat
  /\ truth \subseteq Values
  /\ left \in [Values -> Int]
  /\ entry \in Values \cup {NoValue}
  /\ expiry \in Int
  /\ pc \in [Readers -> {"idle", "fetch", "save"}]
  /\ began \in [Readers -> Int]
  /\ got \in [Readers -> Values \cup {NoValue}]

\* The past is past, and no request is overdue.
Timely ==
  /\ \A v \in Values : left[v] <= now
  /\ \A r \in Readers : pc[r] # "idle" => began[r] <= now /\ now <= began[r] + Flight

\* Ages, counted from the moments that bound them: an entry from its
\* expiration, a value in flight from its request.
Aged ==
  /\ Found => entry \in Values /\ LastRight(entry) >= expiry - (TTL + Flight)
  /\ \A r \in Readers :
       pc[r] = "save" => got[r] \in Values /\ LastRight(got[r]) >= began[r]

IInv == Types /\ Timely /\ Aged

LEMMA InitIInv ==
  ASSUME Readable PROVE Init => IInv
BY DEF Init, IInv, Types, Timely, Aged, Found

\* A value's last right moment never moves back.
LEMMA LastRightGrows ==
  ASSUME Readable, Types, Timely, [Next]_vars, NEW v \in Values
  PROVE  /\ LastRight(v) \in Int /\ LastRight(v)' \in Int
         /\ LastRight(v)' >= LastRight(v)
<1> USE DEF Types, Timely, LastRight
<1>1. CASE Change
  BY <1>1 DEF Change
<1>2. CASE Tick
  BY <1>2 DEF Tick
<1>3. CASE UNCHANGED <<now, truth, left>>
  BY <1>3
<1> QED
  BY <1>1, <1>2, <1>3 DEF Next, Ask, Fetch, Fail, Save, vars

LEMMA StepIInv ==
  ASSUME Readable PROVE IInv /\ [Next]_vars => IInv'
<1> SUFFICES ASSUME IInv, [Next]_vars PROVE IInv'
  OBVIOUS
<1>0. \A v \in Values : /\ LastRight(v) \in Int /\ LastRight(v)' \in Int
                        /\ LastRight(v)' >= LastRight(v)
  BY LastRightGrows DEF IInv
<1>1. ASSUME NEW r \in Readers, Ask(r) PROVE IInv'
  BY <1>0, <1>1 DEF IInv, Types, Timely, Aged, Ask, Found
<1>2. ASSUME NEW r \in Readers, Fetch(r) PROVE IInv'
  <2>1. PICK v \in truth : got' = [got EXCEPT ![r] = v]
    BY <1>2 DEF Fetch
  <2>2. LastRight(v)' = now
    BY <1>2 DEF Fetch, LastRight
  <2> QED
    BY <1>0, <1>2, <2>1, <2>2 DEF IInv, Types, Timely, Aged, Fetch, Found
<1>3. ASSUME NEW r \in Readers, Fail(r) PROVE IInv'
  BY <1>0, <1>3 DEF IInv, Types, Timely, Aged, Fail, Return, Found
<1>4. ASSUME NEW r \in Readers, Save(r) PROVE IInv'
  BY <1>0, <1>4 DEF IInv, Types, Timely, Aged, Save, Return, Found
<1>5. CASE Change
  BY <1>0, <1>5 DEF IInv, Types, Timely, Aged, Change, Found
<1>6. CASE Tick
  BY <1>0, <1>6 DEF IInv, Types, Timely, Aged, Tick, Found
<1>7. CASE UNCHANGED vars
  BY <1>0, <1>7 DEF IInv, Types, Timely, Aged, vars, Found
<1> QED
  BY <1>1, <1>2, <1>3, <1>4, <1>5, <1>6, <1>7 DEF Next

\* A listing of the hypervisors, like any answer read through a cache, was
\* right within its time to live and the time one request takes, however
\* many handlers fetch and store at once (rest.go:75-88).
THEOREM AnswersFresh ==
  ASSUME Readable PROVE Spec => []Fresh
<1>1. IInv => Fresh
  <2> SUFFICES ASSUME IInv PROVE Fresh
    OBVIOUS
  <2>1. \A v \in Values : LastRight(v) \in Int
    BY DEF IInv, Types, LastRight
  <2> QED
    BY <2>1 DEF IInv, Types, Timely, Aged, Fresh, Found
<1> QED
  BY <1>1, InitIInv, StepIInv, PTL DEF Spec
=============================================================================
