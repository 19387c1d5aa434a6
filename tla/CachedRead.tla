----------------------------- MODULE CachedRead -----------------------------
(***************************************************************************)
(* A read-through cache with a time to live, over a truth that changes:    *)
(* what getHypervisors does with the listing of the hypervisors, and what  *)
(* a reader of any cached answer of the daemon may rely on.  A handler     *)
(* that finds nothing fetches and stores, with nothing to keep two of them *)
(* from doing so at once or from storing in the other order.  The code     *)
(* gives a fetch no limit; Flight is the time the calls of one request     *)
(* take at most, and an answer's age is bounded in terms of it.            *)
(***************************************************************************)
EXTENDS Integers

CONSTANTS
  Values,     \* what may be cached
  NoValue,    \* nothing is
  Readers,    \* handlers in flight at once
  TTL,        \* time to live
  Flight      \* a request's calls take no longer

\* What the theorems suppose of them; whoever instantiates the module shows it.
Readable == TTL \in Nat /\ Flight \in Nat /\ NoValue \notin Values

VARIABLES
  now,        \* the clock
  truth,      \* the values that are right now
  left,       \* left[v]: when v was last right, if it is no longer
  entry,      \* the cached value
  expiry,     \* the last moment at which it is found
  pc,         \* pc[r]: where handler r is
  began,      \* began[r]: when its request came
  got         \* got[r]: what it is about to store

vars == <<now, truth, left, entry, expiry, pc, began, got>>

Init ==
  /\ now = 0
  /\ truth \in SUBSET Values
  /\ left \in [Values -> Int] /\ \A v \in Values : left[v] <= now
  /\ entry = NoValue
  /\ expiry = -1
  /\ pc = [r \in Readers |-> "idle"]
  /\ began = [r \in Readers |-> 0]
  /\ got = [r \in Readers |-> NoValue]

\* cache.Get: an item is found up to and including its expiration.
Found == now <= expiry

\* The cache is asked; a value it has is the answer.
Ask(r) ==
  /\ pc[r] = "idle"
  /\ ~Found
  /\ pc' = [pc EXCEPT ![r] = "fetch"]
  /\ began' = [began EXCEPT ![r] = now]
  /\ UNCHANGED <<now, truth, left, entry, expiry, got>>

\* The remote call returns a value that is right at this moment.
Fetch(r) ==
  /\ pc[r] = "fetch"
  /\ \E v \in truth : got' = [got EXCEPT ![r] = v]
  /\ pc' = [pc EXCEPT ![r] = "save"]
  /\ UNCHANGED <<now, truth, left, entry, expiry, began>>

\* The request is answered and its handler gone.
Return(r) ==
  /\ pc' = [pc EXCEPT ![r] = "idle"]
  /\ began' = [began EXCEPT ![r] = 0]
  /\ got' = [got EXCEPT ![r] = NoValue]

\* The remote call fails; nothing is stored.
Fail(r) ==
  /\ pc[r] = "fetch"
  /\ Return(r)
  /\ UNCHANGED <<now, truth, left, entry, expiry>>

\* cache.Set, and the answer.
Save(r) ==
  /\ pc[r] = "save"
  /\ entry' = got[r]
  /\ expiry' = now + TTL
  /\ Return(r)
  /\ UNCHANGED <<now, truth, left>>

\* The world moves on.
Change ==
  /\ truth' \in SUBSET Values
  /\ left' = [v \in Values |-> IF v \in truth \ truth' THEN now ELSE left[v]]
  /\ UNCHANGED <<now, entry, expiry, pc, began, got>>

\* Time passes, as long as no request is overdue.  What is then past its
\* expiration is not found again, and counts as dropped.
Tick ==
  /\ \A r \in Readers : pc[r] # "idle" => now < began[r] + Flight
  /\ now' = now + 1
  /\ IF now' <= expiry
       THEN UNCHANGED <<entry, expiry>> ELSE entry' = NoValue /\ expiry' = -1
  /\ UNCHANGED <<truth, left, pc, began, got>>

Next ==
  \/ \E r \in Readers : Ask(r) \/ Fetch(r) \/ Fail(r) \/ Save(r)
  \/ Change
  \/ Tick

Spec == Init /\ [][Next]_vars

-----------------------------------------------------------------------------
\* When v was last right.
LastRight(v) == IF v \in truth THEN now ELSE left[v]

\* What the cache answers was right within the time to live and one flight;
\* what a handler answers after a fetch, within the flight.
Fresh ==
  /\ Found => LastRight(entry) >= now - (TTL + Flight)
  /\ \A r \in Readers : pc[r] = "save" => LastRight(got[r]) >= now - Flight
=============================================================================
