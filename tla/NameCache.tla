------------------------------ MODULE NameCache -----------------------------
(***************************************************************************)
(* GET /api/servers/:name/hypervisor/cache: on which hypervisor is the     *)
(* server of this name?  Two caches stand between the question and         *)
(* OpenStack, the daemon's answer for the name (60 minutes) and the        *)
(* client's listing of all servers (10 minutes), from which IDFromName     *)
(* takes the id.  Requests run side by side, and servers come, go and      *)
(* migrate meanwhile.  One name is enough: an answer is cached under its   *)
(* name alone, and the listing is used one name at a time.                 *)
(***************************************************************************)
EXTENDS Integers

CONSTANTS
  Hosts,      \* hypervisors, and the empty name of a server that is on none, in
              \* BUILD, ERROR or shelved, which the code stores like any other
  Ids,        \* ids that servers of the name get, each at most once
  Handlers,   \* requests in flight at once
  None,       \* no hypervisor, no id
  NameTTL,    \* an answer lives this long,
  ListTTL,    \* the listing this long,
  Flight,     \* and the calls of a request take no longer than this
  MaxTime     \* bound of the clock

ASSUME TimeAssumption ==
  /\ NameTTL \in Nat /\ ListTTL \in Nat /\ Flight \in Nat /\ MaxTime \in Nat
ASSUME NoneAssumption == None \notin Hosts /\ None \notin Ids

VARIABLES
  now,        \* the clock
  host,       \* host[i]: what OpenStack says of where server i is, None if there
              \* is no such server
  born,       \* the ids that have been given out
  left,       \* left[h]: when a server of the name last was on h, if none is
  changed,    \* when the servers of the name last changed
  soleEnd,    \* when there last was exactly one, if there is not
  list,       \* the cached listing: the ids that bear the name
  listExp,    \* and its expiration
  entry,      \* the cached answer
  entryExp,   \* and its expiration
  pc,         \* pc[r]: the next call of handler r
  began,      \* began[r]: when its request came
  snap,       \* snap[r]: the listing it got from OpenStack
  sid,        \* sid[r]: the id it took from a listing
  got         \* got[r]: the answer it is about to store

cloudVars == <<host, born, left, changed, soleEnd>>
vars == <<now, cloudVars, list, listExp, entry, entryExp, pc, began, snap, sid, got>>

Bearers == {i \in Ids : host[i] # None}

\* IDFromName's switch on the count.
SoleIn(S, i) == S = {i}
Sole(S) == \E i \in Ids : SoleIn(S, i)

Truth == {host[i] : i \in Bearers}

\* Types; a handler past a call holds what the call returned.
TypeOK ==
  /\ now \in 0..MaxTime
  /\ host \in [Ids -> Hosts \cup {None}]
  /\ born \subseteq Ids
  /\ left \in [Hosts -> Int] /\ changed \in Int /\ soleEnd \in Int
  /\ list \subseteq Ids /\ listExp \in Int
  /\ entry \in Hosts \cup {None} /\ entryExp \in Int
  /\ pc \in [Handlers -> {"idle", "resolve", "list", "keep", "detail", "save"}]
  /\ began \in [Handlers -> 0..MaxTime]
  /\ snap \in [Handlers -> SUBSET Ids]
  /\ sid \in [Handlers -> Ids \cup {None}]
  /\ got \in [Handlers -> Hosts \cup {None}]
  /\ \A r \in Handlers : pc[r] = "detail" => sid[r] \in Ids
  /\ \A r \in Handlers : pc[r] = "save" => got[r] \in Hosts

\* Everything that happened before happened too long ago to matter.
LongAgo == -(NameTTL + ListTTL + 2 * Flight + 1)

Init ==
  /\ now = 0
  /\ host \in [Ids -> Hosts \cup {None}]
  /\ born = Bearers
  /\ left = [h \in Hosts |-> LongAgo] /\ changed = LongAgo /\ soleEnd = LongAgo
  /\ list = {} /\ listExp = -1
  /\ entry = None /\ entryExp = -1
  /\ pc = [r \in Handlers |-> "idle"]
  /\ began = [r \in Handlers |-> 0]
  /\ snap = [r \in Handlers |-> {}]
  /\ sid = [r \in Handlers |-> None]
  /\ got = [r \in Handlers |-> None]

-----------------------------------------------------------------------------
At(r, l) == pc[r] = l

\* The request is answered and its handler gone, with all it held.
Return(r) ==
  /\ pc' = [pc EXCEPT ![r] = "idle"]
  /\ began' = [began EXCEPT ![r] = 0]
  /\ snap' = [snap EXCEPT ![r] = {}]
  /\ sid' = [sid EXCEPT ![r] = None]
  /\ got' = [got EXCEPT ![r] = None]

\* go-cache finds an item up to and including its expiration.
Found == now <= entryExp
Listed == now <= listExp

\* Mutant: every read of an answer prolongs it.
AskSliding(r) ==
  /\ At(r, "idle")
  /\ IF Found
       THEN entryExp' = now + NameTTL /\ UNCHANGED <<pc, began>>
       ELSE /\ pc' = [pc EXCEPT ![r] = "resolve"]
            /\ began' = [began EXCEPT ![r] = now]
            /\ UNCHANGED entryExp
  /\ UNCHANGED <<now, cloudVars, list, listExp, entry, snap, sid, got>>

\* A cached answer is given at once.
Ask(r) ==
  /\ At(r, "idle")
  /\ IF Found
       THEN UNCHANGED <<pc, began>>
       ELSE /\ pc' = [pc EXCEPT ![r] = "resolve"]
            /\ began' = [began EXCEPT ![r] = now]
  /\ UNCHANGED <<now, cloudVars, list, listExp, entry, entryExp, snap, sid, got>>

\* Mutant: the handler goes on when the lookup returned an error.
TakeUnchecked(r, S) ==
  /\ \/ \E i \in Ids : SoleIn(S, i) /\ sid' = [sid EXCEPT ![r] = i]
     \/ ~Sole(S) /\ UNCHANGED sid
  /\ pc' = [pc EXCEPT ![r] = "detail"]
  /\ snap' = [snap EXCEPT ![r] = {}]
  /\ UNCHANGED <<began, got>>

\* IDFromName's scan of a listing; no server, or several, is an error.
Take(r, S) ==
  \/ /\ \E i \in Ids : SoleIn(S, i) /\ sid' = [sid EXCEPT ![r] = i]
     /\ pc' = [pc EXCEPT ![r] = "detail"]
     /\ snap' = [snap EXCEPT ![r] = {}]
     /\ UNCHANGED <<began, got>>
  \/ ~Sole(S) /\ Return(r)

\* IDFromName: the cached listing, if there is one.
Resolve(r) ==
  /\ At(r, "resolve")
  /\ IF Listed
       THEN Take(r, list)
       ELSE pc' = [pc EXCEPT ![r] = "list"] /\ UNCHANGED <<began, snap, sid, got>>
  /\ UNCHANGED <<now, cloudVars, list, listExp, entry, entryExp>>

\* IDFromName: GetServers.
List(r) ==
  /\ At(r, "list")
  /\ \/ Return(r)
     \/ /\ snap' = [snap EXCEPT ![r] = Bearers]
        /\ pc' = [pc EXCEPT ![r] = "keep"]
        /\ UNCHANGED <<began, sid, got>>
  /\ UNCHANGED <<now, cloudVars, list, listExp, entry, entryExp>>

\* Mutant: the listing is kept as long as the answers.
KeepLong(r) ==
  /\ At(r, "keep")
  /\ list' = snap[r]
  /\ listExp' = now + NameTTL
  /\ Take(r, snap[r])
  /\ UNCHANGED <<now, cloudVars, entry, entryExp>>

\* IDFromName: the listing is stored, then scanned.
Keep(r) ==
  /\ At(r, "keep")
  /\ list' = snap[r]
  /\ listExp' = now + ListTTL
  /\ Take(r, snap[r])
  /\ UNCHANGED <<now, cloudVars, entry, entryExp>>

\* Mutant: the handler goes on when GetServerDetail returned an error.
DetailUnchecked(r) ==
  /\ At(r, "detail")
  /\ got' = [got EXCEPT ![r] = host[sid[r]]]
  /\ pc' = [pc EXCEPT ![r] = "save"]
  /\ sid' = [sid EXCEPT ![r] = None]
  /\ UNCHANGED <<now, cloudVars, list, listExp, entry, entryExp, began, snap>>

\* GetServerDetail, of a server that may be gone by now.
Detail(r) ==
  /\ At(r, "detail")
  /\ \/ Return(r)
     \/ /\ sid[r] \in Bearers
        /\ got' = [got EXCEPT ![r] = host[sid[r]]]
        /\ pc' = [pc EXCEPT ![r] = "save"]
        /\ sid' = [sid EXCEPT ![r] = None]
        /\ UNCHANGED <<began, snap>>
  /\ UNCHANGED <<now, cloudVars, list, listExp, entry, entryExp>>

\* The answer is stored and given, an empty hypervisor included.
Save(r) ==
  /\ At(r, "save")
  /\ entry' = got[r]
  /\ entryExp' = now + NameTTL
  /\ Return(r)
  /\ UNCHANGED <<now, cloudVars, list, listExp>>

-----------------------------------------------------------------------------
\* The servers of the name are now where h says.
Become(h) ==
  /\ host' = h
  /\ left' = [v \in Hosts |-> IF v \in Truth \ Truth' THEN now ELSE left[v]]
  /\ changed' = IF Bearers' # Bearers THEN now ELSE changed
  /\ soleEnd' = IF Sole(Bearers) /\ Bearers' # Bearers THEN now ELSE soleEnd
  /\ UNCHANGED <<now, list, listExp, entry, entryExp, pc, began, snap, sid, got>>

Create(i, h) ==
  /\ i \notin born
  /\ born' = born \cup {i}
  /\ Become([host EXCEPT ![i] = h])

Delete(i) ==
  /\ i \in Bearers
  /\ Become([host EXCEPT ![i] = None])
  /\ UNCHANGED born

Migrate(i, h) ==
  /\ i \in Bearers
  /\ h # host[i]
  /\ Become([host EXCEPT ![i] = h])
  /\ UNCHANGED born

\* Time passes, as long as no request is overdue.  What is then past its
\* expiration is not found again, and counts as dropped.
Tick ==
  /\ now < MaxTime
  /\ \A r \in Handlers : pc[r] # "idle" => now < began[r] + Flight
  /\ now' = now + 1
  /\ IF now' <= listExp
       THEN UNCHANGED <<list, listExp>> ELSE list' = {} /\ listExp' = -1
  /\ IF now' <= entryExp
       THEN UNCHANGED <<entry, entryExp>> ELSE entry' = None /\ entryExp' = -1
  /\ UNCHANGED <<cloudVars, pc, began, snap, sid, got>>

Handler(r) == Ask(r) \/ Resolve(r) \/ List(r) \/ Keep(r) \/ Detail(r) \/ Save(r)

Cloud == \E i \in Ids : Delete(i) \/ \E h \in Hosts : Create(i, h) \/ Migrate(i, h)

Next == (\E r \in Handlers : Handler(r)) \/ Cloud \/ Tick

Spec == Init /\ [][Next]_vars

-----------------------------------------------------------------------------
\* Properties.

\* What a handler is at, to those who see the answers only.
Phase == [r \in Handlers |-> IF pc[r] \in {"idle", "save"} THEN pc[r] ELSE "fetch"]

\* Each handler does for the name what CachedRead does for a value.
Reads == INSTANCE CachedRead WITH
  Values <- Hosts, NoValue <- None, Readers <- Handlers, TTL <- NameTTL,
  truth <- Truth, expiry <- entryExp,
  pc <- Phase

\* The two caches, the races between handlers and the order in which they
\* store amount to one read-through cache (rest.go:185-212).
ImplementsCachedRead == Reads!Spec

\* A hypervisor named in an answer had a server of the name on it within
\* the last 60 minutes and one flight, whatever migrated, and an answer that
\* names none is as old as that at most (rest.go:188-210).
FreshAnswers == Reads!Fresh

\* When there last was exactly one server of the name.
LastSole == IF Sole(Bearers) THEN now ELSE soleEnd

\* An answer is given only if the name was unambiguous at some moment of
\* the last 70 minutes and two flights: the two ages add up, since the id
\* may come from a listing at its end (rest.go:193, openstack.go:434).
AnsweredWasSole ==
  Found => LastSole >= now - (NameTTL + ListTTL + 2 * Flight)

\* The handler's step r is the error that no server, or not one, has the name.
Misses(r) ==
  /\ pc[r] \in {"resolve", "keep"} \/ (At(r, "detail") /\ sid[r] \notin Bearers)
  /\ pc'[r] = "idle"

\* A name that exactly one server bears is "not found" only because of a
\* change in the last 10 minutes and two flights: a listing that says
\* otherwise does not survive longer (openstack.go:434-466).
MissJustified ==
  [][\A r \in Handlers :
       (Misses(r) /\ Sole(Bearers)) => changed >= now - (ListTTL + 2 * Flight)]_vars
=============================================================================
