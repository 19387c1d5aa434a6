-------------------------- MODULE DeleteModeProofs --------------------------
(***************************************************************************)
(* The delete mode's promises for any list of names, any servers and any   *)
(* number of runs.                                                         *)
(***************************************************************************)
EXTENDS DeleteMode, FiniteSetTheorems, TLAPS

LEMMA Entries ==
  /\ Len(Nodes) \in Nat \ {0}
  /\ \A i \in 1 .. Len(Nodes) : Nodes[i] \in Names
<1>1. Len(Nodes) \in Nat \ {0}
  BY NodesAssumption
<1> QED
  BY <1>1 DEF Names

USE Entries, IdAssumption, RoundAssumption DEF Node

\* What the lookup left for the deletion: the sole bearer of the name.
Found == pc = "delete" /\ sid # NoId => Match(listing) = {sid}

\* As long as no failure is on record, every deletion so far was accepted.
Deleted ==
  proc = "running" /\ exit = 0 =>
    \A i \in 1 .. turn :
      i < turn \/ pc \notin {"lookup", "delete"} => \E id \in gone : NameOf[id] = Nodes[i]

\* And every client seen so far is gone, but for the one being removed.
Cleaned ==
  /\ pc = "delnode" => Node \notin clients
  /\ proc = "running" /\ exit = 0 =>
       \A i \in found :
         \/ (i < turn \/ pc = "exit") /\ Nodes[i] \notin clients \cup nodes
         \/ i = turn /\ pc \in {"delclient", "delnode"}

\* The loop is left after its last turn, and a run that ends of itself does so
\* with what is on record.
Ended ==
  /\ pc = "exit" => turn = Len(Nodes)
  /\ proc = "clean" => exit = 0 /\ pc = "exit"

\* The status is 1 once a deletion has failed, and not before.
OnRecord == exit = 1 <=> failed # {}

IInv ==
  /\ TypeOK
  /\ Found /\ Deleted /\ Cleaned /\ Ended /\ OnRecord
  /\ CleanExitDeleted /\ CleanExitCleaned /\ HalfCleanedReported

LEMMA InitIInv == Init => IInv
<1> SUFFICES ASSUME Init PROVE IInv
  OBVIOUS
<1>1. TypeOK
  <2>1. cached \in BOOLEAN /\ unclean \in BOOLEAN
    BY DEF Init
  <2>2. turn \in 1 .. Len(Nodes) /\ round \in 1 .. MaxRounds
    BY DEF Init
  <2>3. /\ alive \subseteq born /\ born \subseteq Ids /\ gone \subseteq born \ alive
        /\ clients \subseteq Names /\ nodes \subseteq Names
    BY DEF Init
  <2> QED
    BY <2>1, <2>2, <2>3 DEF Init, TypeOK
<1>2. Found /\ Deleted /\ Cleaned /\ Ended /\ OnRecord
  BY DEF Init, Found, Deleted, Cleaned, Ended, OnRecord
<1>3. CleanExitDeleted /\ CleanExitCleaned /\ HalfCleanedReported
  BY DEF Init, CleanExitDeleted, CleanExitCleaned, HalfCleanedReported
<1> QED
  BY <1>1, <1>2, <1>3 DEF IInv

\* IDFromName answers with the sole bearer of the name, or with no id.
LEMMA ResolveSole ==
  ASSUME NEW servers \in SUBSET Ids
  PROVE  /\ Resolve(servers) \in Ids \cup {NoId}
         /\ Resolve(servers) # NoId => Match(servers) = {Resolve(servers)}
<1>1. IsFiniteSet(Match(servers))
  BY FS_Subset DEF Match
<1>2. CASE Cardinality(Match(servers)) = 1
  <2>1. PICK id : Match(servers) = {id}
    BY <1>1, <1>2, FS_Singleton
  <2>2. Resolve(servers) = id
    BY <1>2, <2>1 DEF Resolve
  <2> QED
    BY <2>1, <2>2 DEF Match
<1>3. CASE Cardinality(Match(servers)) # 1
  BY <1>3 DEF Resolve
<1> QED
  BY <1>2, <1>3

LEMMA StepIInv == IInv /\ [Next]_vars => IInv'
<1> SUFFICES ASSUME IInv, [Next]_vars PROVE IInv'
  OBVIOUS
<1> USE DEF IInv, TypeOK, Found, Deleted, Cleaned, Ended, OnRecord,
            CleanExitDeleted, CleanExitCleaned, HalfCleanedReported, status, Fail
<1>1. CASE Lookup
  <2>1. /\ sid' \in Ids \cup {NoId}
        /\ sid' # NoId => Match(listing)' = {sid'}
    <3>1. CASE cached /\ sid' = Resolve(listing) /\ UNCHANGED cache
      BY <1>1, <3>1, ResolveSole DEF Lookup, Goto, Match, cache
    <3>2. CASE ~cached /\ sid' = Resolve(alive) /\ cached' = TRUE /\ listing' = alive
      BY <1>1, <3>2, ResolveSole DEF Lookup, Goto, Match
    <3>3. CASE sid' = NoId
      BY <3>3
    <3> QED
      BY <1>1, <3>1, <3>2, <3>3 DEF Lookup, IDFromName
  <2> QED
    BY <1>1, <2>1 DEF Lookup, IDFromName, At, Goto, cache, cloud, chef
<1>2. CASE DeleteServer
  <2>1. CASE alive' = alive \ {sid} /\ gone' = gone \cup {sid} /\ sid \in born
                /\ UNCHANGED status
    BY <1>2, <2>1 DEF DeleteServer, At, Goto, Match, cache, chef
  <2>2. CASE Fail /\ UNCHANGED <<alive, gone>>
    <3>1. TypeOK' /\ OnRecord'
      BY <1>2, <2>2 DEF DeleteServer, Goto, cache, chef
    <3> QED
      BY <1>2, <2>2, <3>1 DEF DeleteServer, At, Goto, Match, cache, chef
  <2> QED
    BY <1>2, <2>1, <2>2 DEF DeleteServer
<1>3. CASE GetClient
  <2>1. CASE Node \in clients /\ found' = found \cup {turn} /\ Goto("delclient")
                /\ UNCHANGED said
    BY <1>3, <2>1 DEF GetClient, At, Goto, cache, cloud
  <2>2. CASE said' = said \cup {Node} /\ NextTurn /\ UNCHANGED found
    BY <1>3, <2>2 DEF GetClient, At, NextTurn, cache, cloud
  <2> QED
    BY <1>3, <2>1, <2>2 DEF GetClient
<1>4. CASE DelClient
  <2>1. CASE clients' = clients \ {Node} /\ Goto("delnode") /\ UNCHANGED status
    BY <1>4, <2>1 DEF DelClient, At, Goto, cache, cloud
  <2>2. CASE NextTurn /\ Fail /\ UNCHANGED clients
    <3>1. turn' \in 1 .. Len(Nodes) /\ pc' \in {"lookup", "exit"} /\ proc' = proc
      BY <2>2 DEF NextTurn
    <3>2. TypeOK' /\ OnRecord'
      BY <1>4, <2>2, <3>1 DEF DelClient, cache, cloud
    <3> QED
      BY <1>4, <2>2, <3>2 DEF DelClient, At, NextTurn, cache, cloud
  <2> QED
    BY <1>4, <2>1, <2>2 DEF DelClient
<1>5. CASE DelNode
  <2>1. CASE nodes' = nodes \ {Node} /\ said' = said \cup {Node} /\ UNCHANGED status
    <3>1. TypeOK' /\ OnRecord' /\ Found'
      <4>1. turn' \in 1 .. Len(Nodes) /\ pc' \in {"lookup", "exit"}
        BY <1>5 DEF DelNode, NextTurn
      <4>2. nodes' \subseteq Names /\ said' \subseteq Names
        BY <2>1
      <4> QED
        BY <1>5, <2>1, <4>1, <4>2 DEF DelNode, NextTurn, cache, cloud
    <3>2. Deleted' /\ Ended' /\ CleanExitDeleted' /\ CleanExitCleaned'
      BY <1>5, <2>1 DEF DelNode, At, NextTurn, cache, cloud
    <3>3. Cleaned'
      BY <1>5, <2>1 DEF DelNode, At, NextTurn, cache, cloud
    <3>4. HalfCleanedReported'
      BY <1>5, <2>1 DEF DelNode, At, NextTurn, cache, cloud
    <3> QED
      BY <3>1, <3>2, <3>3, <3>4
  <2>2. CASE Fail /\ UNCHANGED <<nodes, said>>
    <3>1. TypeOK' /\ OnRecord'
      BY <1>5, <2>2 DEF DelNode, NextTurn, cache, cloud
    <3> QED
      BY <1>5, <2>2, <3>1 DEF DelNode, At, NextTurn, cache, cloud
  <2> QED
    BY <1>5, <2>1, <2>2 DEF DelNode
<1>6. CASE Signal
  BY <1>6 DEF Signal, Match, cache, cloud, chef
<1>7. CASE Expire
  BY <1>7 DEF Expire, Match, loop, cloud, chef
<1>8. CASE Rerun
  <2>1. TypeOK'
    <3>1. cached' \in BOOLEAN /\ unclean' \in BOOLEAN
      BY <1>8 DEF Rerun
    <3>2. turn' \in 1 .. Len(Nodes) /\ round' \in 1 .. MaxRounds
      BY <1>8 DEF Rerun
    <3> QED
      BY <1>8, <3>1, <3>2 DEF Rerun
  <2>2. (Found /\ Deleted /\ Cleaned /\ Ended /\ OnRecord
        /\ CleanExitDeleted /\ CleanExitCleaned)'
    BY <1>8 DEF Rerun
  <2>3. HalfCleanedReported'
    BY <1>8 DEF Rerun
  <2> QED
    BY <2>1, <2>2, <2>3
<1>9. CASE CloudChange
  BY <1>9 DEF CloudChange, Match, loop, cache, chef
<1>10. CASE UNCHANGED vars
  BY <1>10 DEF vars, Match, loop, cache, cloud, chef
<1>11. CASE Exit
  BY <1>11 DEF Exit, At, cache, cloud, chef
<1> QED
  BY <1>1, <1>2, <1>3, <1>4, <1>5, <1>6, <1>7, <1>8, <1>9, <1>10, <1>11
     DEF Next, Step, Halted

LEMMA AlwaysIInv == Spec => []IInv
BY InitIInv, StepIInv, PTL DEF Spec

\* Every variable of the loop keeps its type (nodeup.go:59-83).
THEOREM TypeCorrect == Spec => []TypeOK
BY AlwaysIInv, PTL DEF IInv

\* Status 0 means a deleted server for every name (nodeup.go:60-82).
THEOREM DeletionReported == Spec => []CleanExitDeleted
BY AlwaysIInv, PTL DEF IInv

\* Status 0 means that no client the run saw is left, nor its node
\* (chef.go:140-156).
THEOREM CleanUpReported == Spec => []CleanExitCleaned
BY AlwaysIInv, PTL DEF IInv

\* A half-cleaned name was reported when it was left so, in whichever run
\* (chef.go:148-153).
THEOREM HalfCleaned == Spec => []HalfCleanedReported
BY AlwaysIInv, PTL DEF IInv

-----------------------------------------------------------------------------
\* The turns that are over.
Over(i) == i < turn \/ pc = "exit"

\* A step of the loop decides the turn it ends, and no other.
LEMMA TurnDecided ==
  ASSUME IInv, NextTurn, failed' \in {failed, failed \cup {turn}}, proc = "running", pc # "exit"
  PROVE  Batch!Settle(turn)
<1> USE DEF IInv, TypeOK
<1> DEFINE v == IF turn \in failed' THEN "failed" ELSE "ok"
<1>1. \A i \in 1 .. Len(Nodes) : Over(i)' <=> Over(i) \/ i = turn
  BY DEF NextTurn, Over
<1>2. ~Over(turn)
  BY DEF Over
<1>3. Verdict' = [Verdict EXCEPT ![turn] = v]
  BY <1>1, <1>2 DEF Verdict, Over
<1>4. Verdict[turn] = "pending" /\ v \in Batch!Verdicts \ {"pending"}
  BY <1>2 DEF Verdict, Over, Batch!Verdicts
<1> QED
  BY <1>3, <1>4 DEF Batch!Settle, BatchExit, NextTurn

\* A step that moves neither the loop nor the end of the run is none of the
\* batch, even where it puts a failure of the turn it is in on record.
LEMMA Undecided ==
  ASSUME IInv, turn' = turn, proc' = proc, pc # "exit", pc' # "exit",
         failed' \in {failed, failed \cup {turn}}
  PROVE  UNCHANGED Batch!vars
BY DEF IInv, TypeOK, Verdict, BatchExit, Batch!vars

\* What a step of the delete mode is to the batch.
LEMMA BatchStep ==
  IInv /\ [Next]_vars => [Batch!Next \/ (Rerun /\ Batch!Init')]_(Batch!vars)
<1> SUFFICES ASSUME IInv, [Next]_vars
             PROVE  [Batch!Next \/ (Rerun /\ Batch!Init')]_(Batch!vars)
  OBVIOUS
<1>1. CASE Lookup
  BY <1>1, Undecided DEF Lookup, At, Goto, status
<1>2. CASE DeleteServer
  BY <1>2, Undecided DEF DeleteServer, At, Goto, Fail, status
<1>3. CASE GetClient
  BY <1>3, Undecided, TurnDecided, Entries
  DEF GetClient, At, Goto, status, Batch!Next, IInv, TypeOK
<1>4. CASE DelClient
  BY <1>4, Undecided, TurnDecided, Entries
  DEF DelClient, At, Goto, Fail, status, Batch!Next, IInv, TypeOK
<1>5. CASE DelNode
  BY <1>5, TurnDecided, Entries DEF DelNode, At, Fail, status, Batch!Next, IInv, TypeOK
<1>6. CASE Exit
  <2>1. /\ Verdict = [i \in 1 .. Len(Nodes) |-> IF i \in failed THEN "failed" ELSE "ok"]
        /\ Verdict' = Verdict
    BY <1>6 DEF Exit, At, Verdict, status
  <2>2. CASE exit = 0
    <3>1. failed = {}
      BY <2>2 DEF IInv, OnRecord
    <3> QED
      BY <1>6, <2>1, <2>2, <3>1 DEF Exit, At, BatchExit, Batch!Next, Batch!FinishClean
  <2>3. CASE exit = 1
    <3>1. \E i \in 1 .. Len(Nodes) : i \in failed
      BY <2>3 DEF IInv, OnRecord, TypeOK
    <3> QED
      BY <1>6, <2>1, <2>3, <3>1 DEF Exit, At, BatchExit, Batch!Next, Batch!FinishFlagged
  <2> QED
    BY <2>2, <2>3 DEF IInv, TypeOK
<1>7. CASE Signal
  BY <1>7 DEF Signal, status, Verdict, BatchExit, Batch!Next, Batch!Abort
<1>8. CASE Rerun
  <2>1. BatchExit' = "running"
    BY <1>8 DEF Rerun, BatchExit
  <2>2. Verdict' = [i \in 1 .. Len(Nodes) |-> "pending"]
    BY <1>8 DEF Rerun, Verdict
  <2> QED
    BY <1>8, <2>1, <2>2 DEF Batch!Init
<1>9. CASE Expire \/ CloudChange \/ UNCHANGED vars
  BY <1>9 DEF Expire, CloudChange, vars, loop, status, Verdict, BatchExit, Batch!vars
<1> QED
  BY <1>1, <1>2, <1>3, <1>4, <1>5, <1>6, <1>7, <1>8, <1>9 DEF Next, Step, Halted

LEMMA BatchInit == Init => Batch!Init
BY DEF Init, Verdict, BatchExit, Batch!Init

\* Every run of the delete mode implements BatchRun with no failure late: the
\* exit status is 1 exactly when a deletion of some turn failed
\* (nodeup.go:59-83).
THEOREM Refinement == Spec => ImplementsBatchRun
BY BatchInit, BatchStep, AlwaysIInv, PTL DEF Spec, ImplementsBatchRun

-----------------------------------------------------------------------------
\* No server is deleted by an ambiguous or failed lookup (nodeup.go:62-66).
THEOREM OnlyUnambiguous == Spec => DeletesUnambiguous
<1>1. IInv /\ [Next]_vars => [\A id \in gone' \ gone : Match(listing) = {id}]_vars
  BY DEF IInv, TypeOK, Found, Next, Step, Lookup, DeleteServer, GetClient, DelClient,
         DelNode, Exit, Signal, Expire, Rerun, CloudChange, Halted, At, cloud, chef, cache, loop, status, vars
<1> QED
  BY <1>1, AlwaysIInv, PTL DEF Spec, DeletesUnambiguous
=============================================================================
