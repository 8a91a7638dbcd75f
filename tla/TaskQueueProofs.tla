--------------------------- MODULE TaskQueueProofs ----------------------------
(* What TaskQueue promises, for all values of its constants. First its      *)
(* types, the slots of the TaskManager, the claims of the worker, and the   *)
(* table with what its statements leave on disk; then, for its users: chats *)
(* stay apart and in turn, done means served, no wake-up is lost, and the   *)
(* whole implements WorkQueue.                                              *)
EXTENDS TaskQueue, FiniteSetTheorems, WellFoundedInduction, TLAPS

\* Well-ordering, in the form the two choices below need it.
LEMMA LeastNatural ==
  ASSUME NEW T, T \subseteq Nat, T # {}
  PROVE  \E x \in T : \A y \in T : x <= y
<1> DEFINE less == OpToRel(<, Nat)
<1>1. IsWellFoundedOn(less, Nat)
  BY NatLessThanWellFounded
<1>2. PICK x \in T : \A y \in T : ~ (<<y, x>> \in less)
  <2> HIDE DEF less
  <2> QED BY <1>1, WFMin
<1>3. ASSUME NEW y \in T PROVE x <= y
  <2>1. ~ (<<y, x>> \in OpToRel(<, Nat))
    BY <1>2
  <2>2. <<y, x>> \in Nat \X Nat
    OBVIOUS
  <2>3. ~ (y < x)
    BY <2>1, <2>2 DEF OpToRel
  <2>4. x \in Nat /\ y \in Nat
    OBVIOUS
  <2> QED BY <2>3, <2>4
<1> QED BY <1>3

\* A non-empty set of row ids has an oldest member, so the SELECTs with
\* ORDER BY id LIMIT 1 return a row of the set.
LEMMA OldestIsMember ==
  ASSUME QueueAssumption, NEW S, S \subseteq RowIds, S # {}
  PROVE  Oldest(S) \in S
<1>1. S \subseteq Nat
  BY DEF QueueAssumption, RowIds
<1> QED BY <1>1, LeastNatural DEF Oldest

\* And a latest one, for ORDER BY id DESC LIMIT 1.
LEMMA LatestIsMember ==
  ASSUME QueueAssumption, NEW S, S \subseteq RowIds, S # {}
  PROVE  Latest(S) \in S
<1>1. PICK n \in Nat : RowIds = 1..n
  BY DEF QueueAssumption, RowIds
<1> DEFINE gaps == {n - s : s \in S}
<1>2. PICK g \in gaps : \A h \in gaps : g <= h
  <2>1. \A s \in S : n - s \in Nat
    BY <1>1
  <2>2. gaps \subseteq Nat /\ gaps # {}
    BY <2>1
  <2> HIDE DEF gaps
  <2> QED BY <2>2, LeastNatural
<1>3. PICK r \in S : g = n - r
  BY <1>2
<1>4. ASSUME NEW s \in S PROVE s <= r
  <2>1. n - r <= n - s
    BY <1>2, <1>3
  <2> QED BY <2>1, <1>1
<1> QED BY <1>4 DEF Latest

-----------------------------------------------------------------------------
(* Type correctness                                                        *)

\* The row enqueue inserts is a row of the table.
LEMMA NewRowType == ASSUME QueueAssumption, NEW m \in Messages PROVE NewRow(m) \in Row
BY DEF QueueAssumption, NewRow, Row, Status

\* An id the table has not handed out is a row of the model too.
LEMMA AbsentRowType == QueueAssumption => AbsentRow \in Row
<1>1. ASSUME QueueAssumption
      PROVE  /\ (CHOOSE k \in Keys : TRUE) \in Keys
             /\ (CHOOSE m \in Messages : TRUE) \in Messages
  BY <1>1 DEF QueueAssumption
<1> QED BY <1>1 DEF AbsentRow, Row, Status

\* An UPDATE of the status alone leaves a table of rows.
LEMMA SetStatusType ==
  ASSUME rows \in [RowIds -> Row], NEW S, NEW st \in Status
  PROVE  SetStatus(S, st) \in [RowIds -> Row]
BY DEF SetStatus, Row

\* The initial table holds what an earlier life left, and nothing else is there.
LEMMA InitType == Init => TypeOK
<1> SUFFICES ASSUME Init PROVE TypeOK
  OBVIOUS
<1>1. TableOK
  BY QueueAssumption, NewRowType, AbsentRowType DEF Init, TableOK, QueueAssumption
<1>2. SignalOK
  BY DEF Init, SignalOK
<1>3. WorkerOK
  BY DEF Init, NoClaim, WorkerOK, WorkerPc, Holding
<1>4. TaskOK
  BY DEF Init, TaskOK, RunPc, Causes
<1>5. TriageOK
  BY DEF Init, TriageStart, TriageOK, Triage, TriagePc, At
<1>6. BoundOK
  BY QueueAssumption DEF Init, QueueAssumption, BoundOK
<1> QED BY <1>1, <1>2, <1>3, <1>4, <1>5, <1>6 DEF TypeOK

\* What a step leaves alone keeps its type.
LEMMA Untouched ==
  ASSUME TypeOK
  PROVE  /\ UNCHANGED tableVars => TableOK'
         /\ UNCHANGED signalVars => SignalOK'
         /\ UNCHANGED workerVars => WorkerOK'
         /\ UNCHANGED taskVars => TaskOK'
         /\ UNCHANGED tri => TriageOK'
         /\ UNCHANGED boundVars => BoundOK'
<1>1. UNCHANGED tableVars => TableOK'
  BY DEF TypeOK, TableOK, tableVars
<1>2. UNCHANGED signalVars => SignalOK'
  BY DEF TypeOK, SignalOK, signalVars
<1>3. UNCHANGED workerVars => WorkerOK'
  BY DEF TypeOK, WorkerOK, workerVars
<1>4. UNCHANGED taskVars => TaskOK'
  BY DEF TypeOK, TaskOK, taskVars
<1>5. UNCHANGED tri => TriageOK'
  BY DEF TypeOK, TriageOK, At
<1>6. UNCHANGED boundVars => BoundOK'
  BY DEF TypeOK, BoundOK, boundVars
<1> QED BY <1>1, <1>2, <1>3, <1>4, <1>5, <1>6

\* A triage coroutine moves to another await, not to the merge's UPDATE.
LEMMA GotoType ==
  ASSUME TypeOK, NEW d \in Deliveries, NEW pc \in TriagePc \ {"mergeUpdate"}, Goto(d, pc)
  PROVE  TriageOK'
BY DEF TypeOK, TriageOK, Triage, Goto, At

\* Or it takes a new local state, with a row if it goes there.
LEMMA TriageStateType ==
  ASSUME TypeOK, NEW d \in Deliveries, NEW t \in Triage,
         t.pc = "mergeUpdate" => t.ids # {}, tri' = [tri EXCEPT ![d] = t]
  PROVE  TriageOK'
BY DEF TypeOK, TriageOK, At

\* A statement that sets a status and commits.
LEMMA StatusUpdateType ==
  ASSUME TypeOK, NEW S, NEW st \in Status, rows' = SetStatus(S, st), DbCommit \/ UNCHANGED disk,
         UNCHANGED fresh
  PROVE  TableOK'
BY SetStatusType DEF TypeOK, TableOK, DbCommit

\* Cancelling a task, by a user or as a zombie.
LEMMA KillTaskType ==
  ASSUME TypeOK, NEW r \in RowIds, KillTask(r)
  PROVE  TaskOK' /\ SignalOK'
BY DEF TypeOK, TaskOK, SignalOK, KillTask, Blame, cancelled, RunPc, Causes

\* Every step of the triage coroutine keeps the types.
LEMMA TriageType ==
  ASSUME TypeOK, NEW d \in Deliveries, Receive(d) \/ TriageStep(d)
  PROVE  TypeOK'
<1> USE QueueAssumption, Untouched
<1>m. MsgOf[d] \in Messages /\ KeyOf[MsgOf[d]] \in Keys
  BY DEF QueueAssumption
<1>p. EnqueuePc \in TriagePc \ {"mergeUpdate"}
  BY DEF EnqueuePc, TriagePc
<1>d. tri[d] \in Triage
  BY DEF TypeOK, TriageOK
<1>1. CASE Receive(d)
  <2>1. \E pc \in TriagePc \ {"mergeUpdate"} : Goto(d, pc)
    BY <1>1, <1>p DEF Receive, TriagePc
  <2> QED BY <1>1, <2>1, GotoType DEF Receive, TypeOK
<1>2. CASE CancelNothing(d)
  <2>1. "merge" \in TriagePc \ {"mergeUpdate"}
    BY DEF TriagePc
  <2> QED BY <1>2, <2>1, GotoType DEF CancelNothing, TypeOK
<1>3. CASE CancelTask(d)
  <2>1. "clear" \in TriagePc \ {"mergeUpdate"}
    BY DEF TriagePc
  <2>2. PICK r \in RowIds : KillTask(r)
    BY <1>3 DEF CancelTask, TasksOf, TypeOK, TaskOK
  <2> QED BY <1>3, <2>1, <2>2, KillTaskType, GotoType DEF CancelTask, TypeOK
<1>4. CASE CancelByReply(d)
  <2>1. "command" \in TriagePc \ {"mergeUpdate"}
    BY DEF TriagePc
  <2>2. PICK r \in RowIds : KillTask(r)
    BY <1>4 DEF CancelByReply, TypeOK, TaskOK
  <2> QED BY <1>4, <2>1, <2>2, KillTaskType, GotoType DEF CancelByReply, TypeOK
<1>5. CASE CancelNoTask(d)
  <2>1. \E pc \in TriagePc \ {"mergeUpdate"} : Goto(d, pc)
    BY <1>5 DEF CancelNoTask, TriagePc
  <2> QED BY <1>5, <2>1, GotoType DEF CancelNoTask, TypeOK
<1>6. CASE cancel_for_chat(d)
  <2>1. \E pc \in TriagePc \ {"mergeUpdate"} : Goto(d, pc)
    BY <1>6, <1>p DEF cancel_for_chat, TriagePc
  <2>2. TableOK'
    BY <1>6, StatusUpdateType DEF cancel_for_chat, Status
  <2> QED BY <1>6, <2>1, <2>2, GotoType DEF cancel_for_chat, TypeOK
<1>7. CASE MergeSelect(d)
  <2> DEFINE open == Direct(PendingOf(KeyOf[MsgOf[d]]))
             r == Latest(open)
             t == IF open # {} /\ Cardinality(rows[r].msgs) < MergeCap
                  THEN [pc |-> "mergeUpdate", ids |-> {r}, seen |-> rows[r].msgs]
                  ELSE [tri[d] EXCEPT !.pc = "inject"]
  <2>1. open \subseteq RowIds
    BY DEF Direct, PendingOf, Pending
  <2>2. open # {} => r \in RowIds /\ rows[r].msgs \subseteq Messages
    BY <2>1, LatestIsMember DEF TypeOK, TableOK, Row
  <2>3. tri' = [tri EXCEPT ![d] = t]
    BY <1>7 DEF MergeSelect
  <2>4. t \in Triage /\ (t.pc = "mergeUpdate" => t.ids # {})
    <3> HIDE DEF open, r
    <3> QED BY <2>2, <1>d DEF Triage, TriagePc
  <2>5. TriageOK'
    <3> HIDE DEF t
    <3> QED BY <2>3, <2>4, TriageStateType
  <2> QED BY <1>7, <2>5 DEF MergeSelect, TypeOK
<1>8. CASE MergeUpdate(d)
  <2> DEFINE r == CHOOSE x \in tri[d].ids : TRUE
             hit == StillPending(r)
             t == [pc |-> IF hit THEN "merged" ELSE "inject",
                   ids |-> IF hit THEN {r} ELSE {}, seen |-> {}]
  <2>1. r \in RowIds
    BY <1>8, <1>d DEF MergeUpdate, TypeOK, TriageOK, Triage
  <2>2. TableOK'
    <3>1. tri[d].seen \cup {MsgOf[d]} \subseteq Messages
      BY <1>d, <1>m DEF Triage
    <3>2. rows' = (IF hit THEN [rows EXCEPT ![r].msgs = tri[d].seen \cup {MsgOf[d]}] ELSE rows)
          /\ disk' = rows' /\ fresh' = (IF hit THEN fresh \cup {r} ELSE fresh)
      BY <1>8 DEF MergeUpdate, DbCommit
    <3> HIDE DEF r, hit
    <3> QED BY <2>1, <3>1, <3>2 DEF TypeOK, TableOK, Row
  <2>3. tri' = [tri EXCEPT ![d] = t]
    BY <1>8 DEF MergeUpdate
  <2>4. t \in Triage /\ t.pc # "mergeUpdate"
    <3> HIDE DEF r, hit
    <3> QED BY <2>1 DEF Triage, TriagePc
  <2>5. TriageOK'
    <3> HIDE DEF t
    <3> QED BY <2>3, <2>4, TriageStateType
  <2> QED BY <1>8, <2>2, <2>5 DEF MergeUpdate, TypeOK
<1>9. CASE Inject(d)
  <2>1. \E pc \in TriagePc \ {"mergeUpdate"} : Goto(d, pc)
    BY <1>9, <1>p DEF Inject, TriagePc
  <2>2. taken' \in [RowIds -> SUBSET Messages]
    BY <1>9, <1>m DEF Inject, TypeOK, TaskOK
  <2>3. TaskOK'
    BY <1>9, <2>2 DEF Inject, TypeOK, TaskOK
  <2> QED BY <1>9, <2>1, <2>3, GotoType DEF Inject, TypeOK
<1>10. CASE EnqueueCount(d)
  <2> DEFINE overflow == {r \in Pending :
               Cardinality({s \in Pending : s < r}) < Cardinality(Pending) + 1 - MaxPending}
             full == Cardinality(Pending) >= MaxPending
             t == [pc |-> IF full THEN "evict" ELSE "insert",
                   ids |-> IF full THEN overflow ELSE {}, seen |-> {}]
  <2>1. overflow \subseteq RowIds
    BY DEF Pending
  <2>2. tri' = [tri EXCEPT ![d] = t]
    BY <1>10 DEF EnqueueCount
  <2>3. t \in Triage /\ t.pc # "mergeUpdate"
    <3> HIDE DEF overflow, full
    <3> QED BY <2>1 DEF Triage, TriagePc
  <2>4. TriageOK'
    <3> HIDE DEF t
    <3> QED BY <2>2, <2>3, TriageStateType
  <2> QED BY <1>10, <2>4 DEF EnqueueCount, TypeOK
<1>11. CASE Evict(d)
  <2>1. "insert" \in TriagePc \ {"mergeUpdate"} /\ "cancelled" \in Status
    BY DEF TriagePc, Status
  <2>2. TableOK'
    BY <1>11, <2>1, StatusUpdateType DEF Evict
  <2>3. TaskOK'
    BY <1>11 DEF Evict, TypeOK, TaskOK, Causes
  <2> QED BY <1>11, <2>1, <2>2, <2>3, GotoType DEF Evict, TypeOK
<1>12. CASE Insert(d)
  <2> DEFINE m == MsgOf[d]
             free == {r \in RowIds : rows[r].status = "absent"}
             n == Oldest(free)
             t == [pc |-> "commit", ids |-> {n}, seen |-> {}]
  <2>1. n \in RowIds
    BY <1>12, OldestIsMember DEF Insert
  <2>2. TableOK'
    <3>1. /\ rows' = [rows EXCEPT ![n] = NewRow(m)] /\ disk' = disk
          /\ fresh' = (IF m \in Stale THEN fresh ELSE fresh \cup {n})
      BY <1>12 DEF Insert
    <3>2. NewRow(m) \in Row
      BY <1>m, NewRowType
    <3> HIDE DEF n, m
    <3> QED BY <2>1, <3>1, <3>2 DEF TypeOK, TableOK
  <2>3. TriageOK'
    <3>1. tri' = [tri EXCEPT ![d] = t]
      BY <1>12 DEF Insert
    <3>2. t \in Triage /\ t.pc # "mergeUpdate"
      <4> HIDE DEF n
      <4> QED BY <2>1 DEF Triage, TriagePc
    <3> HIDE DEF t
    <3> QED BY <3>1, <3>2, TriageStateType
  <2> QED BY <1>12, <2>2, <2>3 DEF Insert, TypeOK
<1>13. CASE Commit(d)
  <2>1. "queued" \in TriagePc \ {"mergeUpdate"}
    BY DEF TriagePc
  <2>2. TableOK'
    BY <1>13 DEF Commit, DbCommit, TypeOK, TableOK
  <2>3. SignalOK'
    BY <1>13 DEF Commit, TypeOK, SignalOK
  <2> QED BY <1>13, <2>1, <2>2, <2>3, GotoType DEF Commit, TypeOK
<1> QED
  BY <1>1, <1>2, <1>3, <1>4, <1>5, <1>6, <1>7, <1>8, <1>9, <1>10, <1>11, <1>12, <1>13
  DEF TriageStep

\* So do the loop's timers.
LEMMA TimerType ==
  ASSUME TypeOK, \/ DebounceFires
                 \/ \E k \in Keys : CatchupFires(k)
                 \/ \E r \in RowIds : WindowEnds(r)
  PROVE  TypeOK'
<1> USE Untouched
<1>1. CASE DebounceFires
  <2>1. SignalOK'
    BY <1>1 DEF DebounceFires, TypeOK, SignalOK
  <2> QED BY <1>1, <2>1 DEF DebounceFires, TypeOK
<1>2. ASSUME NEW k \in Keys, CatchupFires(k) PROVE TypeOK'
  <2>1. SignalOK'
    BY <1>2 DEF CatchupFires, TypeOK, SignalOK
  <2> QED BY <1>2, <2>1 DEF CatchupFires, TypeOK
<1>3. ASSUME NEW r \in RowIds, WindowEnds(r) PROVE TypeOK'
  <2>1. TableOK'
    BY <1>3 DEF WindowEnds, TypeOK, TableOK
  <2> QED BY <1>3, <2>1 DEF WindowEnds, TypeOK
<1> QED BY <1>1, <1>2, <1>3

\* The worker looks for another claim or goes back to sleep, and holds nothing.
LEMMA DrainType ==
  ASSUME TypeOK, NEW S, Drain(S), claim' = claim \/ claim' = NoClaim
  PROVE  WorkerOK'
<1>1. wpc' \in {"select", "wait"} /\ excluded' \subseteq Keys
  BY DEF Drain, get_over_limit_chats
<1>2. claim' \in [row : RowIds \cup {0}, ids : SUBSET RowIds, marks : SUBSET RowIds,
                  msgs : SUBSET Messages]
  BY DEF TypeOK, WorkerOK, NoClaim
<1> QED BY <1>1, <1>2 DEF WorkerOK, WorkerPc, Holding

\* The claim's SELECT takes a row.
LEMMA SelectType ==
  ASSUME TypeOK, NEW r \in RowIds, Select(r), excluded' = {}
  PROVE  WorkerOK'
<1>1. rows[r].msgs \in SUBSET Messages
  BY DEF TypeOK, TableOK, Row
<1> QED BY <1>1 DEF Select, WorkerOK, WorkerPc, Holding

\* Every step of the worker keeps the types.
LEMMA WorkerType ==
  ASSUME TypeOK, worker_loop \/ WorkerErrors
  PROVE  TypeOK'
<1> USE QueueAssumption, Untouched
<1>1. CASE WorkerWakes
  <2>1. WorkerOK'
    BY <1>1, DrainType DEF WorkerWakes
  <2>2. SignalOK'
    BY <1>1 DEF WorkerWakes, TypeOK, SignalOK
  <2> QED BY <1>1, <2>1, <2>2 DEF WorkerWakes, TypeOK
<1>2. CASE ClaimSelect
  <2>1. SignalOK'
    BY <1>2 DEF ClaimSelect, TypeOK, SignalOK
  <2>2. excluded' = {} /\ (\/ wpc' = "wait" /\ claim' = claim
                           \/ \E r \in RowIds : Select(r))
    <3> DEFINE direct == Claimable(Direct(Pending))
    <3>1. direct # {} => Oldest(direct) \in RowIds
      <4>1. direct \subseteq RowIds
        BY DEF Claimable, Direct, Pending
      <4> QED BY <4>1, OldestIsMember
    <3>2. ASSUME NEW k \in RipeKeys PROVE Oldest(CatchUp(PendingOf(k))) \in RowIds
      <4>1. CatchUp(PendingOf(k)) \subseteq RowIds /\ CatchUp(PendingOf(k)) # {}
        BY DEF RipeKeys, CatchUp, PendingOf, Pending
      <4> QED BY <4>1, OldestIsMember
    <3> QED BY <1>2, <3>1, <3>2 DEF ClaimSelect
  <2>3. WorkerOK'
    <3>1. CASE wpc' = "wait" /\ claim' = claim
      BY <3>1, <2>2 DEF TypeOK, WorkerOK, WorkerPc, Holding
    <3>2. CASE \E r \in RowIds : Select(r)
      BY <3>2, <2>2, SelectType
    <3> QED BY <2>2, <3>1, <3>2
  <2> QED BY <1>2, <2>1, <2>3 DEF ClaimSelect, TypeOK
<1>3. CASE ClaimUpdate
  <2>1. TableOK'
    BY <1>3, StatusUpdateType DEF ClaimUpdate, Status
  <2>2. WorkerOK'
    BY <1>3 DEF ClaimUpdate, TypeOK, WorkerOK, WorkerPc, Holding
  <2> QED BY <1>3, <2>1, <2>2 DEF ClaimUpdate, TypeOK
<1>4. CASE Gather
  <2>1. ChatCatchUp \subseteq RowIds
    BY DEF ChatCatchUp
  <2>2. Aggregate(ChatCatchUp) \subseteq Messages
    BY <2>1 DEF Aggregate, TypeOK, TableOK, Row
  <2>3. WorkerOK'
    BY <1>4, <2>1, <2>2 DEF Gather, TypeOK, WorkerOK, WorkerPc, Holding
  <2> QED BY <1>4, <2>3 DEF Gather, TypeOK
<1>5. CASE Mark
  <2>1. TableOK'
    BY <1>5, StatusUpdateType DEF Mark, Status
  <2>2. WorkerOK'
    BY <1>5 DEF Mark, TypeOK, WorkerOK, WorkerPc, Holding
  <2> QED BY <1>5, <2>1, <2>2 DEF Mark, TypeOK
<1>6. CASE Discard
  <2>1. TableOK'
    BY <1>6, StatusUpdateType DEF Discard, Status
  <2>2. WorkerOK'
    BY <1>6, DrainType DEF Discard
  <2>3. TaskOK'
    BY <1>6 DEF Discard, TypeOK, TaskOK, Causes
  <2> QED BY <1>6, <2>1, <2>2, <2>3 DEF Discard, TypeOK
<1>7. CASE Dispatch
  <2>1. claim.row \in RowIds /\ claim.ids \subseteq RowIds /\ claim.msgs \subseteq Messages
    BY <1>7 DEF Dispatch, TypeOK, WorkerOK, Holding
  <2>2. TaskOK'
    BY <1>7, <2>1 DEF Dispatch, TypeOK, TaskOK, RunPc
  <2>3. WorkerOK'
    BY <1>7, DrainType DEF Dispatch
  <2> QED BY <1>7, <2>2, <2>3 DEF Dispatch, TypeOK
<1>8. CASE WorkerErrors
  <2>1. WorkerOK'
    BY <1>8 DEF WorkerErrors, NoClaim, WorkerOK, WorkerPc, Holding
  <2>2. BoundOK'
    BY <1>8 DEF WorkerErrors, TypeOK, BoundOK, QueueAssumption
  <2> QED BY <1>8, <2>1, <2>2 DEF WorkerErrors, TypeOK
<1> QED
  BY <1>1, <1>2, <1>3, <1>4, <1>5, <1>6, <1>7, <1>8 DEF worker_loop

\* Every step of a task keeps the types.
LEMMA TaskType ==
  ASSUME TypeOK, NEW r \in RowIds, TaskStep(r) \/ Zombie(r)
  PROVE  TypeOK'
<1> USE Untouched
<1>1. CASE RunStarts(r)
  <2>1. TaskOK'
    BY <1>1 DEF RunStarts, TypeOK, TaskOK, RunPc
  <2> QED BY <1>1, <2>1 DEF RunStarts, TypeOK
<1>2. ASSUME NEW pc \in {"completing", "failing"}, Leave(r, pc), cause' \in [RowIds -> Causes]
      PROVE  TypeOK'
  <2>1. TaskOK'
    BY <1>2 DEF Leave, TypeOK, TaskOK, RunPc
  <2>2. SignalOK'
    BY <1>2 DEF Leave, TypeOK, SignalOK
  <2> QED BY <1>2, <2>1, <2>2 DEF Leave, TypeOK
<1>3. CASE HandlerReturns(r)
  BY <1>2, <1>3 DEF HandlerReturns, TypeOK, TaskOK
<1>4. CASE HandlerRaises(r)
  <2>1. cause' \in [RowIds -> Causes]
    BY <1>4 DEF HandlerRaises, TypeOK, TaskOK, Causes
  <2> QED BY <1>2, <1>4, <2>1 DEF HandlerRaises
<1>5. CASE Unwinds(r)
  BY <1>2, <1>5 DEF Unwinds, TypeOK, TaskOK
<1>6. CASE Zombie(r)
  BY <1>6, KillTaskType DEF Zombie, TypeOK
<1>7. ASSUME NEW pc, NEW st \in Status, CloseRows(r, pc, st) PROVE TypeOK'
  <2>1. TableOK'
    BY <1>7, StatusUpdateType DEF CloseRows
  <2>2. TaskOK'
    BY <1>7 DEF CloseRows, TypeOK, TaskOK, RunPc
  <2> QED BY <1>7, <2>1, <2>2 DEF CloseRows, TypeOK
<1>8. CASE complete(r) \/ fail(r)
  BY <1>7, <1>8 DEF complete, fail, Status
<1> QED
  BY <1>1, <1>3, <1>4, <1>5, <1>6, <1>8 DEF TaskStep

\* A shutdown keeps the types.
LEMMA ShutdownType == ASSUME TypeOK, Shutdown PROVE TypeOK'
<1> USE Untouched
<1>1. SignalOK'
  BY DEF Shutdown, TypeOK, SignalOK
<1>2. WorkerOK'
  BY DEF Shutdown, NoClaim, WorkerOK, WorkerPc, Holding
<1>3. TaskOK'
  BY DEF Shutdown, Blame, cancelled, TypeOK, TaskOK, RunPc, Causes
<1>4. restarts' = restarts /\ dbErrors' = dbErrors
  BY DEF Shutdown, boundVars
<1> QED BY <1>1, <1>2, <1>3, <1>4 DEF Shutdown, TypeOK, BoundOK

\* So does a restart, on what was committed.
LEMMA RestartType == ASSUME TypeOK, Restart PROVE TypeOK'
<1> USE QueueAssumption
<1>1. PICK deploy \in BOOLEAN, old \in SUBSET (Terminal \cap Ageing) :
        /\ rows' = gc_old_rows(startup_recovery(disk, deploy), old)
        /\ wake' = (~deploy /\ Interrupted # {})
        /\ cause' = [r \in RowIds |-> IF deploy /\ r \in Interrupted THEN "deploy" ELSE cause[r]]
        /\ fresh' = {r \in RowIds : /\ rows'[r].status = "pending" /\ ~rows'[r].catchup
                                   /\ r \in fresh \cup Interrupted}
  BY DEF Restart
<1>2. TableOK'
  <2>1. startup_recovery(disk, deploy) \in [RowIds -> Row]
    BY DEF startup_recovery, TypeOK, TableOK, Row, Status
  <2>2. ASSUME NEW table \in [RowIds -> Row] PROVE gc_old_rows(table, old) \in [RowIds -> Row]
    BY DEF gc_old_rows, Row, Status
  <2>3. rows' \in [RowIds -> Row]
    BY <1>1, <2>1, <2>2
  <2> QED BY <1>1, <2>3 DEF Restart, DbCommit, TableOK
<1>3. SignalOK'
  BY <1>1 DEF Restart, SignalOK
<1>4. WorkerOK'
  BY DEF Restart, NoClaim, WorkerOK, WorkerPc, Holding
<1>5. TaskOK'
  BY <1>1 DEF Restart, TypeOK, TaskOK, RunPc, Causes
<1>6. TriageOK'
  <2>1. tri' = [d \in Deliveries |-> IF tri[d].pc \in Finished \cup {"new"} THEN tri[d]
                                     ELSE [tri[d] EXCEPT !.pc = "lost"]]
    BY DEF Restart
  <2> QED BY <2>1 DEF TypeOK, TriageOK, Triage, TriagePc, Finished, At
<1>7. BoundOK'
  BY DEF Restart, TypeOK, BoundOK, QueueAssumption
<1> QED BY <1>2, <1>3, <1>4, <1>5, <1>6, <1>7 DEF TypeOK

LEMMA TypeStep == TypeOK /\ [Next]_vars => TypeOK'
<1> SUFFICES ASSUME TypeOK, [Next]_vars PROVE TypeOK'
  OBVIOUS
<1>1. CASE UNCHANGED vars
  BY <1>1, Untouched DEF vars, TypeOK
<1>2. CASE Next
  BY <1>2, TriageType, TimerType, WorkerType, TaskType, ShutdownType, RestartType DEF Next
<1> QED BY <1>1, <1>2

\* Type correctness of the whole message path, for any number of deliveries, rows,
\* keys and any limits: in particular a claim and a merge always have their row.
THEOREM TypeCorrect == Spec => []TypeOK
BY InitType, TypeStep, PTL DEF Spec

-----------------------------------------------------------------------------
(* Slots                                                                   *)

LEMMA InitSlots == Init => SlotsMatchRuns
BY DEF Init, SlotsMatchRuns, Unhurt

\* Cancelling a task takes its slot and its right to one away together.
LEMMA KillTaskSlots ==
  ASSUME TypeOK, SlotsMatchRuns, NEW t \in RowIds, KillTask(t), wpc' = wpc
  PROVE  SlotsMatchRuns'
BY DEF SlotsMatchRuns, KillTask, cancelled, Unhurt, TypeOK, TaskOK

LEMMA SlotsStep == TypeOK /\ SlotsMatchRuns /\ [Next]_vars => SlotsMatchRuns'
<1> SUFFICES ASSUME TypeOK, SlotsMatchRuns, [Next]_vars PROVE SlotsMatchRuns'
  OBVIOUS
<1>1. ASSUME UNCHANGED <<slots, run>>, wpc' = "stopped" \/ wpc # "stopped" PROVE SlotsMatchRuns'
  BY <1>1 DEF SlotsMatchRuns
<1>2. CASE UNCHANGED vars
  BY <1>1, <1>2 DEF vars, taskVars, workerVars
<1>3. ASSUME NEW d \in Deliveries, Receive(d) \/ TriageStep(d) PROVE SlotsMatchRuns'
  <2>1. CASE CancelTask(d)
    <3>1. PICK t \in RowIds : KillTask(t)
      BY <2>1 DEF CancelTask, TasksOf, TypeOK, TaskOK
    <3> QED BY <2>1, <3>1, KillTaskSlots DEF CancelTask, workerVars
  <2>2. CASE CancelByReply(d)
    <3>1. PICK t \in RowIds : KillTask(t)
      BY <2>2 DEF CancelByReply, TypeOK, TaskOK
    <3> QED BY <2>2, <3>1, KillTaskSlots DEF CancelByReply, workerVars
  <2>3. CASE ~CancelTask(d) /\ ~CancelByReply(d)
    <3>1. UNCHANGED <<slots, run, wpc>>
      BY <1>3, <2>3
      DEF TriageStep, Receive, CancelNothing, CancelNoTask, cancel_for_chat, MergeSelect,
          MergeUpdate, Inject, EnqueueCount, Evict, Insert, Commit, taskVars, workerVars
    <3> QED BY <1>1, <3>1
  <2> QED BY <2>1, <2>2, <2>3
<1>4. CASE worker_loop \/ WorkerErrors
  <2>1. CASE Dispatch
    <3>1. claim.row \in RowIds /\ wpc # "stopped"
      BY <2>1 DEF Dispatch, TypeOK, WorkerOK, Holding
    <3> QED BY <2>1, <3>1 DEF Dispatch, SlotsMatchRuns, Unhurt, TypeOK, TaskOK
  <2>2. CASE ~Dispatch
    <3>1. UNCHANGED <<slots, run>> /\ wpc # "stopped"
      BY <1>4, <2>2
      DEF worker_loop, WorkerWakes, ClaimSelect, ClaimUpdate, Gather, Mark, Discard,
          WorkerErrors, taskVars
    <3> QED BY <1>1, <3>1
  <2> QED BY <2>1, <2>2
<1>5. ASSUME NEW t \in RowIds, TaskStep(t) PROVE SlotsMatchRuns'
  <2>1. CASE RunStarts(t)
    BY <2>1 DEF RunStarts, SlotsMatchRuns, Unhurt, TypeOK, TaskOK, workerVars
  <2>2. ASSUME NEW pc \in {"completing", "failing"}, Leave(t, pc) PROVE SlotsMatchRuns'
    BY <2>2 DEF Leave, SlotsMatchRuns, Unhurt, TypeOK, TaskOK, workerVars
  <2>3. CASE HandlerReturns(t) \/ HandlerRaises(t) \/ Unwinds(t)
    BY <2>2, <2>3 DEF HandlerReturns, HandlerRaises, Unwinds
  <2>4. ASSUME NEW pc \in {"completing", "failing"}, NEW st, CloseRows(t, pc, st)
        PROVE  SlotsMatchRuns'
    BY <2>4 DEF CloseRows, SlotsMatchRuns, Unhurt, TypeOK, TaskOK, workerVars
  <2>5. CASE complete(t) \/ fail(t)
    BY <2>4, <2>5 DEF complete, fail
  <2> QED BY <1>5, <2>1, <2>3, <2>5 DEF TaskStep
<1>6. ASSUME NEW t \in RowIds, Zombie(t) PROVE SlotsMatchRuns'
  BY <1>6, KillTaskSlots DEF Zombie, workerVars
<1>7. CASE \/ DebounceFires \/ \E k \in Keys : CatchupFires(k)
           \/ \E t \in RowIds : WindowEnds(t)
  BY <1>1, <1>7 DEF DebounceFires, CatchupFires, WindowEnds, taskVars, workerVars
<1>8. CASE Shutdown
  BY <1>8 DEF Shutdown, SlotsMatchRuns
<1>9. CASE Restart
  BY <1>9 DEF Restart, SlotsMatchRuns, Unhurt
<1> QED
  BY <1>2, <1>3, <1>4, <1>5, <1>6, <1>7, <1>8, <1>9 DEF Next

\* No exit of _run, no cancel and no zombie kill ever leaks a TaskManager slot or
\* frees one twice, for any number of rows, deliveries and restarts.
THEOREM SlotsNeverLeak == Spec => []SlotsMatchRuns
BY InitType, TypeStep, InitSlots, SlotsStep, PTL DEF Spec

-----------------------------------------------------------------------------
(* The global cap                                                          *)

\* The worker's reading of can_accept_task() stays true until it registers.
Room == {"select", "claim", "gather", "mark", "dispatch"}
CapInv == GlobalCap /\ (wpc \in Room => Cardinality(slots) < MaxTotal)

LEMMA SlotsCount ==
  ASSUME TypeOK
  PROVE  IsFiniteSet(slots) /\ Cardinality(slots) \in Nat /\ MaxTotal \in Nat \ {0}
<1>1. PICK n \in Nat : RowIds = 1..n
  BY QueueAssumption DEF QueueAssumption, RowIds
<1>2. IsFiniteSet(RowIds)
  BY <1>1, FS_Interval
<1>3. IsFiniteSet(slots)
  BY <1>2, FS_Subset DEF TypeOK, TaskOK
<1> QED BY <1>3, FS_CardinalityType, QueueAssumption DEF QueueAssumption

LEMMA InitCap == Init => CapInv
<1> SUFFICES ASSUME Init PROVE CapInv
  OBVIOUS
<1>1. Cardinality(slots) = 0
  BY FS_EmptySet DEF Init
<1> QED BY <1>1, QueueAssumption DEF Init, CapInv, GlobalCap, Room, QueueAssumption

\* A step that gives up slots and keeps, or resets, the worker's place.
LEMMA CapShrinks ==
  ASSUME TypeOK, CapInv, slots' \subseteq slots, wpc' = wpc \/ wpc' \notin Room \/ wpc \in Room
  PROVE  CapInv'
<1>1. Cardinality(slots') \in Nat /\ Cardinality(slots') <= Cardinality(slots)
  BY SlotsCount, FS_Subset, FS_CardinalityType
<1> QED BY <1>1, SlotsCount DEF CapInv, GlobalCap

\* A step after which the worker reads can_accept_task() afresh.
LEMMA CapDrain ==
  ASSUME TypeOK, GlobalCap', Drain(slots')
  PROVE  CapInv'
BY DEF CapInv, Drain, Room

LEMMA CapStep == TypeOK /\ CapInv /\ [Next]_vars => CapInv'
<1> SUFFICES ASSUME TypeOK, CapInv, [Next]_vars PROVE CapInv'
  OBVIOUS
<1>1. CASE UNCHANGED vars
  BY <1>1, CapShrinks DEF vars, taskVars, workerVars
<1>2. ASSUME NEW d \in Deliveries, Receive(d) \/ TriageStep(d) PROVE CapInv'
  <2>1. slots' \subseteq slots /\ wpc' = wpc
    BY <1>2
    DEF TriageStep, Receive, CancelNothing, CancelTask, CancelByReply, CancelNoTask, KillTask,
        cancel_for_chat, MergeSelect, MergeUpdate, Inject, EnqueueCount, Evict, Insert, Commit,
        taskVars, workerVars
  <2> QED BY <2>1, CapShrinks
<1>3. CASE WorkerWakes \/ Discard
  <2>1. slots' = slots /\ Drain(slots)
    BY <1>3 DEF WorkerWakes, Discard, taskVars
  <2> QED BY <2>1, CapDrain DEF CapInv, GlobalCap
<1>4. CASE ClaimSelect \/ ClaimUpdate \/ Gather \/ Mark \/ WorkerErrors
  <2>1. slots' = slots
    BY <1>4 DEF ClaimSelect, ClaimUpdate, Gather, Mark, WorkerErrors, taskVars
  <2>2. wpc \in Room \/ wpc' \notin Room
    BY <1>4 DEF ClaimSelect, ClaimUpdate, Gather, Mark, WorkerErrors, Room
  <2> QED BY <2>1, <2>2, CapShrinks
<1>5. CASE Dispatch
  <2>1. slots' = slots \cup {claim.row} /\ Drain(slots')
    BY <1>5 DEF Dispatch
  <2>2. Cardinality(slots) < MaxTotal
    BY <1>5 DEF Dispatch, CapInv, Room
  <2>3. Cardinality(slots') <= Cardinality(slots) + 1
    BY <2>1, SlotsCount, FS_AddElement
  <2>4. Cardinality(slots') \in Nat
    BY <2>1, SlotsCount, FS_AddElement
  <2>5. GlobalCap'
    BY <2>2, <2>3, <2>4, SlotsCount DEF GlobalCap
  <2> QED BY <2>1, <2>5, CapDrain
<1>6. ASSUME NEW t \in RowIds, TaskStep(t) \/ Zombie(t) \/ WindowEnds(t) PROVE CapInv'
  <2>1. slots' \subseteq slots /\ wpc' = wpc
    BY <1>6
    DEF TaskStep, RunStarts, HandlerReturns, HandlerRaises, Unwinds, Leave, complete, fail,
        CloseRows, Zombie, KillTask, WindowEnds, taskVars, workerVars
  <2> QED BY <2>1, CapShrinks
<1>7. CASE DebounceFires \/ \E k \in Keys : CatchupFires(k)
  BY <1>7, CapShrinks DEF DebounceFires, CatchupFires, taskVars, workerVars
<1>8. CASE Shutdown \/ Restart
  BY <1>8, CapShrinks DEF Shutdown, Restart, Room
<1> QED
  BY <1>1, <1>2, <1>3, <1>4, <1>5, <1>6, <1>7, <1>8 DEF Next, worker_loop

\* Never more than MAX_TOTAL_TASKS tasks, although can_accept_task() is read three
\* awaits before register_task(), for any number of chats and any limit.
THEOREM GlobalCapHolds == Spec => []GlobalCap
<1>1. Init => TypeOK /\ CapInv
  BY InitType, InitCap
<1>2. TypeOK /\ CapInv /\ [Next]_vars => (TypeOK /\ CapInv)'
  BY TypeStep, CapStep
<1>3. CapInv => GlobalCap
  BY DEF CapInv
<1> QED BY <1>1, <1>2, <1>3, PTL DEF Spec

-----------------------------------------------------------------------------
(* Claims                                                                  *)

\* Rows nobody has claimed: no task has ever come from them in this life.
Untaken == {"absent", "pending"}
UntakenHasNoTask == \A r \in RowIds : rows[r].status \in Untaken => run[r] = "none"
SlotHasTask == \A r \in slots : run[r] # "none"
\* After its UPDATE the claimed row is nobody else's to claim.
ClaimedIsTaken == wpc \in Holding \ {"claim"} => rows[claim.row].status \notin Untaken
ClaimInv == UntakenHasNoTask /\ SlotHasTask /\ ClaimedIsTaken /\ ClaimIsExclusive

LEMMA InitClaim == Init => ClaimInv
BY DEF Init, ClaimInv, UntakenHasNoTask, SlotHasTask, ClaimedIsTaken, ClaimIsExclusive, Holding

\* A row leaves "absent" or "pending" for good, but for an INSERT into a free id.
Takes == \A r \in RowIds : rows'[r].status \in Untaken => rows[r].status \in Untaken

\* A step that leaves the worker and the tasks alone, and gives no row back.
LEMMA ClaimTable ==
  ASSUME TypeOK, ClaimInv, Takes, UNCHANGED workerVars, UNCHANGED <<slots, run>>
  PROVE  ClaimInv'
BY DEF ClaimInv, UntakenHasNoTask, SlotHasTask, ClaimedIsTaken, ClaimIsExclusive, Takes,
       workerVars, TypeOK, WorkerOK, Holding

\* Setting any other status gives no row back.
LEMMA StatusTakes ==
  ASSUME TypeOK, NEW S, NEW st \in Status \ Untaken, rows' = SetStatus(S, st)
  PROVE  Takes
BY DEF Takes, SetStatus, TypeOK, TableOK, Row, Untaken

\* A task that is cancelled has been dispatched.
LEMMA KillTaskClaim ==
  ASSUME TypeOK, ClaimInv, NEW t \in RowIds, KillTask(t), run[t] # "none",
         UNCHANGED rows, UNCHANGED workerVars
  PROVE  ClaimInv'
<1>1. \A r \in RowIds : run'[r] = "none" <=> run[r] = "none"
  BY DEF KillTask, cancelled, TypeOK, TaskOK
<1> QED
  BY <1>1 DEF ClaimInv, UntakenHasNoTask, SlotHasTask, ClaimedIsTaken, ClaimIsExclusive,
              KillTask, workerVars, TypeOK, TaskOK, WorkerOK, Holding

LEMMA TriageClaim ==
  ASSUME TypeOK, ClaimInv, NEW d \in Deliveries, Receive(d) \/ TriageStep(d)
  PROVE  ClaimInv'
<1>1. CASE CancelTask(d)
  <2>1. PICK t \in slots : KillTask(t)
    BY <1>1 DEF CancelTask, TasksOf
  <2> QED BY <1>1, <2>1, KillTaskClaim
          DEF CancelTask, ClaimInv, SlotHasTask, TypeOK, TaskOK, tableVars
<1>2. CASE CancelByReply(d)
  <2>1. PICK t \in slots : KillTask(t)
    BY <1>2 DEF CancelByReply
  <2> QED BY <1>2, <2>1, KillTaskClaim
          DEF CancelByReply, ClaimInv, SlotHasTask, TypeOK, TaskOK, tableVars
<1>3. CASE \/ Receive(d) \/ CancelNothing(d) \/ CancelNoTask(d) \/ MergeSelect(d)
           \/ EnqueueCount(d) \/ Commit(d) \/ Inject(d)
  <2>1. UNCHANGED rows /\ UNCHANGED workerVars /\ UNCHANGED <<slots, run>>
    BY <1>3 DEF Receive, CancelNothing, CancelNoTask, MergeSelect, EnqueueCount, Commit,
                Inject, tableVars, taskVars
  <2>2. Takes
    BY <2>1 DEF Takes
  <2> QED BY <2>1, <2>2, ClaimTable
<1>4. CASE cancel_for_chat(d) \/ Evict(d)
  <2>1. Takes
    <3>1. "cancelled" \in Status \ Untaken
      BY DEF Status, Untaken
    <3> QED BY <1>4, <3>1, StatusTakes DEF cancel_for_chat, Evict
  <2> QED BY <1>4, <2>1, ClaimTable DEF cancel_for_chat, Evict, taskVars
<1>5. CASE MergeUpdate(d)
  <2>1. Takes
    BY <1>5 DEF MergeUpdate, Takes, TypeOK, TableOK, Row
  <2> QED BY <1>5, <2>1, ClaimTable DEF MergeUpdate, taskVars
<1>6. CASE Insert(d)
  <2> DEFINE free == {r \in RowIds : rows[r].status = "absent"}
  <2>1. Oldest(free) \in free
    BY <1>6, QueueAssumption, OldestIsMember DEF Insert
  <2>2. Takes
    <3>1. rows' = [rows EXCEPT ![Oldest(free)] = NewRow(MsgOf[d])]
      BY <1>6 DEF Insert
    <3> QED BY <2>1, <3>1 DEF Takes, Untaken, TypeOK, TableOK, Row
  <2> QED BY <1>6, <2>2, ClaimTable DEF Insert, taskVars
<1> QED BY <1>1, <1>2, <1>3, <1>4, <1>5, <1>6 DEF TriageStep

\* The worker's steps after which it holds no claim.
LEMMA NoClaimStep ==
  ASSUME TypeOK, ClaimInv, Takes, wpc' \notin Holding, UNCHANGED <<slots, run>>
  PROVE  ClaimInv'
BY DEF ClaimInv, UntakenHasNoTask, SlotHasTask, ClaimedIsTaken, ClaimIsExclusive, Takes

\* The claim's SELECT finds a pending row of a chat that is not excluded, or nothing.
LEMMA SelectsPending ==
  ASSUME TypeOK, ClaimSelect
  PROVE  wpc' = "wait" \/ \E r \in Pending : Select(r) /\ rows[r].key \notin excluded
<1> DEFINE direct == Claimable(Direct(Pending))
<1>1. direct # {} => Oldest(direct) \in Pending /\ rows[Oldest(direct)].key \notin excluded
  <2>1. direct \subseteq RowIds
    BY DEF Claimable, Direct, Pending
  <2>2. direct # {} => Oldest(direct) \in direct
    BY <2>1, OldestIsMember, QueueAssumption
  <2> QED BY <2>2 DEF Claimable, Direct
<1>2. ASSUME NEW k \in RipeKeys, NEW r, r = Oldest(CatchUp(PendingOf(k)))
      PROVE  r \in Pending /\ rows[r].key \notin excluded
  <2>1. CatchUp(PendingOf(k)) \subseteq RowIds /\ CatchUp(PendingOf(k)) # {}
    BY DEF RipeKeys, CatchUp, PendingOf, Pending
  <2>2. r \in CatchUp(PendingOf(k))
    BY <1>2, <2>1, OldestIsMember, QueueAssumption
  <2> QED BY <2>2 DEF RipeKeys, CatchUp, PendingOf
<1> QED BY <1>1, <1>2 DEF ClaimSelect

LEMMA WorkerClaim ==
  ASSUME TypeOK, ClaimInv, worker_loop \/ WorkerErrors
  PROVE  ClaimInv'
<1>n. UNCHANGED rows => Takes
  BY DEF Takes
<1>s. {"processing", "done"} \subseteq Status \ Untaken
  BY DEF Status, Untaken
<1>1. CASE WorkerWakes \/ WorkerErrors
  BY <1>1, <1>n, NoClaimStep DEF WorkerWakes, WorkerErrors, Drain, Holding, tableVars, taskVars
<1>2. CASE ClaimSelect
  <2>3. wpc' = "wait" \/ \E r \in Pending : Select(r)
    BY <1>2, SelectsPending
  <2>4. UNCHANGED rows /\ UNCHANGED <<slots, run>>
    BY <1>2 DEF ClaimSelect, tableVars, taskVars
  <2>5. CASE wpc' = "wait"
    BY <1>n, <2>4, <2>5, NoClaimStep DEF Holding
  <2>6. ASSUME NEW r \in Pending, Select(r) PROVE ClaimInv'
    <3>1. wpc' = "claim" /\ claim'.row = r /\ run[r] = "none"
      BY <2>6 DEF Select, Pending, ClaimInv, UntakenHasNoTask, Untaken
    <3> QED BY <2>4, <3>1 DEF ClaimInv, UntakenHasNoTask, SlotHasTask, ClaimedIsTaken,
                              ClaimIsExclusive, Holding
  <2> QED BY <2>3, <2>5, <2>6
<1>3. CASE ClaimUpdate
  <2>1. Takes
    BY <1>3, <1>s, StatusTakes DEF ClaimUpdate
  <2>2. claim.row \in RowIds /\ rows'[claim.row].status = "processing"
    BY <1>3 DEF ClaimUpdate, SetStatus, TypeOK, TableOK, Row, WorkerOK, Holding
  <2> QED BY <1>3, <2>1, <2>2
          DEF ClaimUpdate, Takes, Untaken, ClaimInv, UntakenHasNoTask, SlotHasTask,
              ClaimedIsTaken, ClaimIsExclusive, Holding, taskVars
<1>4. CASE Gather \/ Mark
  <2>1. Takes
    BY <1>4, <1>n, <1>s, StatusTakes DEF Gather, Mark, tableVars
  <2>2. claim.row \in RowIds /\ claim'.row = claim.row /\ wpc \in Holding \ {"claim"}
    BY <1>4 DEF Gather, Mark, TypeOK, WorkerOK, Holding
  <2> QED BY <1>4, <2>1, <2>2
          DEF Gather, Mark, Takes, ClaimInv, UntakenHasNoTask, SlotHasTask, ClaimedIsTaken,
              ClaimIsExclusive, Holding, taskVars
<1>5. CASE Discard
  <2>1. Takes
    BY <1>5, <1>s, StatusTakes DEF Discard
  <2> QED BY <1>5, <2>1, NoClaimStep DEF Discard, Drain, Holding
<1>6. CASE Dispatch
  <2>1. claim.row \in RowIds /\ rows[claim.row].status \notin Untaken /\ wpc' \notin Holding
    BY <1>6 DEF Dispatch, Drain, TypeOK, WorkerOK, Holding, ClaimInv, ClaimedIsTaken
  <2>2. /\ rows' = rows /\ slots' = slots \cup {claim.row}
        /\ run' = [run EXCEPT ![claim.row] = "created"]
    BY <1>6 DEF Dispatch, tableVars
  <2> QED BY <2>1, <2>2 DEF ClaimInv, UntakenHasNoTask, SlotHasTask, ClaimedIsTaken,
                            ClaimIsExclusive, TypeOK, TaskOK
<1> QED BY <1>1, <1>2, <1>3, <1>4, <1>5, <1>6 DEF worker_loop

\* A task goes on or ends; it does not become one that never was.
LEMMA RunGoesOn ==
  ASSUME TypeOK, ClaimInv, NEW t \in RowIds, run[t] # "none", NEW pc \in RunPc \ {"none"},
         run' = [run EXCEPT ![t] = pc], slots' \subseteq slots, Takes, UNCHANGED workerVars
  PROVE  ClaimInv'
BY DEF ClaimInv, UntakenHasNoTask, SlotHasTask, ClaimedIsTaken, ClaimIsExclusive, Takes,
       workerVars, TypeOK, TaskOK, WorkerOK, Holding

LEMMA TaskClaim ==
  ASSUME TypeOK, ClaimInv, NEW t \in RowIds, TaskStep(t) \/ Zombie(t)
  PROVE  ClaimInv'
<1>n. UNCHANGED rows => Takes
  BY DEF Takes
<1>1. CASE RunStarts(t)
  <2>1. "running" \in RunPc \ {"none"}
    BY DEF RunPc
  <2> QED BY <1>1, <1>n, <2>1, RunGoesOn DEF RunStarts, tableVars
<1>2. CASE HandlerReturns(t) \/ HandlerRaises(t) \/ Unwinds(t)
  <2>1. PICK pc \in {"completing", "failing"} : Leave(t, pc)
    BY <1>2 DEF HandlerReturns, HandlerRaises, Unwinds
  <2>2. run[t] # "none" /\ pc \in RunPc \ {"none"}
    BY <1>2 DEF HandlerReturns, HandlerRaises, Unwinds, RunPc
  <2>3. /\ run' = [run EXCEPT ![t] = pc] /\ slots' \subseteq slots /\ UNCHANGED rows
        /\ UNCHANGED workerVars
    BY <2>1 DEF Leave, tableVars
  <2> QED BY <1>n, <2>2, <2>3, RunGoesOn
<1>3. CASE complete(t) \/ fail(t)
  <2>1. PICK pc \in {"completing", "failing"}, st \in {"done", "failed"} : CloseRows(t, pc, st)
    BY <1>3 DEF complete, fail
  <2>2. Takes
    <3>1. st \in Status \ Untaken
      BY DEF Status, Untaken
    <3> QED BY <2>1, <3>1, StatusTakes DEF CloseRows
  <2>3. "ended" \in RunPc \ {"none"}
    BY DEF RunPc
  <2> QED BY <2>1, <2>2, <2>3, RunGoesOn DEF CloseRows
<1>4. CASE Zombie(t)
  BY <1>4, KillTaskClaim DEF Zombie, tableVars
<1> QED BY <1>1, <1>2, <1>3, <1>4 DEF TaskStep

LEMMA ClaimStep == TypeOK /\ ClaimInv /\ [Next]_vars => ClaimInv'
<1> SUFFICES ASSUME TypeOK, ClaimInv, [Next]_vars PROVE ClaimInv'
  OBVIOUS
<1>n. UNCHANGED rows => Takes
  BY DEF Takes
<1>1. CASE UNCHANGED vars
  BY <1>1, <1>n, ClaimTable DEF vars, tableVars, taskVars
<1>2. CASE \/ DebounceFires \/ \E k \in Keys : CatchupFires(k)
           \/ \E t \in RowIds : WindowEnds(t)
  BY <1>2, <1>n, ClaimTable DEF DebounceFires, CatchupFires, WindowEnds, tableVars, taskVars
<1>3. CASE Shutdown
  <2>1. \A r \in RowIds : run'[r] = "none" <=> run[r] = "none"
    BY <1>3 DEF Shutdown, cancelled
  <2> QED BY <1>3, <2>1
          DEF Shutdown, ClaimInv, UntakenHasNoTask, SlotHasTask, ClaimedIsTaken,
              ClaimIsExclusive, Holding, tableVars, TypeOK, TaskOK
<1>4. CASE Restart
  BY <1>4 DEF Restart, ClaimInv, UntakenHasNoTask, SlotHasTask, ClaimedIsTaken,
              ClaimIsExclusive, Holding
<1> QED
  BY <1>1, <1>2, <1>3, <1>4, TriageClaim, WorkerClaim, TaskClaim DEF Next

\* No row is dispatched twice in one life of the process, although the claim's
\* SELECT and UPDATE are apart and its UPDATE checks nothing.
THEOREM ClaimsAreExclusive == Spec => []ClaimIsExclusive
<1>1. Init => TypeOK /\ ClaimInv
  BY InitType, InitClaim
<1>2. TypeOK /\ ClaimInv /\ [Next]_vars => (TypeOK /\ ClaimInv)'
  BY TypeStep, ClaimStep
<1>3. ClaimInv => ClaimIsExclusive
  BY DEF ClaimInv
<1> QED BY <1>1, <1>2, <1>3, PTL DEF Spec

-----------------------------------------------------------------------------
(* The table                                                               *)

\* A row that exists says of which message it is, and carries that message and
\* others of its chat.
RowsTrue ==
  \A r \in RowIds : rows[r].status # "absent" =>
    /\ rows[r].key = KeyOf[rows[r].mid] /\ (rows[r].catchup <=> rows[r].mid \in Stale)
    /\ rows[r].mid \in rows[r].msgs
    /\ \A m \in rows[r].msgs : KeyOf[m] = rows[r].key

\* What is committed is behind what the connection sees by statuses and by whole
\* INSERTs only.
DiskBehind ==
  \A r \in RowIds : disk[r].status # "absent" =>
    /\ rows[r].status # "absent"
    /\ disk[r].key = rows[r].key /\ disk[r].mid = rows[r].mid
    /\ disk[r].catchup = rows[r].catchup /\ disk[r].msgs = rows[r].msgs

\* What a triage coroutine remembers over an await: ids of rows that exist, a text of
\* the chat it merges into, the row it has inserted, which is on disk once enqueue
\* has returned.
Recalls(d, t, table, saved) ==
  /\ t.pc \in {"mergeUpdate", "evict", "commit", "queued"} =>
       \A r \in t.ids : table[r].status # "absent"
  /\ t.pc = "mergeUpdate" =>
       /\ \A m \in t.seen : KeyOf[m] = KeyOf[MsgOf[d]]
       /\ \A r \in t.ids : table[r].key = KeyOf[MsgOf[d]] /\ table[r].mid \in t.seen
  /\ t.pc = "commit" => \A r \in t.ids : table[r].mid = MsgOf[d]
  /\ t.pc = "queued" => \A r \in t.ids : saved[r].status # "absent" /\ saved[r].mid = MsgOf[d]
TriageRecalls == \A d \in Deliveries : Recalls(d, tri[d], rows, disk)

\* Likewise the worker, for its claim, and a task, for its siblings.
SiblingsExist == \A r \in RowIds : \A s \in siblings[r] : rows[s].status # "absent"
ClaimExists ==
  wpc \in Holding => \A s \in claim.ids \cup claim.marks \cup {claim.row} : rows[s].status # "absent"

TableInv == RowsTrue /\ DiskBehind /\ TriageRecalls /\ SiblingsExist /\ ClaimExists

\* No row loses its identity, and none is deleted.
Keeps ==
  \A r \in RowIds : rows[r].status # "absent" =>
    /\ rows'[r].status # "absent"
    /\ rows'[r].key = rows[r].key /\ rows'[r].mid = rows[r].mid
    /\ rows'[r].catchup = rows[r].catchup

\* Statuses change and nothing else.
Restatus ==
  \A r \in RowIds :
    /\ rows'[r].key = rows[r].key /\ rows'[r].mid = rows[r].mid
    /\ rows'[r].catchup = rows[r].catchup /\ rows'[r].msgs = rows[r].msgs
    /\ rows'[r].status = "absent" <=> rows[r].status = "absent"

Saves == disk' = disk \/ disk' = rows'

LEMMA InitTable == Init => TableInv
<1> SUFFICES ASSUME Init PROVE TableInv
  OBVIOUS
<1>1. ASSUME NEW r \in RowIds, rows[r].status # "absent"
      PROVE  r \in DOMAIN Leftover /\ rows[r] = NewRow(Leftover[r]) /\ Leftover[r] \in Messages
  BY <1>1, QueueAssumption DEF Init, AbsentRow, QueueAssumption
<1>2. RowsTrue
  <2>1. ASSUME NEW m PROVE /\ NewRow(m).key = KeyOf[m] /\ NewRow(m).mid = m
                           /\ NewRow(m).msgs = {m} /\ (NewRow(m).catchup <=> m \in Stale)
    BY DEF NewRow
  <2> QED BY <1>1, <2>1 DEF RowsTrue
<1>3. DiskBehind
  BY DEF Init, DiskBehind
<1>4. TriageRecalls
  BY DEF Init, TriageRecalls, Recalls, TriageStart
<1>5. SiblingsExist /\ ClaimExists
  BY DEF Init, SiblingsExist, ClaimExists, Holding
<1> QED BY <1>2, <1>3, <1>4, <1>5 DEF TableInv

\* An UPDATE of the status of rows that exist.
LEMMA StatusOnly ==
  ASSUME TypeOK, NEW S \in SUBSET RowIds, NEW st \in Status \ {"absent"},
         \A r \in S : rows[r].status # "absent", rows' = SetStatus(S, st)
  PROVE  Restatus
BY DEF TypeOK, TableOK, Row, SetStatus, Restatus

LEMMA RestatusTable ==
  ASSUME TypeOK, RowsTrue, DiskBehind, Restatus, Saves
  PROVE  RowsTrue' /\ DiskBehind' /\ Keeps
<1>1. RowsTrue'
  BY DEF RowsTrue, Restatus
<1>2. Keeps
  BY DEF Restatus, Keeps
<1>3. DiskBehind'
  <2>1. CASE disk' = disk
    BY <2>1 DEF DiskBehind, Restatus
  <2>2. CASE disk' = rows'
    BY <2>2 DEF DiskBehind
  <2> QED BY <2>1, <2>2 DEF Saves
<1> QED BY <1>1, <1>2, <1>3

\* What is remembered stays true while rows keep their identity.
LEMMA RecallsKept ==
  ASSUME TypeOK, DiskBehind, Keeps, Saves, NEW d \in Deliveries, NEW t \in Triage,
         Recalls(d, t, rows, disk)
  PROVE  Recalls(d, t, rows', disk')
<1>1. t.ids \subseteq RowIds
  BY DEF Triage
<1> QED BY <1>1 DEF Recalls, Keeps, Saves, DiskBehind

\* A statement of a triage coroutine, which is left with a local state that says the truth.
LEMMA TriageTable ==
  ASSUME TypeOK, TableInv, RowsTrue', DiskBehind', Keeps, Saves,
         UNCHANGED <<siblings, wpc, claim>>,
         NEW d \in Deliveries, NEW t \in Triage, tri' = [tri EXCEPT ![d] = t],
         Recalls(d, t, rows', disk')
  PROVE  TableInv'
<1>1. ASSUME NEW e \in Deliveries PROVE Recalls(e, tri'[e], rows', disk')
  <2>1. CASE e = d
    BY <2>1 DEF TypeOK, TriageOK
  <2>2. CASE e # d
    <3>1. tri[e] \in Triage /\ tri'[e] = tri[e]
      BY <2>2 DEF TypeOK, TriageOK
    <3>2. Recalls(e, tri[e], rows, disk)
      BY DEF TableInv, TriageRecalls
    <3>3. Recalls(e, tri[e], rows', disk')
      BY <3>1, <3>2, RecallsKept DEF TableInv
    <3> QED BY <3>1, <3>3
  <2> QED BY <2>1, <2>2
<1>2. SiblingsExist'
  BY DEF TableInv, SiblingsExist, Keeps, TypeOK, TaskOK
<1>3. ClaimExists'
  BY DEF TableInv, ClaimExists, Keeps, TypeOK, WorkerOK
<1> QED BY <1>1, <1>2, <1>3 DEF TableInv, TriageRecalls

\* Or with one that remembers nothing.
Forgetful == TriagePc \ {"mergeUpdate", "evict", "commit", "queued"}
LEMMA ForgetTable ==
  ASSUME TypeOK, TableInv, RowsTrue', DiskBehind', Keeps, Saves,
         UNCHANGED <<siblings, wpc, claim>>,
         NEW d \in Deliveries, NEW pc \in Forgetful, Goto(d, pc)
  PROVE  TableInv'
<1> DEFINE t == [tri[d] EXCEPT !.pc = pc]
<1>1. t \in Triage /\ t.pc = pc
  BY DEF TypeOK, TriageOK, Triage, Forgetful
<1>2. Recalls(d, t, rows', disk')
  BY <1>1 DEF Recalls, Forgetful
<1>3. tri' = [tri EXCEPT ![d] = t]
  BY DEF Goto
<1> HIDE DEF t
<1> QED BY <1>1, <1>2, <1>3, TriageTable

LEMMA SameTable ==
  ASSUME TypeOK, TableInv, UNCHANGED <<rows, disk>>
  PROVE  RowsTrue' /\ DiskBehind' /\ Keeps /\ Saves
BY DEF TableInv, RowsTrue, DiskBehind, Keeps, Saves

LEMMA TriageStepTable ==
  ASSUME TypeOK, TableInv, NEW d \in Deliveries, Receive(d) \/ TriageStep(d)
  PROVE  TableInv'
<1> USE QueueAssumption
<1>m. MsgOf[d] \in Messages /\ KeyOf[MsgOf[d]] \in Keys
  BY DEF QueueAssumption
<1>d. tri[d] \in Triage
  BY DEF TypeOK, TriageOK
<1>e. EnqueuePc \in Forgetful
  BY DEF EnqueuePc, Forgetful, TriagePc
<1>p. {"dropped", "merge", "clear", "command", "clearPending", "cancel", "inject", "injected",
       "insert", "merged"} \subseteq Forgetful
  BY DEF Forgetful, TriagePc
<1>t. RowsTrue /\ DiskBehind /\ Recalls(d, tri[d], rows, disk)
  BY DEF TableInv, TriageRecalls
<1>1. CASE \/ Receive(d) \/ CancelNothing(d) \/ CancelTask(d) \/ CancelByReply(d)
           \/ CancelNoTask(d) \/ Inject(d)
  <2>1. \E pc \in Forgetful : Goto(d, pc)
    BY <1>1, <1>p, <1>e DEF Receive, CancelNothing, CancelTask, CancelByReply, CancelNoTask, Inject
  <2>2. UNCHANGED <<rows, disk>> /\ UNCHANGED <<siblings, wpc, claim>>
    BY <1>1 DEF Receive, CancelNothing, CancelTask, CancelByReply, CancelNoTask, Inject,
                KillTask, tableVars, workerVars, taskVars
  <2> QED BY <2>1, <2>2, SameTable, ForgetTable
<1>2. CASE cancel_for_chat(d)
  <2> DEFINE S == PendingOf(KeyOf[MsgOf[d]])
  <2>1. S \subseteq RowIds /\ \A r \in S : rows[r].status # "absent"
    BY DEF PendingOf, Pending
  <2>2. rows' = SetStatus(S, "cancelled") /\ Saves
    BY <1>2 DEF cancel_for_chat, DbCommit, Saves
  <2>3. "cancelled" \in Status \ {"absent"}
    BY DEF Status
  <2>4. Restatus
    <3> HIDE DEF S
    <3> QED BY <2>1, <2>2, <2>3, StatusOnly
  <2>5. \E pc \in Forgetful : Goto(d, pc)
    BY <1>2, <1>p, <1>e DEF cancel_for_chat
  <2> QED BY <1>2, <1>t, <2>2, <2>4, <2>5, RestatusTable, ForgetTable
          DEF cancel_for_chat, workerVars, taskVars
<1>3. CASE MergeSelect(d)
  <2> DEFINE open == Direct(PendingOf(KeyOf[MsgOf[d]]))
             r == Latest(open)
             room == open # {} /\ Cardinality(rows[r].msgs) < MergeCap
             t == [pc |-> "mergeUpdate", ids |-> {r}, seen |-> rows[r].msgs]
  <2>1. UNCHANGED <<rows, disk>> /\ UNCHANGED <<siblings, wpc, claim>>
    BY <1>3 DEF MergeSelect, tableVars, workerVars, taskVars
  <2>2. CASE ~ room
    <3>1. Goto(d, "inject")
      BY <1>3, <2>2 DEF MergeSelect, Goto
    <3> QED BY <1>p, <2>1, <3>1, SameTable, ForgetTable
  <2>3. CASE room
    <3>1. open \subseteq RowIds
      BY DEF Direct, PendingOf, Pending
    <3>2. r \in open
      BY <2>3, <3>1, LatestIsMember
    <3>3. r \in RowIds /\ rows[r].key = KeyOf[MsgOf[d]] /\ rows[r].status # "absent"
      BY <3>2 DEF Direct, PendingOf, Pending
    <3>4. /\ t \in Triage /\ tri' = [tri EXCEPT ![d] = t]
          /\ t.pc = "mergeUpdate" /\ t.ids = {r} /\ t.seen = rows[r].msgs
      <4>1. rows[r].msgs \subseteq Messages
        BY <3>3 DEF TypeOK, TableOK, Row
      <4>2. tri' = [tri EXCEPT ![d] = t]
        BY <1>3, <2>3 DEF MergeSelect
      <4> HIDE DEF r
      <4> QED BY <3>3, <4>1, <4>2 DEF Triage, TriagePc
    <3> HIDE DEF t, r, open
    <3>5. Recalls(d, t, rows, disk)
      BY <1>t, <3>3, <3>4 DEF RowsTrue, Recalls
    <3> QED BY <2>1, <3>4, <3>5, SameTable, TriageTable
  <2> QED BY <2>2, <2>3
<1>4. CASE MergeUpdate(d)
  <2> DEFINE r == CHOOSE x \in tri[d].ids : TRUE
             hit == StillPending(r)
             t == [pc |-> IF hit THEN "merged" ELSE "inject",
                   ids |-> IF hit THEN {r} ELSE {}, seen |-> {}]
             msgs == tri[d].seen \cup {MsgOf[d]}
  <2>1. r \in tri[d].ids /\ r \in RowIds
    BY <1>4, <1>d DEF MergeUpdate, TypeOK, TriageOK, Triage
  <2>2. /\ rows' = (IF hit THEN [rows EXCEPT ![r].msgs = msgs] ELSE rows)
        /\ disk' = rows'
        /\ UNCHANGED <<siblings, wpc, claim>>
    BY <1>4 DEF MergeUpdate, DbCommit, workerVars, taskVars
  <2>3. /\ \A m \in msgs : KeyOf[m] = rows[r].key
        /\ rows[r].mid \in msgs
    BY <1>4, <1>t, <2>1 DEF MergeUpdate, At, Recalls
  <2>4. t \in Triage /\ t.pc \in Forgetful /\ tri' = [tri EXCEPT ![d] = t]
    <3>1. tri' = [tri EXCEPT ![d] = t]
      BY <1>4 DEF MergeUpdate
    <3> HIDE DEF r, hit
    <3> QED BY <2>1, <3>1 DEF Triage, Forgetful, TriagePc
  <2> HIDE DEF r, hit, t, msgs
  <2>5. \A s \in RowIds :
          /\ rows'[s].status = rows[s].status /\ rows'[s].key = rows[s].key
          /\ rows'[s].mid = rows[s].mid /\ rows'[s].catchup = rows[s].catchup
          /\ rows'[s].msgs = rows[s].msgs \/ (s = r /\ rows'[s].msgs = msgs)
    BY <2>1, <2>2 DEF TypeOK, TableOK, Row
  <2>6. RowsTrue'
    BY <1>t, <2>3, <2>5 DEF RowsTrue
  <2>7. DiskBehind' /\ Saves
    BY <2>2 DEF DiskBehind, Saves
  <2>8. Keeps
    BY <2>5 DEF Keeps
  <2>9. Recalls(d, t, rows', disk')
    BY <2>4 DEF Recalls, Forgetful
  <2> QED BY <2>2, <2>4, <2>6, <2>7, <2>8, <2>9, TriageTable
<1>5. CASE EnqueueCount(d)
  <2> DEFINE overflow == {r \in Pending :
               Cardinality({s \in Pending : s < r}) < Cardinality(Pending) + 1 - MaxPending}
             full == Cardinality(Pending) >= MaxPending
             t == [pc |-> IF full THEN "evict" ELSE "insert",
                   ids |-> IF full THEN overflow ELSE {}, seen |-> {}]
  <2>1. overflow \subseteq RowIds /\ \A r \in overflow : rows[r].status # "absent"
    BY DEF Pending
  <2>2. tri' = [tri EXCEPT ![d] = t]
    BY <1>5 DEF EnqueueCount
  <2>3. t \in Triage /\ t.pc \in {"evict", "insert"} /\ \A r \in t.ids : rows[r].status # "absent"
    <3> HIDE DEF overflow, full
    <3> QED BY <2>1 DEF Triage, TriagePc
  <2>4. UNCHANGED <<rows, disk>> /\ UNCHANGED <<siblings, wpc, claim>>
    BY <1>5 DEF EnqueueCount, tableVars, workerVars, taskVars
  <2> HIDE DEF t
  <2>5. Recalls(d, t, rows', disk')
    BY <2>3, <2>4 DEF Recalls
  <2> QED BY <2>2, <2>3, <2>4, <2>5, SameTable, TriageTable
<1>6. CASE Evict(d)
  <2>1. tri[d].ids \in SUBSET RowIds /\ \A r \in tri[d].ids : rows[r].status # "absent"
    BY <1>6, <1>d, <1>t DEF Evict, At, Recalls, Triage
  <2>2. "cancelled" \in Status \ {"absent"}
    BY DEF Status
  <2>3. Restatus /\ Saves
    BY <1>6, <2>1, <2>2, StatusOnly DEF Evict, Saves
  <2>4. "insert" \in Forgetful /\ Goto(d, "insert") /\ UNCHANGED <<siblings, wpc, claim>>
    BY <1>6, <1>p DEF Evict, workerVars
  <2> QED BY <1>t, <2>3, <2>4, RestatusTable, ForgetTable
<1>7. CASE Insert(d)
  <2> DEFINE m == MsgOf[d]
             free == {r \in RowIds : rows[r].status = "absent"}
             n == Oldest(free)
             t == [pc |-> "commit", ids |-> {n}, seen |-> {}]
  <2>1. n \in RowIds /\ rows[n].status = "absent"
    <3>1. n \in free
      BY <1>7, OldestIsMember DEF Insert
    <3> QED BY <3>1
  <2>2. /\ rows' = [rows EXCEPT ![n] = NewRow(m)] /\ disk' = disk
        /\ tri' = [tri EXCEPT ![d] = t] /\ UNCHANGED <<siblings, wpc, claim>>
    BY <1>7 DEF Insert, workerVars, taskVars
  <2>3. t \in Triage /\ t.pc = "commit" /\ t.ids = {n}
    <3> HIDE DEF n
    <3> QED BY <2>1 DEF Triage, TriagePc
  <2>4. /\ NewRow(m).key = KeyOf[m] /\ NewRow(m).mid = m /\ NewRow(m).status = "pending"
        /\ NewRow(m).msgs = {m} /\ (NewRow(m).catchup <=> m \in Stale)
    BY DEF NewRow
  <2> HIDE DEF m, n, t
  <2>5. rows'[n] = NewRow(m) /\ \A s \in RowIds \ {n} : rows'[s] = rows[s]
    BY <2>1, <2>2 DEF TypeOK, TableOK
  <2>6. RowsTrue'
    <3> SUFFICES ASSUME NEW s \in RowIds, rows'[s].status # "absent"
                 PROVE  /\ rows'[s].key = KeyOf[rows'[s].mid]
                        /\ (rows'[s].catchup <=> rows'[s].mid \in Stale)
                        /\ rows'[s].mid \in rows'[s].msgs
                        /\ \A x \in rows'[s].msgs : KeyOf[x] = rows'[s].key
      BY DEF RowsTrue
    <3>1. CASE s = n
      BY <2>4, <2>5, <3>1
    <3>2. CASE s # n
      BY <1>t, <2>5, <3>2 DEF RowsTrue
    <3> QED BY <3>1, <3>2
  <2>7. DiskBehind' /\ Keeps /\ Saves
    <3>1. disk[n].status = "absent"
      BY <1>t, <2>1 DEF DiskBehind
    <3> QED BY <1>t, <2>1, <2>2, <2>5, <3>1 DEF DiskBehind, Keeps, Saves
  <2>8. Recalls(d, t, rows', disk')
    BY <2>3, <2>4, <2>5 DEF Recalls, m
  <2> QED BY <2>2, <2>3, <2>6, <2>7, <2>8, TriageTable
<1>8. CASE Commit(d)
  <2> DEFINE t == [tri[d] EXCEPT !.pc = "queued"]
  <2>1. /\ rows' = rows /\ disk' = rows' /\ tri' = [tri EXCEPT ![d] = t]
        /\ UNCHANGED <<siblings, wpc, claim>> /\ tri[d].pc = "commit"
    BY <1>8 DEF Commit, DbCommit, Goto, At, workerVars, taskVars
  <2>2. t \in Triage /\ t.pc = "queued" /\ t.ids = tri[d].ids
    BY <1>d DEF Triage, TriagePc
  <2> HIDE DEF t
  <2>3. RowsTrue' /\ DiskBehind' /\ Keeps /\ Saves
    BY <1>t, <2>1 DEF RowsTrue, DiskBehind, Keeps, Saves
  <2>4. Recalls(d, t, rows', disk')
    BY <1>t, <2>1, <2>2 DEF Recalls
  <2> QED BY <2>1, <2>2, <2>3, <2>4, TriageTable
<1> QED BY <1>1, <1>2, <1>3, <1>4, <1>5, <1>6, <1>7, <1>8 DEF TriageStep

\* A step of the worker or of a task: no triage coroutine moves.
LEMMA OtherTable ==
  ASSUME TypeOK, TableInv, RowsTrue', DiskBehind', Keeps, Saves, UNCHANGED tri,
         SiblingsExist', ClaimExists'
  PROVE  TableInv'
<1>1. ASSUME NEW d \in Deliveries PROVE Recalls(d, tri[d], rows', disk')
  <2>1. tri[d] \in Triage
    BY DEF TypeOK, TriageOK
  <2>2. Recalls(d, tri[d], rows, disk)
    BY DEF TableInv, TriageRecalls
  <2> QED BY <2>1, <2>2, RecallsKept DEF TableInv
<1> QED BY <1>1 DEF TableInv, TriageRecalls

LEMMA SiblingsKept ==
  ASSUME TypeOK, TableInv, Keeps, UNCHANGED siblings
  PROVE  SiblingsExist'
BY DEF TableInv, SiblingsExist, Keeps, TypeOK, TaskOK

LEMMA ClaimKept ==
  ASSUME TypeOK, TableInv, Keeps, wpc' \in Holding => wpc \in Holding /\ claim' = claim
  PROVE  ClaimExists'
BY DEF TableInv, ClaimExists, Keeps, TypeOK, WorkerOK

\* Rows the worker holds exist, and so may be given any status.
LEMMA HeldRestatus ==
  ASSUME TypeOK, TableInv, wpc \in Holding,
         NEW S \in SUBSET (claim.ids \cup claim.marks \cup {claim.row} \cup ChatCatchUp),
         NEW st \in {"processing", "done"}, rows' = SetStatus(S, st)
  PROVE  Restatus
<1>1. S \in SUBSET RowIds
  BY DEF TypeOK, WorkerOK, ChatCatchUp
<1>2. \A s \in S : rows[s].status # "absent"
  BY DEF TableInv, ClaimExists, ChatCatchUp
<1>3. st \in Status \ {"absent"}
  BY DEF Status
<1> QED BY <1>1, <1>2, <1>3, StatusOnly

LEMMA WorkerTable ==
  ASSUME TypeOK, TableInv, worker_loop \/ WorkerErrors
  PROVE  TableInv'
<1> USE QueueAssumption
<1>1. CASE WorkerWakes \/ WorkerErrors
  <2>1. UNCHANGED <<rows, disk>> /\ UNCHANGED <<tri, siblings>> /\ wpc' \notin Holding
    BY <1>1 DEF WorkerWakes, WorkerErrors, Drain, Holding, tableVars, taskVars
  <2> QED BY <2>1, SameTable, SiblingsKept, ClaimKept, OtherTable
<1>2. CASE ClaimSelect
  <2>3. wpc' = "wait" \/ \E r \in Pending : Select(r)
    BY <1>2, SelectsPending
  <2>4. UNCHANGED <<rows, disk>> /\ UNCHANGED <<tri, siblings>>
    BY <1>2 DEF ClaimSelect, tableVars, taskVars
  <2>5. ClaimExists'
    <3>1. CASE wpc' = "wait"
      BY <3>1 DEF ClaimExists, Holding
    <3>2. CASE \E r \in Pending : Select(r)
      BY <2>4, <3>2 DEF ClaimExists, Select, Pending
    <3> QED BY <2>3, <3>1, <3>2
  <2> QED BY <2>4, <2>5, SameTable, SiblingsKept, OtherTable
<1>3. CASE ClaimUpdate \/ Mark
  <2>1. wpc \in Holding /\ claim' = claim /\ UNCHANGED <<tri, siblings>> /\ Saves
    BY <1>3 DEF ClaimUpdate, Mark, Holding, Saves, DbCommit, taskVars
  <2>2. Restatus
    BY <1>3, <2>1, HeldRestatus DEF ClaimUpdate, Mark
  <2>3. RowsTrue' /\ DiskBehind' /\ Keeps
    BY <2>1, <2>2, RestatusTable DEF TableInv
  <2> QED BY <2>1, <2>3, SiblingsKept, ClaimKept, OtherTable
<1>4. CASE Gather
  <2>1. /\ UNCHANGED <<rows, disk>> /\ UNCHANGED <<tri, siblings>>
        /\ claim.row \in RowIds /\ rows[claim.row].status # "absent"
        /\ claim'.row = claim.row /\ claim'.ids = ChatCatchUp
        /\ claim'.marks = ChatCatchUp \cap Pending
    BY <1>4 DEF Gather, Holding, TableInv, ClaimExists, TypeOK, WorkerOK, tableVars, taskVars
  <2>2. ClaimExists'
    BY <2>1 DEF ClaimExists, ChatCatchUp
  <2> QED BY <2>1, <2>2, SameTable, SiblingsKept, OtherTable
<1>5. CASE Discard
  <2>1. /\ wpc \in Holding /\ wpc' \notin Holding /\ UNCHANGED <<tri, siblings>> /\ Saves
        /\ rows' = SetStatus(ChatCatchUp, "done")
    BY <1>5 DEF Discard, Drain, Holding, Saves, DbCommit
  <2>2. Restatus
    BY <2>1, HeldRestatus
  <2>3. RowsTrue' /\ DiskBehind' /\ Keeps
    BY <2>1, <2>2, RestatusTable DEF TableInv
  <2> QED BY <2>1, <2>3, SiblingsKept, ClaimKept, OtherTable
<1>6. CASE Dispatch
  <2>1. /\ UNCHANGED <<rows, disk>> /\ UNCHANGED tri /\ wpc' \notin Holding
        /\ siblings' = [siblings EXCEPT ![claim.row] = claim.ids]
        /\ \A s \in claim.ids : rows[s].status # "absent"
    BY <1>6 DEF Dispatch, Drain, Holding, tableVars, TableInv, ClaimExists
  <2>2. SiblingsExist'
    BY <2>1 DEF TableInv, SiblingsExist, TypeOK, TaskOK
  <2> QED BY <2>1, <2>2, SameTable, ClaimKept, OtherTable
<1> QED BY <1>1, <1>2, <1>3, <1>4, <1>5, <1>6 DEF worker_loop

\* A task has a row, and its siblings exist: closing them changes statuses.
LEMMA TaskTable ==
  ASSUME TypeOK, ClaimInv, TableInv, NEW t \in RowIds, TaskStep(t) \/ Zombie(t) \/ WindowEnds(t)
  PROVE  TableInv'
<1>1. CASE complete(t) \/ fail(t)
  <2>1. PICK pc \in {"completing", "failing"}, st \in {"done", "failed"} : CloseRows(t, pc, st)
    BY <1>1 DEF complete, fail
  <2> DEFINE S == {t} \cup siblings[t]
  <2>2. S \in SUBSET RowIds /\ \A s \in S : rows[s].status # "absent"
    BY <2>1 DEF CloseRows, TableInv, SiblingsExist, ClaimInv, UntakenHasNoTask, Untaken,
                TypeOK, TaskOK
  <2>3. /\ rows' = SetStatus(S, st) /\ st \in Status \ {"absent"} /\ Saves
        /\ UNCHANGED <<tri, siblings>> /\ UNCHANGED <<wpc, claim>>
    BY <2>1 DEF CloseRows, Status, Saves, DbCommit, workerVars
  <2>4. Restatus
    <3> HIDE DEF S
    <3> QED BY <2>2, <2>3, StatusOnly
  <2>5. RowsTrue' /\ DiskBehind' /\ Keeps
    BY <2>3, <2>4, RestatusTable DEF TableInv
  <2> QED BY <2>3, <2>5, SiblingsKept, ClaimKept, OtherTable
<1>2. CASE \/ RunStarts(t) \/ HandlerReturns(t) \/ HandlerRaises(t) \/ Unwinds(t)
           \/ Zombie(t) \/ WindowEnds(t)
  <2>1. UNCHANGED <<rows, disk>> /\ UNCHANGED <<tri, siblings>> /\ UNCHANGED <<wpc, claim>>
    BY <1>2 DEF RunStarts, HandlerReturns, HandlerRaises, Unwinds, Leave, Zombie, KillTask,
                WindowEnds, tableVars, workerVars, taskVars
  <2> QED BY <2>1, SameTable, SiblingsKept, ClaimKept, OtherTable
<1> QED BY <1>1, <1>2 DEF TaskStep

\* A restart falls back to what was committed, which is as true as the rest.
LEMMA RestartTable ==
  ASSUME TypeOK, TableInv, Restart
  PROVE  TableInv'
<1>1. PICK deploy \in BOOLEAN, old \in SUBSET (Terminal \cap Ageing) :
        rows' = gc_old_rows(startup_recovery(disk, deploy), old)
  BY DEF Restart
<1>2. \A r \in RowIds :
        /\ rows'[r].key = disk[r].key /\ rows'[r].mid = disk[r].mid
        /\ rows'[r].catchup = disk[r].catchup /\ rows'[r].msgs = disk[r].msgs
        /\ (rows'[r].status = "absent") <=> (disk[r].status = "absent")
  <2>1. \A r \in old : disk[r].status # "absent"
    BY DEF Terminal
  <2> QED BY <1>1, <2>1 DEF gc_old_rows, startup_recovery, TypeOK, TableOK, Row
<1>3. RowsTrue'
  BY <1>2 DEF TableInv, DiskBehind, RowsTrue
<1>4. DiskBehind'
  BY DEF Restart, DbCommit, DiskBehind
<1>5. TriageRecalls'
  <2> SUFFICES ASSUME NEW d \in Deliveries PROVE Recalls(d, tri'[d], rows', disk')
    BY DEF TriageRecalls
  <2>1. \/ tri'[d].pc \in (Finished \cup {"new"}) \ {"queued"}
        \/ tri'[d].pc = "queued" /\ tri'[d] = tri[d]
    BY DEF Restart, TypeOK, TriageOK, Triage, Finished
  <2>2. CASE tri'[d].pc \in (Finished \cup {"new"}) \ {"queued"}
    BY <2>2 DEF Recalls, Finished
  <2>3. CASE tri'[d].pc = "queued" /\ tri'[d] = tri[d]
    <3>1. \A r \in tri[d].ids : r \in RowIds /\ disk[r].status # "absent" /\ disk[r].mid = MsgOf[d]
      BY <2>3 DEF TableInv, TriageRecalls, Recalls, TypeOK, TriageOK, Triage
    <3> QED BY <1>2, <2>3, <3>1 DEF Recalls, Restart, DbCommit
  <2> QED BY <2>1, <2>2, <2>3
<1>6. SiblingsExist' /\ ClaimExists'
  BY DEF Restart, SiblingsExist, ClaimExists, Holding
<1> QED BY <1>3, <1>4, <1>5, <1>6 DEF TableInv

LEMMA TableStep == TypeOK /\ ClaimInv /\ TableInv /\ [Next]_vars => TableInv'
<1> SUFFICES ASSUME TypeOK, ClaimInv, TableInv, [Next]_vars PROVE TableInv'
  OBVIOUS
<1>1. CASE \/ UNCHANGED vars \/ DebounceFires \/ \E k \in Keys : CatchupFires(k)
  <2>1. UNCHANGED <<rows, disk>> /\ UNCHANGED <<tri, siblings>> /\ UNCHANGED <<wpc, claim>>
    BY <1>1 DEF DebounceFires, CatchupFires, vars, tableVars, workerVars, taskVars
  <2> QED BY <2>1, SameTable, SiblingsKept, ClaimKept, OtherTable
<1>2. CASE Shutdown
  <2>1. UNCHANGED <<rows, disk>> /\ UNCHANGED <<tri, siblings>> /\ wpc' \notin Holding
    BY <1>2 DEF Shutdown, Holding, tableVars
  <2> QED BY <2>1, SameTable, SiblingsKept, ClaimKept, OtherTable
<1> QED BY <1>1, <1>2, TriageStepTable, WorkerTable, TaskTable, RestartTable DEF Next

\* What every later invariant of the queue rests on.
QueueInv == TypeOK /\ ClaimInv /\ TableInv
LEMMA InitQueue == Init => QueueInv
BY InitType, InitClaim, InitTable DEF QueueInv
LEMMA QueueStep == QueueInv /\ [Next]_vars => QueueInv'
BY TypeStep, ClaimStep, TableStep DEF QueueInv
LEMMA QueueInvariant == Spec => []QueueInv
BY InitQueue, QueueStep, PTL DEF Spec

\* What a step can do to the table: nothing, a status, a merge, an INSERT, a restart.
Existing == {r \in RowIds : rows[r].status # "absent"}
Closing == {"processing", "done", "failed", "cancelled"}
LEMMA TableChange ==
  ASSUME QueueInv, [Next]_vars
  PROVE  \/ rows' = rows /\ disk' \in {rows, disk}
         \/ \E S \in SUBSET Existing, st \in Closing :
              rows' = SetStatus(S, st) /\ (DbCommit \/ (UNCHANGED disk /\ st = "cancelled"))
         \/ \E d \in Deliveries : MergeUpdate(d) \/ Insert(d)
         \/ Restart
<1> DEFINE Sets == \E S \in SUBSET Existing, st \in Closing :
              rows' = SetStatus(S, st) /\ (DbCommit \/ (UNCHANGED disk /\ st = "cancelled"))
<1>t. TypeOK /\ TableInv /\ ClaimInv
  BY DEF QueueInv
<1>s. {"processing", "done", "failed", "cancelled"} \subseteq Closing
  BY DEF Closing
<1>1. ASSUME NEW d \in Deliveries, Receive(d) \/ TriageStep(d)
      PROVE  Sets \/ (rows' = rows /\ disk' \in {rows, disk}) \/ MergeUpdate(d) \/ Insert(d)
  <2>1. CASE cancel_for_chat(d) \/ Evict(d)
    <3>1. /\ PendingOf(KeyOf[MsgOf[d]]) \in SUBSET Existing
          /\ At(d, "evict") => tri[d].ids \in SUBSET Existing
      BY <1>t DEF PendingOf, Pending, TypeOK, TriageOK, Triage, TableInv, TriageRecalls, Recalls,
                  At, Existing
    <3> QED BY <1>s, <2>1, <3>1 DEF cancel_for_chat, Evict
  <2>2. CASE \/ Receive(d) \/ CancelNothing(d) \/ CancelTask(d) \/ CancelByReply(d)
             \/ CancelNoTask(d) \/ MergeSelect(d) \/ Inject(d) \/ EnqueueCount(d) \/ Commit(d)
    <3>1. rows' = rows /\ disk' \in {rows, disk}
      BY <2>2 DEF Receive, CancelNothing, CancelTask, CancelByReply, CancelNoTask, MergeSelect,
                  Inject, EnqueueCount, Commit, DbCommit, tableVars
    <3> QED BY <3>1
  <2> QED BY <1>1, <2>1, <2>2 DEF TriageStep
<1>2. ASSUME worker_loop \/ WorkerErrors PROVE Sets \/ (rows' = rows /\ disk' = disk)
  <2>1. CASE ClaimUpdate \/ Mark \/ Discard
    <3>1. /\ ChatCatchUp \in SUBSET Existing
          /\ wpc \in Holding => claim.marks \in SUBSET Existing /\ {claim.row} \in SUBSET Existing
      BY <1>t DEF TypeOK, WorkerOK, ChatCatchUp, TableInv, ClaimExists, Existing
    <3> QED BY <1>s, <2>1, <3>1 DEF ClaimUpdate, Mark, Discard, Holding
  <2>2. CASE WorkerWakes \/ ClaimSelect \/ Gather \/ Dispatch \/ WorkerErrors
    <3>1. rows' = rows /\ disk' = disk
      BY <2>2 DEF WorkerWakes, ClaimSelect, Gather, Dispatch, WorkerErrors, tableVars
    <3> QED BY <3>1
  <2> QED BY <1>2, <2>1, <2>2 DEF worker_loop
<1>3. ASSUME NEW t \in RowIds, TaskStep(t) \/ Zombie(t) \/ WindowEnds(t)
      PROVE  Sets \/ (rows' = rows /\ disk' = disk)
  <2>1. CASE complete(t) \/ fail(t)
    <3>1. run[t] # "none" => {t} \cup siblings[t] \in SUBSET Existing
      BY <1>t DEF TypeOK, TaskOK, TableInv, SiblingsExist, ClaimInv, UntakenHasNoTask, Untaken, Existing
    <3> QED BY <1>s, <2>1, <3>1 DEF complete, fail, CloseRows
  <2>2. CASE \/ RunStarts(t) \/ HandlerReturns(t) \/ HandlerRaises(t) \/ Unwinds(t)
             \/ Zombie(t) \/ WindowEnds(t)
    <3>1. rows' = rows /\ disk' = disk
      BY <2>2 DEF RunStarts, HandlerReturns, HandlerRaises, Unwinds, Leave, Zombie, WindowEnds,
                  tableVars
    <3> QED BY <3>1
  <2> QED BY <1>3, <2>1, <2>2 DEF TaskStep
<1>4. CASE \/ UNCHANGED vars \/ DebounceFires \/ Shutdown \/ \E k \in Keys : CatchupFires(k)
  BY <1>4 DEF DebounceFires, Shutdown, CatchupFires, vars, tableVars
<1> HIDE DEF Sets
<1> QED BY <1>1, <1>2, <1>3, <1>4 DEF Next, Sets

\* No step but a restart deletes a row, changes whose it is, or makes it pending again.
LEMMA StepKeeps ==
  ASSUME QueueInv, [Next]_vars
  PROVE  Restart \/ (Keeps /\ Takes)
<1>t. rows \in [RowIds -> Row]
  BY DEF QueueInv, TypeOK, TableOK
<1>1. CASE rows' = rows
  BY <1>1 DEF Keeps, Takes
<1>2. CASE \E S \in SUBSET Existing, st \in Closing : rows' = SetStatus(S, st)
  BY <1>t, <1>2 DEF Keeps, Takes, Untaken, SetStatus, Closing, Row
<1>3. ASSUME NEW d \in Deliveries, MergeUpdate(d) PROVE Keeps /\ Takes
  BY <1>t, <1>3 DEF MergeUpdate, Keeps, Takes, Row
<1>4. ASSUME NEW d \in Deliveries, Insert(d) PROVE Keeps /\ Takes
  <2> DEFINE free == {s \in RowIds : rows[s].status = "absent"}
  <2>1. Oldest(free) \in free
    BY <1>4, OldestIsMember, QueueAssumption DEF Insert
  <2>2. rows' = [rows EXCEPT ![Oldest(free)] = NewRow(MsgOf[d])]
    BY <1>4 DEF Insert
  <2> QED BY <1>t, <2>1, <2>2 DEF Keeps, Takes, Untaken
<1> QED BY <1>1, <1>2, <1>3, <1>4, TableChange

\* Once enqueue has returned its row is on disk, whatever coroutine's commit or crash
\* comes next: for any number of deliveries, restarts and evictions.
THEOREM AcceptIsDurable == Spec => []DurableAccept
<1>1. QueueInv => DurableAccept
  BY DEF QueueInv, TableInv, TriageRecalls, Recalls, DurableAccept, At
<1> QED BY <1>1, QueueInvariant, PTL

\* The content of a row that has left pending is final: a merge that comes late, after
\* the claim of the row, changes nothing.
THEOREM ContentIsFrozen == Spec => FrozenContent
<1> DEFINE Frozen == \A r \in RowIds :
             (rows[r].status \notin {"absent", "pending"} /\ rows'[r].status # "absent")
               => rows'[r].msgs = rows[r].msgs
<1>1. QueueInv /\ [Next]_vars => [Frozen]_vars
  <2> SUFFICES ASSUME QueueInv, [Next]_vars, NEW r \in RowIds,
                      rows[r].status \notin {"absent", "pending"}, rows'[r].status # "absent"
               PROVE  rows'[r].msgs = rows[r].msgs
    OBVIOUS
  <2>t. rows \in [RowIds -> Row] /\ disk \in [RowIds -> Row]
    BY DEF QueueInv, TypeOK, TableOK
  <2>1. CASE \E S \in SUBSET Existing, st \in Closing : rows' = SetStatus(S, st)
    BY <2>t, <2>1 DEF SetStatus, Row
  <2>2. ASSUME NEW d \in Deliveries, MergeUpdate(d) PROVE rows'[r].msgs = rows[r].msgs
    BY <2>t, <2>2 DEF MergeUpdate, StillPending, Row
  <2>3. ASSUME NEW d \in Deliveries, Insert(d) PROVE rows'[r].msgs = rows[r].msgs
    <3> DEFINE free == {s \in RowIds : rows[s].status = "absent"}
    <3>1. Oldest(free) \in free
      BY <2>3, OldestIsMember, QueueAssumption DEF Insert
    <3>2. rows' = [rows EXCEPT ![Oldest(free)] = NewRow(MsgOf[d])]
      BY <2>3 DEF Insert
    <3> QED BY <2>t, <3>1, <3>2
  <2>4. CASE Restart
    <3>1. PICK deploy \in BOOLEAN, old \in SUBSET (Terminal \cap Ageing) :
            rows' = gc_old_rows(startup_recovery(disk, deploy), old)
      BY <2>4 DEF Restart
    <3>2. rows'[r].msgs = disk[r].msgs /\ (disk[r].status = "absent" => rows'[r].status = "absent")
      <4>1. old \subseteq {x \in RowIds : disk[x].status # "absent"}
        BY DEF Terminal
      <4> QED BY <2>t, <3>1, <4>1 DEF gc_old_rows, startup_recovery, Row
    <3> QED BY <3>2 DEF QueueInv, TableInv, DiskBehind
  <2> QED BY <2>1, <2>2, <2>3, <2>4, TableChange
<1> QED BY <1>1, QueueInvariant, PTL DEF Spec, FrozenContent


-----------------------------------------------------------------------------
(* Chats                                                                   *)

\* The messages a worker holds, and those a task was handed, are of its row's chat.
OneChat ==
  /\ wpc \in Holding => \A m \in claim.msgs : KeyOf[m] = rows[claim.row].key
  /\ \A r \in RowIds : \A m \in taken[r] : rows[r].status # "absent" /\ KeyOf[m] = rows[r].key

LEMMA InitOneChat == Init => OneChat
BY DEF Init, OneChat, Holding

\* While rows keep their identity and nobody is handed anything.
LEMMA OneChatKept ==
  ASSUME QueueInv, OneChat, Keeps, UNCHANGED taken,
         wpc' \in Holding => wpc \in Holding /\ claim' = claim
  PROVE  OneChat'
<1>1. wpc' \in Holding => \A m \in claim'.msgs : KeyOf[m] = rows'[claim'.row].key
  BY DEF QueueInv, TypeOK, WorkerOK, TableInv, ClaimExists, OneChat, Keeps
<1>2. \A r \in RowIds : \A m \in taken[r] : rows'[r].status # "absent" /\ KeyOf[m] = rows'[r].key
  BY DEF OneChat, Keeps
<1> QED BY <1>1, <1>2 DEF OneChat

LEMMA OneChatStep == QueueInv /\ OneChat /\ [Next]_vars => OneChat'
<1> SUFFICES ASSUME QueueInv, OneChat, [Next]_vars PROVE OneChat'
  OBVIOUS
<1> USE QueueAssumption
<1>1. CASE Restart
  BY <1>1 DEF Restart, OneChat, Holding
<1> SUFFICES ASSUME Keeps PROVE OneChat'
  BY <1>1, StepKeeps
<1>t. TypeOK /\ ClaimInv /\ RowsTrue /\ ClaimExists
  BY DEF QueueInv, TableInv
<1>2. CASE \E d \in Deliveries : Inject(d)
  <2>1. PICK d \in Deliveries : Inject(d)
    BY <1>2
  <2>2. taken' = taken \/ \E r \in RowIds : /\ run[r] = "running" /\ rows[r].key = KeyOf[MsgOf[d]]
                                            /\ taken' = [taken EXCEPT ![r] = @ \cup {MsgOf[d]}]
    BY <2>1 DEF Inject
  <2>3. UNCHANGED <<wpc, claim, rows>>
    BY <2>1 DEF Inject, workerVars, tableVars
  <2>4. CASE taken' = taken
    BY <2>3, <2>4, OneChatKept
  <2>5. ASSUME NEW r \in RowIds, run[r] = "running", rows[r].key = KeyOf[MsgOf[d]],
               taken' = [taken EXCEPT ![r] = @ \cup {MsgOf[d]}]
        PROVE  OneChat'
    <3>1. rows[r].status # "absent"
      BY <1>t, <2>5 DEF ClaimInv, UntakenHasNoTask, Untaken
    <3> QED BY <1>t, <2>3, <2>5, <3>1 DEF OneChat, TypeOK, TaskOK
  <2> QED BY <2>2, <2>4, <2>5
<1>3. CASE ClaimSelect
  <2>3. wpc' = "wait" \/ \E r \in Pending : Select(r)
    BY <1>3, <1>t, SelectsPending
  <2>4. UNCHANGED <<rows, taken>>
    BY <1>3 DEF ClaimSelect, tableVars, taskVars
  <2>5. CASE wpc' = "wait"
    BY <2>4, <2>5 DEF OneChat, Holding
  <2>6. ASSUME NEW r \in Pending, Select(r) PROVE OneChat'
    <3>1. claim'.row = r /\ claim'.msgs = rows[r].msgs /\ r \in RowIds /\ rows[r].status # "absent"
      BY <2>6 DEF Select, Pending
    <3> QED BY <1>t, <2>4, <3>1 DEF OneChat, RowsTrue
  <2> QED BY <2>3, <2>5, <2>6
<1>4. CASE Gather
  <2>1. /\ claim'.row = claim.row /\ claim'.msgs = Aggregate(ChatCatchUp) /\ UNCHANGED <<rows, taken>>
    BY <1>t, <1>4 DEF Gather, TypeOK, WorkerOK, tableVars, taskVars
  <2>2. \A m \in Aggregate(ChatCatchUp) : KeyOf[m] = rows[claim.row].key
    BY <1>t DEF Aggregate, ChatCatchUp, RowsTrue
  <2> QED BY <2>1, <2>2 DEF OneChat
<1>5. CASE Dispatch
  <2>1. /\ wpc' \notin Holding /\ rows' = rows /\ claim.row \in RowIds
        /\ taken' = [taken EXCEPT ![claim.row] = claim.msgs]
        /\ rows[claim.row].status # "absent" /\ \A m \in claim.msgs : KeyOf[m] = rows[claim.row].key
    BY <1>t, <1>5 DEF Dispatch, Drain, Holding, tableVars, OneChat, ClaimExists, TypeOK, WorkerOK
  <2> QED BY <1>t, <2>1 DEF OneChat, TypeOK, TaskOK
<1>6. CASE WorkerWakes \/ ClaimUpdate \/ Mark \/ Discard \/ WorkerErrors
  <2>1. UNCHANGED taken /\ (wpc' \in Holding => wpc \in Holding /\ claim' = claim)
    BY <1>6 DEF WorkerWakes, ClaimUpdate, Mark, Discard, WorkerErrors, Drain, Holding, taskVars
  <2> QED BY <2>1, OneChatKept
<1>7. ASSUME NEW d \in Deliveries, Receive(d) \/ TriageStep(d), ~ Inject(d) PROVE OneChat'
  <2>1. UNCHANGED taken /\ UNCHANGED <<wpc, claim>>
    BY <1>7 DEF TriageStep, Receive, CancelNothing, CancelTask, CancelByReply, CancelNoTask,
                KillTask, cancel_for_chat, MergeSelect, MergeUpdate, EnqueueCount, Evict, Insert,
                Commit, workerVars, taskVars
  <2> QED BY <2>1, OneChatKept
<1>8. ASSUME NEW t \in RowIds, TaskStep(t) \/ Zombie(t) \/ WindowEnds(t) PROVE OneChat'
  <2>1. UNCHANGED taken /\ UNCHANGED <<wpc, claim>>
    BY <1>8 DEF TaskStep, RunStarts, HandlerReturns, HandlerRaises, Unwinds, Leave, complete, fail,
                CloseRows, Zombie, KillTask, WindowEnds, workerVars, taskVars
  <2> QED BY <2>1, OneChatKept
<1>9. CASE \/ UNCHANGED vars \/ DebounceFires \/ Shutdown \/ \E k \in Keys : CatchupFires(k)
  <2>1. UNCHANGED taken /\ (wpc' \in Holding => wpc \in Holding /\ claim' = claim)
    BY <1>9 DEF DebounceFires, CatchupFires, Shutdown, Holding, vars, workerVars, taskVars
  <2> QED BY <2>1, OneChatKept
<1> QED
  BY <1>1, <1>2, <1>3, <1>4, <1>5, <1>6, <1>7, <1>8, <1>9 DEF Next, worker_loop

\* Nothing crosses chats, through merging, injection and the aggregation of catch-up
\* rows, for any number of chats, topics and messages and across restarts.
THEOREM ChatsDoNotMix == Spec => []NoCrossChat
<1>1. Init => QueueInv /\ OneChat
  BY InitQueue, InitOneChat
<1>2. QueueInv /\ OneChat /\ [Next]_vars => (QueueInv /\ OneChat)'
  BY QueueStep, OneChatStep
<1>3. QueueInv /\ OneChat => NoCrossChat
  BY DEF QueueInv, TableInv, RowsTrue, OneChat, NoCrossChat
<1> QED BY <1>1, <1>2, <1>3, PTL DEF Spec

\* A chat without topics that the worker's exclusion set does not name has a free
\* place, from the moment the set is read until the dispatch.
InChat(c) == {r \in slots : rows[r].key = c}
ChatBound == \A c \in Keys : BaseOf[c] = c => Cardinality(InChat(c)) <= MaxParallel
ChatInv ==
  /\ ChatBound
  /\ wpc = "select" =>
       \A c \in Keys : BaseOf[c] = c /\ c \notin excluded => Cardinality(TasksOf(slots, c)) < MaxParallel
  /\ wpc \in Holding =>
       LET c == rows[claim.row].key
       IN BaseOf[c] = c => Cardinality(InChat(c)) < MaxParallel

LEMMA FewerRows ==
  ASSUME NEW S \in SUBSET RowIds, NEW R \in SUBSET S
  PROVE  /\ IsFiniteSet(S) /\ Cardinality(S) \in Nat /\ Cardinality(R) \in Nat
         /\ Cardinality(R) <= Cardinality(S)
<1>1. PICK n \in Nat : RowIds = 1..n
  BY QueueAssumption DEF QueueAssumption, RowIds
<1>2. IsFiniteSet(S)
  <2>1. IsFiniteSet(RowIds)
    BY <1>1, FS_Interval
  <2> QED BY <2>1, FS_Subset
<1>3. IsFiniteSet(R)
  BY <1>2, FS_Subset
<1>4. Cardinality(R) <= Cardinality(S)
  BY <1>2, FS_Subset
<1>5. Cardinality(S) \in Nat /\ Cardinality(R) \in Nat
  BY <1>2, <1>3, FS_CardinalityType
<1> QED BY <1>2, <1>4, <1>5

\* Rows with a slot exist.
LEMMA SlotRows == ASSUME QueueInv, NEW r \in slots PROVE r \in RowIds /\ rows[r].status # "absent"
BY DEF QueueInv, TypeOK, TaskOK, ClaimInv, SlotHasTask, UntakenHasNoTask, Untaken

LEMMA InitChat == Init => ChatInv
<1> SUFFICES ASSUME Init PROVE ChatInv
  OBVIOUS
<1>1. \A c : InChat(c) = {}
  BY DEF Init, InChat
<1>2. MaxParallel \in Nat /\ Cardinality({}) = 0
  BY FS_EmptySet, QueueAssumption DEF QueueAssumption
<1> QED BY <1>1, <1>2 DEF Init, ChatInv, ChatBound, Holding

\* Tasks leave, and the worker goes on with its claim or gives it up.
LEMMA ChatKept ==
  ASSUME QueueInv, ChatInv, Keeps, slots' \subseteq slots,
         wpc' = "select" => wpc = "select" /\ excluded' = excluded,
         wpc' \in Holding => wpc \in Holding /\ claim'.row = claim.row
  PROVE  ChatInv'
<1> USE QueueAssumption DEF QueueAssumption
<1>s. \A r \in slots' : r \in RowIds /\ rows'[r].key = rows[r].key /\ rows'[r].catchup = rows[r].catchup
  BY SlotRows DEF Keeps
<1>1. ASSUME NEW c \in Keys
      PROVE  /\ InChat(c)' \subseteq InChat(c) /\ InChat(c) \in SUBSET RowIds
             /\ TasksOf(slots, c)' \subseteq TasksOf(slots, c) /\ TasksOf(slots, c) \in SUBSET RowIds
  <2>1. slots \subseteq RowIds
    BY DEF QueueInv, TypeOK, TaskOK
  <2> QED BY <1>s, <2>1 DEF InChat, TasksOf, TaskChat
<1>2. ASSUME NEW c \in Keys
      PROVE  /\ Cardinality(InChat(c)) \in Nat /\ Cardinality(InChat(c)') \in Nat
             /\ Cardinality(InChat(c)') <= Cardinality(InChat(c))
             /\ Cardinality(TasksOf(slots, c)) \in Nat /\ Cardinality(TasksOf(slots, c)') \in Nat
             /\ Cardinality(TasksOf(slots, c)') <= Cardinality(TasksOf(slots, c))
  BY <1>1, FewerRows
<1>3. ChatBound'
  BY <1>2 DEF ChatInv, ChatBound
<1>4. wpc' = "select" =>
        \A c \in Keys : BaseOf[c] = c /\ c \notin excluded' => Cardinality(TasksOf(slots, c)') < MaxParallel
  BY <1>2 DEF ChatInv
<1>5. wpc' \in Holding =>
        LET c == rows[claim.row].key
        IN rows'[claim'.row].key = c /\ (BaseOf[c] = c => Cardinality(InChat(c)') < MaxParallel)
  <2>1. wpc' \in Holding => rows'[claim'.row].key = rows[claim.row].key /\ rows[claim.row].key \in Keys
    BY DEF QueueInv, TypeOK, TableOK, Row, WorkerOK, TableInv, ClaimExists, Keeps
  <2> QED BY <1>2, <2>1 DEF ChatInv
<1> QED BY <1>3, <1>4, <1>5 DEF ChatInv

\* The worker reads the chats at their limit afresh.
LEMMA ChatDrain ==
  ASSUME QueueInv, Keeps, ChatBound', Drain(slots'),
         \A r \in slots' : r \in RowIds /\ rows[r].status # "absent"
  PROVE  ChatInv'
<1> USE QueueAssumption DEF QueueAssumption
<1>1. wpc' \notin Holding
  BY DEF Drain, Holding
<1>2. ASSUME NEW c \in Keys, wpc' = "select", c \notin excluded'
      PROVE  Cardinality(TasksOf(slots, c)') < MaxParallel
  <2>1. TasksOf(slots, c)' = TasksOf(slots', c) /\ TasksOf(slots', c) \in SUBSET RowIds
    BY DEF TasksOf, TaskChat, Keeps
  <2>2. ~ (Cardinality(TasksOf(slots', c)) >= MaxParallel)
    BY <1>2 DEF Drain, get_over_limit_chats
  <2>3. Cardinality(TasksOf(slots', c)) \in Nat
    BY <2>1, FewerRows
  <2> QED BY <2>1, <2>2, <2>3
<1> QED BY <1>1, <1>2 DEF ChatInv

LEMMA ChatStep == QueueInv /\ ChatInv /\ [Next]_vars => ChatInv'
<1> SUFFICES ASSUME QueueInv, ChatInv, [Next]_vars PROVE ChatInv'
  OBVIOUS
<1> USE QueueAssumption DEF QueueAssumption
<1>1. CASE Restart
  <2>1. slots' = {} /\ wpc' = "wait"
    BY <1>1 DEF Restart
  <2>2. ASSUME NEW c \in Keys PROVE Cardinality(InChat(c)') <= MaxParallel
    <3>1. InChat(c)' = {}
      BY <2>1 DEF InChat
    <3> QED BY <3>1, FS_EmptySet
  <2>3. ChatBound'
    BY <2>2 DEF ChatBound
  <2> QED BY <2>1, <2>3 DEF ChatInv, Holding
<1> SUFFICES ASSUME Keeps PROVE ChatInv'
  BY <1>1, StepKeeps
<1>2. CASE WorkerWakes \/ Discard
  <2>1. slots' = slots /\ Drain(slots')
    BY <1>2 DEF WorkerWakes, Discard, taskVars
  <2>2. ChatBound'
    <3>1. \A r \in slots : rows'[r].key = rows[r].key
      BY SlotRows DEF Keeps
    <3>2. \A c : InChat(c)' = InChat(c)
      BY <2>1, <3>1 DEF InChat
    <3> QED BY <3>2 DEF ChatInv, ChatBound
  <2> QED BY <2>1, <2>2, SlotRows, ChatDrain
<1>3. CASE ClaimSelect
  <2>1. wpc' = "wait" \/ \E r \in Pending : Select(r) /\ rows[r].key \notin excluded
    BY <1>3, SelectsPending DEF QueueInv
  <2>2. slots' = slots /\ rows' = rows /\ wpc = "select"
    BY <1>3 DEF ClaimSelect, tableVars, taskVars
  <2>3. ChatBound'
    <3>1. \A c \in Keys : InChat(c)' = InChat(c)
      BY <2>2 DEF InChat
    <3> QED BY <3>1 DEF ChatInv, ChatBound
  <2>4. CASE wpc' = "wait"
    BY <2>3, <2>4 DEF ChatInv, Holding
  <2>5. ASSUME NEW r \in Pending, Select(r), rows[r].key \notin excluded PROVE ChatInv'
    <3> DEFINE c == rows[r].key
    <3>1. /\ claim'.row = r /\ wpc' = "claim" /\ c \in Keys /\ slots \subseteq RowIds
      BY <2>5 DEF Select, Pending, QueueInv, TypeOK, TableOK, Row, TaskOK
    <3>2. ASSUME BaseOf[c] = c PROVE Cardinality(InChat(c)') < MaxParallel
      <4>1. InChat(c)' = InChat(c)
        BY <2>2 DEF InChat
      <4>2. InChat(c) \in SUBSET TasksOf(slots, c) /\ TasksOf(slots, c) \in SUBSET RowIds
        BY <3>1, <3>2 DEF InChat, TasksOf, TaskChat
      <4>3. Cardinality(TasksOf(slots, c)) < MaxParallel
        BY <2>2, <2>5, <3>1, <3>2 DEF ChatInv
      <4> HIDE DEF c
      <4> QED BY <4>1, <4>2, <4>3, FewerRows
    <3> QED BY <2>2, <2>3, <3>1, <3>2 DEF ChatInv
  <2> QED BY <2>1, <2>4, <2>5
<1>4. CASE Dispatch
  <2> DEFINE k == rows[claim.row].key
  <2>1. /\ slots' = slots \cup {claim.row} /\ Drain(slots') /\ rows' = rows
        /\ claim.row \in RowIds /\ rows[claim.row].status # "absent" /\ slots \subseteq RowIds
        /\ BaseOf[k] = k => Cardinality(InChat(k)) < MaxParallel
    BY <1>4 DEF Dispatch, QueueInv, TypeOK, TaskOK, WorkerOK, Holding, tableVars, TableInv, ClaimExists, ChatInv
  <2>2. ChatBound'
    <3> SUFFICES ASSUME NEW c \in Keys, BaseOf[c] = c
                 PROVE  Cardinality(InChat(c)') <= MaxParallel
      BY DEF ChatBound
    <3>1. Cardinality(InChat(c)) <= MaxParallel
      BY DEF ChatInv, ChatBound
    <3>2. InChat(c) \in SUBSET RowIds
      BY <2>1 DEF InChat
    <3>3. CASE c # k
      <4>1. InChat(c)' = InChat(c)
        BY <2>1, <3>3 DEF InChat
      <4> QED BY <3>1, <4>1
    <3>4. CASE c = k
      <4>1. InChat(c)' = InChat(c) \cup {claim.row}
        BY <2>1, <3>4 DEF InChat
      <4>2. Cardinality(InChat(c)) < MaxParallel
        BY <2>1, <3>4
      <4>3. IsFiniteSet(InChat(c)) /\ Cardinality(InChat(c)) \in Nat
        BY <3>2, FewerRows
      <4>4. \/ Cardinality(InChat(c)') = Cardinality(InChat(c))
            \/ Cardinality(InChat(c)') = Cardinality(InChat(c)) + 1
        BY <4>1, <4>3, FS_AddElement
      <4> QED BY <4>2, <4>3, <4>4
    <3> QED BY <3>3, <3>4
  <2>3. \A r \in slots' : r \in RowIds /\ rows[r].status # "absent"
    BY <2>1, SlotRows
  <2> QED BY <2>1, <2>2, <2>3, ChatDrain
<1>5. CASE ClaimUpdate \/ Gather \/ Mark \/ WorkerErrors
  <2>1. slots' = slots /\ wpc' # "select" /\ (wpc' \in Holding => wpc \in Holding /\ claim'.row = claim.row)
    BY <1>5 DEF ClaimUpdate, Gather, Mark, WorkerErrors, Holding, taskVars, QueueInv, TypeOK, WorkerOK
  <2> QED BY <2>1, ChatKept
<1>6. ASSUME NEW d \in Deliveries, Receive(d) \/ TriageStep(d) PROVE ChatInv'
  <2>1. slots' \subseteq slots /\ UNCHANGED <<wpc, excluded, claim>>
    BY <1>6 DEF TriageStep, Receive, CancelNothing, CancelTask, CancelByReply, CancelNoTask,
                KillTask, cancel_for_chat, MergeSelect, MergeUpdate, Inject, EnqueueCount, Evict, Insert,
                Commit, workerVars, taskVars
  <2> QED BY <2>1, ChatKept
<1>7. ASSUME NEW t \in RowIds, TaskStep(t) \/ Zombie(t) \/ WindowEnds(t) PROVE ChatInv'
  <2>1. slots' \subseteq slots /\ UNCHANGED <<wpc, excluded, claim>>
    BY <1>7 DEF TaskStep, RunStarts, HandlerReturns, HandlerRaises, Unwinds, Leave, complete, fail,
                CloseRows, Zombie, KillTask, WindowEnds, workerVars, taskVars
  <2> QED BY <2>1, ChatKept
<1>8. CASE \/ UNCHANGED vars \/ DebounceFires \/ Shutdown \/ \E k \in Keys : CatchupFires(k)
  <2>1. /\ slots' = slots
        /\ wpc' = "stopped" \/ UNCHANGED <<wpc, excluded, claim>>
    BY <1>8 DEF DebounceFires, CatchupFires, Shutdown, vars, workerVars, taskVars
  <2> QED BY <2>1, ChatKept DEF Holding
<1> QED
  BY <1>1, <1>2, <1>3, <1>4, <1>5, <1>6, <1>7, <1>8 DEF Next, worker_loop

\* At most MAX_PARALLEL_TASKS messages of a chat without topics are worked on at a
\* time, although the worker reads the exclusion set up to five awaits before it
\* registers the task: for any number of chats and any limit.
THEOREM ChatsAreSequential == Spec => []SequentialChat
<1>1. Init => QueueInv /\ ChatInv
  BY InitQueue, InitChat
<1>2. QueueInv /\ ChatInv /\ [Next]_vars => (QueueInv /\ ChatInv)'
  BY QueueStep, ChatStep
<1>3. ChatInv => SequentialChat
  BY DEF ChatInv, ChatBound, InChat, SequentialChat
<1> QED BY <1>1, <1>2, <1>3, PTL DEF Spec

-----------------------------------------------------------------------------
(* What "done" means                                                       *)

\* Only an eviction or an INSERT is ever ahead of the committed table.
DiskLag ==
  \A r \in RowIds : \/ disk[r].status = rows[r].status
                    \/ rows[r].status = "cancelled" \/ disk[r].status = "absent"

\* The rows a task closes with its own were taken with it.
SiblingsTaken == \A t \in RowIds : \A s \in siblings[t] : rows[s].status \notin Untaken

\* The claim brings the messages of its rows, and its own row is no task's to close.
ClaimServes ==
  wpc \in Holding =>
    /\ \A s \in claim.ids : rows[s].mid \in claim.msgs
    /\ rows[claim.row].mid \in claim.msgs \/ cause[claim.row] = "evicted"
    /\ rows[claim.row].status # "done" /\ disk[claim.row].status # "done"
    /\ \A t \in RowIds : claim.row \notin siblings[t]
    /\ wpc = "claim" => claim.ids = {claim.row}
    /\ wpc = "gather" => /\ rows[claim.row].catchup
                         /\ rows[claim.row].status = "processing" \/ cause[claim.row] = "evicted"
    /\ wpc = "mark" => \A s \in claim.ids \ claim.marks : rows[s].status \notin Untaken
    /\ wpc = "dispatch" => \A s \in claim.ids : rows[s].status \notin Untaken
    /\ wpc = "discard" => \A s \in ChatCatchUp : rows[s].status = "pending"

\* A task works on the messages of the rows it will close; its own row may have been
\* evicted before they were gathered.
Serves(t, msgs) ==
  /\ \A s \in siblings[t] : rows[s].mid \in msgs
  /\ rows[t].mid \in msgs \/ cause[t] = "evicted"
TasksServe ==
  \A t \in RowIds :
    /\ run[t] \in {"created", "running", "cancelling"} => Serves(t, taken[t])
    /\ run[t] = "completing" => Serves(t, served)

\* A row that is done, here or on disk, was served, or its cause is final.
ClosedUnserved == {"deploy", "discard", "evicted"}
DoneServed ==
  \A r \in RowIds : (rows[r].status = "done" \/ disk[r].status = "done") =>
    rows[r].mid \in served \/ (cause[r] \in ClosedUnserved /\ run[r] \in {"none", "ended"})

ServedInv == DiskLag /\ SiblingsTaken /\ ClaimServes /\ TasksServe /\ DoneServed

LEMMA InitServed == Init => ServedInv
<1> SUFFICES ASSUME Init PROVE ServedInv
  OBVIOUS
<1>1. \A r \in RowIds : rows[r].status \in Untaken /\ disk = rows
  BY DEF Init, NewRow, AbsentRow, Untaken
<1>2. DiskLag /\ SiblingsTaken /\ DoneServed
  BY <1>1 DEF Init, DiskLag, SiblingsTaken, DoneServed, Untaken
<1>3. ClaimServes /\ TasksServe
  BY DEF Init, ClaimServes, TasksServe, Holding
<1> QED BY <1>2, <1>3 DEF ServedInv

LEMMA LagStep == QueueInv /\ DiskLag /\ [Next]_vars => DiskLag'
<1> SUFFICES ASSUME QueueInv, DiskLag, [Next]_vars PROVE DiskLag'
  OBVIOUS
<1>t. TypeOK /\ rows \in [RowIds -> Row] /\ disk \in [RowIds -> Row]
  BY DEF QueueInv, TypeOK, TableOK
<1>1. CASE disk' = rows'
  BY <1>1 DEF DiskLag
<1>2. CASE rows' = rows /\ disk' = disk
  BY <1>2 DEF DiskLag
<1>3. CASE disk' = disk /\ \E S : rows' = SetStatus(S, "cancelled")
  BY <1>t, <1>3 DEF DiskLag, SetStatus, Row
<1>4. ASSUME NEW d \in Deliveries, Insert(d) PROVE DiskLag'
  <2> DEFINE free == {s \in RowIds : rows[s].status = "absent"}
  <2>1. Oldest(free) \in free
    BY <1>4, OldestIsMember, QueueAssumption DEF Insert
  <2>2. rows' = [rows EXCEPT ![Oldest(free)] = NewRow(MsgOf[d])] /\ disk' = disk
    BY <1>4 DEF Insert
  <2>3. disk[Oldest(free)].status = "absent"
    BY <2>1 DEF QueueInv, TableInv, DiskBehind
  <2> QED BY <1>t, <2>1, <2>2, <2>3 DEF DiskLag
<1>5. CASE Restart \/ \E d \in Deliveries : MergeUpdate(d)
  BY <1>1, <1>5 DEF Restart, MergeUpdate, DbCommit
<1> QED BY <1>t, <1>1, <1>2, <1>3, <1>4, <1>5, TableChange DEF DbCommit

LEMMA SiblingsTakenStep ==
  ASSUME QueueInv, ServedInv, [Next]_vars, Takes,
         siblings' = siblings \/ Dispatch
  PROVE  SiblingsTaken'
<1>1. CASE siblings' = siblings
  BY <1>1 DEF ServedInv, SiblingsTaken, Takes, QueueInv, TypeOK, TaskOK
<1>2. CASE Dispatch
  <2>1. /\ siblings' = [siblings EXCEPT ![claim.row] = claim.ids] /\ rows' = rows
        /\ \A s \in claim.ids : rows[s].status \notin Untaken
    BY <1>2 DEF Dispatch, tableVars, ServedInv, ClaimServes, Holding
  <2> QED BY <2>1 DEF ServedInv, SiblingsTaken, QueueInv, TypeOK, TaskOK
<1> QED BY <1>1, <1>2

\* A claim is served while nobody else closes its row.
LEMMA ClaimServesKept ==
  ASSUME QueueInv, ServedInv, Keeps, Takes, Saves, UNCHANGED <<wpc, claim, siblings>>,
         wpc \in Holding =>
           /\ cause'[claim.row] \in {cause[claim.row], "evicted"}
           /\ \/ rows'[claim.row].status = rows[claim.row].status
              \/ rows'[claim.row].status = "cancelled" /\ (wpc = "gather" => cause'[claim.row] = "evicted"),
         \A s \in RowIds : rows'[s].status = "processing" => rows[s].status = "processing"
  PROVE  ClaimServes'
<1> SUFFICES ASSUME wpc \in Holding PROVE ClaimServes'
  BY DEF ClaimServes
<1>t. claim.row \in RowIds /\ claim.ids \subseteq RowIds /\ claim.marks \subseteq RowIds
  BY DEF QueueInv, TypeOK, WorkerOK
<1>e. \A s \in claim.ids \cup {claim.row} : /\ rows[s].status # "absent" /\ rows'[s].mid = rows[s].mid
                                           /\ rows'[s].catchup = rows[s].catchup /\ rows'[s].key = rows[s].key
  BY <1>t DEF QueueInv, TableInv, ClaimExists, Keeps
<1>c. ClaimServes
  BY DEF ServedInv
<1>1. \A s \in claim.ids : rows'[s].mid \in claim.msgs
  BY <1>c, <1>e DEF ClaimServes
<1>2. rows'[claim.row].mid \in claim.msgs \/ cause'[claim.row] = "evicted"
  BY <1>c, <1>e DEF ClaimServes
<1>3. rows'[claim.row].status # "done" /\ disk'[claim.row].status # "done"
  BY <1>c DEF ClaimServes, Saves
<1>4. (\A t \in RowIds : claim.row \notin siblings'[t]) /\ (wpc = "claim" => claim.ids = {claim.row})
  BY <1>c DEF ClaimServes
<1>5. wpc = "gather" => /\ rows'[claim.row].catchup
                        /\ rows'[claim.row].status = "processing" \/ cause'[claim.row] = "evicted"
  BY <1>c, <1>e DEF ClaimServes
<1>6. /\ wpc = "mark" => \A s \in claim.ids \ claim.marks : rows'[s].status \notin Untaken
      /\ wpc = "dispatch" => \A s \in claim.ids : rows'[s].status \notin Untaken
  BY <1>c, <1>t DEF ClaimServes, Takes
<1>7. wpc = "discard" => \A s \in ChatCatchUp' : rows'[s].status = "pending"
  <2> SUFFICES ASSUME wpc = "discard", NEW s \in RowIds, rows'[s].status = "processing",
                      rows'[s].catchup, rows'[s].key = rows'[claim.row].key
               PROVE  FALSE
    BY DEF ChatCatchUp
  <2>1. rows[s].status = "processing"
    OBVIOUS
  <2>2. s \in ChatCatchUp
    BY <1>e, <2>1 DEF Keeps, ChatCatchUp
  <2> QED BY <1>c, <2>1, <2>2 DEF ClaimServes
<1> QED BY <1>1, <1>2, <1>3, <1>4, <1>5, <1>6, <1>7 DEF ClaimServes

\* A task keeps serving its rows while it is handed more, and its row's eviction stands.
Live == {"created", "running", "cancelling"}
LEMMA TaskServesKept ==
  ASSUME QueueInv, ServedInv, Keeps, NEW t \in RowIds,
         siblings'[t] = siblings[t], taken[t] \subseteq taken'[t], served \subseteq served',
         run'[t] \in Live => run[t] \in Live,
         run'[t] = "completing" => \/ run[t] = "completing"
                                   \/ run[t] \in Live /\ taken[t] \subseteq served',
         run'[t] \in Live \cup {"completing"} /\ cause[t] = "evicted" => cause'[t] = "evicted"
  PROVE  /\ run'[t] \in Live => Serves(t, taken[t])'
         /\ run'[t] = "completing" => Serves(t, served)'
<1> SUFFICES ASSUME run'[t] \in Live \cup {"completing"}
             PROVE  /\ run'[t] \in Live => Serves(t, taken[t])'
                    /\ run'[t] = "completing" => Serves(t, served)'
  OBVIOUS
<1>1. \A s \in siblings[t] \cup {t} : rows'[s].mid = rows[s].mid
  <2>1. rows[t].status # "absent"
    BY DEF QueueInv, ClaimInv, UntakenHasNoTask, Untaken, Live
  <2>2. \A s \in siblings[t] : s \in RowIds /\ rows[s].status # "absent"
    BY DEF QueueInv, TypeOK, TaskOK, TableInv, SiblingsExist
  <2> QED BY <2>1, <2>2 DEF Keeps
<1>2. /\ run[t] \in Live => Serves(t, taken[t])
      /\ run[t] = "completing" => Serves(t, served)
  BY DEF ServedInv, TasksServe, Live
<1>3. CASE run'[t] \in Live
  BY <1>1, <1>2, <1>3 DEF Serves, Live
<1>4. CASE run'[t] = "completing"
  BY <1>1, <1>2, <1>4 DEF Serves, Live
<1> QED BY <1>3, <1>4

\* What is done stays accounted for.
LEMMA DoneKept ==
  ASSUME QueueInv, ServedInv, Keeps, Saves, served \subseteq served',
         \A r \in RowIds : rows'[r].status = "done" => rows[r].status = "done",
         \A r \in RowIds : run[r] \in {"none", "ended"} =>
           /\ run'[r] \in {"none", "ended"} \/ (rows[r].status # "done" /\ disk[r].status # "done")
           /\ cause'[r] = cause[r] \/ cause'[r] \in ClosedUnserved
  PROVE  DoneServed'
<1> SUFFICES ASSUME NEW r \in RowIds, rows'[r].status = "done" \/ disk'[r].status = "done"
             PROVE  \/ rows'[r].mid \in served'
                    \/ cause'[r] \in ClosedUnserved /\ run'[r] \in {"none", "ended"}
  BY DEF DoneServed
<1>1. rows[r].status = "done" \/ disk[r].status = "done"
  BY DEF Saves
<1>2. rows'[r].mid = rows[r].mid
  BY <1>1 DEF QueueInv, TableInv, DiskBehind, Keeps
<1> QED BY <1>1, <1>2 DEF ServedInv, DoneServed

\* The steps of a triage coroutine, the timers and the steps of tasks, which close rows
\* of their own only.
LEMMA OthersServed ==
  ASSUME QueueInv, ServedInv, Keeps, Takes, Saves,
         UNCHANGED <<wpc, claim, siblings>>, served \subseteq served',
         \A t \in RowIds :
           /\ taken[t] \subseteq taken'[t]
           /\ run'[t] \in Live => run[t] \in Live
           /\ run'[t] = "completing" => run[t] = "completing" \/ (run[t] \in Live /\ taken[t] \subseteq served')
           /\ run[t] \in {"none", "ended"} => run'[t] = run[t] /\ cause'[t] \in {cause[t], "evicted"}
           /\ run'[t] \in Live \cup {"completing"} /\ cause[t] = "evicted" => cause'[t] = "evicted",
         wpc \in Holding =>
           \/ rows'[claim.row].status = rows[claim.row].status
           \/ rows'[claim.row].status = "cancelled" /\ (wpc = "gather" => cause'[claim.row] = "evicted"),
         \A s \in RowIds : rows'[s].status = "processing" => rows[s].status = "processing"
  PROVE  ClaimServes' /\ TasksServe'
<1>1. ClaimServes'
  <2>1. wpc \in Holding => claim.row \in RowIds /\ run[claim.row] = "none"
    BY DEF QueueInv, TypeOK, WorkerOK, ClaimInv, ClaimIsExclusive
  <2>2. wpc \in Holding => cause'[claim.row] \in {cause[claim.row], "evicted"}
    BY <2>1
  <2> QED BY <2>2, ClaimServesKept
<1>2. ASSUME NEW t \in RowIds
      PROVE  /\ run'[t] \in Live => Serves(t, taken[t])'
             /\ run'[t] = "completing" => Serves(t, served)'
  BY TaskServesKept
<1> QED BY <1>1, <1>2 DEF TasksServe, Live

LEMMA ServedByTriage ==
  ASSUME QueueInv, ServedInv, Keeps, Takes, NEW d \in Deliveries, Receive(d) \/ TriageStep(d)
  PROVE  ClaimServes' /\ TasksServe' /\ DoneServed'
<1>t. TypeOK /\ rows \in [RowIds -> Row] /\ tri[d] \in Triage /\ taken \in [RowIds -> SUBSET Messages]
  BY DEF QueueInv, TypeOK, TableOK, TriageOK, TaskOK
<1>k. ASSUME NEW r \in slots, KillTask(r)
      PROVE  /\ served' = served /\ taken' = taken
             /\ \A t \in RowIds :
                  /\ run'[t] \in Live => run[t] \in Live
                  /\ run'[t] = "completing" => run[t] = "completing"
                  /\ run[t] \in {"none", "ended"} => run'[t] = run[t] /\ cause'[t] = cause[t]
                  /\ run'[t] \in Live \cup {"completing"} /\ cause[t] = "evicted" => cause'[t] = "evicted"
  <2>1. run \in [RowIds -> RunPc] /\ cause \in [RowIds -> Causes] /\ r \in RowIds /\ run[r] # "none"
    BY DEF QueueInv, TypeOK, TaskOK, ClaimInv, SlotHasTask
  <2> QED BY <1>k, <2>1 DEF KillTask, Blame, Unhurt, Live, cancelled
<1>1. CASE CancelTask(d) \/ CancelByReply(d)
  <2>1. PICK r \in slots : KillTask(r)
    BY <1>1 DEF CancelTask, CancelByReply, TasksOf
  <2>2. UNCHANGED <<rows, disk>> /\ UNCHANGED <<wpc, claim, siblings>>
    BY <1>1, <2>1 DEF CancelTask, CancelByReply, KillTask, tableVars, workerVars
  <2> QED BY <1>k, <2>1, <2>2, OthersServed, DoneKept DEF Saves
<1>2. CASE \/ Receive(d) \/ CancelNothing(d) \/ CancelNoTask(d) \/ MergeSelect(d)
           \/ EnqueueCount(d) \/ Inject(d) \/ Commit(d)
  <2>1. /\ rows' = rows /\ Saves /\ UNCHANGED <<wpc, claim, siblings>> /\ UNCHANGED <<run, served, cause>>
        /\ \A t \in RowIds : taken[t] \subseteq taken'[t]
    BY <1>t, <1>2 DEF Receive, CancelNothing, CancelNoTask, MergeSelect, EnqueueCount, Inject, Commit,
                Saves, DbCommit, tableVars, workerVars, taskVars
  <2> QED BY <2>1, OthersServed, DoneKept
<1>3. CASE MergeUpdate(d)
  <2>1. /\ Saves /\ UNCHANGED <<wpc, claim, siblings>> /\ UNCHANGED <<run, served, cause, taken>>
        /\ \A s \in RowIds : rows'[s].status = rows[s].status
    BY <1>t, <1>3 DEF MergeUpdate, Saves, DbCommit, workerVars, taskVars, Row
  <2>2. wpc \in Holding => claim.row \in RowIds
    BY <1>t DEF TypeOK, WorkerOK
  <2> QED BY <2>1, <2>2, OthersServed, DoneKept
<1>4. CASE Insert(d)
  <2> DEFINE free == {s \in RowIds : rows[s].status = "absent"}
             n == Oldest(free)
  <2>1. n \in free
    BY <1>4, OldestIsMember, QueueAssumption DEF Insert
  <2>2. rows' = [rows EXCEPT ![n] = NewRow(MsgOf[d])] /\ NewRow(MsgOf[d]).status = "pending"
    BY <1>4 DEF Insert, NewRow
  <2>3. Saves /\ UNCHANGED <<wpc, claim, siblings>> /\ UNCHANGED <<run, served, cause, taken>>
    BY <1>4 DEF Insert, Saves, workerVars, taskVars
  <2>4. wpc \in Holding => claim.row \in RowIds /\ rows[claim.row].status # "absent"
    BY <1>t DEF TypeOK, WorkerOK, QueueInv, TableInv, ClaimExists
  <2> HIDE DEF n
  <2>5. \A s \in RowIds : rows'[s].status = "pending" \/ rows'[s].status = rows[s].status
    BY <1>t, <2>2
  <2>6. wpc \in Holding => rows'[claim.row].status = rows[claim.row].status
    BY <1>t, <2>1, <2>2, <2>4
  <2> QED BY <2>3, <2>5, <2>6, OthersServed, DoneKept
<1>5. CASE cancel_for_chat(d)
  <2> DEFINE S == PendingOf(KeyOf[MsgOf[d]])
  <2>1. /\ rows' = SetStatus(S, "cancelled") /\ Saves /\ UNCHANGED <<wpc, claim, siblings>>
        /\ UNCHANGED <<run, served, cause, taken>>
    BY <1>5 DEF cancel_for_chat, Saves, DbCommit, workerVars, taskVars
  <2>2. \A s \in RowIds : rows'[s].status = rows[s].status
                          \/ (rows'[s].status = "cancelled" /\ rows[s].status = "pending")
    BY <1>t, <2>1 DEF SetStatus, Row, PendingOf, Pending
  <2>3. wpc = "gather" => rows[claim.row].status # "pending"
    BY DEF QueueInv, ClaimInv, ClaimedIsTaken, Holding, Untaken
  <2>4. wpc \in Holding => claim.row \in RowIds
    BY <1>t DEF TypeOK, WorkerOK
  <2> QED BY <2>1, <2>2, <2>3, <2>4, OthersServed, DoneKept DEF Holding
<1>6. CASE Evict(d)
  <2> DEFINE S == tri[d].ids
  <2>1. /\ rows' = SetStatus(S, "cancelled") /\ Saves /\ UNCHANGED <<wpc, claim, siblings>>
        /\ UNCHANGED <<run, served, taken>>
        /\ cause' = [r \in RowIds |-> IF r \in S THEN "evicted" ELSE cause[r]]
    BY <1>6 DEF Evict, Saves, workerVars
  <2>2. \A s \in RowIds : \/ rows'[s].status = rows[s].status /\ cause'[s] = cause[s]
                          \/ rows'[s].status = "cancelled" /\ cause'[s] = "evicted"
    BY <1>t, <2>1 DEF SetStatus, Row
  <2>4. wpc \in Holding => claim.row \in RowIds
    BY <1>t DEF TypeOK, WorkerOK
  <2> QED BY <2>1, <2>2, <2>4, OthersServed, DoneKept DEF ClosedUnserved
<1> QED BY <1>1, <1>2, <1>3, <1>4, <1>5, <1>6 DEF TriageStep

LEMMA ServedByWorker ==
  ASSUME QueueInv, ServedInv, Keeps, Takes, worker_loop \/ WorkerErrors
  PROVE  ClaimServes' /\ TasksServe' /\ DoneServed'
<1>t. TypeOK /\ rows \in [RowIds -> Row] /\ RowsTrue /\ ClaimServes
  BY DEF QueueInv, TypeOK, TableOK, TableInv, ServedInv
<1>h. wpc \in Holding => /\ claim.row \in RowIds /\ claim.ids \subseteq RowIds /\ run[claim.row] = "none"
                         /\ rows[claim.row].status # "absent"
  BY DEF QueueInv, TypeOK, WorkerOK, ClaimInv, ClaimIsExclusive, TableInv, ClaimExists
<1>1. CASE WorkerWakes \/ WorkerErrors \/ ClaimSelect \/ ClaimUpdate \/ Gather \/ Mark
  <2>1. UNCHANGED <<siblings, run, served, cause, taken>>
    BY <1>1 DEF WorkerWakes, WorkerErrors, ClaimSelect, ClaimUpdate, Gather, Mark, taskVars
  <2>2. Saves /\ \A r \in RowIds : rows'[r].status = "done" => rows[r].status = "done"
    BY <1>t, <1>1 DEF WorkerWakes, WorkerErrors, ClaimSelect, ClaimUpdate, Gather, Mark, tableVars,
                DbCommit, SetStatus, Saves, Row
  <2>3. DoneServed'
    BY <2>1, <2>2, DoneKept
  <2>4. TasksServe'
    <3>1. ASSUME NEW t \in RowIds
          PROVE  /\ run'[t] \in Live => Serves(t, taken[t])'
                 /\ run'[t] = "completing" => Serves(t, served)'
      BY <2>1, TaskServesKept
    <3> QED BY <3>1 DEF TasksServe, Live
  <2>5. ClaimServes'
    <3>1. CASE WorkerWakes \/ WorkerErrors
      BY <3>1 DEF WorkerWakes, WorkerErrors, Drain, Holding, ClaimServes
    <3>2. CASE ClaimSelect
      <4>1. wpc' = "wait" \/ \E r \in Pending : Select(r)
        BY <1>t, <3>2, SelectsPending
      <4>2. rows' = rows /\ disk' = disk
        BY <3>2 DEF ClaimSelect, tableVars
      <4>3. ASSUME NEW r \in Pending, Select(r) PROVE ClaimServes'
        <5>1. /\ r \in RowIds /\ rows[r].status = "pending" /\ wpc' = "claim"
              /\ claim'.row = r /\ claim'.ids = {r} /\ claim'.msgs = rows[r].msgs
          BY <4>3 DEF Pending, Select
        <5>2. rows[r].mid \in rows[r].msgs
          BY <1>t, <5>1 DEF RowsTrue
        <5>3. disk[r].status # "done"
          BY <5>1 DEF ServedInv, DiskLag
        <5>4. \A t \in RowIds : r \notin siblings[t]
          BY <5>1 DEF ServedInv, SiblingsTaken, Untaken
        <5> QED BY <2>1, <4>2, <5>1, <5>2, <5>3, <5>4 DEF ClaimServes
      <4> QED BY <4>1, <4>3 DEF ClaimServes, Holding
    <3>3. CASE ClaimUpdate
      <4>1. /\ wpc = "claim" /\ claim' = claim
            /\ rows' = SetStatus({claim.row}, "processing") /\ disk' = rows'
            /\ wpc' = IF rows[claim.row].catchup THEN "gather" ELSE "dispatch"
        BY <3>3 DEF ClaimUpdate, DbCommit
      <4>2. /\ \A s \in claim.ids : rows'[s].mid = rows[s].mid
            /\ rows'[claim.row].mid = rows[claim.row].mid /\ rows'[claim.row].status = "processing"
            /\ rows'[claim.row].catchup = rows[claim.row].catchup
        BY <1>t, <1>h, <4>1 DEF SetStatus, Row, Holding
      <4> QED BY <1>t, <2>1, <4>1, <4>2 DEF ClaimServes, Holding, Untaken
    <3>4. CASE Gather
      <4>1. /\ wpc = "gather" /\ claim'.row = claim.row /\ claim'.ids = ChatCatchUp
            /\ claim'.marks = ChatCatchUp \cap Pending /\ claim'.msgs = Aggregate(ChatCatchUp)
            /\ wpc' = IF ChatCatchUp = {} THEN "discard" ELSE "mark"
            /\ rows' = rows /\ disk' = disk
        BY <1>t, <3>4 DEF Gather, TypeOK, WorkerOK, tableVars
      <4>2. \A s \in ChatCatchUp : s \in RowIds /\ rows[s].mid \in Aggregate(ChatCatchUp)
        BY <1>t DEF ChatCatchUp, RowsTrue, Aggregate
      <4>3. claim.row \in ChatCatchUp \/ cause[claim.row] = "evicted"
        BY <1>t, <1>h, <4>1 DEF ClaimServes, Holding, ChatCatchUp
      <4>4. \A s \in ChatCatchUp \ (ChatCatchUp \cap Pending) : rows[s].status \notin Untaken
        BY DEF ChatCatchUp, Pending, Untaken
      <4>5. ChatCatchUp' = ChatCatchUp
        BY <4>1 DEF ChatCatchUp
      <4> QED BY <1>t, <2>1, <4>1, <4>2, <4>3, <4>4, <4>5 DEF ClaimServes, Holding
    <3>5. CASE Mark
      <4>1. /\ wpc = "mark" /\ claim' = claim
            /\ rows' = SetStatus(claim.marks, "processing") /\ disk' = rows' /\ wpc' = "dispatch"
        BY <3>5 DEF Mark, DbCommit
      <4>2. \A s \in RowIds : /\ rows'[s].mid = rows[s].mid
                              /\ IF s \in claim.marks THEN rows'[s].status = "processing"
                                                      ELSE rows'[s].status = rows[s].status
        BY <1>t, <4>1 DEF SetStatus, Row
      <4> QED BY <1>t, <1>h, <2>1, <4>1, <4>2 DEF ClaimServes, Holding, Untaken
    <3> QED BY <1>1, <3>1, <3>2, <3>3, <3>4, <3>5
  <2> QED BY <2>3, <2>4, <2>5
<1>2. CASE Discard
  <2>1. /\ wpc = "discard" /\ wpc' \notin Holding /\ UNCHANGED <<siblings, run, served, taken>>
        /\ rows' = SetStatus(ChatCatchUp, "done") /\ disk' = rows'
        /\ cause' = [r \in RowIds |-> IF r \in ChatCatchUp THEN "discard" ELSE cause[r]]
    BY <1>2 DEF Discard, Drain, Holding, DbCommit
  <2>2. \A r \in ChatCatchUp : run[r] = "none"
    BY <1>t, <2>1 DEF ClaimServes, Holding, ChatCatchUp, QueueInv, ClaimInv, UntakenHasNoTask, Untaken
  <2>3. TasksServe'
    <3>1. ASSUME NEW t \in RowIds
          PROVE  /\ run'[t] \in Live => Serves(t, taken[t])'
                 /\ run'[t] = "completing" => Serves(t, served)'
      BY <2>1, <2>2, TaskServesKept DEF Live
    <3> QED BY <3>1 DEF TasksServe, Live
  <2>4. DoneServed'
    <3>1. \A r \in RowIds : \/ rows'[r].status = rows[r].status /\ cause'[r] = cause[r] /\ rows'[r].mid = rows[r].mid
                            \/ cause'[r] = "discard" /\ run'[r] = "none"
      BY <1>t, <2>1, <2>2 DEF SetStatus, Row
    <3> QED BY <2>1, <3>1 DEF ServedInv, DoneServed, ClosedUnserved
  <2> QED BY <2>1, <2>3, <2>4 DEF ClaimServes
<1>3. CASE Dispatch
  <2>0. PICK r \in RowIds : r = claim.row
    BY <1>h, <1>3 DEF Dispatch, Holding
  <2>1. /\ wpc = "dispatch" /\ wpc' \notin Holding /\ rows' = rows /\ disk' = disk
        /\ run' = [run EXCEPT ![r] = "created"] /\ taken' = [taken EXCEPT ![r] = claim.msgs]
        /\ siblings' = [siblings EXCEPT ![r] = claim.ids] /\ UNCHANGED <<served, cause>>
    BY <1>3, <2>0 DEF Dispatch, Drain, Holding, tableVars
  <2>2. run \in [RowIds -> RunPc] /\ taken \in [RowIds -> SUBSET Messages]
        /\ siblings \in [RowIds -> SUBSET RowIds]
    BY DEF QueueInv, TypeOK, TaskOK
  <2>3. TasksServe'
    <3>1. ASSUME NEW t \in RowIds, t # r
          PROVE  /\ run'[t] \in Live => Serves(t, taken[t])'
                 /\ run'[t] = "completing" => Serves(t, served)'
      BY <2>1, <2>2, <3>1, TaskServesKept
    <3>2. run'[r] = "created" /\ Serves(r, taken[r])'
      BY <1>t, <2>0, <2>1, <2>2 DEF ClaimServes, Holding, Serves
    <3> QED BY <3>1, <3>2 DEF TasksServe, Live
  <2>4. DoneServed'
    BY <1>t, <2>0, <2>1, <2>2 DEF ServedInv, DoneServed, ClaimServes, Holding
  <2> QED BY <2>1, <2>3, <2>4 DEF ClaimServes
<1> QED BY <1>1, <1>2, <1>3 DEF worker_loop

LEMMA ServedByTask ==
  ASSUME QueueInv, ServedInv, Keeps, Takes, NEW t \in RowIds, TaskStep(t) \/ Zombie(t) \/ WindowEnds(t)
  PROVE  ClaimServes' /\ TasksServe' /\ DoneServed'
<1>t. /\ rows \in [RowIds -> Row] /\ run \in [RowIds -> RunPc] /\ cause \in [RowIds -> Causes]
      /\ taken \in [RowIds -> SUBSET Messages] /\ siblings \in [RowIds -> SUBSET RowIds]
  BY DEF QueueInv, TypeOK, TableOK, TaskOK
<1>h. wpc \in Holding => claim.row \in RowIds /\ run[claim.row] = "none"
  BY DEF QueueInv, TypeOK, WorkerOK, ClaimInv, ClaimIsExclusive
<1>1. CASE \/ RunStarts(t) \/ HandlerReturns(t) \/ HandlerRaises(t) \/ Unwinds(t)
           \/ Zombie(t) \/ WindowEnds(t)
  <2>1. /\ UNCHANGED <<rows, disk>> /\ UNCHANGED <<wpc, claim, siblings>> /\ taken' = taken
        /\ served \subseteq served'
    BY <1>1 DEF RunStarts, HandlerReturns, HandlerRaises, Unwinds, Leave, Zombie, KillTask,
                WindowEnds, tableVars, workerVars, taskVars
  <2>2. \A s \in RowIds :
          /\ run'[s] \in Live => run[s] \in Live
          /\ run'[s] = "completing" => run[s] = "completing" \/ (run[s] \in Live /\ taken[s] \subseteq served')
          /\ run[s] \in {"none", "ended"} => run'[s] = run[s] /\ cause'[s] = cause[s]
          /\ run'[s] \in Live \cup {"completing"} /\ cause[s] = "evicted" => cause'[s] = "evicted"
    BY <1>t, <1>1 DEF RunStarts, HandlerReturns, HandlerRaises, Unwinds, Leave, Zombie, KillTask,
                Blame, Unhurt, cancelled, WindowEnds, taskVars, Live
  <2> QED BY <2>1, <2>2, OthersServed, DoneKept DEF Saves
<1>2. CASE complete(t) \/ fail(t)
  <2>1. PICK pc \in {"completing", "failing"}, st \in {"done", "failed"} :
          CloseRows(t, pc, st) /\ (st = "done" => pc = "completing")
    BY <1>2 DEF complete, fail
  <2> DEFINE S == {t} \cup siblings[t]
  <2>2. /\ run[t] = pc /\ rows' = SetStatus(S, st) /\ disk' = rows' /\ run' = [run EXCEPT ![t] = "ended"]
        /\ UNCHANGED <<wpc, claim, siblings>> /\ UNCHANGED <<taken, served, cause>>
    BY <2>1 DEF CloseRows, DbCommit, workerVars
  <2>3. \A s \in RowIds : /\ rows'[s].mid = rows[s].mid
                          /\ IF s \in S THEN rows'[s].status = st ELSE rows'[s].status = rows[s].status
    BY <1>t, <2>2 DEF SetStatus, Row
  <2>4. wpc \in Holding => claim.row \notin S
    BY <1>h, <2>2 DEF ServedInv, ClaimServes
  <2>5. ClaimServes' /\ TasksServe'
    BY <1>t, <1>h, <2>2, <2>3, <2>4, OthersServed DEF Live, Saves
  <2>6. DoneServed'
    <3>1. st = "done" => Serves(t, served)
      BY <2>1, <2>2 DEF ServedInv, TasksServe
    <3> QED BY <1>t, <2>2, <2>3, <3>1 DEF ServedInv, DoneServed, Serves, ClosedUnserved
  <2> QED BY <2>5, <2>6
<1> QED BY <1>1, <1>2 DEF TaskStep

LEMMA ServedStep == QueueInv /\ ServedInv /\ [Next]_vars => ServedInv'
<1> SUFFICES ASSUME QueueInv, ServedInv, [Next]_vars PROVE ServedInv'
  OBVIOUS
<1>l. DiskLag'
  BY LagStep DEF ServedInv
<1>1. CASE Restart
  <2>1. PICK deploy \in BOOLEAN, old \in SUBSET (Terminal \cap Ageing) :
          /\ rows' = gc_old_rows(startup_recovery(disk, deploy), old)
          /\ cause' = [r \in RowIds |-> IF deploy /\ r \in Interrupted THEN "deploy" ELSE cause[r]]
    BY <1>1 DEF Restart
  <2>2. /\ disk' = rows' /\ wpc' = "wait" /\ served' = served
        /\ run' = [r \in RowIds |-> "none"] /\ siblings' = [r \in RowIds |-> {}]
    BY <1>1 DEF Restart, DbCommit
  <2>3. SiblingsTaken' /\ ClaimServes' /\ TasksServe'
    BY <2>2 DEF SiblingsTaken, ClaimServes, TasksServe, Holding
  <2>4. ASSUME NEW r \in RowIds, rows'[r].status = "done"
        PROVE  rows'[r].mid \in served \/ cause'[r] \in ClosedUnserved
    <3>1. disk \in [RowIds -> Row] /\ cause \in [RowIds -> Causes]
      BY DEF QueueInv, TypeOK, TableOK, TaskOK
    <3>2. rows'[r].mid = disk[r].mid /\ (disk[r].status = "done" \/ (disk[r].status = "processing" /\ deploy))
      BY <2>1, <2>4, <3>1 DEF gc_old_rows, startup_recovery, Row
    <3>3. CASE disk[r].status = "done"
      <4>1. rows[r].mid = disk[r].mid
        BY <3>3 DEF QueueInv, TableInv, DiskBehind
      <4>2. cause'[r] = cause[r]
        BY <2>1, <3>3 DEF Interrupted
      <4> QED BY <3>2, <3>3, <4>1, <4>2 DEF ServedInv, DoneServed
    <3>4. CASE disk[r].status = "processing" /\ deploy
      BY <2>1, <3>4 DEF Interrupted, ClosedUnserved
    <3> QED BY <3>2, <3>3, <3>4
  <2>5. DoneServed'
    BY <2>2, <2>4 DEF DoneServed
  <2> QED BY <1>l, <2>3, <2>5 DEF ServedInv
<1> SUFFICES ASSUME Keeps, Takes PROVE ServedInv'
  BY <1>1, StepKeeps
<1>2. siblings' = siblings \/ Dispatch \/ Restart
  BY DEF Next, TriageStep, Receive, CancelNothing, CancelTask, CancelByReply, CancelNoTask,
         KillTask, cancel_for_chat, MergeSelect, MergeUpdate, Inject, EnqueueCount, Evict, Insert,
         Commit, TaskStep, RunStarts, HandlerReturns, HandlerRaises, Unwinds, Leave, complete, fail,
         CloseRows, Zombie, WindowEnds, worker_loop, WorkerErrors, WorkerWakes, ClaimSelect,
         ClaimUpdate, Gather, Mark, Discard, DebounceFires, CatchupFires, Shutdown, taskVars, vars
<1>s. CASE Restart \/ SiblingsTaken'
  <2> SUFFICES ASSUME SiblingsTaken' PROVE ServedInv'
    BY <1>1, <1>s
  <2>1. CASE \/ UNCHANGED vars \/ DebounceFires \/ \E k \in Keys : CatchupFires(k)
    <3>1. /\ UNCHANGED <<rows, disk>> /\ UNCHANGED <<wpc, claim, siblings>>
          /\ UNCHANGED <<run, served, cause, taken>>
      BY <2>1 DEF DebounceFires, CatchupFires, vars, tableVars, workerVars, taskVars
    <3> QED BY <1>l, <3>1, OthersServed, DoneKept DEF Saves, ServedInv
  <2>2. CASE Shutdown
    <3>1. /\ UNCHANGED <<rows, disk>> /\ wpc' \notin Holding /\ UNCHANGED <<served, siblings, taken>>
          /\ run' = [r \in RowIds |-> cancelled(run[r])]
          /\ cause' = [r \in RowIds |-> Blame(r, "shutdown")]
      BY <2>2 DEF Shutdown, Holding, tableVars
    <3>2. \A t \in RowIds :
            /\ run'[t] \in Live => run[t] \in Live
            /\ run'[t] = "completing" => run[t] = "completing"
            /\ run[t] \in {"none", "ended"} => run'[t] = run[t] /\ cause'[t] = cause[t]
            /\ run'[t] \in Live \cup {"completing"} /\ cause[t] = "evicted" => cause'[t] = "evicted"
      BY <3>1 DEF cancelled, Blame, Unhurt, Live
    <3>3. ASSUME NEW t \in RowIds
          PROVE  /\ run'[t] \in Live => Serves(t, taken[t])'
                 /\ run'[t] = "completing" => Serves(t, served)'
      BY <3>1, <3>2, TaskServesKept
    <3>4. TasksServe' /\ ClaimServes' /\ DoneServed'
      BY <3>1, <3>2, <3>3, DoneKept DEF TasksServe, Live, ClaimServes, Saves
    <3> QED BY <1>l, <3>4 DEF ServedInv
  <2> QED BY <1>1, <1>l, <2>1, <2>2, ServedByTriage, ServedByWorker, ServedByTask DEF Next, ServedInv
<1> QED BY <1>2, <1>s, SiblingsTakenStep

\* "done" means done: whatever is cancelled, evicted, merged, aggregated, shut down or
\* restarted on the way, a row is closed as done after its own message went through a
\* handler, or for one of three reasons that are on record.
THEOREM DoneMeansServed == Spec => []DoneWasServed
<1>1. Init => QueueInv /\ ServedInv
  BY InitQueue, InitServed
<1>2. QueueInv /\ ServedInv /\ [Next]_vars => (QueueInv /\ ServedInv)'
  BY QueueStep, ServedStep
<1>3. ServedInv => DoneWasServed
  BY DEF ServedInv, DoneServed, DoneWasServed, ClosedUnserved
<1> QED BY <1>1, <1>2, <1>3, PTL DEF Spec

-----------------------------------------------------------------------------
(* Wake-ups                                                                *)

\* A first life without database errors and without rows left from before.
Undisturbed == restarts = 0 /\ dbErrors = 0 /\ DOMAIN Leftover = {}

\* A row whose enqueue has yet to commit and signal.
Announced(r) == \E d \in Deliveries : At(d, "commit") /\ r \in tri[d].ids

\* The exclusion set of a claim is not too large, or another round is due; and when
\* the worker sleeps, every row it could claim has something that will wake it.
WakeInv ==
  Undisturbed =>
    /\ wpc = "select" => wake \/ excluded \subseteq get_over_limit_chats(slots)
    /\ (wpc = "wait" /\ Cardinality(slots) < MaxTotal) =>
         \A r \in Direct(Pending) : rows[r].key \notin get_over_limit_chats(slots) =>
           wake \/ debounceTimer \/ Announced(r)

LEMMA InitWake == Init => WakeInv
<1> SUFFICES ASSUME Init, DOMAIN Leftover = {} PROVE Direct(Pending) = {}
  BY DEF Init, WakeInv, Undisturbed
<1> QED BY DEF Init, Direct, Pending, AbsentRow

\* Chats at their limit stay so while no task comes or goes.
LEMMA OverKept ==
  ASSUME QueueInv, Keeps, UNCHANGED slots
  PROVE  get_over_limit_chats(slots)' = get_over_limit_chats(slots)
<1>1. \A r \in slots : r \in RowIds /\ rows'[r].key = rows[r].key /\ rows'[r].catchup = rows[r].catchup
  BY SlotRows DEF Keeps
<1>2. \A c \in Keys : TasksOf(slots, c)' = TasksOf(slots, c)
  BY <1>1 DEF TasksOf, TaskChat
<1> QED BY <1>2 DEF get_over_limit_chats

LEMMA WakeSet == ASSUME wake' PROVE WakeInv'
BY DEF WakeInv

\* A step after which the worker waits on for rows it already waited for, or for new
\* ones that will be announced.
LEMMA WakeKept ==
  ASSUME QueueInv, WakeInv, Keeps, UNCHANGED slots, wake => wake', Undisturbed' => Undisturbed,
         wpc' = "select" => wpc = "select" /\ excluded' = excluded,
         wpc' = "wait" =>
           /\ wpc = "wait" /\ (debounceTimer => debounceTimer' \/ wake')
           /\ \A r \in Direct(Pending)' :
                \/ r \in Direct(Pending) /\ (Announced(r) => Announced(r)' \/ wake')
                \/ Announced(r)'
  PROVE  WakeInv'
<1> SUFFICES ASSUME Undisturbed', Undisturbed PROVE WakeInv'
  BY DEF WakeInv
<1>1. wpc' = "select" => wake' \/ excluded' \subseteq get_over_limit_chats(slots)'
  BY OverKept DEF WakeInv
<1>2. ASSUME wpc' = "wait", Cardinality(slots') < MaxTotal, NEW r \in Direct(Pending)',
             rows'[r].key \notin get_over_limit_chats(slots)'
      PROVE  wake' \/ debounceTimer' \/ Announced(r)'
  <2>1. CASE Announced(r)'
    BY <2>1
  <2>2. CASE r \in Direct(Pending) /\ (Announced(r) => Announced(r)' \/ wake')
    <3>1. rows'[r].key = rows[r].key
      BY <2>2 DEF Direct, Pending, Keeps
    <3> QED BY <1>2, <2>2, <3>1, OverKept DEF WakeInv
  <2> QED BY <1>2, <2>1, <2>2
<1> QED BY <1>1, <1>2 DEF WakeInv

\* The worker resumes: what it reads about its tasks is true.
LEMMA WakeDrain ==
  ASSUME QueueInv, Drain(slots'), get_over_limit_chats(slots)' = get_over_limit_chats(slots'),
         slots' \in SUBSET RowIds
  PROVE  WakeInv'
<1>1. Cardinality(slots') \in Nat /\ MaxTotal \in Nat
  BY FewerRows, QueueAssumption DEF QueueAssumption
<1>2. CASE Cardinality(slots') < MaxTotal
  BY <1>2 DEF Drain, WakeInv
<1>3. CASE ~ (Cardinality(slots') < MaxTotal)
  BY <1>3 DEF Drain, WakeInv
<1> QED BY <1>2, <1>3

LEMMA WakeStep == QueueInv /\ WakeInv /\ [Next]_vars => WakeInv'
<1> SUFFICES ASSUME QueueInv, WakeInv, [Next]_vars PROVE WakeInv'
  OBVIOUS
<1>t. /\ TypeOK /\ slots \subseteq RowIds /\ rows \in [RowIds -> Row] /\ wake \in BOOLEAN
      /\ tri \in [Deliveries -> Triage] /\ restarts \in Nat /\ dbErrors \in Nat
  BY QueueAssumption DEF QueueInv, TypeOK, TaskOK, TableOK, SignalOK, TriageOK, BoundOK, QueueAssumption
<1>1. CASE Restart
  BY <1>t, <1>1 DEF Restart, WakeInv, Undisturbed
<1> SUFFICES ASSUME Keeps PROVE WakeInv'
  BY <1>1, StepKeeps
<1>2. ASSUME NEW d \in Deliveries, Receive(d) \/ TriageStep(d) PROVE WakeInv'
  <2>1. CASE CancelTask(d) \/ CancelByReply(d)
    BY <2>1, WakeSet DEF CancelTask, CancelByReply, KillTask
  <2>2. CASE Commit(d)
    <3>1. CASE MsgOf[d] \notin Stale
      BY <2>2, <3>1, WakeSet DEF Commit
    <3>2. CASE MsgOf[d] \in Stale
      <4>1. /\ UNCHANGED <<rows, slots, wake, debounceTimer, wpc, excluded>> /\ UNCHANGED boundVars
            /\ At(d, "commit") /\ tri' = [tri EXCEPT ![d].pc = "queued"]
        BY <2>2, <3>2 DEF Commit, Goto, taskVars, workerVars
      <4>2. \A r \in tri[d].ids : r \in RowIds /\ rows[r].catchup
        BY <1>t, <3>2, <4>1 DEF QueueInv, TableInv, RowsTrue, TriageRecalls, Recalls, At, Triage
      <4>3. ASSUME NEW r \in Direct(Pending), Announced(r) PROVE Announced(r)'
        <5>1. PICK e \in Deliveries : At(e, "commit") /\ r \in tri[e].ids
          BY <4>3 DEF Announced
        <5>2. e # d
          BY <4>2, <5>1 DEF Direct
        <5>3. tri'[e] = tri[e]
          BY <1>t, <4>1, <5>2
        <5> QED BY <5>1, <5>3 DEF Announced, At
      <4>4. Direct(Pending)' = Direct(Pending)
        BY <4>1 DEF Direct, Pending
      <4> QED BY <4>1, <4>3, <4>4, WakeKept DEF Undisturbed, boundVars
    <3> QED BY <3>1, <3>2
  <2>3. CASE ~ (CancelTask(d) \/ CancelByReply(d) \/ Commit(d))
    <3>1. /\ UNCHANGED <<slots, wake, debounceTimer, wpc, excluded>> /\ UNCHANGED boundVars
          /\ ~ At(d, "commit") /\ \A e \in Deliveries \ {d} : tri'[e] = tri[e]
      BY <1>2, <1>t, <2>3
      DEF TriageStep, Receive, CancelNothing, CancelNoTask, cancel_for_chat, MergeSelect,
          MergeUpdate, Inject, EnqueueCount, Evict, Insert, Goto, At, taskVars, workerVars, signalVars
    <3>2. ASSUME NEW r, Announced(r) PROVE Announced(r)'
      BY <3>1, <3>2 DEF Announced, At
    <3>3. ASSUME NEW r \in Direct(Pending)' PROVE r \in Direct(Pending) \/ Announced(r)'
      <4>1. CASE Insert(d)
        <5> DEFINE free == {s \in RowIds : rows[s].status = "absent"}
                   n == Oldest(free)
        <5>1. rows' = [rows EXCEPT ![n] = NewRow(MsgOf[d])]
              /\ tri' = [tri EXCEPT ![d] = [pc |-> "commit", ids |-> {n}, seen |-> {}]]
          BY <4>1 DEF Insert
        <5> HIDE DEF n
        <5>2. CASE r = n
          <6>1. tri'[d].pc = "commit" /\ tri'[d].ids = {n}
            BY <1>t, <5>1
          <6> QED BY <5>2, <6>1 DEF Announced, At
        <5>3. CASE r # n
          <6>1. r \in RowIds /\ rows'[r].status = "pending" /\ ~ rows'[r].catchup
            BY <3>3 DEF Direct, Pending
          <6>2. rows'[r] = rows[r]
            BY <1>t, <5>1, <5>3, <6>1
          <6> QED BY <6>1, <6>2 DEF Direct, Pending
        <5> QED BY <5>2, <5>3
      <4>2. CASE cancel_for_chat(d) \/ Evict(d) \/ MergeUpdate(d)
        <5>1. \A s \in RowIds : /\ rows'[s].status \in {rows[s].status, "cancelled"}
                                /\ rows'[s].catchup = rows[s].catchup
          <6>1. CASE MergeUpdate(d)
            BY <1>t, <6>1 DEF MergeUpdate, Row
          <6>2. ASSUME NEW S, rows' = SetStatus(S, "cancelled")
                PROVE  \A s \in RowIds : /\ rows'[s].status \in {rows[s].status, "cancelled"}
                                         /\ rows'[s].catchup = rows[s].catchup
            BY <1>t, <6>2 DEF SetStatus, Row
          <6> QED BY <4>2, <6>1, <6>2 DEF cancel_for_chat, Evict
        <5> QED BY <3>3, <5>1 DEF Direct, Pending
      <4>3. CASE rows' = rows
        BY <3>3, <4>3 DEF Direct, Pending
      <4> QED BY <1>2, <2>3, <4>1, <4>2, <4>3
              DEF TriageStep, Receive, CancelNothing, CancelNoTask, MergeSelect, Inject, EnqueueCount,
                  tableVars
    <3> QED BY <3>1, <3>2, <3>3, WakeKept DEF Undisturbed, boundVars
  <2> QED BY <2>1, <2>2, <2>3
<1>3. CASE WorkerWakes \/ Discard
  <2>1. slots' = slots /\ Drain(slots)
    BY <1>3 DEF WorkerWakes, Discard, taskVars
  <2> QED BY <1>t, <2>1, OverKept, WakeDrain
<1>4. CASE Dispatch
  <2>1. slots' = slots \cup {claim.row} /\ Drain(slots') /\ claim.row \in RowIds /\ rows' = rows
    BY <1>t, <1>4 DEF Dispatch, TypeOK, WorkerOK, Holding, tableVars
  <2>2. get_over_limit_chats(slots)' = get_over_limit_chats(slots')
    BY <2>1 DEF get_over_limit_chats, TasksOf, TaskChat
  <2> QED BY <1>t, <2>1, <2>2, WakeDrain
<1>5. CASE ClaimSelect
  <2>1. UNCHANGED <<rows, slots, wake>> /\ UNCHANGED boundVars /\ wpc = "select" /\ wpc' # "select"
    BY <1>5 DEF ClaimSelect, Select, tableVars, taskVars
  <2>2. \/ wpc' = "claim"
        \/ debounceTimer'
        \/ wpc' = "wait" /\ Claimable(Direct(Pending)) = {}
    BY <1>5 DEF ClaimSelect, Select
  <2>3. CASE wpc' = "claim" \/ debounceTimer'
    BY <2>1, <2>3 DEF WakeInv
  <2>4. CASE Claimable(Direct(Pending)) = {}
    <3>1. \A r \in Direct(Pending) : rows[r].key \in excluded
      BY <2>4 DEF Claimable
    <3>2. Direct(Pending)' = Direct(Pending)
      BY <2>1 DEF Direct, Pending
    <3>3. Undisturbed' => Undisturbed
      BY <2>1 DEF Undisturbed, boundVars
    <3> QED BY <2>1, <3>1, <3>2, <3>3, OverKept DEF WakeInv
  <2> QED BY <2>2, <2>3, <2>4
<1>6. CASE ClaimUpdate \/ Gather \/ Mark \/ WorkerErrors
  <2>1. CASE ClaimUpdate \/ Gather \/ Mark
    BY <2>1 DEF ClaimUpdate, Gather, Mark, WakeInv
  <2>2. CASE WorkerErrors
    BY <1>t, <2>2 DEF WorkerErrors, WakeInv, Undisturbed
  <2> QED BY <1>6, <2>1, <2>2
<1>7. ASSUME NEW t \in RowIds, TaskStep(t) \/ Zombie(t) \/ WindowEnds(t) PROVE WakeInv'
  <2>1. CASE HandlerReturns(t) \/ HandlerRaises(t) \/ Unwinds(t) \/ Zombie(t)
    BY <2>1, WakeSet DEF HandlerReturns, HandlerRaises, Unwinds, Leave, Zombie, KillTask
  <2>2. CASE RunStarts(t) \/ complete(t) \/ fail(t) \/ WindowEnds(t)
    <3>1. /\ UNCHANGED <<slots, wake, debounceTimer, wpc, excluded, tri>> /\ UNCHANGED boundVars
          /\ rows' = rows \/ \E st \in {"done", "failed"} : rows' = SetStatus({t} \cup siblings[t], st)
      BY <2>2 DEF RunStarts, complete, fail, CloseRows, WindowEnds, tableVars, signalVars, workerVars, taskVars
    <3>2. ASSUME NEW r \in Direct(Pending)' PROVE r \in Direct(Pending)
      BY <1>t, <3>1, <3>2 DEF SetStatus, Direct, Pending, Row
    <3>3. \A r : Announced(r)' <=> Announced(r)
      BY <3>1 DEF Announced, At
    <3> QED BY <3>1, <3>2, <3>3, WakeKept DEF Undisturbed, boundVars
  <2> QED BY <1>7, <2>1, <2>2 DEF TaskStep
<1>8. CASE DebounceFires \/ Shutdown \/ \E k \in Keys : CatchupFires(k)
  BY <1>8, WakeSet DEF DebounceFires, CatchupFires, Shutdown
<1>9. CASE UNCHANGED vars
  <2>1. /\ UNCHANGED <<rows, slots, wake, debounceTimer, wpc, excluded, tri>> /\ UNCHANGED boundVars
    BY <1>9 DEF vars, tableVars, signalVars, workerVars, taskVars
  <2>2. Direct(Pending)' = Direct(Pending) /\ \A r : Announced(r)' <=> Announced(r)
    BY <2>1 DEF Direct, Pending, Announced, At
  <2> QED BY <2>1, <2>2, WakeKept DEF Undisturbed, boundVars
<1> QED
  BY <1>1, <1>2, <1>3, <1>4, <1>5, <1>6, <1>7, <1>8, <1>9 DEF Next, worker_loop

\* No wake-up is lost, however clearing the event, the debounce window, the exclusion
\* set and the enqueues interleave: while the worker sleeps and could claim a direct
\* row, something is on its way that will wake it.
THEOREM NoWakeupIsLost == Spec => []NoLostWakeup
<1>1. Init => QueueInv /\ WakeInv
  BY InitQueue, InitWake
<1>2. QueueInv /\ WakeInv /\ [Next]_vars => (QueueInv /\ WakeInv)'
  BY QueueStep, WakeStep
<1>3. WakeInv => NoLostWakeup
  BY DEF WakeInv, Undisturbed, Announced, NoLostWakeup
<1> QED BY <1>1, <1>2, <1>3, PTL DEF Spec

-----------------------------------------------------------------------------
(* The abstract queue                                                      *)

\* A row the committed table does not know is new, or an eviction has hit it.
NewOnDisk ==
  \A r \in RowIds : disk[r].status = "absent" => rows[r].status \in {"absent", "pending", "cancelled"}

\* What is at work for a task, or in the hand of the worker, was claimed on disk too.
Secured(S) == \A s \in S : CommittedStatus(s) \notin Untaken
TasksSecured == \A t \in RowIds : Secured(siblings[t]) /\ (run[t] # "none" => Secured({t}))
ClaimSecured ==
  /\ wpc \in Holding \ {"claim"} => Secured({claim.row})
  /\ wpc = "mark" => Secured(claim.ids \ claim.marks)
  /\ wpc = "dispatch" => Secured(claim.ids)

\* What the worker is reaching for is nobody's work.
ReachingFree ==
  \A r \in Reaching :
    run[r] = "none" /\ CommittedStatus(r) # "processing" /\ \A t \in RowIds : r \notin siblings[t]
MarksFree == wpc = "mark" => claim.marks \subseteq claim.ids /\ claim.row \notin claim.marks

LeftoverKept == \A r \in DOMAIN Leftover : disk[r].status # "absent"

PromiseInv == NewOnDisk /\ TasksSecured /\ ClaimSecured /\ ReachingFree /\ MarksFree /\ LeftoverKept

LEMMA InitPromise == Init => PromiseInv
<1> SUFFICES ASSUME Init PROVE PromiseInv
  OBVIOUS
<1>1. NewOnDisk /\ TasksSecured /\ ClaimSecured /\ ReachingFree /\ MarksFree
  BY DEF Init, NewOnDisk, TasksSecured, ClaimSecured, Secured, ReachingFree, Reaching, MarksFree, Holding
<1>2. LeftoverKept
  BY QueueAssumption DEF Init, LeftoverKept, NewRow, QueueAssumption
<1> QED BY <1>1, <1>2 DEF PromiseInv

LEMMA NewOnDiskStep ==
  ASSUME QueueInv, NewOnDisk, [Next]_vars, ~ Restart
  PROVE  NewOnDisk'
<1>t. TypeOK /\ rows \in [RowIds -> Row] /\ disk \in [RowIds -> Row]
  BY DEF QueueInv, TypeOK, TableOK
<1>1. CASE disk' = rows'
  BY <1>1 DEF NewOnDisk
<1>2. CASE rows' = rows /\ disk' = disk
  BY <1>2 DEF NewOnDisk
<1>3. CASE disk' = disk /\ \E S : rows' = SetStatus(S, "cancelled")
  BY <1>t, <1>3 DEF NewOnDisk, SetStatus, Row
<1>4. ASSUME NEW d \in Deliveries, Insert(d) PROVE NewOnDisk'
  <2>1. \A r \in RowIds : rows'[r].status \in {rows[r].status, "pending"} /\ disk'[r] = disk[r]
    BY <1>t, <1>4 DEF Insert, NewRow
  <2> QED BY <2>1 DEF NewOnDisk
<1>5. CASE \E d \in Deliveries : MergeUpdate(d)
  BY <1>1, <1>5 DEF MergeUpdate, DbCommit
<1> QED BY <1>t, <1>1, <1>2, <1>3, <1>4, <1>5, TableChange DEF DbCommit

\* What the committed status of a row may become: what is claimed on disk, or closed,
\* never is to be claimed again.
Committed == DiskLag /\ NewOnDisk
LEMMA CommittedMoves ==
  ASSUME QueueInv, Committed, [Next]_vars, ~ Restart, NEW r \in RowIds
  PROVE  /\ CommittedStatus(r)' \in Untaken => CommittedStatus(r) \in Untaken
         /\ CommittedStatus(r) = "absent" => CommittedStatus(r)' \in {"absent", "pending"}
         /\ CommittedStatus(r)' = "absent" => CommittedStatus(r) = "absent"
<1>t. TypeOK /\ rows \in [RowIds -> Row] /\ disk \in [RowIds -> Row]
  BY DEF QueueInv, TypeOK, TableOK
<1>d. /\ disk[r].status \in {rows[r].status, "absent"} \/ rows[r].status = "cancelled"
      /\ disk[r].status = "absent" => rows[r].status \in {"absent", "pending", "cancelled"}
      /\ disk[r].status # "absent" => rows[r].status # "absent"
  BY DEF Committed, DiskLag, NewOnDisk, QueueInv, TableInv, DiskBehind
<1>1. CASE rows' = rows /\ disk' \in {rows, disk}
  BY <1>d, <1>1 DEF CommittedStatus, Untaken
<1>2. ASSUME NEW S \in SUBSET Existing, NEW st \in Closing, rows' = SetStatus(S, st),
             DbCommit \/ (UNCHANGED disk /\ st = "cancelled")
      PROVE  /\ CommittedStatus(r)' \in Untaken => CommittedStatus(r) \in Untaken
             /\ CommittedStatus(r) = "absent" => CommittedStatus(r)' \in {"absent", "pending"}
             /\ CommittedStatus(r)' = "absent" => CommittedStatus(r) = "absent"
  <2>1. /\ rows'[r].status = IF r \in S THEN st ELSE rows[r].status
        /\ r \in S => rows[r].status # "absent"
    BY <1>t, <1>2 DEF SetStatus, Row, Existing
  <2>2. CASE disk' = rows'
    BY <1>d, <1>2, <2>1, <2>2 DEF CommittedStatus, Untaken, Closing
  <2>3. CASE disk' = disk /\ st = "cancelled"
    BY <1>d, <1>2, <2>1, <2>3 DEF CommittedStatus, Untaken
  <2> QED BY <1>2, <2>2, <2>3 DEF DbCommit
<1>3. ASSUME NEW d \in Deliveries, MergeUpdate(d)
      PROVE  rows'[r].status = rows[r].status /\ disk' = rows'
  BY <1>t, <1>3 DEF MergeUpdate, DbCommit, Row
<1>4. ASSUME NEW d \in Deliveries, Insert(d)
      PROVE  /\ disk'[r] = disk[r]
             /\ \/ rows'[r] = rows[r]
                \/ rows[r].status = "absent" /\ rows'[r].status = "pending"
  <2> DEFINE free == {s \in RowIds : rows[s].status = "absent"}
  <2>1. Oldest(free) \in free
    BY <1>4, OldestIsMember, QueueAssumption DEF Insert
  <2> QED BY <1>t, <1>4, <2>1 DEF Insert, NewRow
<1> QED BY <1>t, <1>d, <1>1, <1>2, <1>3, <1>4, TableChange DEF CommittedStatus, Untaken

\* A step that neither claims nor hands out anything.
Quiet ==
  /\ siblings' = siblings
  /\ \A t \in RowIds : /\ run'[t] \in Alive => run[t] \in Alive
                       /\ run'[t] = "none" <=> run[t] = "none"
  /\ wpc' \notin Holding \/ (wpc' = wpc /\ claim' = claim)
  /\ \A r \in RowIds : rows'[r].status = "processing" => rows[r].status = "processing"

LEMMA QuietStep ==
  ASSUME QueueInv, [Next]_vars
  PROVE  Quiet \/ Restart \/ ClaimSelect \/ ClaimUpdate \/ Gather \/ Mark \/ Dispatch
<1>t. /\ rows \in [RowIds -> Row] /\ run \in [RowIds -> RunPc] /\ slots \subseteq RowIds
      /\ \A r \in slots : run[r] # "none"
  BY DEF QueueInv, TypeOK, TableOK, TaskOK, ClaimInv, SlotHasTask
<1>k. ASSUME NEW r \in RowIds, KillTask(r)
      PROVE  /\ siblings' = siblings
             /\ \A t \in RowIds : /\ run'[t] \in Alive => run[t] \in Alive
                                  /\ run'[t] = "none" <=> run[t] = "none"
  BY <1>t, <1>k DEF KillTask, cancelled, Alive
<1>s. ASSUME NEW S, NEW st, st # "processing", rows' = SetStatus(S, st)
      PROVE  \A r \in RowIds : rows'[r].status = "processing" => rows[r].status = "processing"
  BY <1>t, <1>s DEF SetStatus, Row
<1>1. ASSUME NEW d \in Deliveries, Receive(d) \/ TriageStep(d) PROVE Quiet
  <2>w. UNCHANGED <<wpc, claim>>
    BY <1>1 DEF TriageStep, Receive, CancelNothing, CancelTask, CancelByReply, CancelNoTask,
                cancel_for_chat, MergeSelect, MergeUpdate, Inject, EnqueueCount, Evict, Insert, Commit,
                workerVars
  <2>1. CASE CancelTask(d) \/ CancelByReply(d)
    <3>1. rows' = rows /\ \E r \in RowIds : KillTask(r)
      BY <1>t, <2>1 DEF CancelTask, CancelByReply, TasksOf, tableVars
    <3> QED BY <1>k, <2>w, <3>1 DEF Quiet
  <2>2. CASE ~ CancelTask(d) /\ ~ CancelByReply(d)
    <3>1. UNCHANGED <<siblings, run>>
      BY <1>1, <2>2 DEF TriageStep, Receive, CancelNothing, CancelNoTask, cancel_for_chat,
                MergeSelect, MergeUpdate, Inject, EnqueueCount, Evict, Insert, Commit, taskVars
    <3>2. CASE cancel_for_chat(d) \/ Evict(d)
      BY <1>s, <2>w, <3>1, <3>2 DEF Quiet, cancel_for_chat, Evict
    <3>3. CASE MergeUpdate(d) \/ Insert(d)
      <4>1. \A r \in RowIds : rows'[r].status = "processing" => rows[r].status = "processing"
        <5>1. NewRow(MsgOf[d]).status = "pending"
          BY DEF NewRow
        <5>2. CASE MergeUpdate(d)
          BY <1>t, <5>2 DEF MergeUpdate, Row
        <5>3. CASE Insert(d)
          BY <1>t, <5>1, <5>3 DEF Insert
        <5> QED BY <3>3, <5>2, <5>3
      <4> QED BY <2>w, <3>1, <4>1 DEF Quiet
    <3>4. CASE ~ cancel_for_chat(d) /\ ~ Evict(d) /\ ~ MergeUpdate(d) /\ ~ Insert(d)
      <4>1. rows' = rows
        BY <1>1, <2>2, <3>4 DEF TriageStep, Receive, CancelNothing, CancelNoTask, MergeSelect,
                  Inject, EnqueueCount, Commit, tableVars
      <4> QED BY <2>w, <3>1, <4>1 DEF Quiet
    <3> QED BY <3>2, <3>3, <3>4
  <2> QED BY <2>1, <2>2
<1>2. CASE WorkerWakes \/ WorkerErrors \/ Discard
  <2>1. UNCHANGED <<siblings, run>> /\ wpc' \notin Holding
    BY <1>2 DEF WorkerWakes, WorkerErrors, Discard, Drain, Holding, taskVars
  <2>2. rows' = rows \/ rows' = SetStatus(ChatCatchUp, "done")
    BY <1>2 DEF WorkerWakes, WorkerErrors, Discard, tableVars
  <2> QED BY <1>s, <2>1, <2>2 DEF Quiet
<1>3. ASSUME NEW t \in RowIds, TaskStep(t) \/ Zombie(t) \/ WindowEnds(t) PROVE Quiet
  <2>1. CASE complete(t) \/ fail(t)
    <3>1. PICK pc \in {"completing", "failing"}, st \in {"done", "failed"} : CloseRows(t, pc, st)
      BY <2>1 DEF complete, fail
    <3>2. \A r \in RowIds : rows'[r].status = "processing" => rows[r].status = "processing"
      BY <1>s, <3>1 DEF CloseRows
    <3> QED BY <1>t, <3>1, <3>2 DEF CloseRows, Quiet, Alive, workerVars
  <2>2. CASE Zombie(t)
    BY <1>k, <2>2 DEF Zombie, Quiet, workerVars, tableVars
  <2>3. CASE \/ RunStarts(t) \/ HandlerReturns(t) \/ HandlerRaises(t) \/ Unwinds(t) \/ WindowEnds(t)
    BY <1>t, <2>3 DEF RunStarts, HandlerReturns, HandlerRaises, Unwinds, Leave, WindowEnds, Quiet,
                Alive, workerVars, tableVars, taskVars
  <2> QED BY <1>3, <2>1, <2>2, <2>3 DEF TaskStep
<1>4. CASE UNCHANGED vars \/ DebounceFires \/ \E k \in Keys : CatchupFires(k)
  BY <1>4 DEF DebounceFires, CatchupFires, vars, Quiet, tableVars, workerVars, taskVars
<1>5. CASE Shutdown
  BY <1>t, <1>5 DEF Shutdown, cancelled, Quiet, Alive, Holding, tableVars
<1> QED BY <1>1, <1>2, <1>3, <1>4, <1>5 DEF Next, worker_loop

\* Then nothing becomes work on disk either.
LEMMA QuietStatus ==
  ASSUME QueueInv, DiskLag, Quiet, [Next]_vars, ~ Restart, NEW r \in RowIds, CommittedStatus(r)' = "processing"
  PROVE  CommittedStatus(r) = "processing"
<1>1. Saves
  <2>1. \A d \in Deliveries : MergeUpdate(d) \/ Insert(d) => Saves
    BY DEF MergeUpdate, Insert, DbCommit, Saves
  <2> QED BY <2>1, TableChange DEF Saves, DbCommit
<1> QED BY <1>1 DEF Quiet, Saves, DiskLag, CommittedStatus

\* What is at work exists, and so does what the worker reaches for.
LEMMA WorkIsTaken ==
  ASSUME QueueInv, PromiseInv, NEW r \in AtWork
  PROVE  r \in RowIds /\ CommittedStatus(r) \notin Untaken
<1>t. siblings \in [RowIds -> SUBSET RowIds] /\ (wpc \in Holding => claim.row \in RowIds /\ claim.ids \subseteq RowIds)
  BY DEF QueueInv, TypeOK, TaskOK, WorkerOK
<1>1. CASE r \in InHand
  BY <1>t, <1>1 DEF InHand, Reaching, PromiseInv, ClaimSecured, Secured, Holding
<1>2. ASSUME NEW t \in RowIds, run[t] \in Alive, r \in {t} \cup siblings[t]
      PROVE  r \in RowIds /\ CommittedStatus(r) \notin Untaken
  BY <1>t, <1>2 DEF PromiseInv, TasksSecured, Secured, Alive
<1> QED BY <1>1, <1>2 DEF AtWork

LEMMA ReachingExists ==
  ASSUME QueueInv, NEW r \in Reaching
  PROVE  r \in RowIds /\ rows[r].status # "absent"
BY DEF Reaching, QueueInv, TableInv, ClaimExists, Holding, TypeOK, WorkerOK

LEMMA PromiseStep == QueueInv /\ ServedInv /\ PromiseInv /\ [Next]_vars => PromiseInv'
<1> SUFFICES ASSUME QueueInv, ServedInv, PromiseInv, [Next]_vars PROVE PromiseInv'
  OBVIOUS
<1>t. /\ rows \in [RowIds -> Row] /\ disk \in [RowIds -> Row] /\ run \in [RowIds -> RunPc]
      /\ siblings \in [RowIds -> SUBSET RowIds]
      /\ wpc \in Holding =>
           claim.row \in RowIds /\ claim.ids \subseteq RowIds /\ claim.marks \subseteq RowIds
  BY DEF QueueInv, TypeOK, TableOK, TaskOK, WorkerOK, ClaimInv, ClaimIsExclusive
<1>d. ASSUME ~ Restart
      PROVE  Saves /\ \A r \in RowIds : rows[r].status # "absent" => rows'[r].status # "absent"
  <2>1. \A d \in Deliveries : MergeUpdate(d) \/ Insert(d) => Saves
    BY DEF MergeUpdate, Insert, DbCommit, Saves
  <2> QED BY <1>d, <2>1, TableChange, StepKeeps DEF Saves, DbCommit, Keeps
<1>1. LeftoverKept'
  <2>1. CASE ~ Restart
    BY <1>d, <2>1, QueueAssumption
    DEF QueueAssumption, PromiseInv, LeftoverKept, Saves, QueueInv, TableInv, DiskBehind
  <2>2. CASE Restart
    <3>1. PICK deploy \in BOOLEAN, old \in SUBSET (Terminal \cap Ageing) :
            rows' = gc_old_rows(startup_recovery(disk, deploy), old)
      BY <2>2 DEF Restart
    <3>2. \A r \in RowIds : disk[r].status # "absent" => rows'[r].status # "absent"
      BY <1>t, <3>1 DEF gc_old_rows, startup_recovery, Row
    <3>3. disk' = rows'
      BY <2>2 DEF Restart, DbCommit
    <3> QED BY <3>2, <3>3, QueueAssumption DEF QueueAssumption, PromiseInv, LeftoverKept
  <2> QED BY <2>1, <2>2
<1>2. CASE Restart
  <2>1. /\ wpc' = "wait" /\ disk' = rows'
        /\ run' = [r \in RowIds |-> "none"] /\ siblings' = [r \in RowIds |-> {}]
    BY <1>2 DEF Restart, DbCommit
  <2>2. NewOnDisk' /\ TasksSecured' /\ ClaimSecured' /\ ReachingFree' /\ MarksFree'
    BY <2>1 DEF NewOnDisk, TasksSecured, ClaimSecured, Secured, ReachingFree, Reaching, MarksFree, Holding
  <2> QED BY <1>1, <2>2 DEF PromiseInv
<1> SUFFICES ASSUME ~ Restart PROVE NewOnDisk' /\ TasksSecured' /\ ClaimSecured' /\ ReachingFree' /\ MarksFree'
  BY <1>1, <1>2 DEF PromiseInv
<1>n. NewOnDisk'
  BY NewOnDiskStep DEF PromiseInv
<1>c. Committed
  BY DEF Committed, PromiseInv, ServedInv
<1>k. ASSUME NEW r \in RowIds, CommittedStatus(r) \notin Untaken PROVE CommittedStatus(r)' \notin Untaken
  BY <1>c, <1>k, CommittedMoves
<1>3. CASE Quiet
  <2>1. TasksSecured'
    <3>1. \A t \in RowIds : /\ \A s \in siblings[t] : CommittedStatus(s)' \notin Untaken
                            /\ run[t] # "none" => CommittedStatus(t)' \notin Untaken
      BY <1>t, <1>k DEF PromiseInv, TasksSecured, Secured
    <3> QED BY <1>3, <3>1 DEF Quiet, TasksSecured, Secured
  <2>2. ClaimSecured'
    <3>1. CASE wpc' \notin Holding
      BY <3>1 DEF ClaimSecured, Holding
    <3>2. CASE wpc' \in Holding
      <4>1. wpc' = wpc /\ claim' = claim
        BY <1>3, <3>2 DEF Quiet
      <4>2. \A s \in {claim.row} : wpc \in Holding \ {"claim"} => CommittedStatus(s)' \notin Untaken
        BY <1>t, <1>k DEF PromiseInv, ClaimSecured, Secured
      <4>3. wpc = "mark" => \A s \in claim.ids \ claim.marks : CommittedStatus(s)' \notin Untaken
        BY <1>t, <1>k DEF PromiseInv, ClaimSecured, Secured, Holding
      <4>4. wpc = "dispatch" => \A s \in claim.ids : CommittedStatus(s)' \notin Untaken
        BY <1>t, <1>k DEF PromiseInv, ClaimSecured, Secured, Holding
      <4> QED BY <4>1, <4>2, <4>3, <4>4 DEF ClaimSecured, Secured, Holding
    <3> QED BY <3>1, <3>2
  <2>3. ReachingFree'
    <3>1. Reaching' \subseteq Reaching
      BY <1>3 DEF Quiet, Reaching, Holding
    <3>2. \A r \in Reaching : CommittedStatus(r)' # "processing"
      BY <1>3, <1>c, ReachingExists, QuietStatus DEF Committed, PromiseInv, ReachingFree
    <3> QED BY <1>t, <1>3, <3>1, <3>2, ReachingExists DEF PromiseInv, ReachingFree, Quiet
  <2>4. MarksFree'
    BY <1>3 DEF Quiet, PromiseInv, MarksFree, Holding
  <2> QED BY <1>n, <2>1, <2>2, <2>3, <2>4
<1>s. ASSUME UNCHANGED <<siblings, run>> PROVE TasksSecured'
  BY <1>t, <1>k, <1>s DEF PromiseInv, TasksSecured, Secured
<1>p. ASSUME NEW r \in Pending, UNCHANGED <<rows, disk>>, UNCHANGED <<siblings, run>>
      PROVE  /\ r \in RowIds /\ run'[r] = "none" /\ CommittedStatus(r)' # "processing"
             /\ \A t \in RowIds : r \notin siblings'[t]
  BY <1>p DEF Pending, QueueInv, ClaimInv, UntakenHasNoTask, Untaken, ServedInv, SiblingsTaken, CommittedStatus
<1>4. CASE ClaimSelect
  <2>1. UNCHANGED <<rows, disk>> /\ UNCHANGED <<siblings, run>>
    BY <1>4 DEF ClaimSelect, tableVars, taskVars
  <2>2. CASE wpc' = "wait"
    BY <1>n, <1>s, <2>1, <2>2 DEF ClaimSecured, ReachingFree, Reaching, MarksFree, Holding
  <2>3. ASSUME NEW r \in Pending, Select(r) PROVE ClaimSecured' /\ ReachingFree' /\ MarksFree'
    <3>1. wpc' = "claim" /\ Reaching' = {r}
      BY <2>3 DEF Select, Reaching
    <3> QED BY <1>p, <2>1, <3>1 DEF ClaimSecured, ReachingFree, MarksFree, Holding
  <2> QED BY <1>4, <1>n, <1>s, <2>1, <2>2, <2>3, SelectsPending DEF QueueInv
<1>5. CASE ClaimUpdate
  <2>1. /\ UNCHANGED <<siblings, run>> /\ claim' = claim /\ wpc = "claim" /\ wpc' \in {"gather", "dispatch"}
        /\ rows' = SetStatus({claim.row}, "processing")
    BY <1>5 DEF ClaimUpdate, taskVars
  <2>2. claim.row \in RowIds /\ claim.ids = {claim.row}
    BY <1>t, <2>1 DEF ServedInv, ClaimServes, Holding
  <2>3. rows'[claim.row].status = "processing"
    BY <1>t, <2>1, <2>2 DEF SetStatus, Row
  <2>4. CommittedStatus(claim.row)' = "processing"
    BY <2>1, <2>3 DEF CommittedStatus
  <2> QED BY <1>n, <1>s, <2>1, <2>2, <2>4 DEF ClaimSecured, Secured, ReachingFree, Reaching, MarksFree, Untaken
<1>6. CASE Gather
  <2>1. /\ UNCHANGED <<rows, disk>> /\ UNCHANGED <<siblings, run>> /\ wpc = "gather" /\ wpc' \in {"mark", "discard"}
        /\ claim'.row = claim.row /\ claim'.ids = ChatCatchUp /\ claim'.marks = ChatCatchUp \cap Pending
    BY <1>6 DEF Gather, tableVars, taskVars, QueueInv, TypeOK, WorkerOK
  <2>2. /\ claim.row \in RowIds /\ CommittedStatus(claim.row)' \notin Untaken /\ claim.row \notin Pending
    BY <1>t, <1>k, <2>1 DEF PromiseInv, ClaimSecured, Secured, Holding, QueueInv, ClaimInv, ClaimedIsTaken, Untaken, Pending
  <2>3. ASSUME NEW s \in ChatCatchUp \ Pending PROVE CommittedStatus(s)' \notin Untaken
    BY <2>1 DEF ChatCatchUp, Pending, CommittedStatus, Untaken
  <2>4. ClaimSecured' /\ MarksFree'
    BY <2>1, <2>2, <2>3 DEF ClaimSecured, Secured, MarksFree
  <2>5. ReachingFree'
    BY <1>p, <2>1 DEF ReachingFree, Reaching
  <2> QED BY <1>n, <1>s, <2>1, <2>4, <2>5
<1>7. CASE Mark
  <2>1. /\ UNCHANGED <<siblings, run>> /\ claim' = claim /\ wpc = "mark" /\ wpc' = "dispatch"
        /\ rows' = SetStatus(claim.marks, "processing")
    BY <1>7 DEF Mark, taskVars
  <2>2. claim.row \in RowIds /\ CommittedStatus(claim.row)' \notin Untaken
    BY <1>t, <1>k, <2>1 DEF PromiseInv, ClaimSecured, Secured, Holding
  <2>3. \A s \in claim.ids \ claim.marks : CommittedStatus(s)' \notin Untaken
    BY <1>t, <1>k, <2>1 DEF PromiseInv, ClaimSecured, Secured, Holding
  <2>4. \A s \in claim.marks : rows'[s].status = "processing"
    BY <1>t, <2>1 DEF SetStatus, Row, Holding
  <2>5. \A s \in claim.marks : CommittedStatus(s)' \notin Untaken
    BY <2>1, <2>4 DEF CommittedStatus, Untaken
  <2> QED BY <1>n, <1>s, <2>1, <2>2, <2>3, <2>5 DEF ClaimSecured, Secured, ReachingFree, Reaching, MarksFree
<1>8. CASE Dispatch
  <2>1. /\ wpc = "dispatch" /\ wpc' \in {"select", "wait"} /\ claim.row \in RowIds /\ claim.ids \in SUBSET RowIds
        /\ run' = [run EXCEPT ![claim.row] = "created"] /\ siblings' = [siblings EXCEPT ![claim.row] = claim.ids]
    BY <1>t, <1>8 DEF Dispatch, Drain, Holding
  <2>2. \A s \in claim.ids \cup {claim.row} : CommittedStatus(s)' \notin Untaken
    BY <1>t, <1>k, <2>1 DEF PromiseInv, ClaimSecured, Secured, Holding
  <2>3. ASSUME NEW t \in RowIds, t # claim.row
        PROVE  Secured(siblings[t])' /\ (run'[t] # "none" => Secured({t})')
    <3>1. siblings'[t] = siblings[t] /\ run'[t] = run[t] /\ siblings[t] \in SUBSET RowIds
      BY <1>t, <2>1, <2>3
    <3> QED BY <1>k, <3>1 DEF PromiseInv, TasksSecured, Secured
  <2>4. \A t \in RowIds : t = claim.row => Secured(siblings[t])' /\ Secured({t})'
    <3>1. siblings'[claim.row] = claim.ids
      BY <1>t, <2>1
    <3> QED BY <2>2, <3>1 DEF Secured
  <2>5. TasksSecured'
    BY <2>3, <2>4 DEF TasksSecured
  <2>6. ClaimSecured' /\ ReachingFree' /\ MarksFree'
    BY <2>1 DEF ClaimSecured, ReachingFree, Reaching, MarksFree, Holding
  <2> QED BY <1>n, <2>5, <2>6
<1> QED BY <1>3, <1>4, <1>5, <1>6, <1>7, <1>8, QuietStep

Working(r) == r \in AtWork \/ CommittedStatus(r) = "processing"

\* What the abstract queue sees of a row.
Seen(r) ==
  IF CommittedStatus(r) = "absent" THEN "none" ELSE IF Working(r) THEN "working"
  ELSE IF r \in Reaching THEN "claimed"
  ELSE IF CommittedStatus(r) = "pending" THEN "waiting" ELSE "closed"
SeenRight ==
  \A r \in RowIds : JobOf[r] = Seen(r) /\ (Working(r) => CommittedStatus(r) \notin Untaken)
LEMMA JobIs == QueueInv /\ PromiseInv => SeenRight
<1>1. QueueInv /\ PromiseInv => \A r \in RowIds : Working(r) => CommittedStatus(r) \notin Untaken
  BY WorkIsTaken DEF Working, Untaken
<1>2. \A r \in RowIds : JobOf[r] = Seen(r)
  BY DEF JobOf, Working, Seen
<1> QED BY <1>1, <1>2 DEF SeenRight

LEMMA JobsAre == JobOf \in [RowIds -> WQ!JobState]
BY DEF JobOf, WQ!JobState

\* Every step but a restart leaves each row where it is or moves it on.
LEMMA WorkMoves ==
  ASSUME QueueInv, ServedInv, PromiseInv, [Next]_vars, ~ Restart, NEW r \in RowIds
  PROVE  /\ Working(r)' => Working(r) \/ r \in Reaching
         /\ Working(r) => r \notin Reaching' \/ Working(r)'
         /\ r \in Reaching' => r \in Reaching \/ CommittedStatus(r) = "pending"
<1>t. /\ rows \in [RowIds -> Row] /\ run \in [RowIds -> RunPc]
      /\ siblings \in [RowIds -> SUBSET RowIds]
      /\ wpc \in Holding =>
           claim.row \in RowIds /\ claim.ids \subseteq RowIds /\ claim.marks \subseteq RowIds
  BY DEF QueueInv, TypeOK, TableOK, TaskOK, WorkerOK
<1>f. \A s \in Reaching : ~ Working(s)
  <2>1. \A s \in InHand : s \notin Reaching
    BY DEF InHand
  <2> QED BY <2>1 DEF PromiseInv, ReachingFree, Working, AtWork, Alive
<1>p. r \in Pending => CommittedStatus(r) = "pending" /\ ~ Working(r)
  <2>1. r \in Pending => CommittedStatus(r) = "pending"
    BY DEF Pending, CommittedStatus
  <2> QED BY <2>1, WorkIsTaken DEF Working, Untaken
<1>w. /\ InHand' \subseteq InHand \cup Reaching \cup {s \in RowIds : CommittedStatus(s) = "processing"}
      /\ UNCHANGED <<siblings, run>>
      /\ CommittedStatus(r)' = "processing" => Working(r) \/ r \in Reaching
      => (Working(r)' => Working(r) \/ r \in Reaching)
  BY DEF Working, AtWork
<1>1. CASE Quiet
  <2>1. Reaching' \subseteq Reaching /\ InHand' \subseteq InHand
    BY <1>1 DEF Quiet, Reaching, InHand, Holding
  <2>2. AtWork' \subseteq AtWork
    BY <1>1, <2>1 DEF Quiet, AtWork
  <2>3. CommittedStatus(r)' = "processing" => CommittedStatus(r) = "processing"
    BY <1>1, QuietStatus DEF ServedInv
  <2> QED BY <1>f, <2>1, <2>2, <2>3 DEF Working
<1>2. CASE ClaimSelect
  <2>1. /\ UNCHANGED <<rows, disk>> /\ UNCHANGED <<siblings, run>>
        /\ Reaching = {} /\ InHand = {}
    BY <1>2 DEF ClaimSelect, tableVars, taskVars, Reaching, InHand
  <2>2. InHand' = {} /\ (Reaching' = {} \/ \E s \in Pending : Reaching' = {s})
    BY <1>2, SelectsPending DEF QueueInv, Select, Reaching, InHand
  <2>3. CommittedStatus(r)' = CommittedStatus(r)
    BY <2>1 DEF CommittedStatus
  <2> QED BY <1>p, <1>w, <2>1, <2>2, <2>3 DEF Working
<1>3. CASE ClaimUpdate
  <2>1. /\ UNCHANGED <<siblings, run>> /\ claim' = claim /\ wpc = "claim" /\ wpc' \in {"gather", "dispatch"}
        /\ rows' = SetStatus({claim.row}, "processing") /\ DbCommit /\ Reaching = {claim.row}
    BY <1>3 DEF ClaimUpdate, taskVars, Reaching
  <2>2. claim.ids = {claim.row}
    BY <2>1 DEF ServedInv, ClaimServes, Holding
  <2>3. InHand' \subseteq Reaching /\ Reaching' = {}
    BY <2>1, <2>2 DEF InHand, Reaching
  <2>4. CommittedStatus(r)' = "processing" => Working(r) \/ r \in Reaching
    BY <1>t, <2>1 DEF CommittedStatus, SetStatus, DbCommit, Working
  <2> QED BY <1>w, <2>1, <2>3, <2>4
<1>4. CASE Gather
  <2>1. /\ UNCHANGED <<rows, disk>> /\ UNCHANGED <<siblings, run>> /\ wpc = "gather" /\ wpc' \in {"mark", "discard"}
        /\ claim'.row = claim.row /\ claim'.ids = ChatCatchUp /\ claim'.marks = ChatCatchUp \cap Pending
        /\ wpc' = "discard" => ChatCatchUp = {}
    BY <1>4 DEF Gather, tableVars, taskVars, QueueInv, TypeOK, WorkerOK
  <2>2. Reaching' \subseteq Pending /\ Reaching = {} /\ InHand = {claim.row}
    BY <2>1 DEF Reaching, InHand
  <2>3. ASSUME NEW s \in ChatCatchUp \ Pending PROVE CommittedStatus(s) = "processing"
    BY DEF ChatCatchUp, Pending, CommittedStatus
  <2>4. InHand' \subseteq (ChatCatchUp \ Pending) \cup {claim.row}
    BY <2>1 DEF InHand, Reaching
  <2>5. CommittedStatus(r)' = CommittedStatus(r)
    BY <2>1 DEF CommittedStatus
  <2>6. ChatCatchUp \subseteq RowIds
    BY DEF ChatCatchUp
  <2>7. InHand' \subseteq InHand \cup Reaching \cup {s \in RowIds : CommittedStatus(s) = "processing"}
    BY <2>2, <2>3, <2>4, <2>6
  <2> QED BY <1>p, <1>w, <2>1, <2>2, <2>5, <2>7 DEF Working
<1>5. CASE Mark
  <2>1. /\ UNCHANGED <<siblings, run>> /\ claim' = claim /\ wpc = "mark" /\ wpc' = "dispatch"
        /\ rows' = SetStatus(claim.marks, "processing") /\ DbCommit
    BY <1>5 DEF Mark, taskVars
  <2>2. /\ Reaching = claim.marks /\ Reaching' = {}
        /\ InHand = (claim.ids \cup {claim.row}) \ claim.marks /\ InHand' = claim.ids \cup {claim.row}
    BY <2>1 DEF Reaching, InHand
  <2>3. CommittedStatus(r)' = "processing" => Working(r) \/ r \in Reaching
    BY <1>t, <2>1, <2>2 DEF CommittedStatus, SetStatus, DbCommit, Working
  <2> QED BY <1>w, <2>1, <2>2, <2>3
<1>6. CASE Dispatch
  <2>1. /\ UNCHANGED <<rows, disk>> /\ wpc = "dispatch" /\ wpc' \in {"select", "wait"} /\ claim.row \in RowIds
        /\ run' = [run EXCEPT ![claim.row] = "created"] /\ siblings' = [siblings EXCEPT ![claim.row] = claim.ids]
    BY <1>t, <1>6 DEF Dispatch, Drain, Holding, tableVars
  <2>2. Reaching' = {} /\ InHand' = {} /\ InHand = claim.ids \cup {claim.row}
    BY <2>1 DEF Reaching, InHand
  <2>3. ASSUME NEW s \in AtWork' PROVE s \in AtWork
    <3>1. PICK t \in RowIds : run'[t] \in Alive /\ s \in {t} \cup siblings'[t]
      BY <2>2, <2>3 DEF AtWork
    <3>2. CASE t = claim.row
      BY <1>t, <2>1, <2>2, <3>1, <3>2 DEF AtWork
    <3>3. CASE t # claim.row
      BY <1>t, <2>1, <3>1, <3>3 DEF AtWork
    <3> QED BY <3>2, <3>3
  <2>4. CommittedStatus(r)' = CommittedStatus(r)
    BY <2>1 DEF CommittedStatus
  <2> QED BY <2>2, <2>3, <2>4 DEF Working
<1> QED BY <1>1, <1>2, <1>3, <1>4, <1>5, <1>6, QuietStep

LEMMA JobMoves ==
  ASSUME QueueInv, ServedInv, PromiseInv, QueueInv', PromiseInv', [Next]_vars, ~ Restart, NEW r \in RowIds
  PROVE  JobOf[r] = JobOf'[r] \/ <<JobOf[r], JobOf'[r]>> \in WQ!Moves
<1>m. /\ Working(r)' => Working(r) \/ r \in Reaching
      /\ Working(r) => r \notin Reaching' \/ Working(r)'
      /\ r \in Reaching' => r \in Reaching \/ CommittedStatus(r) = "pending"
  BY WorkMoves
<1>c. /\ CommittedStatus(r)' \in Untaken => CommittedStatus(r) \in Untaken
      /\ CommittedStatus(r) = "absent" => CommittedStatus(r)' \in {"absent", "pending"}
      /\ CommittedStatus(r)' = "absent" => CommittedStatus(r) = "absent"
  BY CommittedMoves DEF Committed, ServedInv, PromiseInv
<1>s. SeenRight /\ SeenRight'
  BY JobIs, PTL
<1>e. CommittedStatus(r) = "absent" => ~ Working(r) /\ r \notin Reaching
  <2>1. r \in Reaching => CommittedStatus(r) # "absent"
    BY ReachingExists DEF CommittedStatus
  <2> QED BY <1>s, <2>1 DEF SeenRight, Untaken
<1>w. /\ Working(r) => CommittedStatus(r) \notin Untaken
      /\ Working(r)' => CommittedStatus(r)' \notin Untaken
  BY <1>s DEF SeenRight
<1>1. Seen(r) = Seen(r)' \/ <<Seen(r), Seen(r)'>> \in WQ!Moves
  BY <1>m, <1>c, <1>e, <1>w DEF Seen, WQ!Moves, Untaken
<1>2. JobOf[r] = Seen(r) /\ JobOf'[r] = Seen(r)'
  BY <1>s DEF SeenRight
<1> QED BY <1>1, <1>2

\* What has been accepted is on disk.
LEMMA AcceptedOnDisk ==
  ASSUME QueueInv, PromiseInv, NEW r \in AcceptedRows
  PROVE  r \in RowIds /\ disk[r].status # "absent"
<1>1. CASE r \in DOMAIN Leftover
  BY <1>1, QueueAssumption DEF QueueAssumption, PromiseInv, LeftoverKept
<1>2. ASSUME NEW d \in Deliveries, At(d, "queued"), r \in tri[d].ids
      PROVE  r \in RowIds /\ disk[r].status # "absent"
  BY <1>2 DEF At, QueueInv, TypeOK, TriageOK, Triage, TableInv, TriageRecalls, Recalls
<1> QED BY <1>1, <1>2 DEF AcceptedRows

AcceptedSeen == \A r \in AcceptedRows : r \in RowIds /\ JobOf[r] # "none"
LEMMA AcceptedIsSeen == QueueInv /\ PromiseInv => AcceptedSeen
<1> SUFFICES ASSUME QueueInv, PromiseInv, NEW r \in AcceptedRows
             PROVE  r \in RowIds /\ JobOf[r] # "none"
  BY DEF AcceptedSeen
<1>1. r \in RowIds /\ disk[r].status # "absent"
  BY AcceptedOnDisk
<1>2. CommittedStatus(r) # "absent"
  BY <1>1 DEF CommittedStatus, QueueInv, TableInv, DiskBehind
<1>3. JobOf[r] = Seen(r)
  BY <1>1, JobIs DEF SeenRight
<1> QED BY <1>1, <1>2, <1>3 DEF Seen

LEMMA PromiseInit == Init => WQ!Init
<1> SUFFICES ASSUME Init PROVE WQ!Init
  OBVIOUS
<1>i. QueueInv /\ PromiseInv
  BY InitQueue, InitPromise
<1>1. /\ AtWork = {} /\ Reaching = {} /\ AcceptedRows = DOMAIN Leftover /\ DOMAIN Leftover \subseteq RowIds
      /\ \A r \in RowIds : CommittedStatus(r) = IF r \in DOMAIN Leftover THEN "pending" ELSE "absent"
  <2>1. \A r \in RowIds : rows[r].status = IF r \in DOMAIN Leftover THEN "pending" ELSE "absent"
    BY DEF Init, NewRow, AbsentRow
  <2>2. AtWork = {} /\ Reaching = {}
    BY DEF Init, AtWork, InHand, Reaching, Alive
  <2>3. AcceptedRows = DOMAIN Leftover
    BY DEF Init, AcceptedRows, At, TriageStart
  <2> QED BY <2>1, <2>2, <2>3, QueueAssumption DEF CommittedStatus, QueueAssumption
<1>2. \A r \in RowIds : JobOf[r] = IF r \in DOMAIN Leftover THEN "waiting" ELSE "none"
  BY <1>i, <1>1, JobIs DEF SeenRight, Seen, Working
<1>3. JobOf \in [RowIds -> {"none", "waiting"}]
  BY <1>2, JobsAre
<1> QED BY <1>1, <1>2, <1>3 DEF WQ!Init, Init

\* A coroutine that enqueue has returned to is done.
LEMMA QueuedStays ==
  ASSUME QueueInv, [Next]_vars, NEW d \in Deliveries, At(d, "queued")
  PROVE  tri'[d] = tri[d]
<1>t. tri \in [Deliveries -> Triage]
  BY DEF QueueInv, TypeOK, TriageOK
<1>1. ASSUME NEW e \in Deliveries, Receive(e) \/ TriageStep(e) PROVE tri'[d] = tri[d]
  <2>1. e # d
    BY <1>1 DEF At, Receive, TriageStep, CancelNothing, CancelTask, CancelByReply, CancelNoTask,
                cancel_for_chat, MergeSelect, MergeUpdate, Inject, EnqueueCount, Evict, Insert, Commit
  <2>2. \E x : tri' = [tri EXCEPT ![e] = x]
    <3>1. \A pc : Goto(e, pc) => \E x : tri' = [tri EXCEPT ![e] = x]
      BY DEF Goto
    <3>2. CASE MergeSelect(e) \/ MergeUpdate(e) \/ EnqueueCount(e) \/ Insert(e)
      BY <3>2 DEF MergeSelect, MergeUpdate, EnqueueCount, Insert
    <3> QED BY <1>1, <3>1, <3>2 DEF TriageStep, Receive, CancelNothing, CancelTask, CancelByReply,
                CancelNoTask, cancel_for_chat, Inject, Evict, Commit
  <2> QED BY <1>t, <2>1, <2>2
<1>2. CASE Restart
  BY <1>t, <1>2 DEF Restart, Finished, At
<1>3. ASSUME NEW t \in RowIds, TaskStep(t) \/ Zombie(t) \/ WindowEnds(t) PROVE tri' = tri
  BY <1>3 DEF TaskStep, RunStarts, HandlerReturns, HandlerRaises, Unwinds, Leave, complete, fail,
              CloseRows, Zombie, WindowEnds
<1>4. CASE worker_loop \/ WorkerErrors
  BY <1>4 DEF worker_loop, WorkerWakes, ClaimSelect, ClaimUpdate, Gather, Mark, Discard, Dispatch, WorkerErrors
<1>5. CASE UNCHANGED vars \/ DebounceFires \/ Shutdown \/ \E k \in Keys : CatchupFires(k)
  BY <1>5 DEF DebounceFires, CatchupFires, Shutdown, vars
<1> QED BY <1>1, <1>2, <1>3, <1>4, <1>5 DEF Next

\* Restarts are counted by restarts alone.
LEMMA OnlyRestartCounts ==
  ASSUME [Next]_vars, ~ Restart
  PROVE  restarts' = restarts
<1>1. ASSUME NEW d \in Deliveries, Receive(d) \/ TriageStep(d) PROVE restarts' = restarts
  BY <1>1 DEF TriageStep, Receive, CancelNothing, CancelTask, CancelByReply, CancelNoTask,
              cancel_for_chat, MergeSelect, MergeUpdate, Inject, EnqueueCount, Evict, Insert, Commit, boundVars
<1>2. ASSUME NEW t \in RowIds, TaskStep(t) \/ Zombie(t) \/ WindowEnds(t) PROVE restarts' = restarts
  BY <1>2 DEF TaskStep, RunStarts, HandlerReturns, HandlerRaises, Unwinds, Leave, complete, fail,
              CloseRows, Zombie, WindowEnds, boundVars
<1>3. CASE worker_loop \/ WorkerErrors
  BY <1>3 DEF worker_loop, WorkerWakes, ClaimSelect, ClaimUpdate, Gather, Mark, Discard, Dispatch, WorkerErrors, boundVars
<1>4. CASE UNCHANGED vars \/ DebounceFires \/ Shutdown \/ \E k \in Keys : CatchupFires(k)
  BY <1>4 DEF DebounceFires, CatchupFires, Shutdown, vars, boundVars
<1> QED BY <1>1, <1>2, <1>3, <1>4 DEF Next

LEMMA OperateStep ==
  ASSUME QueueInv, ServedInv, PromiseInv, QueueInv', PromiseInv', [Next]_vars, ~ Restart
  PROVE  WQ!Operate
<1>1. AcceptedRows \subseteq AcceptedRows'
  BY QueuedStays DEF AcceptedRows, At
<1>2. AcceptedRows' \subseteq {r \in RowIds : JobOf'[r] # "none"}
  <2>1. AcceptedSeen'
    BY AcceptedIsSeen, PTL
  <2> QED BY <2>1 DEF AcceptedSeen
<1>3. JobOf' \in [RowIds -> WQ!JobState]
  BY DEF JobOf, WQ!JobState
<1>4. \A r \in RowIds : JobOf[r] = JobOf'[r] \/ <<JobOf[r], JobOf'[r]>> \in WQ!Moves
  BY JobMoves
<1> QED BY <1>1, <1>2, <1>3, <1>4, OnlyRestartCounts DEF WQ!Operate, WQ!Moved

LEMMA CrashStep ==
  ASSUME QueueInv, ServedInv, PromiseInv, QueueInv', PromiseInv', Restart
  PROVE  WQ!Crash
<1>t. /\ rows \in [RowIds -> Row] /\ disk \in [RowIds -> Row] /\ tri \in [Deliveries -> Triage]
  BY DEF QueueInv, TypeOK, TableOK, TriageOK
<1>1. AcceptedRows' = AcceptedRows
  <2>1. \A d \in Deliveries : At(d, "queued")' = At(d, "queued") /\ (At(d, "queued") => tri'[d] = tri[d])
    BY <1>t DEF Restart, At, Finished, Triage
  <2> QED BY <2>1 DEF AcceptedRows
<1>2. JobOf' \in [RowIds -> WQ!JobState]
  BY DEF JobOf, WQ!JobState
<1>s. SeenRight /\ SeenRight'
  BY JobIs, PTL
<1>3. ASSUME NEW r \in RowIds
      PROVE  /\ JobOf'[r] \in {"none", "waiting", "closed"}
             /\ JobOf'[r] = "none" <=> disk[r].status = "absent"
             /\ JobOf[r] = "none" => JobOf'[r] = "none"
             /\ JobOf[r] = "closed" => JobOf'[r] \in {"none", "closed"}
  <2>1. PICK deploy \in BOOLEAN, old \in SUBSET (Terminal \cap Ageing) :
          rows' = gc_old_rows(startup_recovery(disk, deploy), old)
    BY DEF Restart
  <2>2. /\ disk[r].status = "absent" => rows'[r].status = "absent"
        /\ disk[r].status = "pending" => rows'[r].status = "pending"
        /\ disk[r].status = "processing" => rows'[r].status \in {"pending", "done"}
        /\ disk[r].status \notin {"absent", "pending", "processing"} =>
             rows'[r].status \in {disk[r].status, "purged"}
    <3>1. r \in old => disk[r].status \in {"done", "failed", "cancelled"}
      BY DEF Terminal
    <3> QED BY <1>t, <2>1, <3>1 DEF gc_old_rows, startup_recovery, Row
  <2>3. ~ Working(r)' /\ r \notin Reaching' /\ CommittedStatus(r)' = rows'[r].status
    <3>1. /\ wpc' = "wait" /\ run' = [s \in RowIds |-> "none"] /\ disk' = rows'
      BY DEF Restart, DbCommit
    <3>2. CommittedStatus(r)' = rows'[r].status
      BY <3>1 DEF CommittedStatus
    <3>3. rows'[r].status # "processing"
      BY <2>2
    <3> QED BY <3>1, <3>2, <3>3 DEF Working, AtWork, InHand, Reaching, Alive
  <2>4. /\ JobOf'[r] = IF rows'[r].status = "absent" THEN "none"
                       ELSE IF rows'[r].status = "pending" THEN "waiting" ELSE "closed"
        /\ JobOf[r] = Seen(r)
    BY <1>s, <2>3 DEF SeenRight, Seen
  <2>5. /\ CommittedStatus(r) = "absent" => disk[r].status = "absent"
        /\ CommittedStatus(r) \notin {"absent", "pending", "processing"} =>
             disk[r].status \notin {"pending", "processing"}
    BY DEF QueueInv, TableInv, DiskBehind, ServedInv, DiskLag, CommittedStatus
  <2>6. JobOf[r] = "closed" => CommittedStatus(r) \notin {"absent", "pending", "processing"}
    BY <2>4 DEF Seen, Working
  <2>7. JobOf[r] = "none" => CommittedStatus(r) = "absent"
    BY <2>4 DEF Seen
  <2> QED BY <2>2, <2>4, <2>5, <2>6, <2>7
<1>4. \A r \in AcceptedRows : r \in RowIds /\ disk[r].status # "absent"
  BY AcceptedOnDisk
<1>5. \A r \in RowIds : JobOf[r] = JobOf'[r] \/ <<JobOf[r], JobOf'[r]>> \in WQ!CrashMoves(r)
  <2> SUFFICES ASSUME NEW r \in RowIds
               PROVE JobOf[r] = JobOf'[r] \/ <<JobOf[r], JobOf'[r]>> \in WQ!CrashMoves(r)
    OBVIOUS
  <2>1. JobOf[r] \in {"none", "waiting", "claimed", "working", "closed"}
    BY JobsAre DEF WQ!JobState
  <2>2. CASE JobOf'[r] = "none"
    <3>1. r \notin AcceptedRows
      BY <1>3, <1>4, <2>2
    <3> QED BY <2>1, <2>2, <3>1 DEF WQ!CrashMoves, WQ!JobState
  <2>3. CASE JobOf'[r] # "none"
    BY <1>3, <2>1, <2>3 DEF WQ!CrashMoves
  <2> QED BY <2>2, <2>3
<1> QED BY <1>1, <1>2, <1>3, <1>5 DEF WQ!Crash, WQ!Moved, Restart

\* The queue implements WorkQueue: an accepted message waits, is claimed, is worked on
\* and closes for good, and only a restart puts it back; through every interleaving of
\* claims, cancels, evictions and shutdowns, for all values of the constants.
THEOREM QueueKeepsPromise == Spec => KeepsPromise
<1> DEFINE Inv == QueueInv /\ ServedInv /\ PromiseInv
<1>1. Init => Inv /\ WQ!Init
  BY InitQueue, InitServed, InitPromise, PromiseInit
<1>2. Inv /\ [Next]_vars => Inv'
  BY QueueStep, ServedStep, PromiseStep
<1>3. Inv /\ Inv' /\ [Next]_vars => [WQ!Next]_<<JobOf, AcceptedRows, restarts>>
  BY OperateStep, CrashStep DEF WQ!Next
<1> HIDE DEF Inv
<1> QED BY <1>1, <1>2, <1>3, PTL DEF Spec, KeepsPromise, WQ!Spec
=============================================================================
