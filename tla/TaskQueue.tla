------------------------------ MODULE TaskQueue ------------------------------
(***************************************************************************)
(* The message path of the bot, from a webhook to the end of a task:       *)
(* triage_and_enqueue (one coroutine per delivery), the SQLite-backed      *)
(* PersistentQueue with its single worker, the TaskManager slots, and the  *)
(* _run coroutine around each handler.                                     *)
(*                                                                         *)
(* All of it shares one asyncio loop and one aiosqlite connection, and     *)
(* open_db() takes no lock: an action is one SQL statement with the        *)
(* synchronous Python that follows it, up to the next await.  A statement  *)
(* followed at once by its own commit is a single action; an eviction, the *)
(* INSERT and the commit of enqueue are three, so a crash can fall between *)
(* them.                                                                   *)
(*                                                                         *)
(* A definition that directly precedes another one and is used nowhere is  *)
(* a mutant of it: the same code with a plausible mistake.                 *)
(***************************************************************************)
EXTENDS Naturals, FiniteSets

CONSTANTS
  Deliveries,    \* deliveries of platform messages; each is triaged once
  MsgOf,         \* the message a delivery carries: two deliveries of one message are a re-delivery
  Messages,
  KeyOf,         \* queue key of a message: the chat, or chat:topic
  Keys,
  BaseOf,        \* base chat of a key; a key that is its own base has no topic
  Stale,         \* messages older than the restart, from a chat in an active mode
  Cancels,       \* messages that read as a cancel command
  MaxRow,        \* bound: rows the table can hold, with the ids 1..MaxRow
  Leftover,      \* pending rows a previous life of the process left: id to message
  MaxPending,    \* max_pending; 0 turns eviction off
  MaxParallel,   \* MAX_PARALLEL_TASKS
  MaxTotal,      \* MAX_TOTAL_TASKS
  MergeCap,      \* messages one row may carry (the 50 kB / 10 media caps)
  Ageing,        \* bound: rows that may be over 24 hours old at a restart
  MaxRestarts,   \* bound: restarts of the process
  MaxDbErrors    \* bound: database errors hitting the worker

\* Ids the table can hand out.
RowIds == 1..MaxRow

ASSUME QueueAssumption ==
  /\ MsgOf \in [Deliveries -> Messages]
  /\ KeyOf \in [Messages -> Keys]
  /\ BaseOf \in [Keys -> Keys]
  /\ \A k \in Keys : BaseOf[BaseOf[k]] = BaseOf[k]
  /\ Keys # {} /\ Messages # {}
  /\ Stale \subseteq Messages /\ Cancels \subseteq Messages
  /\ MaxRow \in Nat /\ Ageing \subseteq RowIds
  /\ DOMAIN Leftover \subseteq RowIds /\ \A r \in DOMAIN Leftover : Leftover[r] \in Messages
  /\ MaxPending \in Nat /\ MergeCap \in Nat \ {0}
  /\ MaxParallel \in Nat \ {0} /\ MaxTotal \in Nat \ {0}
  /\ MaxRestarts \in Nat /\ MaxDbErrors \in Nat

VARIABLES
  rows,          \* the table as the shared connection sees it
  disk,          \* the table as committed: what a crash leaves
  fresh,         \* direct rows touched less than the debounce window ago (updated_at)
  wake,          \* the asyncio.Event _wake
  debounceTimer, \* _debounce_timer is armed
  catchupTimers, \* _catchup_timers, per key: no entry, armed, or fired
  wpc,           \* where worker_loop is suspended
  excluded,      \* get_over_limit_chats() as the worker last read it
  claim,         \* what the worker holds: ids (row first claimed, siblings) and messages
  slots,         \* TaskManager._tasks, named by the row each task came from
  run,           \* progress of the _run coroutine of a row's task
  taken,         \* the messages handed to the task of a row
  siblings,      \* _pq_catchup_ids of a row's task
  tri,           \* local state of each triage coroutine
  served,        \* history: messages some handler went through to the end
  cause,         \* history: what ended the task of a row, or its wait
  restarts, dbErrors

tableVars  == <<rows, disk, fresh>>
signalVars == <<wake, debounceTimer, catchupTimers>>
workerVars == <<wpc, excluded, claim>>
taskVars   == <<slots, run, taken, siblings, served, cause>>
boundVars  == <<restarts, dbErrors>>
vars == <<tableVars, signalVars, workerVars, taskVars, tri, boundVars>>

-----------------------------------------------------------------------------
Status == {"absent", "pending", "processing", "done", "failed", "cancelled",
           "purged"}
Row == [status : Status, key : Keys, mid : Messages, catchup : BOOLEAN,
        msgs : SUBSET Messages]

WorkerPc == {"wait", "select", "claim", "gather", "mark", "discard",
             "dispatch", "stopped"}
Holding == {"claim", "gather", "mark", "discard", "dispatch"}
RunPc == {"none", "created", "running", "cancelling", "completing", "failing",
          "ended"}
TriagePc == {"new", "cancel", "clear", "clearPending", "merge", "mergeUpdate",
             "inject", "enqueue", "evict", "insert", "commit",
             "dropped", "command", "merged", "injected", "queued", "lost"}
Triage == [pc : TriagePc, ids : SUBSET RowIds, seen : SUBSET Messages]
Finished == {"dropped", "command", "merged", "injected", "queued", "lost"}

AbsentRow ==
  [status |-> "absent", key |-> CHOOSE k \in Keys : TRUE,
   mid |-> CHOOSE m \in Messages : TRUE, catchup |-> FALSE, msgs |-> {}]

Oldest(S) == CHOOSE r \in S : \A s \in S : r <= s
Latest(S) == CHOOSE r \in S : \A s \in S : s <= r

PendingOrProcessing == {r \in RowIds : rows[r].status \in {"pending", "processing"}}
Pending == {r \in RowIds : rows[r].status = "pending"}
PendingOfAnyChat(k) == Pending
PendingOf(k) == {r \in Pending : rows[r].key = k}
StillPendingUnchecked(r) == TRUE
StillPending(r) == rows[r].status = "pending"
Direct(S) == {r \in S : ~rows[r].catchup}
CatchUp(S) == {r \in S : rows[r].catchup}
Aggregate(S) == UNION {rows[r].msgs : r \in S}
SetStatus(S, st) ==
  [r \in RowIds |-> IF r \in S THEN [rows[r] EXCEPT !.status = st] ELSE rows[r]]

\* db.commit(): it commits what every coroutine has written so far.
CommitForgotten == UNCHANGED disk
DbCommit == disk' = rows'

\* Tasks nobody has cancelled yet.
Unhurt == {"created", "running"}
\* What a cancel of row r's task leaves on record: an eviction stays.
Blame(r, why) == IF run[r] \in Unhurt /\ cause[r] # "evicted" THEN why ELSE cause[r]
\* A task of a row is alive from create_task(_run()) until its last statement.
Alive == {"created", "running", "cancelling", "completing", "failing"}
\* ActiveTask.chat_id: the base chat, or for a synthetic catch-up the queue key.
TaskChat(r) == IF rows[r].catchup THEN rows[r].key ELSE BaseOf[rows[r].key]
TasksOf(S, c) == {r \in S : TaskChat(r) = c}
over_limit_chats_strict(S) == {c \in Keys : Cardinality(TasksOf(S, c)) > MaxParallel}
get_over_limit_chats(S) == {c \in Keys : Cardinality(TasksOf(S, c)) >= MaxParallel}

NoClaim == [row |-> 0, ids |-> {}, marks |-> {}, msgs |-> {}]

\* The row enqueue inserts for a message.
NewRow(m) == [status |-> "pending", key |-> KeyOf[m], mid |-> m,
              catchup |-> m \in Stale, msgs |-> {m}]

TriageStart == [pc |-> "new", ids |-> {}, seen |-> {}]

Init ==
  /\ rows = [r \in RowIds |-> IF r \in DOMAIN Leftover THEN NewRow(Leftover[r]) ELSE AbsentRow]
  /\ disk = rows /\ fresh = {}
  /\ wake = FALSE /\ debounceTimer = FALSE
  /\ catchupTimers = [k \in Keys |-> "none"]
  /\ wpc = "wait" /\ excluded = {} /\ claim = NoClaim
  /\ slots = {} /\ run = [r \in RowIds |-> "none"]
  /\ taken = [r \in RowIds |-> {}] /\ siblings = [r \in RowIds |-> {}]
  /\ tri = [d \in Deliveries |-> TriageStart]
  /\ served = {} /\ cause = [r \in RowIds |-> "none"]
  /\ restarts = 0 /\ dbErrors = 0

-----------------------------------------------------------------------------
(* triage_and_enqueue, one coroutine per delivery                          *)

Goto(d, pc) == tri' = [tri EXCEPT ![d].pc = pc]
At(d, pc) == tri[d].pc = pc

\* enqueue starts with the count, unless eviction is off.
EnqueuePc == IF MaxPending > 0 THEN "enqueue" ELSE "insert"

\* The dedup SELECT: a row of this chat with this message id, not cancelled.  Then
\* a stale message goes straight to catch-up, a cancel on, the rest tries to merge.
Receive(d) ==
  LET m == MsgOf[d]
      duplicate == \E r \in RowIds : /\ rows[r].status \notin {"absent", "purged", "cancelled"}
                                     /\ rows[r].mid = m
  IN /\ At(d, "new")
     /\ Goto(d, IF duplicate THEN "dropped"
                ELSE IF m \in Stale THEN EnqueuePc
                ELSE IF m \in Cancels THEN "cancel" ELSE "merge")
     /\ UNCHANGED <<tableVars, signalVars, workerVars, taskVars, boundVars>>

\* "cancel" with no task anywhere is an ordinary message.
CancelNothing(d) ==
  /\ At(d, "cancel") /\ slots = {}
  /\ Goto(d, "merge")
  /\ UNCHANGED <<tableVars, signalVars, workerVars, taskVars, boundVars>>

\* Task.cancel(): a coroutine cancelled before its first step never enters its try
\* block; one that is already over, or being cancelled, stays as it is.
cancelled(pc) == CASE pc = "created" -> "ended"
                   [] pc = "running" -> "cancelling"
                   [] OTHER -> pc

\* Task.cancel() and fail_task: the slot goes at once and the worker is woken,
\* the handler unwinds later.
KillTaskKeepsSlot(r) ==
  /\ run' = [run EXCEPT ![r] = cancelled(@)]
  /\ cause' = [cause EXCEPT ![r] = Blame(r, "cancelled")] /\ wake' = TRUE
  /\ UNCHANGED <<slots, debounceTimer, catchupTimers, taken, siblings, served>>
KillTaskSilently(r) ==
  /\ slots' = slots \ {r}
  /\ run' = [run EXCEPT ![r] = cancelled(@)]
  /\ cause' = [cause EXCEPT ![r] = Blame(r, "cancelled")]
  /\ UNCHANGED <<signalVars, taken, siblings, served>>
KillTask(r) ==
  /\ slots' = slots \ {r}
  /\ run' = [run EXCEPT ![r] = cancelled(@)]
  /\ cause' = [cause EXCEPT ![r] = Blame(r, "cancelled")]
  /\ wake' = TRUE
  /\ UNCHANGED <<debounceTimer, catchupTimers, taken, siblings, served>>

\* "cancel" with an active task in the chat: kill it, then clear the queue.
CancelTask(d) ==
  /\ At(d, "cancel")
  /\ \E r \in TasksOf(slots, BaseOf[KeyOf[MsgOf[d]]]) : KillTask(r)
  /\ Goto(d, "clear")
  /\ UNCHANGED <<tableVars, workerVars, boundVars>>

\* "cancel" as a reply to a task's placeholder: kill that task only.
CancelByReply(d) ==
  /\ At(d, "cancel")
  /\ \E r \in slots : rows[r].key = KeyOf[MsgOf[d]] /\ KillTask(r)
  /\ Goto(d, "command")
  /\ UNCHANGED <<tableVars, workerVars, boundVars>>

\* "cancel" with tasks in other chats only: count the pending rows.
CancelNoTask(d) ==
  /\ At(d, "cancel")
  /\ slots # {} /\ TasksOf(slots, BaseOf[KeyOf[MsgOf[d]]]) = {}
  /\ Goto(d, IF Pending # {} THEN "clearPending" ELSE "merge")
  /\ UNCHANGED <<tableVars, signalVars, workerVars, taskVars, boundVars>>

\* cancel_for_chat of the message's queue key.  After a kill the rest of the
\* message, if any, is enqueued; with nothing cleared it is an ordinary message.
cancel_for_chat(d) ==
  LET cleared == PendingOf(KeyOf[MsgOf[d]])
  IN /\ rows' = SetStatus(cleared, "cancelled")
     /\ DbCommit
     /\ \/ At(d, "clear") /\ \E next \in {"command", EnqueuePc} : Goto(d, next)
        \/ At(d, "clearPending") /\ Goto(d, IF cleared # {} THEN "command" ELSE "merge")
     /\ UNCHANGED <<fresh, signalVars, workerVars, taskVars, boundVars>>

\* merge_into_pending, the SELECT: the latest pending direct row of the key.
MergeSelect(d) ==
  LET open == Direct(PendingOf(KeyOf[MsgOf[d]]))
      r == Latest(open)
      room == open # {} /\ Cardinality(rows[r].msgs) < MergeCap
  IN /\ At(d, "merge")
     /\ tri' = [tri EXCEPT ![d] =
          IF room THEN [pc |-> "mergeUpdate", ids |-> {r}, seen |-> rows[r].msgs]
                  ELSE [@ EXCEPT !.pc = "inject"]]
     /\ UNCHANGED <<tableVars, signalVars, workerVars, taskVars, boundVars>>

\* merge_into_pending, the UPDATE: what was read, with this message appended,
\* if the row is still pending.
MergeUpdate(d) ==
  LET r == CHOOSE x \in tri[d].ids : TRUE
      hit == StillPending(r)
  IN /\ At(d, "mergeUpdate")
     /\ rows' = IF hit THEN [rows EXCEPT ![r].msgs = tri[d].seen \cup {MsgOf[d]}] ELSE rows
     /\ DbCommit
     /\ fresh' = IF hit THEN fresh \cup {r} ELSE fresh
     /\ tri' = [tri EXCEPT ![d] = [pc |-> IF hit THEN "merged" ELSE "inject",
                                   ids |-> IF hit THEN {r} ELSE {}, seen |-> {}]]
     /\ UNCHANGED <<signalVars, workerVars, taskVars, boundVars>>

\* Mid-task injection into the query of the same session; the harness accepts
\* the text, or (media, a pending teardown, a failed write) it is enqueued.
Inject(d) ==
  /\ At(d, "inject")
  /\ \/ /\ \E r \in RowIds :
             /\ run[r] = "running" /\ rows[r].key = KeyOf[MsgOf[d]]
             /\ taken' = [taken EXCEPT ![r] = @ \cup {MsgOf[d]}]
        /\ Goto(d, "injected")
     \/ Goto(d, EnqueuePc) /\ UNCHANGED taken
  /\ UNCHANGED <<tableVars, signalVars, workerVars, slots, run, siblings, served,
                 cause, boundVars>>

\* enqueue, the two SELECTs: the rows over the limit, oldest first.
EnqueueCount(d) ==
  LET overflow == {r \in Pending :
        Cardinality({s \in Pending : s < r}) < Cardinality(Pending) + 1 - MaxPending}
      full == Cardinality(Pending) >= MaxPending
  IN /\ At(d, "enqueue")
     /\ tri' = [tri EXCEPT ![d] = [pc |-> IF full THEN "evict" ELSE "insert",
                                   ids |-> IF full THEN overflow ELSE {}, seen |-> {}]]
     /\ UNCHANGED <<tableVars, signalVars, workerVars, taskVars, boundVars>>

\* enqueue, the eviction: by id, whatever the status is by now; no commit yet.
Evict(d) ==
  /\ At(d, "evict")
  /\ rows' = SetStatus(tri[d].ids, "cancelled")
  /\ cause' = [r \in RowIds |-> IF r \in tri[d].ids THEN "evicted" ELSE cause[r]]
  /\ Goto(d, "insert")
  /\ UNCHANGED <<disk, fresh, signalVars, workerVars, slots, run, taken, siblings, served,
                 boundVars>>

\* enqueue, the INSERT; AUTOINCREMENT hands out the next id.
Insert(d) ==
  LET m == MsgOf[d]
      free == {r \in RowIds : rows[r].status = "absent"}
      n == Oldest(free)
  IN /\ At(d, "insert") /\ free # {}
     /\ rows' = [rows EXCEPT ![n] = NewRow(m)]
     /\ fresh' = IF m \in Stale THEN fresh ELSE fresh \cup {n}
     /\ tri' = [tri EXCEPT ![d] = [pc |-> "commit", ids |-> {n}, seen |-> {}]]
     /\ UNCHANGED <<disk, signalVars, workerVars, taskVars, boundVars>>

\* enqueue, the commit and the signal: the worker, or the chat's catch-up timer.
Commit(d) ==
  LET m == MsgOf[d]
  IN /\ At(d, "commit")
     /\ UNCHANGED rows /\ DbCommit
     /\ \/ /\ m \in Stale
           /\ catchupTimers' = [catchupTimers EXCEPT ![KeyOf[m]] = "armed"]
           /\ UNCHANGED wake
        \/ m \notin Stale /\ wake' = TRUE /\ UNCHANGED catchupTimers
     /\ Goto(d, "queued")
     /\ UNCHANGED <<fresh, debounceTimer, workerVars, taskVars, boundVars>>

-----------------------------------------------------------------------------
(* The loop's timers                                                       *)

\* _wake_and_clear
DebounceClearsOnly ==
  /\ debounceTimer
  /\ debounceTimer' = FALSE
  /\ UNCHANGED <<tableVars, wake, catchupTimers, workerVars, taskVars, tri, boundVars>>
DebounceFires ==
  /\ debounceTimer
  /\ debounceTimer' = FALSE /\ wake' = TRUE
  /\ UNCHANGED <<tableVars, catchupTimers, workerVars, taskVars, tri, boundVars>>

\* The catch-up timer sets the event; its entry stays in _catchup_timers.
CatchupFires(k) ==
  /\ catchupTimers[k] = "armed"
  /\ catchupTimers' = [catchupTimers EXCEPT ![k] = "fired"] /\ wake' = TRUE
  /\ UNCHANGED <<tableVars, debounceTimer, workerVars, taskVars, tri, boundVars>>

\* The debounce window of a row runs out.
WindowEnds(r) ==
  /\ r \in fresh
  /\ fresh' = fresh \ {r}
  /\ UNCHANGED <<rows, disk, signalVars, workerVars, taskVars, tri, boundVars>>

-----------------------------------------------------------------------------
(* worker_loop and _claim_next                                             *)

\* The top of the drain loop: with a free slot, read the chats at their limit and
\* start the claim; else wait.  No await since the worker last resumed.
DrainOneMore(S) ==
  IF Cardinality(S) <= MaxTotal
  THEN wpc' = "select" /\ excluded' = get_over_limit_chats(S)
  ELSE wpc' = "wait" /\ excluded' = {}
Drain(S) ==
  IF Cardinality(S) < MaxTotal
  THEN wpc' = "select" /\ excluded' = get_over_limit_chats(S)
  ELSE wpc' = "wait" /\ excluded' = {}

WorkerWakes ==
  /\ wpc = "wait" /\ wake
  /\ wake' = FALSE /\ Drain(slots)
  /\ UNCHANGED <<tableVars, debounceTimer, catchupTimers, claim, taskVars, tri, boundVars>>

\* Rows the claim may take: the key, which names a topic, is compared with the
\* excluded base chats.
Claimable(S) == {r \in S : rows[r].key \notin excluded}
RipeKeys == {k \in Keys \ excluded : catchupTimers[k] = "none" /\ CatchUp(PendingOf(k)) # {}}

Select(r) ==
  /\ wpc' = "claim"
  /\ claim' = [row |-> r, ids |-> {r}, marks |-> {}, msgs |-> rows[r].msgs]

\* _claim_next, the SELECTs: the oldest direct row, which if still fresh defers
\* the whole loop; else the first catch-up row of a chat without a timer entry.
ClaimSelect ==
  LET direct == Claimable(Direct(Pending))
  IN /\ wpc = "select"
     /\ \/ /\ direct # {} /\ Oldest(direct) \in fresh
           /\ debounceTimer' = TRUE /\ wpc' = "wait" /\ UNCHANGED claim
        \/ /\ direct # {} /\ Oldest(direct) \notin fresh
           /\ Select(Oldest(direct)) /\ UNCHANGED debounceTimer
        \/ /\ direct = {}
           /\ \E k \in RipeKeys : Select(Oldest(CatchUp(PendingOf(k))))
           /\ UNCHANGED debounceTimer
        \/ /\ direct = {} /\ RipeKeys = {}
           /\ wpc' = "wait" /\ UNCHANGED <<claim, debounceTimer>>
     /\ excluded' = {}
     /\ UNCHANGED <<tableVars, wake, catchupTimers, taskVars, tri, boundVars>>

\* _claim_next, the UPDATE: by id, whatever the status is by now.
ClaimUpdate ==
  /\ wpc = "claim"
  /\ rows' = SetStatus({claim.row}, "processing")
  /\ DbCommit
  /\ wpc' = IF rows[claim.row].catchup THEN "gather" ELSE "dispatch"
  /\ UNCHANGED <<fresh, signalVars, excluded, claim, taskVars, tri, boundVars>>

\* _aggregate_catchup, the SELECTs: the chat's pending and processing rows.
ChatCatchUp == {r \in RowIds : /\ rows[r].catchup /\ rows[r].key = rows[claim.row].key
                               /\ rows[r].status \in {"pending", "processing"}}
Gather ==
  /\ wpc = "gather"
  /\ claim' = [claim EXCEPT !.ids = ChatCatchUp, !.marks = ChatCatchUp \cap Pending,
                            !.msgs = Aggregate(ChatCatchUp)]
  /\ wpc' = IF ChatCatchUp = {} THEN "discard" ELSE "mark"
  /\ UNCHANGED <<tableVars, signalVars, excluded, taskVars, tri, boundVars>>

\* _aggregate_catchup, the UPDATE of the rows it read as pending.
Mark ==
  /\ wpc = "mark"
  /\ rows' = SetStatus(claim.marks, "processing")
  /\ DbCommit
  /\ wpc' = "dispatch"
  /\ UNCHANGED <<fresh, signalVars, excluded, claim, taskVars, tri, boundVars>>

\* _complete_all_catchup, when the aggregation found no row left.
Discard ==
  /\ wpc = "discard"
  /\ rows' = SetStatus(ChatCatchUp, "done")
  /\ DbCommit
  /\ Drain(slots) /\ claim' = NoClaim
  /\ cause' = [r \in RowIds |-> IF r \in ChatCatchUp THEN "discard" ELSE cause[r]]
  /\ UNCHANGED <<fresh, signalVars, slots, run, taken, siblings, served, tri, boundVars>>

\* _dispatch_task: register the ActiveTask and create the coroutine.
Dispatch ==
  LET r == claim.row
  IN /\ wpc = "dispatch"
     /\ slots' = slots \cup {r}
     /\ run' = [run EXCEPT ![r] = "created"]
     /\ taken' = [taken EXCEPT ![r] = claim.msgs]
     /\ siblings' = [siblings EXCEPT ![r] = claim.ids]
     /\ Drain(slots \cup {r}) /\ claim' = NoClaim
     /\ UNCHANGED <<tableVars, signalVars, served, cause, tri, boundVars>>

\* A database error inside the loop: logged, one second's sleep, then the loop
\* waits for the next signal.
WorkerErrors ==
  /\ wpc \in {"select", "claim", "gather", "mark", "discard"} /\ dbErrors < MaxDbErrors
  /\ dbErrors' = dbErrors + 1
  /\ wpc' = "wait" /\ excluded' = {} /\ claim' = NoClaim
  /\ UNCHANGED <<tableVars, signalVars, taskVars, tri, restarts>>

-----------------------------------------------------------------------------
(* _run: the coroutine around a task's handler                             *)

RunStarts(r) ==
  /\ run[r] = "created"
  /\ run' = [run EXCEPT ![r] = "running"]
  /\ UNCHANGED <<tableVars, signalVars, workerVars, slots, taken, siblings, served,
                 cause, tri, boundVars>>

\* The handler is over: complete_task or fail_task frees the slot, if it is
\* still held, and signals the queue.
Leave(r, pc) ==
  /\ run' = [run EXCEPT ![r] = pc]
  /\ slots' = slots \ {r} /\ wake' = TRUE
  /\ served' = IF pc = "completing" THEN served \cup taken[r] ELSE served
  /\ UNCHANGED <<tableVars, debounceTimer, catchupTimers, workerVars, taken, siblings,
                 tri, boundVars>>

HandlerReturns(r) == run[r] = "running" /\ Leave(r, "completing") /\ UNCHANGED cause

HandlerRaises(r) ==
  /\ run[r] = "running" /\ Leave(r, "failing")
  /\ cause' = [cause EXCEPT ![r] = "error"]

\* CancelledError reaches _run, or one of the handler's own "except
\* CancelledError: pass" swallows it and the handler returns.
Unwinds(r) ==
  /\ run[r] = "cancelling"
  /\ \E pc \in {"failing", "completing"} : Leave(r, pc)
  /\ UNCHANGED cause

\* The ticker's zombie detector: no SDK activity for the harness's timeout.
Zombie(r) ==
  /\ run[r] = "running" /\ KillTask(r)
  /\ UNCHANGED <<tableVars, workerVars, tri, boundVars>>

\* pq.complete and pq.fail: by id, the task's row and its catch-up siblings.
CloseRows(r, pc, st) ==
  /\ run[r] = pc
  /\ rows' = SetStatus({r} \cup siblings[r], st)
  /\ DbCommit
  /\ run' = [run EXCEPT ![r] = "ended"]
  /\ UNCHANGED <<fresh, signalVars, workerVars, slots, taken, siblings, served, cause,
                 tri, boundVars>>
complete(r) == CloseRows(r, "completing", "done")
fail_as_retry(r) == CloseRows(r, "failing", "pending")
fail_as_done(r) == CloseRows(r, "failing", "done")
fail(r) == CloseRows(r, "failing", "failed")

-----------------------------------------------------------------------------
(* Shutdown and restart of the process                                     *)

\* The lifespan's shutdown: the worker and every task are cancelled, the timers
\* dropped; coroutines that are already running unwind as after any cancel.
Shutdown ==
  /\ wpc # "stopped" /\ restarts < MaxRestarts
  /\ wpc' = "stopped" /\ excluded' = {} /\ claim' = NoClaim
  /\ catchupTimers' = [k \in Keys |-> "none"] /\ wake' = TRUE
  /\ run' = [r \in RowIds |-> cancelled(run[r])]
  /\ cause' = [r \in RowIds |-> Blame(r, "shutdown")]
  /\ UNCHANGED <<tableVars, debounceTimer, slots, taken, siblings, served, tri, boundVars>>

\* The process dies, with or without a shutdown, and starts again on what was
\* committed: startup_recovery, then gc_old_rows, before any delivery.
startup_recovery(table, deploy) ==
  [r \in RowIds |-> IF table[r].status = "processing"
                    THEN [table[r] EXCEPT !.status = IF deploy THEN "done" ELSE "pending"]
                    ELSE table[r]]
gc_old_rows(table, old) ==
  [r \in RowIds |-> IF r \in old THEN [table[r] EXCEPT !.status = "purged"] ELSE table[r]]

Interrupted == {r \in RowIds : disk[r].status = "processing"}
Terminal == {r \in RowIds : disk[r].status \in {"done", "failed", "cancelled"}}

Restart ==
  /\ restarts < MaxRestarts /\ restarts' = restarts + 1
  /\ \E deploy \in BOOLEAN, old \in SUBSET (Terminal \cap Ageing) :
       /\ rows' = gc_old_rows(startup_recovery(disk, deploy), old)
       /\ wake' = (~deploy /\ Interrupted # {})
       /\ cause' = [r \in RowIds |-> IF deploy /\ r \in Interrupted THEN "deploy" ELSE cause[r]]
       /\ fresh' = {r \in RowIds : /\ rows'[r].status = "pending" /\ ~rows'[r].catchup
                                  /\ r \in fresh \cup Interrupted}
  /\ DbCommit
  /\ debounceTimer' = FALSE /\ catchupTimers' = [k \in Keys |-> "none"]
  /\ wpc' = "wait" /\ excluded' = {} /\ claim' = NoClaim
  /\ slots' = {} /\ run' = [r \in RowIds |-> "none"]
  /\ taken' = [r \in RowIds |-> {}] /\ siblings' = [r \in RowIds |-> {}]
  /\ tri' = [d \in Deliveries |-> IF tri[d].pc \in Finished \cup {"new"} THEN tri[d]
                                   ELSE [tri[d] EXCEPT !.pc = "lost"]]
  /\ UNCHANGED <<served, dbErrors>>

-----------------------------------------------------------------------------
TriageStep(d) ==
  \/ CancelNothing(d) \/ CancelTask(d) \/ CancelByReply(d) \/ CancelNoTask(d)
  \/ cancel_for_chat(d) \/ MergeSelect(d) \/ MergeUpdate(d) \/ Inject(d)
  \/ EnqueueCount(d) \/ Evict(d) \/ Insert(d) \/ Commit(d)

worker_loop ==
  \/ WorkerWakes \/ ClaimSelect \/ ClaimUpdate
  \/ Gather \/ Mark \/ Discard \/ Dispatch

TaskStep(r) ==
  \/ RunStarts(r) \/ HandlerReturns(r) \/ HandlerRaises(r) \/ Unwinds(r)
  \/ complete(r) \/ fail(r)

Next ==
  \/ \E d \in Deliveries : Receive(d) \/ TriageStep(d)
  \/ worker_loop \/ WorkerErrors
  \/ \E r \in RowIds : TaskStep(r) \/ Zombie(r) \/ WindowEnds(r)
  \/ \E k \in Keys : CatchupFires(k)
  \/ DebounceFires \/ Shutdown \/ Restart

Spec == Init /\ [][Next]_vars

\* What the event loop owes to what it has started: a ready coroutine or an
\* expired timer runs.  A handler ends, by its own timeout or the zombie detector.
\* Nothing is owed by the platforms, by users, or by the process staying up.
Fairness ==
  /\ WF_vars(worker_loop)
  /\ WF_vars(\E d \in Deliveries : TriageStep(d))
  /\ WF_vars(\E r \in RowIds : TaskStep(r))
  /\ WF_vars(DebounceFires \/ \E k \in Keys : CatchupFires(k))
  /\ WF_vars(\E r \in RowIds : WindowEnds(r))

FairSpec == Spec /\ Fairness

-----------------------------------------------------------------------------
(* Type invariant                                                          *)

Causes == {"none", "cancelled", "error", "shutdown", "deploy", "discard",
           "evicted"}

TableOK == rows \in [RowIds -> Row] /\ disk \in [RowIds -> Row] /\ fresh \subseteq RowIds
SignalOK == /\ wake \in BOOLEAN /\ debounceTimer \in BOOLEAN
            /\ catchupTimers \in [Keys -> {"none", "armed", "fired"}]
\* From its SELECT to its dispatch a claim has a row.
WorkerOK == /\ wpc \in WorkerPc /\ excluded \subseteq Keys
            /\ claim \in [row : RowIds \cup {0}, ids : SUBSET RowIds, marks : SUBSET RowIds,
                          msgs : SUBSET Messages]
            /\ wpc \in Holding => claim.row \in RowIds
TaskOK == /\ slots \subseteq RowIds /\ run \in [RowIds -> RunPc]
          /\ taken \in [RowIds -> SUBSET Messages] /\ siblings \in [RowIds -> SUBSET RowIds]
          /\ served \subseteq Messages /\ cause \in [RowIds -> Causes]
\* So has a merge between its SELECT and its UPDATE.
TriageOK == /\ tri \in [Deliveries -> Triage]
            /\ \A d \in Deliveries : At(d, "mergeUpdate") => tri[d].ids # {}
BoundOK == restarts \in 0..MaxRestarts /\ dbErrors \in 0..MaxDbErrors

\* Every variable keeps the shape the Python objects and the table give it.
TypeOK == TableOK /\ SignalOK /\ WorkerOK /\ TaskOK /\ TriageOK /\ BoundOK

(* Safety                                                                  *)

\* Slot accounting: while the process is up, a row has a TaskManager slot exactly
\* while its _run coroutine has work to do.  No exit of _run, no cancel and no
\* zombie kill leaks a slot, which would shrink the global cap for ever, or frees
\* one twice.
SlotsMatchRuns ==
  wpc # "stopped" =>
    \A r \in RowIds : r \in slots <=> run[r] \in Unhurt

\* can_accept_task() is read three awaits before register_task(): the cap of
\* MAX_TOTAL_TASKS tasks holds all the same, as only the worker registers.
GlobalCap == Cardinality(slots) <= MaxTotal

\* A row the worker is claiming has no task: the claim's SELECT and UPDATE are
\* apart, with evictions, cancels and finishing tasks between them, and still no
\* row is dispatched twice in one life of the process.
ClaimIsExclusive ==
  wpc \in Holding => run[claim.row] = "none"

\* Messages of a chat without topics are processed at most MAX_PARALLEL_TASKS at
\* a time, although the worker's exclusion set is older than its claim.
SequentialChat ==
  \A c \in Keys : BaseOf[c] = c =>
    Cardinality({r \in slots : rows[r].key = c}) <= MaxParallel

\* Nothing crosses chats: neither merging, injection nor catch-up aggregation
\* puts a message of one chat or topic in front of another one's task.
NoCrossChat ==
  \A r \in RowIds :
    /\ rows[r].status # "absent" => \A m \in rows[r].msgs : KeyOf[m] = rows[r].key
    /\ \A m \in taken[r] : KeyOf[m] = rows[r].key

\* "done" means done: the row's own message went through a handler that returned,
\* unless a deploy restart closed the row, it was discarded as empty catch-up, or it
\* was evicted while its chat was being aggregated.
DoneWasServed ==
  \A r \in RowIds : rows[r].status = "done" =>
    rows[r].mid \in served \/ cause[r] \in {"deploy", "discard", "evicted"}

\* Once enqueue has returned, its row is on disk: no crash loses the message.
DurableAccept ==
  \A d \in Deliveries : At(d, "queued") =>
    \A r \in tri[d].ids : disk[r].status # "absent" /\ disk[r].mid = MsgOf[d]

\* No lost wake-up: when the worker sleeps although a direct row could be claimed
\* and a slot is free, the event is set, the debounce timer is armed, or the
\* enqueue of a row is about to commit and signal.  (Of a life of the process that
\* began with no pending row and met no database error.)
NoLostWakeup ==
  (/\ restarts = 0 /\ dbErrors = 0 /\ DOMAIN Leftover = {} /\ wpc = "wait" /\ Cardinality(slots) < MaxTotal
   /\ \E r \in Direct(Pending) : rows[r].key \notin get_over_limit_chats(slots))
    => wake \/ debounceTimer \/ \E d \in Deliveries : At(d, "commit")

(* What a step may never do                                                *)

\* The guard of merge_into_pending: the content of a row that has left pending is
\* final; a late merge is refused and the message takes another way.  (A crash may
\* undo the whole INSERT of a row that was never committed.)
FrozenContent ==
  [][\A r \in RowIds : (rows[r].status \notin {"absent", "pending"} /\ rows'[r].status # "absent")
                         => rows'[r].msgs = rows[r].msgs]_vars

(* Liveness                                                                *)

\* Under the loop's fairness the pending direct rows are all claimed, cancelled or
\* evicted in the end, however the tasks of their chats end and whatever timers
\* are pending: no wake-up, slot or exclusion is lost for good.
QueueDrains == (Direct(Pending) # {}) ~> (Direct(Pending) = {})

-----------------------------------------------------------------------------
(* The abstract queue                                                      *)

\* Rows the worker holds that are still pending for everyone else, and rows it has
\* already made its own.  A claim counts from its SELECT, not from its UPDATE.
Reaching == CASE wpc = "claim" -> {claim.row}
              [] wpc = "mark" -> claim.marks
              [] OTHER -> {}
InHand == (CASE wpc \in {"gather", "discard"} -> {claim.row}
             [] wpc \in {"mark", "dispatch"} -> claim.ids \cup {claim.row}
             [] OTHER -> {}) \ Reaching
AtWork == InHand \cup UNION {{r} \cup siblings[r] : r \in {s \in RowIds : run[s] \in Alive}}

\* A cancellation or eviction counts from its commit.
CommittedStatus(r) ==
  IF rows[r].status # "cancelled" THEN rows[r].status
  ELSE IF disk[r].status = "absent" THEN "pending" ELSE disk[r].status

JobOf ==
  LET busy == AtWork
      reached == Reaching
      state(st, r) == IF st = "absent" THEN "none"
                      ELSE IF r \in busy \/ st = "processing" THEN "working"
                      ELSE IF r \in reached THEN "claimed"
                      ELSE IF st = "pending" THEN "waiting" ELSE "closed"
  IN [r \in RowIds |-> state(CommittedStatus(r), r)]

AcceptedRows == DOMAIN Leftover \cup UNION {tri[d].ids : d \in {e \in Deliveries : At(e, "queued")}}

WQ == INSTANCE WorkQueue WITH
  Jobs <- RowIds, job <- JobOf, accepted <- AcceptedRows,
  crashes <- restarts

\* The queue keeps the promise of WorkQueue, through every interleaving of claims,
\* cancels, evictions, shutdowns and crashes.
KeepsPromise == WQ!Spec

-----------------------------------------------------------------------------
(* What the repository says and the code does not do                       *)

\* "aggregated after a 5s debounce into a single synthetic task".
CatchupRowsLeave ==
  \A r \in RowIds :
    (rows[r].status = "pending" /\ rows[r].catchup) ~> (rows[r].status # "pending")

\* "If the row was dispatched between SELECT and UPDATE, returns None": a message
\* reported as merged is in the text its row's task works on.
MergedIsTaken ==
  \A d \in Deliveries : At(d, "merged") =>
    \A r \in tri[d].ids : run[r] = "none" \/ MsgOf[d] \in taken[r]

\* "Sequential per chat - one active task per chat at a time", of any queue key.
SequentialTopic ==
  \A k \in Keys : Cardinality({r \in slots : rows[r].key = k}) <= MaxParallel

\* "'processing' rows interrupted by shutdown": they are retried, not failed.
ShutdownIsNoFailure ==
  \A r \in RowIds : cause[r] = "shutdown" => rows[r].status # "failed"

============================================================================
