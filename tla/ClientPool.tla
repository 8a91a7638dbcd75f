----------------------------- MODULE ClientPool -----------------------------
(***************************************************************************)
(* The SDK sessions of bot/agent.py: per session key one claude subprocess *)
(* (a client), the id of its conversation saved in session_map so that the *)
(* next subprocess resumes it, and the teardowns that end a subprocess with *)
(* or without forgetting the conversation: deferred ones, /reset, errors.   *)
(*                                                                         *)
(* The task queue runs one query of a key at a time (module TaskQueue); the *)
(* resets, the maintenance loop and injected messages run beside it.  One   *)
(* action is what a coroutine does between two awaits; a teardown is a      *)
(* sequence of the steps "close", "forget" and "uncap" still to be done.    *)
(*                                                                         *)
(* A definition that directly precedes another one and is used nowhere is  *)
(* a mutant of it: the same code with a plausible mistake.                 *)
(***************************************************************************)
EXTENDS Naturals, Sequences

CONSTANTS
  Chats,      \* session keys of chats, served by process_incoming
  Systems,    \* session keys of scheduled tasks and agents: process_system_task
  MaxSid,     \* bound on the conversations the SDK starts
  MaxCfg,     \* bound on the changes of the settings of a key
  MaxCap      \* MAX_TOTAL_BUDGET_CAP in units of the default cap

ASSUME PoolAssumption ==
  Chats \cap Systems = {} /\ MaxSid \in Nat /\ MaxCfg \in Nat /\ MaxCap \in Nat \ {0}

Keys == Chats \cup Systems

VARIABLES
  client,     \* _clients: the subprocess registered for a key
  saved,      \* session_map: the conversation to resume, 0 when there is no row
  files,      \* the conversations whose transcript (JSONL) is on disk
  doomed,     \* rows of session_map maintenance has read and is about to delete
  sids,       \* how many conversations the SDK has started
  settings,   \* version of the model, harness and OAuth profile of a key
  override,   \* _session_budget_overrides, 0 when unset
  pendReset,  \* _pending_session_resets
  pendBudget, \* _pending_budget_disconnects
  locked,     \* keys whose lock in _locks is held (is_processing)
  query,      \* process_incoming or process_system_task of a key, with query()
  task,       \* the teardown another coroutine is doing for a key
  owed,       \* history: the conversation nothing has given up since its last answer
  lapse,      \* history: the last mishap to it since it was saved
  promised,   \* history: settings the chat was told the next message uses
  announced,  \* history: settings an admin was told a reset is scheduled for
  granted     \* history: the cap the chat was told the next message has

store == <<saved, files, sids, doomed>>
pending == <<pendReset, pendBudget>>
kept == <<owed, lapse>>
hist == <<promised, announced, granted>>
vars == <<client, store, settings, override, pending, locked, query, task, kept, hist>>

-----------------------------------------------------------------------------
Default == 1
Sid == 0..MaxSid
Mishaps == {"none", "fallback", "pruned", "database"}
Steps == {"close", "forget", "uncap"}
Plans == Seq(Steps)
Pc == {"idle", "enter", "setup", "load", "build", "connect", "ready", "stream",
       "result", "after", "after2", "post", "tear"}

\* up: no client, or one whose subprocess runs or has exited; unread: an injected
\* message is in the stdin of the subprocess and not read yet.
Client == [up : {"none", "live", "dead"}, sid : Sid, cfg : 0..MaxCfg, cap : 0..MaxCap,
           unread : BOOLEAN]
NoClient == [up |-> "none", sid |-> 0, cfg |-> 0, cap |-> 0, unread |-> FALSE]

\* mine: what has become of the client query() holds.  need...: what was promised when
\* the query began.  again: query() fell back to a fresh session.
Query == [pc : Pc, sid : Sid, cfg : 0..MaxCfg, cap : 0..MaxCap,
          mine : {"ok", "popped", "closed"}, todo : Plans, next : Pc, again : BOOLEAN,
          needCfg : 0..MaxCfg, needSeen : 0..MaxCfg, needCap : 0..MaxCap]
NoQuery == [pc |-> "idle", sid |-> 0, cfg |-> 0, cap |-> 0, mine |-> "ok", todo |-> << >>,
            next |-> "idle", again |-> FALSE, needCfg |-> 0, needSeen |-> 0, needCap |-> 0]

Init ==
  /\ client = [k \in Keys |-> NoClient] /\ saved = [k \in Keys |-> 0]
  /\ files = {} /\ doomed = {} /\ sids = 0 /\ settings = [k \in Keys |-> 0]
  /\ override = [k \in Keys |-> 0] /\ pendReset = {} /\ pendBudget = {} /\ locked = {}
  /\ query = [k \in Keys |-> NoQuery] /\ task = [k \in Keys |-> << >>]
  /\ owed = [k \in Keys |-> 0] /\ lapse = [k \in Keys |-> "none"] /\ promised = [k \in Keys |-> 0]
  /\ announced = [k \in Keys |-> 0] /\ granted = [k \in Keys |-> 0]

-----------------------------------------------------------------------------
(* Teardown                                                                *)

Disconnect == <<"close">>
Reset == <<"close", "forget", "uncap">>

Cap(k) == IF override[k] = 0 THEN Default ELSE override[k]
Busy(k) == query[k].pc \in {"ready", "stream", "result"}
Goto(k, pc) == query' = [query EXCEPT ![k].pc = pc]
Set(f, k, v) == [f EXCEPT ![k] = v]
\* The conversation of k is given up on purpose; with a reset the promised cap is too.
Drop(k) == owed' = Set(owed, k, 0) /\ lapse' = Set(lapse, k, "none")
GiveUp(k) == Drop(k) /\ granted' = Set(granted, k, 0)
\* What happens to a conversation nobody gave up.
Mishap(K, why) == lapse' = [k \in Keys |-> IF k \in K /\ owed[k] # 0 THEN why ELSE lapse[k]]

\* The query itself unregisters the client and goes on with the rest of the teardown.
Teardown(k, todo, next) ==
  /\ client' = Set(client, k, NoClient)
  /\ query' = [query EXCEPT ![k].pc = "tear", ![k].todo = todo, ![k].next = next]

\* "close" ends the subprocess and drops the lock of the key, held or not; a database
\* error in "forget" is logged, and the row stays.
Step(k, s) ==
  /\ locked' = IF s = "close" THEN locked \ {k} ELSE locked
  /\ UNCHANGED saved \/ (s = "forget" /\ saved' = Set(saved, k, 0))
  /\ override' = IF s = "uncap" THEN Set(override, k, 0) ELSE override
  /\ UNCHANGED <<client, files, sids, doomed, settings, pending, kept, hist>>

QueryStep(k) ==
  /\ query[k].pc = "tear" /\ Step(k, Head(query[k].todo))
  /\ LET rest == Tail(query[k].todo) IN
     query' = IF rest # << >> THEN [query EXCEPT ![k].todo = rest]
              ELSE IF query[k].next = "idle" THEN Set(query, k, NoQuery)
              ELSE [query EXCEPT ![k].pc = query[k].next, ![k].todo = << >>]
  /\ UNCHANGED task

TaskStep(k) ==
  /\ task[k] # << >> /\ Step(k, Head(task[k]))
  /\ task' = Set(task, k, Tail(task[k]))
  /\ query' = IF Head(task[k]) = "close" /\ query[k].mine = "popped"
              THEN [query EXCEPT ![k].mine = "closed"] ELSE query

\* /reset, the reset tool, a finished authorisation, a staging scenario: reset_session
\* of a key by a coroutine that does not hold its lock.
ResetSession(k) ==
  /\ task[k] = << >> /\ (client[k].up # "none" \/ saved[k] # 0 \/ query[k].pc # "idle")
  /\ client' = Set(client, k, NoClient) /\ task' = Set(task, k, Reset) /\ GiveUp(k)
  /\ query' = [query EXCEPT ![k].needCap = 0, 
                              ![k].mine = IF Busy(k) /\ @ = "ok" THEN "popped" ELSE @]
  /\ UNCHANGED <<store, settings, override, pending, locked, promised, announced>>

-----------------------------------------------------------------------------
(* query() and get_or_create                                               *)

\* process_incoming reaches query(), which takes the lock of the key.
BeginChat(k) ==
  /\ k \in Chats /\ query[k].pc = "idle"
  /\ locked' = locked \cup {k}
  /\ query' = Set(query, k, [NoQuery EXCEPT !.pc = "setup", !.needCfg = promised[k],
                             !.needSeen = announced[k], !.needCap = granted[k]])
  /\ UNCHANGED <<client, store, settings, override, pending, task, kept, hist>>

\* process_system_task sets the budget of the task and disconnects a leftover client.
BeginSystem(k) ==
  /\ k \in Systems /\ query[k].pc = "idle" /\ Teardown(k, Disconnect, "enter")
  /\ \E budget \in {override[k], Default} : override' = Set(override, k, budget)
  /\ UNCHANGED <<store, settings, pending, locked, task, kept, hist>>

EnterSystem(k) ==
  /\ query[k].pc = "enter" /\ Goto(k, "setup") /\ locked' = locked \cup {k}
  /\ UNCHANGED <<client, store, settings, override, pending, task, kept, hist>>

\* A client whose subprocess runs is used again, with what it was started with.
Reuse(k) ==
  /\ query[k].pc = "setup" /\ client[k].up = "live"
  /\ query' = [query EXCEPT ![k].pc = "ready", ![k].sid = client[k].sid,
                            ![k].cfg = client[k].cfg, ![k].cap = client[k].cap]
  /\ UNCHANGED <<client, store, settings, override, pending, locked, task, kept, hist>>

\* A dead one is disconnected, and its conversation kept to be resumed.
DropDead(k) ==
  /\ query[k].pc = "setup" /\ client[k].up = "dead"
  /\ client' = Set(client, k, NoClient)
  /\ query' = [query EXCEPT ![k].sid = client[k].sid, ![k].pc = "tear",
                            ![k].todo = Disconnect, ![k].next = "load"]
  /\ UNCHANGED <<store, settings, override, pending, locked, task, kept, hist>>

LoadSid(k) ==
  /\ query[k].pc = "load" \/ (query[k].pc = "setup" /\ client[k].up = "none")
  /\ query' = [query EXCEPT ![k].pc = "build", ![k].sid = IF @ = 0 THEN saved[k] ELSE @]
  /\ UNCHANGED <<client, store, settings, override, pending, locked, task, kept, hist>>

\* _load_session_id takes a database error for a key without a row.
LoadFails(k) ==
  /\ query[k].pc = "load" \/ (query[k].pc = "setup" /\ client[k].up = "none")
  /\ query[k].sid = 0 /\ Goto(k, "build") /\ Mishap({k}, "database")
  /\ UNCHANGED <<client, store, settings, override, pending, locked, task, owed, hist>>

\* _build_options reads the settings and the cap; the rest is awaits.
BuildIgnoresOverride(k) ==
  /\ query[k].pc = "build"
  /\ query' = [query EXCEPT ![k].pc = "connect", ![k].cfg = settings[k], ![k].cap = Default]
  /\ UNCHANGED <<client, store, settings, override, pending, locked, task, kept, hist>>

Build(k) ==
  /\ query[k].pc = "build"
  /\ query' = [query EXCEPT ![k].pc = "connect", ![k].cfg = settings[k], ![k].cap = Cap(k)]
  /\ UNCHANGED <<client, store, settings, override, pending, locked, task, kept, hist>>

Connect(k) ==
  /\ query[k].pc = "connect" /\ query[k].sid \in files \cup {0}
  /\ query' = [query EXCEPT ![k].pc = "ready", ![k].again = FALSE]
  /\ client' = Set(client, k, [up |-> "live", sid |-> query[k].sid, cfg |-> query[k].cfg,
                               cap |-> query[k].cap, unread |-> FALSE])
  /\ UNCHANGED <<store, settings, override, pending, locked, task, kept, hist>>

\* An exception while the client is made, of a resume that cannot be done or of any other
\* kind: query() forgets the conversation and tries once more without one.
Fallback(k) ==
  /\ query[k].pc \in {"load", "build", "connect"} /\ ~query[k].again
  /\ client' = Set(client, k, NoClient) /\ Mishap({k}, "fallback")
  /\ query' = [query EXCEPT ![k].sid = 0, ![k].again = TRUE, ![k].pc = "tear",
                            ![k].todo = <<"forget">>, ![k].next = "setup"]
  /\ UNCHANGED <<store, settings, override, pending, locked, task, owed, hist>>

Alive(k) ==
  CASE query[k].mine = "ok" -> client[k].up = "live"
    [] query[k].mine = "popped" -> TRUE
    [] OTHER -> FALSE

\* Drain what the last query left in the buffer, then write the prompt.
Send(k) ==
  /\ query[k].pc = "ready" /\ Alive(k) /\ Goto(k, "stream")
  /\ UNCHANGED <<client, store, settings, override, pending, locked, task, kept, hist>>

\* The subprocess reports the conversation it is in, which may be a new one.  A reset
\* under way still deletes what is saved here; _save_session_id may fail and only log it.
Report(k, sid, pc) ==
  /\ sids' = IF sid > sids THEN sid ELSE sids
  /\ files' = files \cup {sid} /\ UNCHANGED doomed
  /\ owed' = Set(owed, k, IF task[k] = << >> THEN sid ELSE 0)
  /\ \/ saved' = Set(saved, k, sid) /\ lapse' = Set(lapse, k, "none")
     \/ UNCHANGED saved /\ lapse' = Set(lapse, k, IF owed'[k] = 0 THEN "none" ELSE "database")
  /\ query' = [query EXCEPT ![k].sid = sid, ![k].pc = pc]
  /\ client' = IF query[k].mine = "ok" THEN [client EXCEPT ![k].sid = sid] ELSE client
Started == IF sids < MaxSid THEN {sids + 1} ELSE {}

\* SystemMessage: the id is taken when there is none yet.
InitMessage(k) ==
  /\ query[k].pc = "stream" /\ Alive(k) /\ query[k].sid = 0
  /\ \E sid \in Started : Report(k, sid, "stream")
  /\ UNCHANGED <<settings, override, pending, locked, task, hist>>

\* ResultMessage, while the client is registered.
Result(k) ==
  /\ query[k].pc = "stream" /\ Alive(k) /\ (k \in Systems \/ query[k].mine = "ok")
  /\ \E sid \in Started \cup ({query[k].sid} \ {0}) : Report(k, sid, "result")
  /\ UNCHANGED <<settings, override, pending, locked, task, hist>>

-----------------------------------------------------------------------------
(* How a query ends                                                        *)

\* An exception in the query of a chat, which the making of its client raises only the
\* second time, forgets the conversation; so does a result for a chat whose client was
\* unregistered meanwhile.
FailChat(k) ==
  /\ k \in Chats
  /\ \/ query[k].pc \in {"setup", "ready", "stream"}
     \/ query[k].pc \in {"load", "build", "connect"} /\ query[k].again
  /\ Teardown(k, <<"close", "forget">>, "idle")
  /\ locked' = locked \ {k} /\ Drop(k)
  /\ UNCHANGED <<store, settings, override, pending, task, hist>>

\* error_max_budget_usd: the session is reset from the loop over the messages.
Exhausted(k) ==
  /\ k \in Chats /\ query[k].pc = "result"
  /\ Teardown(k, Reset, "after") /\ GiveUp(k)
  /\ UNCHANGED <<store, settings, override, pending, locked, task, promised, announced>>

\* The generator ends and releases the lock.
Finish(k) ==
  /\ k \in Chats /\ query[k].pc = "result" /\ Goto(k, "after")
  /\ locked' = locked \ {k}
  /\ UNCHANGED <<client, store, settings, override, pending, task, kept, hist>>

\* The deferred reset of switch_model, then the deferred disconnect of extend_budget.
AfterResetKeepsClient(k) ==
  /\ query[k].pc = "after" /\ k \in pendReset
  /\ pendReset' = pendReset \ {k} /\ Goto(k, "after2") /\ GiveUp(k)
  /\ saved' = Set(saved, k, 0)
  /\ UNCHANGED <<client, files, sids, doomed, settings, override, pendBudget, locked, task,
                 promised, announced>>

AfterReset(k) ==
  /\ query[k].pc = "after" /\ k \in pendReset
  /\ pendReset' = pendReset \ {k} /\ Teardown(k, Reset, "after2") /\ GiveUp(k)
  /\ UNCHANGED <<store, settings, override, pendBudget, locked, task, promised, announced>>

AfterBudgetForgets(k) ==
  /\ query[k].pc = "after2" \/ (query[k].pc = "after" /\ k \notin pendReset)
  /\ k \in pendBudget
  /\ pendBudget' = pendBudget \ {k} /\ Teardown(k, <<"close", "forget">>, "post")
  /\ UNCHANGED <<store, settings, override, pendReset, locked, task, kept, hist>>

AfterBudget(k) ==
  /\ query[k].pc = "after2" \/ (query[k].pc = "after" /\ k \notin pendReset)
  /\ k \in pendBudget
  /\ pendBudget' = pendBudget \ {k} /\ Teardown(k, Disconnect, "post")
  /\ UNCHANGED <<store, settings, override, pendReset, locked, task, kept, hist>>

Returning(k) ==
  \/ query[k].pc = "post"
  \/ query[k].pc = "after2" /\ k \notin pendBudget
  \/ query[k].pc = "after" /\ k \notin pendReset \cup pendBudget

Return(k) ==
  /\ Returning(k) /\ query' = Set(query, k, NoQuery)
  /\ UNCHANGED <<client, store, settings, override, pending, locked, task, kept, hist>>

\* A rate limit ends the subprocess and keeps the conversation.
RateLimited(k) ==
  /\ Returning(k) /\ Teardown(k, Disconnect, "idle")
  /\ UNCHANGED <<store, settings, override, pending, locked, task, kept, hist>>

\* A suspicious answer: the client is disconnected by a task nobody waits for, whose
\* first step comes before any later query of the key.
Suspicious(k) ==
  /\ Returning(k) /\ task[k] = << >> /\ query' = Set(query, k, NoQuery)
  /\ client' = Set(client, k, NoClient) /\ task' = Set(task, k, Disconnect)
  /\ UNCHANGED <<store, settings, override, pending, locked, kept, hist>>

\* The finally of process_system_task, after an answer, an error or a timeout.
EndSystem(k) ==
  /\ k \in Systems /\ query[k].pc \notin {"idle", "tear"}
  /\ Teardown(k, <<"close", "uncap">>, "idle") /\ locked' = locked \ {k}
  /\ UNCHANGED <<store, settings, override, pending, task, kept, hist>>

\* The user cancels the task: the except clause does not catch it.
CancelChat(k) ==
  /\ k \in Chats /\ query[k].pc # "idle"
  /\ query' = Set(query, k, NoQuery) /\ locked' = locked \ {k}
  /\ promised' = Set(promised, k, 0) /\ granted' = Set(granted, k, 0)
  /\ UNCHANGED <<client, store, settings, override, pending, task, kept, announced>>

-----------------------------------------------------------------------------
(* What happens beside a query                                             *)

Dies(k) ==
  /\ client[k].up = "live" /\ client' = [client EXCEPT ![k].up = "dead", ![k].unread = FALSE]
  /\ UNCHANGED <<store, settings, override, pending, locked, query, task, kept, hist>>

\* The model calls a tool in its turn; what was injected may still be unread.
ToolCall(k) == query[k].pc = "stream" /\ query[k].mine = "ok" /\ client[k].up = "live"
NewSettings(k) == settings[k] < MaxCfg /\ settings' = [settings EXCEPT ![k] = @ + 1]

SwitchModel(k) ==
  /\ k \in Chats /\ ToolCall(k) /\ NewSettings(k)
  /\ pendReset' = pendReset \cup {k} /\ promised' = Set(promised, k, settings[k] + 1)
  /\ UNCHANGED <<client, query, store, override, pendBudget, locked, task, kept, announced,
                 granted>>

\* manage_oauth from another chat schedules the reset of this one.
SwitchFromOutside(k) ==
  /\ k \in Chats /\ NewSettings(k) /\ pendReset' = pendReset \cup {k}
  /\ UNCHANGED <<client, store, override, pendBudget, locked, query, task, kept, hist>>

\* A harness is assigned or overridden.  _schedule_chat_reset calls a method the pool
\* does not have and swallows the exception: nothing is scheduled.
AssignHarness(k) ==
  /\ k \in Chats /\ NewSettings(k) /\ announced' = Set(announced, k, settings[k] + 1)
  /\ UNCHANGED <<client, store, override, pending, locked, query, task, kept, promised, granted>>

ExtendBudget(k) ==
  /\ k \in Chats /\ ToolCall(k) /\ Cap(k) + 1 <= MaxCap
  /\ override' = Set(override, k, Cap(k) + 1)
  /\ granted' = Set(granted, k, IF task[k] = << >> THEN Cap(k) + 1 ELSE 0)
  /\ pendBudget' = pendBudget \cup {k}
  /\ UNCHANGED <<client, query, store, settings, pendReset, locked, task, kept, promised,
                 announced>>

\* Dispatch, with no pending row to merge into, writes to the subprocess of a key whose
\* lock is held and that is not about to be torn down; otherwise it queues the message.
Inject(k) ==
  /\ k \in Chats /\ k \in locked \ (pendReset \cup pendBudget) /\ client[k].up = "live"
  /\ client' = [client EXCEPT ![k].unread = TRUE]
  /\ UNCHANGED <<store, settings, override, pending, locked, query, task, kept, hist>>

ReadInjected(k) ==
  /\ client[k].unread /\ client' = [client EXCEPT ![k].unread = FALSE]
  /\ UNCHANGED <<store, settings, override, pending, locked, query, task, kept, hist>>

\* Maintenance deletes old transcripts no client is in, whether a row of session_map leads
\* to them or not; then it reads the rows without a transcript and deletes what these keys
\* have in the map by then.
Active == {client[k].sid : k \in Keys}
CleanFiles ==
  /\ \E sid \in files \ Active :
       files' = files \ {sid} /\ Mishap({k \in Keys : owed[k] = sid}, "pruned")
  /\ UNCHANGED <<client, saved, sids, doomed, settings, override, pending, locked, query, task,
                 owed, hist>>
PruneRead ==
  /\ doomed = {}
  /\ doomed' = {k \in Keys : saved[k] # 0 /\ saved[k] \notin files \cup Active}
  /\ UNCHANGED <<client, saved, files, sids, settings, override, pending, locked, query, task,
                 kept, hist>>
PruneMap ==
  /\ doomed # {} /\ doomed' = {} /\ Mishap(doomed, "pruned")
  /\ saved' = [k \in Keys |-> IF k \in doomed THEN 0 ELSE saved[k]]
  /\ UNCHANGED <<client, files, sids, settings, override, pending, locked, query, task, owed, hist>>

\* The process restarts, perhaps with another version of the claude binary.
Restart ==
  /\ client' = [k \in Keys |-> NoClient] /\ query' = [k \in Keys |-> NoQuery]
  /\ task' = [k \in Keys |-> << >>] /\ locked' = {} /\ pendReset' = {} /\ pendBudget' = {}
  /\ override' = [k \in Keys |-> 0] /\ granted' = [k \in Keys |-> 0]
  /\ doomed' = {}
  /\ \/ UNCHANGED <<saved, kept>>
     \/ /\ saved' = [k \in Keys |-> 0] /\ owed' = [k \in Keys |-> 0]
        /\ lapse' = [k \in Keys |-> "none"]
  /\ UNCHANGED <<files, sids, settings, promised, announced>>

-----------------------------------------------------------------------------
QueryNext(k) ==
  \/ BeginChat(k) \/ BeginSystem(k) \/ EnterSystem(k) \/ Reuse(k) \/ DropDead(k)
  \/ LoadSid(k) \/ LoadFails(k) \/ Build(k) \/ Connect(k) \/ Fallback(k) \/ Send(k)
  \/ InitMessage(k) \/ Result(k) \/ FailChat(k) \/ Exhausted(k) \/ Finish(k)
  \/ AfterReset(k) \/ AfterBudget(k)
  \/ Return(k) \/ RateLimited(k) \/ Suspicious(k) \/ EndSystem(k) \/ CancelChat(k)
  \/ QueryStep(k)
Beside(k) ==
  \/ TaskStep(k) \/ ResetSession(k) \/ Dies(k) \/ SwitchModel(k) \/ SwitchFromOutside(k)
  \/ AssignHarness(k) \/ ExtendBudget(k) \/ Inject(k) \/ ReadInjected(k)

Next == (\E k \in Keys : QueryNext(k) \/ Beside(k)) \/ CleanFiles \/ PruneRead \/ PruneMap
        \/ Restart
Spec == Init /\ [][Next]_vars

-----------------------------------------------------------------------------
TypeOK ==
  /\ client \in [Keys -> Client] /\ saved \in [Keys -> Sid] /\ files \subseteq Sid
  /\ doomed \subseteq Keys /\ sids \in Sid
  /\ settings \in [Keys -> 0..MaxCfg] /\ override \in [Keys -> 0..MaxCap]
  /\ pendReset \subseteq Chats /\ pendBudget \subseteq Chats /\ locked \subseteq Keys
  /\ query \in [Keys -> Query] /\ task \in [Keys -> Plans]
  /\ owed \in [Keys -> Sid] /\ lapse \in [Keys -> Mishaps] /\ promised \in [Keys -> 0..MaxCfg]
  /\ announced \in [Keys -> 0..MaxCfg] /\ granted \in [Keys -> 0..MaxCap]

\* A conversation nothing gave up on purpose is the one the next subprocess resumes: it is
\* in the map, the registered client is in it, and a connect under way resumes it.  Only
\* a mishap of its own takes it away: query() fell back to a fresh session, maintenance
\* deleted its transcript or its row, or a statement on the row failed.
ConversationContinues ==
  \A k \in Keys : owed[k] # 0 /\ lapse[k] = "none" =>
    /\ saved[k] = owed[k] /\ owed[k] \in files
    /\ client[k].up # "none" => client[k].sid = owed[k]
    /\ query[k].pc \in {"build", "connect"} => query[k].sid = owed[k]

\* A session ends by expiry after 365 days, by a reset or by an error, so maintenance takes
\* no conversation away.
NothingPruned == \A k \in Keys : lapse[k] # "pruned"

Serving(k) == query[k].pc \in {"ready", "stream", "result"}

\* What switch_model told the chat holds: unless the query that switched was cancelled,
\* the next query runs with the new settings, whatever ended the one before.
SwitchApplied == \A k \in Chats : Serving(k) => query[k].cfg >= query[k].needCfg

\* So does what extend_budget told it, unless the session was reset meanwhile.
BudgetApplied == \A k \in Chats : Serving(k) => query[k].cap >= query[k].needCap

\* An injected message is picked up by the running subprocess: no deferred teardown ends it
\* with the message unread.
InjectedIsRead ==
  [][\A k \in Chats : AfterReset(k) \/ AfterBudget(k) => ~client[k].unread]_vars

\* A subprocess that serves a system task starts a conversation of its own.
SystemTaskIsFresh == \A k \in Systems : query[k].pc = "connect" => query[k].sid = 0

\* A scheduled harness change holds for the next query of the chat.
HarnessApplied == \A k \in Chats : Serving(k) => query[k].cfg >= query[k].needSeen
=============================================================================
