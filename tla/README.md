# A formal model of corporate-bot

TLA+ modules for the parts of the bot whose correctness depends on the order in
which coroutines, processes and restarts happen to run: the **message path** (webhook,
triage, persistent queue, task slots, restart), the **session pool** behind it,
the two ends of the **desktop relay**, the **project store**, **deploys**,
**access control**, and the **scheduler** on its configuration store. TLC checks
small instances; TLAPS proves every safety property of the passing runs, the refinement of the
queue included, for every value of the constants; the plan at the end says what comes next.

Paths are relative to the repository root, which this project sees as `src/`.

| module | what it is |
|---|---|
| `TaskQueue` | the message path: `bot/pipeline/{dispatch,task_queue,task_manager}.py`, and the startup and shutdown of `main.py` |
| `WorkQueue` | the abstract queue that `TaskQueue` implements |
| `MCTaskQueue` | small instances of `TaskQueue` for TLC |
| `TaskQueueProofs` | theorems about `TaskQueue`: its table, slots and claims; what it promises, and that it implements `WorkQueue` |
| `RelayDaemon` | the query path of `scripts/desktop-relay/sdk_persistent_daemon.py` |
| `MCRelayDaemon` | small instances of `RelayDaemon` |
| `RelayDaemonProofs` | theorems about `RelayDaemon` |
| `RelayPool`, `RelayPoolProofs` | the bot's end of one relay chat, `bot/relay/{pool,watchdog}.py`, and theorems about it |
| `ClientPool`, `ClientPoolProofs` | the claude sessions of `bot/agent.py`, and theorems about them |
| `PmStore`, `PmStoreProofs` | tickets and the rolling sprint of `bot/pm/store.py` on its one connection, and theorems about them |
| `Deploy`, `DeployProofs` | `bot/mcp/deploy.py`, `deploy/host-watcher.sh`, git and the approval script, and theorems about them |
| `RbacCache`, `RbacCacheProofs` | `bot/rbac/engine.py` over its tables, and theorems about its answers |
| `ConfigStore` | `JsonConfigStore` of `bot/config_store.py` against its file |
| `Scheduler`, `SchedulerProofs` | the task table of `bot/scheduler.py` in a `ConfigStore`, and the loop of `main.py`, and theorems about both |
| `MCRelayPool`, `MCClientPool`, `MCPmStore`, `MCDeploy`, `MCRbacCache`, `MCScheduler` | small instances of these for TLC |

To check: `tlc -workers 2 -config queue_burst.cfg MCTaskQueue` (and so on for the
table of runs), `tlapm TaskQueueProofs.tla`.

## 1. Inventory

The service is one Python process with one asyncio event loop. Nearly all state
lives in objects of that process and in SQLite files; the SQLite access of the
main database goes through **one** shared aiosqlite connection
(`bot/storage/db.py`). Between two `await`s a coroutine runs alone; at every
`await` any other one may run. That is the concurrency almost everything below
has to survive, together with restarts (every deploy is one), user cancels,
timeouts, and the processes on other machines.

| component | state it keeps | operations | talks to | what is hard, and what makes it correct |
|---|---|---|---|---|
| **Triage and dispatch** `bot/pipeline/dispatch.py` | the throttle dict of cold groups; the local state of one coroutine per delivery | `triage_and_enqueue`, `_dispatch_task` and its `_run` | queue, task manager, session pool (injection), relay | dedup SELECT and INSERT are apart; a message is dropped, is a command, is merged, is injected, or becomes a row, and exactly one of these; a task's end is reported to both the slot table and the row |
| **Persistent queue** `bot/pipeline/task_queue.py` | table `task_queue`, `_wake`, `_debounce_timer`, `_catchup_timers` | enqueue (with eviction), merge, claim, catch-up aggregation, complete, fail, cancel, startup recovery, gc | one worker coroutine, the database connection, the dispatcher | SELECT and UPDATE of a claim are apart; lost wake-ups; durability of what was accepted; no row run twice in one life; nothing finished runs again |
| **Task manager** `bot/pipeline/task_manager.py` | `_tasks` | register, complete, fail, `get_over_limit_chats`, `can_accept_task` | worker, zombie detector, cancel | no slot leaks or is freed for somebody else; the caps hold although they are read awaits before they are used |
| **Handlers and streaming** `bot/pipeline/{handlers,streaming}.py` | placeholders, ticker state | handle a message, tick, detect a zombie | session pool, messenger | how a handler ends, and who hears of it |
| **Shared connection** `bot/storage/db.py` | one connection | `open_db` | everything | a commit of one coroutine commits the unfinished work of all others |
| **Relay daemon session** `scripts/desktop-relay/sdk_persistent_daemon.py` | `_proc`, `_pending_qids`, `_qid_events`, `_user_text_in_window`, `_drain_task`, one lock | run a query, read stdout, drain | one claude process, the bot over ssh | answers on the right query, never two processes on one session file, no query left waiting |
| **Relay client pool** `bot/relay/{pool,core,transport,ssh}.py` | clients by chat, a state per client, query queues, retry count | acquire, query, connect, retry, release | daemon, watchdog | state written by a reader, a query and a retry at once; a reader that outlives its process |
| **Relay watchdog, registry** `bot/relay/{watchdog,registry,sessions,...}.py` | cooldowns, one JSON file | respawn, alert, pin | pool | respawn beside a reconnect; lost updates of the file |
| **SDK client pool** `bot/agent.py` | clients, locks and session ids by key | query, inject, expire, disconnect | handlers, dispatch, database | the per-key lock is dropped while held; injection without it; stale results left in a buffer |
| **PM agent bus** `bot/pm/*` | sprints, tickets, runs, spend | status transitions, get-or-create, budget checks, execution with checkpoints | its database, the session pool | explicit transactions on one shared connection; count-then-insert caps; budget checked before it is spent |
| **RBAC** `bot/rbac/*` | cached policies and assignments | check, grant, revoke, invalidate | its tables | deny wins; a refresh that spans a revocation |
| **Tokens** `bot/auth/*` | a row per user | store, refresh, mark | identity provider | two refreshes of one rotating token |
| **Onboarding** `bot/onboarding/*` | a state row | complete, skip, resume a step | messenger, store | read-modify-write of the row across awaits |
| **Configuration stores** `bot/config_store.py` | a cached dictionary, its file | get, set, reload | other processes that edit the file | lost edits |
| **Scheduler** `bot/scheduler.py` | last-run marks | due, mark | main loop, configuration store | marks by date on a row that may have changed; a run that takes hours; a crash between the run and the mark |
| **Deploy** `bot/mcp/deploy.py`, `deploy/*` | trigger files, review state, a staging lock | stage, review, trigger, roll back | host watcher | one of several steps fails; triggers during a rollback |
| **Domain sync** `bot/storage/github_sync.py` | a lock and a status per domain | sync | git | a status stuck by a crash |
| **Browser pool, rate limiter** `bot/browser_pool.py` and others | entries, windows | register, touch, evict | hooks | capacity checked before it is used |
| hooks, memory, integrations, MCP servers, prompts, host scripts | | | | adapters, I/O or data: listed in `PROJECT.json` with the reason they are not modelled |

The hazards of all of these, at their lines, are in `PROJECT.json`.

## 2. The message path: `TaskQueue`

### State

| variable | in the code |
|---|---|
| `rows`, `disk` | the table as the one connection sees it, and as it was last committed |
| `fresh` | direct rows whose `updated_at` is within the debounce window |
| `wake`, `debounceTimer`, `catchupTimers` | `_wake`, `_debounce_timer`, `_catchup_timers` (a timer that has fired is still an entry) |
| `wpc`, `excluded`, `claim` | where `worker_loop` is suspended and its locals |
| `slots` | `TaskManager._tasks`, named by the row each task came from |
| `run`, `taken`, `siblings` | progress of `_run`, the texts it was given, `_pq_catchup_ids` |
| `tri` | the locals of each `triage_and_enqueue` coroutine |
| `served`, `cause` | history: messages that went through a handler that returned; what ended a row |
| `restarts`, `dbErrors` | counters for the bounds `MaxRestarts`, `MaxDbErrors` |

A message is a value; the *text* of a row is the set of messages merged into it,
which is what the properties tell apart.

### Granularity

An action is one SQL statement together with the synchronous Python after it, up
to the next `await`. `open_db()` takes no lock, so any action of another
coroutine may come between two statements of one. A statement directly followed
by its own commit is one action. `enqueue` is four (`EnqueueCount`, `Evict`,
`Insert`, `Commit`), a merge two (`MergeSelect`, `MergeUpdate`), a claim two
(`ClaimSelect`, `ClaimUpdate`), catch-up aggregation two more (`Gather`, `Mark`).
`DbCommit` makes *all* of `rows` durable, as the shared connection does.

| actions | code |
|---|---|
| `Receive`, `CancelNothing`, `CancelTask`, `CancelByReply`, `CancelNoTask`, `cancel_for_chat`, `Inject` | `triage_and_enqueue` |
| `MergeSelect`, `MergeUpdate` | `merge_into_pending` |
| `EnqueueCount`, `Evict`, `Insert`, `Commit` | `enqueue` |
| `DebounceFires`, `CatchupFires`, `WindowEnds` | the loop's timers and the clock |
| `WorkerWakes`, `ClaimSelect`, `ClaimUpdate`, `Gather`, `Mark`, `Discard`, `Dispatch`, `WorkerErrors` | `worker_loop`, `_claim_next`, `_aggregate_catchup`, `_complete_all_catchup`, `_dispatch_task` |
| `RunStarts`, `HandlerReturns`, `HandlerRaises`, `Unwinds`, `Zombie`, `complete`, `fail` | `_run`, the zombie detector, `complete`, `fail` |
| `Shutdown`, `Restart` | `lifespan`, `startup_recovery`, `gc_old_rows` |

`Restart` may happen in any state: it is a crash unless a `Shutdown` came before.
`Shutdown` cancels the worker and the tasks, which then unwind as after any cancel.

### Fairness

`FairSpec` promises only what the event loop owes to what it has started: the
worker, a triage coroutine that is under way, a task's coroutine, an expired
timer. Each is weak fairness of the *class*: one that is ready runs. A handler
ends because the harness has a timeout and the ticker a zombie detector.
Nothing is promised about new deliveries, cancels, zombies, restarts or errors.

### The abstract queue: `WorkQueue`

A job is `none`, `waiting`, `claimed`, `working` or `closed`. It may be cancelled
while it waits, a claim may be let go, what is at work only closes; a crash makes
claimed and working jobs wait again or close, and may forget a job only if its
sender was never told that it was accepted. `KeepsPromise` says that `TaskQueue`
implements it, with `JobOf` as the refinement mapping: a row is *claimed* from
the SELECT of the claim to its UPDATE and *working* from there, whatever its
status column is set to by an eviction that comes late; a cancellation counts
from its commit.

## 3. The relay daemon: `RelayDaemon`

One daemon serves one chat. `run_query` pushes a query's id on the FIFO
`_pending_qids` and writes a frame to the stdin of the claude process, which it
spawns when there is none. A reader per process consumes stdout: every `result`
completes the head of the FIFO and one more id for every further user entry seen
since the last result, because claude may absorb frames into the turn it is
working on. When the FIFO empties, a drain task closes stdin after a grace
period and kills a process that lingers.

| variable | in the code |
|---|---|
| `pc` | where `run_query` of a query stands; `killing`, `spawning`, `draining` hold `_proc_stdin_lock` |
| `event`, `pending`, `userText` | `_qid_events` that are set, `_pending_qids`, `_user_text_in_window` |
| `cur`, `reader`, `drain` | `_proc`, the `_reader_loop` of each process, `_drain_task` |
| `proc` | the claude processes: dead with or without a returncode, stdin open or not, frames not yet read, the turn at work, output not yet read |
| `wrote`, `answer`, `overlapped` | history: which process a frame went to, what the bot was told in order, whether a process was ever started beside leftovers of another |

Actions are what one coroutine does between two awaits; the table in
`PROJECT.json` gives the lines. The claude process is external and modelled from
how the daemon uses it: it takes frames in order and echoes each, may absorb
frames into a turn, ends a turn with one result, may print between turns, and
may die at any moment. A process that has exited may still have unread output,
and its returncode may come later: this is what lets a new process start while
the old reader is still at work. Queries enter in the order they arrive, as the
loop starts its tasks and `asyncio.Lock` its waiters in order.

Fairness: the coroutines of `run_query` and the readers run when they can, and a
claude process that is up takes its frames and ends its turns. No fairness for
the timeout of three hours, the drain, deaths, or new queries.

## 4. The relay on the bot's side: `RelayPool`

One chat. `pool` is its entry in `_clients`, `client` the `RelayClient` objects ever
made with state, process, `_ready`, retry count and connect lock, `proc` the ssh
processes, `reader` the reader task started with each, `job` the coroutines: queries,
the respawns the watchdog fires and does not wait for, and the kicks of the
watchdog and of commands. `inbox` is a query's queue. An action is what one coroutine
does between two awaits: of `acquire`, `connect` (lock, spawn, ready, its timeout),
`_reader_loop` with its `finally`, `query`, `_retry_and_query`, `_force_kill` and
`release`.

The code's interlocking is not tight, so the properties name what breaks them:
`mishaps` records when a step takes a client's fields from under another one
(`clobbered`, pool.py:426; `stale`, the finally of an old reader, :418; `revived`,
READY written over DEAD or RETRY, :558; `index`, the retry count read again after an
await, :576; `cancelled`, a respawn cancelled by the watchdog while it connects,
watchdog.py:544; `early`, a connect that is taken for good although its
reader has ended; `cut`, a kick into a running query). `WaitsEnd` holds without any exception; the other
properties hold outside of the mishaps each of them names: fields taken over by another
process (`clobbered`, `stale`) may leave a daemon without a client, but never a waiting
query without a reader.

A reader may also end while its process runs (`ReaderLeaves`): on a line over
`_STREAM_LIMIT`, on an `exit` message, on an exception (pool.py:311-313, 346-349). The
client then is DISCONNECTED and still has the process in `_proc`, which the next spawn
overwrites and does not kill. `reader` remembers such a process (`LeftUnread`); it is the
only one that `NoOrphan` gives up outside of the mishaps, and `daemon_left` shows that it is
lost. `_force_kill` waits for the reader and then for the turn listener; `KillReader` has the
first wait only, so what another coroutine may do in the turn of the loop that the cancelled
listener takes is not modelled.

## 5. Sessions: `ClientPool`

`client` is `_clients` by key, `saved` the session map on disk, `files` the transcripts
the claude binary keeps, `settings` the version of model, harness and OAuth profile a
new client would get, `override` the raised budgets, `pendReset` and `pendBudget` the
teardowns a query has scheduled for the end of its stream, `locked` the keys whose
lock is held, `query` the `process_incoming` or `process_system_task` of a key with
its `get_or_create` and `query()`, `task` the teardown another coroutine is doing.
The statements of `_disconnect_client`, `_clear_session_id` and
`clear_budget_override` are steps of their own (`Step`), because every one of them
awaits. Every way out of a query is an action: result, error, exhausted budget,
rate limit, suspicious empty answer, cancel. When the making of a client raises, `query()`
forgets the conversation and tries once more without one (`Fallback`, agent.py:871-888); the
second exception ends the query (`FailChat`). A database error is logged and swallowed: a
load takes it for a key without a row (`LoadFails`), a save or a delete leaves the row as it
was (`Report`, `Step`). Maintenance deletes transcripts by age (`CleanFiles`), reads the map
and deletes the rows without a transcript by key, as two steps (`PruneRead`, `PruneMap`).

The history variables are promises: `owed` is the conversation nothing has given up
on purpose, `promised` and `granted` what `switch_model` and `extend_budget` have
told the chat. The properties say they are kept. `lapse` names what took an owed
conversation away nevertheless: `fallback`, `pruned` (its transcript or its row), or
`database`; `ConversationContinues` is stated while it is `none`, and a saved id of the
next answer makes it `none` again. The claude process is external: it reports a session id,
answers, may die, and reads injected messages when it will: nothing says that it has read
them when a teardown is scheduled or carried out.

## 6. The project store: `PmStore`

`view` is the database as the one connection sees it, `disk` as it was last
committed, `open` whether the connection is in a transaction, `todo` the statements a
call has left. Each step is one statement; a `BEGIN IMMEDIATE` fails when the
connection is already in somebody's transaction, a `COMMIT` of anybody makes
everybody's statements durable, a `ROLLBACK` takes everybody's back. `Cancel` ends a
call between two statements and leaves its transaction open, `Crash` sets `view` to
`disk`. The ghost `hit` records that a transaction was ended by another call.

A request (`Request`) is what the tools let through: ids are integers, statuses are those
of the tables. `Program` is the list of statements a request begins with; a statement
that decides something (`find`, `new_sprint`, `insert`, `list`) puts what follows in the
list. `pm_cancel_sprint` selects its tickets once and then drops them one call of
`move_ticket` after the other: `drop_rest` is the head of that loop.

`OneRollingSprint` is stated while `hit` is false. Without that it fails, in a history of
four sessions that `rolling_twice` shows (finding 12): the three calls of the regular run
are not enough for it.

## 7. Deploys: `Deploy`

The bot (`at`, `want`: where each `deploy_bot` call is; `marker`, `boot`, `row`), the
shared directory (`trigger`, `result`, `request`, `verdict`, `healthy`), git as a
set of commits with ancestors and the changes in their trees (`n`, `tree`, `anc`,
`merges`, `adds`, `head`, `origin`, `remote`), the files of the worktree and its index
(`work`: the tree of `head` unless a restore stayed uncommitted), docker (`image`, `served`:
the commit an image is labelled with and the files it was built from) and the watcher
script `w`. Sessions and developers commit to the same worktree at any time. A merge
or a build may fail, a container may be unhealthy; a rollback reverts a range, or
falls back to a checkout that deletes no file. Both sides may crash between any two
steps. `FairSpec` is weak fairness of the watcher's loop, which systemd restarts
(`Restart=always`); nothing is promised about operators or sessions.

The script runs without `set -e` and looks at the exit status of the merge, the builds, the
revert and the health check only. `docker compose up -d` (host-watcher.sh:292, 310, 365) and
`restart` (340), the `reset --hard` behind a failed merge (277), and the `checkout` and the
`commit` of a rollback (70, 71) may therefore fail and the script goes on: the old container
answers the health check, or what failed is built again. `slips` remembers which of them failed
in the deploy under way, and `SuccessServesCommit` and `RollbackDropsFailed` say what holds
without; `up_ignored` and `rollback_ignored` show that the exceptions are needed.

## 8. Access control: `RbacCache`

One subject and one kind of request, so a role's policies are the set of effects
that match (`policies`), an assignment is when it expires (`until`), and a change of a
table with its commit is one step. `cache` is the copy with its timestamp, `call` the
checks under way: a check answers from a fresh copy at once, else it reads the roles,
then the policies of one role after the other, then the assignments, and installs
what it has read; others read and change in between. `Invalidate` is the admin tool's
acknowledgement; onboarding, seeds and expiry change tables and invalidate nothing.
`last` remembers when, and at which version of the tables, each fact was last true.

`AnswerIsRecent` says how old an answer's facts may be, `AckedIsSeen` that a change
the tool has acknowledged is seen, unless the copy was being read at that moment
(`late`); `late_refresh` shows why the exception is needed.

## 9. The scheduler and its store: `ConfigStore`, `Scheduler`

`ConfigStore` is the dictionary (`store`), the file, the mtime beside the remembered
one (only their comparison is kept) and whether a look at it was less than a second ago
(`recent`). Reads reload when they look and see another mtime; writes put the whole
dictionary on disk and look at nothing. Outside, the file is edited in place (torn
for a moment), replaced, or restored with an older mtime; a save may fail. Calls do not
overlap, but an edit may fall into the middle of one (`raced`): between the `read_text`
and the `stat` of a load, or between the rename and the `stat` of a save (config_store.py:318,
319), whose mtime then hides it (`Hidden`); or before the rename, which puts the whole
dictionary over it (`Overwritten`). `want` is
each key as its last edit or call meant it, `mishaps` the ways in which the code lets
the two come apart.

`Scheduler` extends it: `now` counts hours, `pc`, `cur` and `batch` are the loop, which
chooses the due tasks at once, runs them one after the other for any length of time, and
marks each with the date (or the time) of its end. Chats and onboarding add, edit,
toggle and delete meanwhile; a start adds the default tasks it misses. That a
sleeping loop checks at least once an hour is the guard of `Tick`: it sleeps 30
seconds.

## 10. Runs

| run | instance | properties | what it shows |
|---|---|---|---|
| `queue_burst` | two messages of a chat (the second may read as a cancel), one of another chat, two slots, one database error | `SlotsMatchRuns`, `SequentialChat`, `NoCrossChat`, `FrozenContent` | merging, injection, debounce, claims, cancels and zombie kills in every order: no slot leaks, no chat without topics runs two tasks, no text crosses chats, no claimed row changes |
| `queue_live` | the same, one slot, fairness | `GlobalCap`, `NoLostWakeup`, `QueueDrains` | the cap holds, the worker never sleeps through a claimable row, every direct row leaves the queue |
| `queue_restart` | two catch-up rows of an earlier life, a direct and a stale delivery, a queue full at two, one crash, shutdown or deploy restart at any point | `DoneWasServed`, `DurableAccept`, `ClaimIsExclusive`, `KeepsPromise` | what was accepted survives, done means served, no row is dispatched twice, and all of it implements `WorkQueue` (so what is finished never runs again) |
| `relay_daemon` | three queries, one of which may time out, two processes, fairness | `TypeOK`, `OneProcessUp`, `AnswersOwnQuery`, `AnswerIsFinal`, `CloseCutsNothing`, `EveryQueryReturns` | one writer per session file, answers on the right queries, nothing after an answer, no turn cut off by a drain, every query returns |
| `relay_pool` | two messages, one respawn, one kick, three spawns, one process that dies or is left by its reader, one mishap | `WaitsEnd`, `StreamHasReader`, `NoOrphan`, `IdleStateIsTrue` | no coroutine waits for nobody; outside of the named mishaps a waiting query has a reader, a running process its reader did not leave an owner, and an idle client's state is true |
| `client_pool` | one key (a chat or a system key), two conversations, two changes of settings, budgets up to three caps | `ConversationContinues`, `SwitchApplied`, `BudgetApplied` | only what is meant to end a conversation does, or one of three named mishaps; switches and raises hold for the next query, however the one that made them ends |
| `pm_store` | three calls over a running sprint with one ticket in review, one restart, fairness of the calls | `NumbersUnique`, `OneRollingSprint`, `IdleMeansClosed`, `MovesFollowTable`, `EveryCallEnds` | calls that share a connection and roll each other back keep numbers unique; the rolling sprint is single and statuses follow the table while nobody's transaction is ended by another |
| `deploy` | one outside commit (an edit or a new infrastructure file) and those of `/rollback`, merges and reverts, two triggers, two tasks, any command that may fail unseen or one crash of each side, fairness of the watcher | `NoDeployLoop`, `RollbackDropsFailed`, `SuccessServesCommit`, `EveryTriggerAnswered` | no deploy loop; unless a command failed unseen, no failed commit served after a rollback and success means the commit is served; every trigger is answered |
| `rbac_cache` | two roles, two checks, two changes, TTL 2 of 4 ticks | `AnswerIsRecent`, `AckedIsSeen` | answers rest on the tables of the last TTL, and see what was acknowledged |
| `scheduler` | one daily default task, one hourly task, two days of two hours, two calls, two edits, one failing save, one restart | `RunsOncePerDay`, `MissHasCause`, `NoLostUpdate`, `MemoryIsFile` | no daily task runs twice a day, every missed slot has one of the named causes, no update is lost but through a named mishap |
| `merge_claim_race` | two messages of one chat | `MergedIsTaken` violated | finding 2 |
| `late_refresh` | the instance of `rbac_cache` | `TakesEffect` violated | finding 6 |

Every property of a passing run is broken by a mutant of the code that stands
beside the definition it replaces (a definition directly before another one and
used nowhere). The configurations `catchup_stalls`, `topics_overlap`,
`shutdown_fails_task`, `relay_stale_eof`, `system_task_resumes`,
`harness_unapplied`, `transcript_pruned`, `injected_lost`, `stale_marker`, `up_ignored`,
`rollback_ignored`, `terminal_reopened`, `rolling_twice`, `kick_cuts_query` and `daemon_left` reproduce the other findings of section 12 the same way
(`tlc -config stale_marker.cfg MCDeploy` ends with a violated `CrashRetries`); they
are kept out of the regular runs.

**Bounds.** `MaxRow` rows and as many deliveries: two of one chat are what merging,
injection and per-chat order need, a third of another chat what the slots and
the cap need; the fourth row of `queue_restart` makes room for eviction next to
an aggregation. `MaxParallel` = 1 is the code's default (`config.py:772`);
`MaxTotal` 1 or 2 makes the cap bind. `MergeCap` = 2 stands for the 50 kB and ten
media of a row and is reached. `MaxRestarts` = 1: a restart resets every volatile
variable, so a second one starts from a state the first could have produced.
`MaxDbErrors` = 1 puts one error at every statement of the worker. `Ageing`
bounds which rows may be over 24 hours old. `MaxProcs` = 2 in `relay_daemon` gives
one respawn, which is all that leftovers of one process can meet; three queries are
what it takes for a turn that absorbed one frame to be followed by another one.
`Slow` bounds which queries may meet the three hours.

In `relay_pool` three processes give an old reader, a newer process and a third to
take it over. Histories are followed up to the second mishap (`OneMishap`): what the
properties say under one mishap is checked, the product of two is not interesting. `scheduler`
is followed up to the first mishap of the store (`NoMishapYet`): it is on record for good,
and every property of the run is short of mishaps. In `client_pool` no action of a key reads another
key's state, so behaviours are cut where a second key would move (`OneKeyMoves`); no property of the run
asks what is unread or announced, so these are followed in histories without a switch or a
raise (`InjectionsApart`, `HarnessApart`); three
caps let a budget be raised, raised again and refused. In `deploy` the second task takes part only in histories without
outside commits (`SecondTaskWithoutEdits`): it shares the marker and the trigger, not
git; and commands that fail unseen are not combined with crashes (`SlipsWithoutCrashes`). In `pm_store` each call chooses among a few requests, picked so that every
statement meets another call's transaction. Two ticks of TTL and four of time let a
copy be fresh, old and replaced; two changes are a grant and its revocation.

Deadlock checking is off where the instance ends when its deliveries, calls, crashes or
hours are used up, and where a daemon whose processes are all dead may stop.

## 11. Proofs

All proofs are for every value of the constants that meets the named assumption of the
module (`QueueAssumption`, `DaemonAssumption`, `PoolAssumption` of `ClientPool` and of `RelayPool`,
`RbacAssumption`, `PmAssumption`, `DeployAssumption`, `StoreAssumption` and
`SchedulerAssumption`): any number of chats, topics, messages, rows, queries, processes,
keys, roles, calls, tickets, sprints, commits and tasks, and every bound. The
assumptions say what the constants are and nothing the code would have to earn: that
counts are naturals, that a request is one the tools let through, that a name used for
"none" is none of the things it stands beside.

| theorem | states | argument |
|---|---|---|
| `TaskQueueProofs!TypeCorrect` | `Spec => []TypeOK` | `TypeOK` is inductive once it says that a claim has a row and a merge has an id between their statements (`WorkerOK`, `TriageOK`); `Oldest` and `Latest` of a nonempty set of ids are members of it (`LeastNatural`) |
| `TaskQueueProofs!SlotsNeverLeak` | `Spec => []SlotsMatchRuns` | inductive with `TypeOK`; every way out of `_run` and every kill removes the slot exactly when it leaves `Unhurt` |
| `TaskQueueProofs!GlobalCapHolds` | `Spec => []GlobalCap` | `CapInv` adds that a slot is free from the moment the worker has read `can_accept_task` until it registers (`Room`): only the worker registers, everybody else only frees |
| `TaskQueueProofs!ClaimsAreExclusive` | `Spec => []ClaimIsExclusive` | `ClaimInv` adds that a row nobody has claimed has no task, that a slot has one, and that a claimed row has left the untaken statuses after its UPDATE. The status column alone would not do: an eviction may change it under the claim |
| `TaskQueueProofs!AcceptIsDurable` | `Spec => []DurableAccept` | `QueueInv`: what a triage coroutine remembers of its row between two statements (`Recalls`), and that rows keep key, kind and message once they are there, in memory and on disk (`Keeps`) |
| `TaskQueueProofs!ContentIsFrozen` | `Spec => FrozenContent` | the guard of the merge's UPDATE, with `QueueInv` for the row that was read awaits before |
| `TaskQueueProofs!ChatsDoNotMix` | `Spec => []NoCrossChat` | `OneChat`: what a worker holds, and what a task was handed, belongs to its row's key; rows never change key |
| `TaskQueueProofs!ChatsAreSequential` | `Spec => []SequentialChat` | `ChatInv`, the per-chat form of `Room`: a chat the exclusion set does not name has a free place from the read of the set to the registration |
| `TaskQueueProofs!DoneMeansServed` | `Spec => []DoneWasServed` | the invariant ties a claim, its siblings, the messages of the task and the committed statuses: whatever closes a row as done has its message in `served`, or leaves its cause on record |
| `TaskQueueProofs!NoWakeupIsLost` | `Spec => []NoLostWakeup` | by place of the worker: between clearing the event and sleeping, a row that becomes claimable sets the event, arms the timer, or belongs to an enqueue that has yet to signal |
| `TaskQueueProofs!QueueKeepsPromise` | `Spec => KeepsPromise` | step simulation under `JobOf`, one lemma per action: each maps to one of `WorkQueue`'s steps or a stutter |
| `RelayDaemonProofs!OneWriter` | `Spec => []OneProcessUp` | `ProcessInv`: the lock has one holder, only `_proc` can be up, none is up while the next one is being started, a reader that has met the end and a drain that has killed belong to dead processes. Every assignment to `_proc` then happens when no process, or only the new one, is up |
| `RelayDaemonProofs!TypeCorrect` | `Spec => []TypeOK` | with `ProcessInv`, which keeps processes, readers and the drain in their ranges |
| `RelayDaemonProofs!AnswersAreOwn` | `Spec => []AnswersOwnQuery` | `AnswerInv`, see below |
| `RelayDaemonProofs!AnswersAreFinal` | `Spec => []AnswerIsFinal` | its part `Final`: who has an answer has left the FIFO, and is returned or has its event set |
| `RelayDaemonProofs!ClosesCutNothing` | `Spec => []CloseCutsNothing` | its part `Closed`: behind a closed stdin nothing is at work, unread or being written |
| `RelayPoolProofs!TypeCorrect` | `Spec => []TypeOK` | with the rest of `Shape`: which client, process and reader a coroutine can be about at each of its points |
| `RelayPoolProofs!NobodyWaitsForever` | `Spec => []WaitsEnd` | `LockInv`: the connect lock is held by exactly the coroutine that connects; `CancelInv`: a reader that is cancelled has somebody waiting for it, and who waits for one waits for one cancelled or done |
| `RelayPoolProofs!WaitingQueryIsServed` | `Spec => []StreamHasReader` | `StreamInv` adds that a client which looks connected with its lock free has a reader: that is what a query relies on when it puts its queue up |
| `RelayPoolProofs!EveryProcessHasAClient` | `Spec => []NoOrphan` | `DaemonInv` speaks of attended processes, which are up and not left by their reader: a client's attended process is read by its own reader; says what state that client is in, and that nobody spawns over it |
| `RelayPoolProofs!SweepSeesTheTruth` | `Spec => []IdleStateIsTrue` | `BusyInv` and `ReadyInv`: each state the sweep believes names who is at work on it, or the reader |
| `ClientPoolProofs!TypeCorrect` | `Spec => []TypeOK` | inductive with `TornHasSteps`: a teardown under way has a step left, so the next one is defined |
| `ClientPoolProofs!SwitchesApply` | `Spec => []SwitchApplied` | `SwitchInv`: what was promised is in the settings already, and the client of older settings is gone, being torn down, or scheduled to be before the next query may begin |
| `ClientPoolProofs!BudgetsApply` | `Spec => []BudgetApplied` | `BudgetInv`, the same for the cap, with the reset that takes a raised cap away |
| `ClientPoolProofs!ConversationsContinue` | `Spec => []ConversationContinues` | `ConversationInv` follows the owed conversation, while `lapse` is `none`, through map, client, transcript and every step between the read of the map and the connect; no teardown under way has a `forget` for it left |
| `PmStoreProofs!TypeCorrect` | `Spec => []TypeOK` | `TodoInv`: the list of statements of a call is well formed (`Wf`): which statement may follow which, with arguments of the right kind |
| `PmStoreProofs!NumbersAreUnique` | `Spec => []NumbersUnique` | `NumInv`: a ticket's number is its position, since a rollback takes only the rows after those on disk |
| `PmStoreProofs!IdleConnectionIsFree` | `Spec => []IdleMeansClosed` | `IdleInv`: an open transaction has a call with a statement left that ends it (`Closing`), or one that was cut or stuck |
| `PmStoreProofs!RollingSprintIsOne` | `Spec => []OneRollingSprint` | `LockInv` and `RollInv`: a sprint is created by the holder of the lock, who has found none; until a transaction is stolen nothing reopens one behind its back (`HoldInv`) |
| `PmStoreProofs!CommitsFollowTable` | `Spec => MovesFollowTable` | `HoldInv` and `NearInv`: what is seen is at most one move of each ticket away from what is on disk, and the move was checked against the status on disk |
| `DeployProofs!TypeCorrect` | `Spec => []TypeOK` | with `Bounded`: the commits a trigger and a deploy under way may still make are counted, so the graph never runs out of them |
| `DeployProofs!DeploysDoNotLoop` | `Spec => []NoDeployLoop` | `LoopInv`: until the marker of a task's deploy has done its work it is there, or the start that found it is still settling the rows |
| `DeployProofs!RollbacksDropFailed` | `Spec => []RollbackDropsFailed` | `GitInv` (ancestors are closed and only grow) gives every two commits a merge base; `Clean` follows the reverted files from the worktree to the image and the container, but for `slips` |
| `DeployProofs!SuccessIsServed` | `Spec => []SuccessServesCommit` | `WatchInv`: at each point of the watcher, which of head, image and container contains the commit it works on; `Whole`: worktree, image and container are the commits they name |
| `RbacCacheProofs!TypeCorrect` | `Spec => []TypeOK` | `CacheInv`, see below |
| `RbacCacheProofs!AnswersAreRecent` | `Spec => []AnswerIsRecent` | `CacheInv`: whatever a call has read (`ReadKept`) or the copy holds (`CacheKept`) was true at a time and a version the copy's timestamp bounds, and what holds now is dated now (`NowIsLast`) |
| `RbacCacheProofs!AcknowledgedIsSeen` | `Spec => []AckedIsSeen` | the same invariant read by version instead of time (`NeedIsAcked`) |
| `SchedulerProofs!UpdatesAreKept` | `Spec => []NoLostUpdate` | `StoreInv`: short of a mishap the file is as it is wanted, and a store that sees no other mtime has it in memory |
| `SchedulerProofs!MemoryIsRight` | `Spec => []MemoryIsFile` | the same |
| `SchedulerProofs!OnceADay` | `Spec => []RunsOncePerDay` | `OnceInv`: a task that waits in the batch has not run today, one that has run is still running or marked; `SightInv`: what memory says of a mark is right or will be read again |
| `SchedulerProofs!MissesAreExplained` | `Spec => MissHasCause` | `MissInv`: what `MissHasCause` says of the end of an hour holds from the check on; `MarkInv`: a mark of today is a run of today or one that crossed midnight |

The invariant of `ClientPoolProofs` is `TypeOK`, `TornHasSteps` and `TornIsGone` (what a
teardown has disconnected is not registered), to which each theorem adds its own
part; it says of every point of a query and of a teardown what has already been
undone. `CacheInv`, and the `Inv` of `PmStoreProofs`, `DeployProofs` and `SchedulerProofs`,
are proved once, action by action (theorem `InvHolds`), and the theorems are read off.
Every one of these invariants was a run of TLC on the instances of section 10 before it was
proved, and each is stronger than the properties because these are not inductive: a
property says nothing of the locals a coroutine carries over an await, the invariant does.

`PoolInv` of `RelayPoolProofs` has an unconditional part (`Shape`, `BusyInv`) and three parts that
hold while certain mishaps have not happened. Mishaps only grow, so a step that keeps a part
may use the part's own condition in the state before; a step that would break it records a
mishap of the condition. The pieces of a step (`Down`, `Leave`, the `finally` of a
reader, ...) serve many handlers, so each action is first shown to be of one of some fifteen
kinds (`Kind`), named for what it does to the queues, the lock, the processes and the readers
of one client, and each part of the invariant is proved once for each kind.

`AnswerInv` holds until a process is started beside leftovers of another (`overlapped`). Then
one process has a reader and every id of the FIFO `pending` was written to it (`OneReader`),
and `Flow` gives each unread line of its output its places in the FIFO (`Marks`): a replayed
user entry is the echo of the next id, a result ends the turn of exactly the ids between the
last result and the last echo. After the last line come the turn at work, the frames claude
has not taken, and the frame being written, in this order and with nothing behind them
(`Rest`). What `_reader_loop` does with a line is then right whatever was written meanwhile:
the count of user entries is the number of ids echoed before the next line, and a result takes the ids off
the front that its turn answered. The property alone says nothing of lines nobody has read
yet. A dead process keeps its lines, so `Marks` outlives `Rest`.

The proofs changed what is stated in four places. `OneRollingSprint` turned out to be false
without its condition (section 6). `StreamHasReader` lost two of its exceptions, which its
proof never used. The drop of a sprint's tickets, and what follows an
INSERT, are now statements of their own where lists of unknown length stood before.
`SchedulerAssumption` says that `Never` is no time, and the bounds of `ConfigStore` and
`PmStore` have their assumptions.

A minimum of a set of numbers (`Min(left)` of a loop, a merge base, the oldest row) is
defined by CHOOSE; that it exists follows from the well-foundedness of `<` on the naturals
(`WFMin`), applied to the set at hand.

Only model-checked: liveness under fairness (`QueueDrains`, `EveryQueryReturns`,
`EveryCallEnds`, `EveryTriggerAnswered`), which is beyond the prover. The `TypeOK` of a
module whose run does not list it is a theorem all the same.

## 12. Where the code and its own description part

1. `catchup_stalls`: the entry of a fired catch-up timer is never removed, and the
   claim skips every chat that has one: catch-up rows that arrive in a running
   process wait for the next restart.
2. `merge_claim_race`: a merge that commits between the claim's SELECT and UPDATE
   is reported as merged, but the worker goes on with the text it read before.
3. `topics_overlap`: the worker excludes base chats and compares them with queue
   keys, which name the topic: two tasks of one topic run at once.
4. `shutdown_fails_task`: the tasks cancelled by a clean shutdown end as failed,
   so the recovery that would retry them does not see them.
5. `relay_stale_eof`: the end of an old reader reports the end of its process to
   the queries of the new one.
6. `late_refresh`: a refresh that read the tables before a role change installs them
   after the invalidation, under a new timestamp, although rbac_tools.py:416 promises
   that "changes take effect immediately".
7. `system_task_resumes`: a subprocess of a system task resumes the conversation of the
   one before it.
8. `harness_unapplied`: `_schedule_chat_reset` (harness.py:528) calls
   `client_pool.schedule_session_reset`, which does not exist, and swallows the
   exception: a harness change does not reach a running session.
9. `stale_marker`: the deploy marker outlives a deploy that never restarted the bot, so
   the start after an unrelated crash drops every interrupted task.
10. `terminal_reopened`: two transitions on one connection can move a ticket out of a
    status schema.py calls terminal.
11. `kick_cuts_query`: the watchdog looks for a running query, then awaits an SSH
    command, then releases: a message that came meanwhile has its answer cut off.
12. `rolling_twice`: a call aborts the rolling sprint in a transaction another call's
    commit has already ended, `pm_auto_ticket` finds no open one and creates it, and the
    ROLLBACK of the first takes the abort back: the project has two open rolling sprints,
    although store.py:885 says the lock is there "to prevent duplicate sprints".
13. `up_ignored`: the watcher looks at no exit status of `docker compose up -d`
    (host-watcher.sh:292): when it fails, the old container passes the health check, the new
    commit is saved as healthy and "success" is reported, where docs/SETUP_GUIDE.md:609 says
    "On failure: captures logs → auto-rolls back to last healthy commit".
14. `rollback_ignored`: nor at that of the `checkout` and the `commit` of a rollback
    (host-watcher.sh:70, 71): when the checkout fails, or the container of the rollback does
    not start, the failed commit goes on being served and "rolled_back" is reported.
15. `transcript_pruned`: maintenance deletes the transcript of a conversation that no client
    is in at the moment (after a restart or a disconnect) once it is older than
    `SESSION_FILE_RETENTION` (seven days, config.py:715; agent.py:1165 says "default 1 day"),
    and then its row, although agent.py:270 says "Sessions expire after SESSION_TIMEOUT
    (default 365 days)" and agent.py:1164 that only orphaned artifacts go.
16. `injected_lost`: `inject_message` (agent.py:1119) says that "the message is picked up at the
    next listening checkpoint by the running subprocess", and `has_pending_teardown`
    (agent.py:1589) keeps dispatch from injecting once a teardown is scheduled, as the text
    "would be silently lost". A message injected just before the tool call that schedules the
    teardown is lost all the same when the turn ends without reading it.
17. `daemon_left`: a reader that ends while its ssh process runs (pool.py:311-313, 346-349)
    leaves it in `_proc`, and the next spawn (pool.py:217) overwrites it: nobody kills it any
    more, although pool.py:6 says "One long-lived SSH+daemon pair per workstation channel".
    If the daemon behind it goes on, it owns the chat's pid file, and the new one "refuses to
    start if another live daemon already owns that chat_id" (docs/CLAUDE_RELAY.md:55).

Met on the way and without a run.

*Message path.* `docs/components/task_queue.md:16` and `docs/ARCHITECTURE.md:116` give
`MAX_PARALLEL_TASKS` as 3, `config.py:772` as 1; after a restart that resets no row,
pending rows wait for the next message; the count of user entries survives the death of
a claude process in the middle of a turn (`AnswersOwnQuery` is therefore stated while no
process was started beside leftovers of another).

*Sessions.* The comments at agent.py:1609 and 1632 place the deferred teardowns in a
finally block; they are in the body of the try, so errors are handled apart. A reset
during a connect is undone by the connect. The path of a fatal error leaves the budget
override. A result that arrives for a popped client raises `AttributeError`. Any exception of
a connect, not just of a resume, makes `query()` clear the session id, and a failed read of
the map counts as no row: both silently begin a new conversation. `cleanup_stale_session_map`
deletes by key what it selected by id, so a row saved between its SELECT and its DELETE goes
with the stale one.

*Project store.* The ROLLBACK of a refused transition discards another call's
uncommitted update, which still returns success; a failed INSERT or a cancel leaves
the transaction open, so every transition fails until a plain write commits; the cap of
tickets per sprint is checked in a statement before the insert; `pm_run_ticket` tries
backlog to in_progress, which `TICKET_TRANSITIONS` forbids; `check_budget` is read
before the spend it guards.

*Deploys.* `resolve_pending_deploys` runs at a start during which the result is still
`in_progress`, so records stay `triggered` until a later start; a rebuild-all records
no healthy commit and is not health-checked; the checkout a failed revert falls back to
deletes no file, although the comment of `/rollback` says "(including deletions)"; a watcher
that dies leaves `in_progress` behind and `deploy_bot` then refuses every deploy.

*Relay.* A DEAD client is replaced silently by the next `acquire`; the watchdog waits 3
seconds for a release that takes up to 5, so it never gets to kill.

*Access.* No grant has a `granted_by` that starts with "user:", so the branch
`skipped_admin` of harness.py:666 is never taken; the policies are read before the
assignments, so a check may be answered from a mixture no state of the tables ever was;
detection.py:72 and the seeds assign roles without an invalidation.

*Scheduler.* A run that crosses midnight marks the next day, whose run is skipped
(`overran`); a task that was disabled or deleted after its batch was chosen still
fires; deleted default tasks come back at the next start, and the days of defaults are
reset there although scheduler.py:434 says it "preserves user edits"; a file that is
torn when it is loaded reads as empty, and the next write, or the defaults of a
start, replace all tasks; a save that fails is logged and reported as done.

## 13. Not modelled

Of the message path: throttled cold groups, silent mode, slash commands, the
relay branch and onboarding input, which consume a message before it reaches the
queue; rows with corrupt JSON and exceptions of the dispatcher itself (the code
marks such rows failed); media, placeholders, wording; `requeue`, which has no
caller; the limit of 100 messages of an aggregation (task_queue.py:576: the rest is marked done
with them and not handed on); awaits between SELECTs that read one thing in two parts, of the
gather (task_queue.py:516, 523) and of the claim, which are one step; a task cancelled between
the SELECT and the UPDATE of its claim, which counts as claimed and not as cancelled; topics,
but for finding 3. Of the daemon: the JSONL tailer, own-write ranges, catch-up digests,
discovery of a new session, heartbeats, and the idle exit of the whole daemon.

Of the sessions: the gates of `process_incoming` before the pool, the
expiry after 365 days, the resource watchdog, two queries of one key (dispatch admits
one, except for topics), prices (a budget is a number of default caps). Of the relay
pool: re-pinning and quitting inside `acquire`, the turn listener, heartbeats, `/stop`, the
listing of daemons, cooldowns, the pid file of the machine. Of the project store: spend,
transition log, agent runs, orchestrator, dispatch lock, projects, deploy records, and the
SELECTs a reassignment begins with (they decide whether it is refused and which old sprint is
resynced). Of deploys: staging, the content of the gates (they pass or block), forced deploys. Of
access control: pattern matching, domains and scopes of execution, seed migrations, the
audit log. Of the configuration stores: batch writes, lazy loading, git commits. Of the
scheduler: edits of a task's hour or days, weekdays, minutes (an hour stands for the part of it after the task's minute),
prompt migrations. Other components: section 1 and `PROJECT.json`.

## 14. Plan

1. **`RelayStack`**: `RelayPool` and `RelayDaemon` over the ssh pipe; abstract
   specification: one caller, one stream, one terminal event per query.
2. **`ClientPool` with `TaskQueue`**: two tasks of one topic on one session key, and
   injection from triage.
3. **`TokenVault`** (two refreshes of one rotating token), **`Onboarding`** (a row read
   and written across awaits), **`DomainSync`**, **`BrowserPool`**.
4. For `TaskQueue`: lost updates of two concurrent merges, overlapping re-deliveries,
   pending rows after a restart, the cold-group branch of triage.
