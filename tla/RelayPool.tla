----------------------------- MODULE RelayPool -----------------------------
(***************************************************************************)
(* The bot's side of one relay chat: RelayClientPool and                   *)
(* RelayPersistentClient (src/bot/relay/pool.py) with the watchdog that    *)
(* kills and respawns daemons (src/bot/relay/watchdog.py).                 *)
(*                                                                         *)
(* Coroutines share a client object and interleave at their awaits:        *)
(*   - a query (a user's message): connect if needed, send, wait for the   *)
(*     answer, and on failure kill, back off and start again;              *)
(*   - a warm-up (_eager_respawn_one): connect only, within 20 s;          *)
(*   - a kick (_kick_one_chat, or a command): kill the daemon over SSH,    *)
(*     release the client from the pool;                                   *)
(*   - one reader per spawned process, which sets the client's state.      *)
(* Between two awaits a coroutine's statements are one step. A process is  *)
(* the ssh pair; its daemon's own behaviour is module RelayDaemon.         *)
(***************************************************************************)
EXTENDS Naturals, FiniteSets

CONSTANTS
  Queries,      \* messages of the chat's users
  Warmers,      \* respawns fired by the watchdog
  Kicks,        \* kicks by the watchdog and releases by commands
  MaxRetry,     \* Len(_RETRY_BACKOFF)
  MaxProcs,     \* bound: processes ever spawned; a later spawn fails
  MaxClients,   \* bound: client objects ever made
  MaxDeaths     \* bound: processes that die, or lose their reader, by themselves

Jobs == Queries \cup Warmers \cup Kicks
Nobody == "nobody"      \* the connect lock is free

ASSUME PoolAssumption ==
  /\ MaxRetry \in Nat /\ MaxProcs \in Nat /\ MaxClients \in Nat /\ MaxDeaths \in Nat
  /\ Queries \cap Warmers = {} /\ Queries \cap Kicks = {} /\ Warmers \cap Kicks = {}
  /\ Nobody \notin Jobs

Clients == 1..MaxClients
Procs == 1..MaxProcs
States == {"DISCONNECTED", "CONNECTING", "READY", "BUSY", "ERROR", "RETRY", "DEAD"}

VARIABLES
  pool,     \* _clients[chat]: a client or 0
  made,     \* clients made
  client,   \* client -> [state, proc, ready, retry, lock]; proc is also
            \* its reader, as both are set and cleared together
  spawned,  \* processes spawned
  proc,     \* process -> "none", "starting", "serving", "dead"
  reader,   \* process -> [st, on, of]: the reader task started with it
  job,      \* job -> [pc, of, kill, why]
  inbox,    \* query -> "off" (no queue), "none", "last" (an answer or an error)
  sent,     \* query -> the process that has its request, or 0
  deaths,   \* processes that died, or lost their reader, by themselves
  mishaps   \* ghost: what has gone wrong, see Mishaps

vars == <<pool, made, client, spawned, proc, reader, job, inbox, sent, deaths, mishaps>>

\* A reader that has ended, and the process it left alive and unread (or 0).
Left(p) == [st |-> "done", on |-> p, of |-> 0]
Ended == Left(0)
New == [state |-> "DISCONNECTED", proc |-> 0, ready |-> FALSE,
        retry |-> 0, lock |-> Nobody]

Init ==
  /\ pool = 0 /\ made = 0 /\ client = [c \in Clients |-> New]
  /\ spawned = 0 /\ proc = [p \in Procs |-> "none"]
  /\ reader = [p \in Procs |-> [st |-> "none", on |-> 0, of |-> 0]]
  /\ job = [j \in Jobs |-> [pc |-> "idle", of |-> 0, kill |-> 0, why |-> "none"]]
  /\ inbox = [q \in Queries |-> "off"]
  /\ sent = [q \in Queries |-> 0]
  /\ deaths = 0 /\ mishaps = {}

Live(p) == p # 0 /\ proc[p] \in {"starting", "serving"}
LeftUnread(p) == \E r \in Procs : reader[r] = Left(p)
Running(j) == job[j].pc \notin {"idle", "done"}
At(j, pc) == job[j].pc = pc
Goto(j, pc) == job' = [job EXCEPT ![j].pc = pc]
Over(j) == job' = [job EXCEPT ![j] = [pc |-> "done", of |-> 0, kill |-> 0, why |-> "none"]]
Of(j) == job[j].of
Unlocked(c) == [c EXCEPT !.lock = Nobody]

\* The steps after which the properties below are not promised, each
\* recorded when it happens:
\*   early      a connect is taken for good though the reader has ended
\*   clobbered  after an await, _force_kill cancels the reader, or forgets
\*              the process, that another coroutine has spawned meanwhile
\*   stale      an older process's reader, or a quit, marks the client
\*              DISCONNECTED though its process lives and is read
\*   cancelled  a warm-up is cancelled while it waits for "ready"
\*   index      a retry counts past the last of _RETRY_BACKOFF
\*   revived    a query's end overwrites a state another coroutine has set
\*   cut        a kick ends a query that is being answered
Mishaps == {"early", "clobbered", "stale", "cancelled", "index", "revived", "cut"}
Happens(m) ==
  \/ m = "early" /\ \E j \in Jobs :
       At(j, "ready") /\ client[Of(j)].ready /\ client'[Of(j)].lock = Nobody
         /\ (client[Of(j)].proc = 0 \/ reader[client[Of(j)].proc].st = "done")
  \/ m = "clobbered" /\ \E j \in Jobs, k \in Clients : LET p == client[k].proc IN
       /\ job[j].pc \in {"wait", "reader"} /\ job'[j] # job[j]
       /\ Live(p) /\ proc'[p] # "dead"
       /\ \/ client'[k].proc = 0
          \/ reader[p].st # "cancelled" /\ reader'[p].st = "cancelled"
  \/ m = "stale" /\ \E k \in Clients : LET p == client'[k].proc IN
       /\ client[k].state # "DISCONNECTED" /\ client'[k].state = "DISCONNECTED"
       /\ p # 0 /\ proc'[p] # "dead" /\ reader'[p].st = "reading"
  \/ m = "index" /\ \E q \in Queries :
       Running(q) /\ job'[q].pc = "done" /\ client'[Of(q)].state = "RETRY"
  \/ m = "revived" /\ \E q \in Queries :
       /\ At(q, "stream") /\ job'[q].pc = "done"
       /\ client[Of(q)].state \notin {"BUSY", "READY", "DISCONNECTED"}
  \/ m = "cut" /\ \E x \in Kicks, q \in Queries :
       /\ At(x, "kill") /\ job[x].why = "kick" /\ job'[x].pc # "kill"
       /\ At(q, "stream") /\ inbox[q] = "none"
Record == mishaps' = mishaps \cup {m \in Mishaps : Happens(m)}

----------------------------------------------------------------------------
(* Pieces of steps. Each says what becomes of the client record `c` and of *)
(* the job; a step that uses one leaves the rest to it.                    *)

\* After a successful connect: a warm-up is over; a query makes its queue,
\* marks the client busy and goes on to send.
Connected(j, k, c) ==
  IF j \in Queries
  THEN /\ client' = [client EXCEPT ![k] = [Unlocked(c) EXCEPT !.state = "BUSY"]]
       /\ inbox' = [inbox EXCEPT ![j] = "none"]
       /\ job' = [job EXCEPT ![j] = [@ EXCEPT !.pc = "send", !.of = k]]
       /\ UNCHANGED <<reader, proc>>
  ELSE /\ client' = [client EXCEPT ![k] = Unlocked(c)]
       /\ Over(j)
       /\ UNCHANGED <<reader, proc, inbox>>

\* The end of _force_kill and what its caller does without another await:
\* a quit is over; a connect attempt fails, for a warm-up with ERROR; a
\* query backs off, or gives up when the budget is spent or the daemon's
\* guard asked for authentication.
Final(q, k, c) ==
  /\ client' = [client EXCEPT ![k] = [c EXCEPT !.state = "DEAD"]]
  /\ Over(q)
BackOff(q, k, c) ==
  IF c.retry < MaxRetry
  THEN /\ client' = [client EXCEPT ![k] = [c EXCEPT !.state = "RETRY", !.retry = @ + 1]]
       /\ job' = [job EXCEPT ![q] = [pc |-> "backoff", of |-> k, kill |-> 0, why |-> "none"]]
  ELSE /\ client' = [client EXCEPT ![k] = [c EXCEPT !.state = "RETRY"]]
       /\ Over(q)     \* no such delay: IndexError
Ends(j, k, c) ==
  client' = [client EXCEPT ![k] = c] /\ Over(j)

Killed(j, k, old, why) ==
  LET c == [old EXCEPT !.proc = 0]
      failed == [Unlocked(c) EXCEPT !.state = "ERROR"]
  IN CASE why = "quit"  -> Ends(j, k, [c EXCEPT !.state = "DISCONNECTED"])
       [] why = "retry" -> BackOff(j, k, c)
       [] why = "spawn" /\ j \notin Queries -> Ends(j, k, failed)
       [] OTHER -> \/ Final(j, k, failed)            \* auth_expired or the budget
                   \/ c.retry < MaxRetry /\ BackOff(j, k, failed)

\* _force_kill from its second statement: cancel the client's reader, which
\* may be a newer one than the caller's process had, and wait for it.
KillReader(j, k, c, why) ==
  IF c.proc # 0 /\ reader[c.proc].st # "done"
  THEN /\ reader' = [reader EXCEPT ![c.proc].st = "cancelled"]
       /\ client' = [client EXCEPT ![k] = c]
       /\ job' = [job EXCEPT ![j] = [pc |-> "reader", of |-> k, kill |-> c.proc, why |-> why]]
  ELSE Killed(j, k, c, why) /\ UNCHANGED reader

\* _force_kill: kill the process and wait for its exit.
ForceKill(j, k, c, why) ==
  IF Live(c.proc)
  THEN /\ proc' = [proc EXCEPT ![c.proc] = "dead"]
       /\ client' = [client EXCEPT ![k] = c]
       /\ job' = [job EXCEPT ![j] = [pc |-> "wait", of |-> k, kill |-> 0, why |-> why]]
       /\ UNCHANGED reader
  ELSE UNCHANGED proc /\ KillReader(j, k, c, why)

\* _retry_and_query.
Retry(q, k, c) ==
  /\ inbox' = [inbox EXCEPT ![q] = "off"]
  /\ IF c.retry >= MaxRetry
     THEN Final(q, k, c) /\ UNCHANGED <<reader, proc>>
     ELSE ForceKill(q, k, c, "retry")

\* Mutant of ConnectFails: acquire() and release() instead of `async with`.
ConnectFailsLocked(j, k, c) ==
  IF j \in Queries
  THEN Retry(j, k, c)
  ELSE Ends(j, k, c) /\ UNCHANGED <<reader, proc, inbox>>
\* An exception of ensure_ready.
ConnectFails(j, k, c) ==
  IF j \in Queries
  THEN Retry(j, k, Unlocked(c))
  ELSE Ends(j, k, Unlocked(c)) /\ UNCHANGED <<reader, proc, inbox>>

\* ensure_ready up to its first await, with the lock just taken.
EnsureReady(j, k, c) ==
  CASE c.state \in {"READY", "BUSY"} -> Connected(j, k, c)
    [] c.state = "DEAD" -> ConnectFails(j, k, c)
    [] OTHER ->
         /\ client' = [client EXCEPT ![k] =
              [c EXCEPT !.state = "CONNECTING", !.ready = FALSE, !.lock = j]]
         /\ job' = [job EXCEPT ![j] = [@ EXCEPT !.pc = "create", !.of = k]]
         /\ UNCHANGED <<reader, proc, inbox>>

Enter(j, k) ==
  IF client[k].lock = Nobody
  THEN EnsureReady(j, k, client[k])
  ELSE /\ job' = [job EXCEPT ![j] = [pc |-> "lock", of |-> k, kill |-> 0, why |-> "waited"]]
       /\ UNCHANGED <<client, reader, proc, inbox>>

----------------------------------------------------------------------------
(* Queries and warm-ups. *)

\* RelayClientPool.acquire: a DEAD client is replaced.
Acquire(j) ==
  IF pool # 0 /\ client[pool].state # "DEAD"
  THEN UNCHANGED <<pool, made>> /\ Enter(j, pool)
  ELSE /\ made < MaxClients
       /\ made' = made + 1 /\ pool' = made + 1
       /\ Enter(j, made + 1)

Message(q) ==
  /\ At(q, "idle") /\ Acquire(q)
  /\ UNCHANGED <<spawned, sent, deaths>>
  /\ Record

\* The sweep looks at the client's state and fires the respawn.
Respawn(w) ==
  /\ At(w, "idle")
  /\ pool # 0 => client[pool].state \in {"DEAD", "ERROR", "DISCONNECTED"}
  /\ Goto(w, "fired")
  /\ UNCHANGED <<pool, made, client, spawned, proc, reader, inbox, sent, deaths, mishaps>>
WarmUp(w) ==
  /\ At(w, "fired") /\ Acquire(w)
  /\ UNCHANGED <<spawned, sent, deaths>>
  /\ Record

Locked(j) ==
  /\ At(j, "lock") /\ client[Of(j)].lock = Nobody
  /\ EnsureReady(j, Of(j), client[Of(j)])
  /\ UNCHANGED <<pool, made, spawned, sent, deaths>>
  /\ Record

\* create_subprocess_exec returns and the reader task starts.
Create(j) ==
  /\ At(j, "create") /\ spawned < MaxProcs
  /\ spawned' = spawned + 1
  /\ proc' = [proc EXCEPT ![spawned'] = "starting"]
  /\ reader' = [reader EXCEPT ![spawned'] = [st |-> "reading", on |-> spawned', of |-> Of(j)]]
  /\ client' = [client EXCEPT ![Of(j)].proc = spawned']
  /\ Goto(j, "ready")
  /\ UNCHANGED <<pool, made, inbox, sent, deaths, mishaps>>

CreateFails(j) ==
  /\ At(j, "create") /\ spawned = MaxProcs
  /\ ConnectFails(j, Of(j), [client[Of(j)] EXCEPT !.state = "ERROR"])
  /\ UNCHANGED <<pool, made, spawned, sent, deaths>>
  /\ Record

ReadySeen(j) ==
  /\ At(j, "ready") /\ client[Of(j)].ready
  /\ Connected(j, Of(j), [client[Of(j)] EXCEPT !.retry = 0])
  /\ UNCHANGED <<pool, made, spawned, sent, deaths>>
  /\ Record

\* Mutant of ReadyTimeout: no _force_kill before the exception.
ReadyTimeoutKeeps(j) ==
  /\ At(j, "ready") /\ ~client[Of(j)].ready
  /\ ConnectFails(j, Of(j), [client[Of(j)] EXCEPT !.state = "ERROR", !.proc = 0])
  /\ UNCHANGED <<pool, made, spawned, sent, deaths>>
  /\ Record

\* No "ready" within _READY_TIMEOUT_S: kill, with the lock held.
ReadyTimeout(j) ==
  /\ At(j, "ready") /\ ~client[Of(j)].ready
  /\ ForceKill(j, Of(j), client[Of(j)], "spawn")
  /\ UNCHANGED <<pool, made, spawned, inbox, sent, deaths>>
  /\ Record

\* The rest of _force_kill: the process has exited (or 3 s have passed),
\* then the reader has ended.
Exited(j) ==
  /\ At(j, "wait")
  /\ KillReader(j, Of(j), client[Of(j)], job[j].why)
  /\ UNCHANGED <<pool, made, spawned, proc, inbox, sent, deaths>>
  /\ Record
ReaderEnded(j) ==
  /\ At(j, "reader") /\ reader[job[j].kill].st = "done"
  /\ Killed(j, Of(j), client[Of(j)], job[j].why)
  /\ UNCHANGED <<pool, made, spawned, proc, reader, inbox, sent, deaths>>
  /\ Record

\* wait_for(ensure_ready(), 20) expires: the warm-up is cancelled where it
\* waits and only the lock is given back. A connect of its own takes 19 s at
\* most, so this needs a wait for the lock.
WarmUpTimeout(w) ==
  /\ \/ At(w, "lock") /\ Ends(w, Of(w), client[Of(w)]) /\ UNCHANGED mishaps
     \/ /\ At(w, "ready") /\ job[w].why = "waited"
        /\ Ends(w, Of(w), Unlocked(client[Of(w)]))
        /\ mishaps' = mishaps \cup {"cancelled"}
  /\ UNCHANGED <<pool, made, spawned, proc, reader, inbox, sent, deaths>>

\* Writing to a process that is gone raises or, before the pipe breaks, is
\* lost; without a process the assertion fails.
Send(q) ==
  /\ At(q, "send")
  /\ LET c == client[Of(q)]
     IN \/ /\ c.proc # 0
           /\ sent' = [sent EXCEPT ![q] = c.proc]
           /\ Goto(q, "stream")
           /\ UNCHANGED <<client, reader, proc, inbox>>
        \/ /\ ~Live(c.proc)
           /\ Retry(q, Of(q), [c EXCEPT !.state = "ERROR"])
           /\ UNCHANGED sent
  /\ UNCHANGED <<pool, made, spawned, deaths>>
  /\ Record

\* The consumer gets the last entry, or the query times out; the finally
\* clause then makes the client READY whatever it has become meanwhile,
\* unless it is DISCONNECTED.
\* Mutant of Finish: the finally clause only drops the queue.
FinishBusy(q) ==
  /\ inbox' = [inbox EXCEPT ![q] = "off"]
  /\ Over(q)
  /\ UNCHANGED <<pool, made, client, spawned, proc, reader, sent, deaths>>
  /\ Record
Finish(q) ==
  /\ inbox' = [inbox EXCEPT ![q] = "off"]
  /\ client' = [client EXCEPT ![Of(q)].state =
                  IF @ = "DISCONNECTED" THEN @ ELSE "READY"]
  /\ Over(q)
  /\ UNCHANGED <<pool, made, spawned, proc, reader, sent, deaths>>
  /\ Record
Answered(q) == At(q, "stream") /\ inbox[q] = "last" /\ Finish(q)
IdleTimeout(q) == At(q, "stream") /\ inbox[q] = "none" /\ Finish(q)

\* After the backoff query() starts again, on the same client.
Again(q) ==
  /\ At(q, "backoff")
  /\ IF client[Of(q)].state = "DEAD"
     THEN /\ Over(q)
          /\ UNCHANGED <<client, reader, proc, inbox>>
     ELSE Enter(q, Of(q))
  /\ UNCHANGED <<pool, made, spawned, sent, deaths>>
  /\ Record

----------------------------------------------------------------------------
(* The reader of process r. *)

Waiting(k) == {q \in Queries : Of(q) = k /\ inbox[q] # "off"}
Put(box, q) == [box EXCEPT ![q] = IF @ = "none" THEN "last" ELSE @]

\* After a message the reader reads from the client's process of that
\* moment: with none, or with one another reader waits on, it fails.
LostPipe(r) ==
  LET p == client[reader[r].of].proc
  IN  p = 0 \/ \E s \in Procs \ {r} : reader[s].st = "reading" /\ reader[s].on = p

\* The finally clause: an error for every query of the client, whichever
\* process has it, and DISCONNECTED.
Broadcast(box, k) ==
  [q \in Queries |-> IF q \in Waiting(k) THEN "last" ELSE box[q]]
\* Mutant of Down: the reader leaves the state alone.
DownSilently(c) == c
Down(c) == IF c.state = "DEAD" THEN c ELSE [c EXCEPT !.state = "DISCONNECTED"]

\* Goes on reading or fails; `c` and `box` are what the message made of
\* the client and the queues.
ReadOn(r, c, box) ==
  LET k == reader[r].of
  IN IF LostPipe(r)
     THEN /\ reader' = [reader EXCEPT ![r] = Ended]
          /\ client' = [client EXCEPT ![k] = Down(c)]
          /\ inbox' = Broadcast(box, k)
     ELSE /\ reader' = [reader EXCEPT ![r].on = client[k].proc]
          /\ client' = [client EXCEPT ![k] = c]
          /\ inbox' = box

ReadReady(r) ==
  LET k == reader[r].of  p == reader[r].on
  IN /\ reader[r].st = "reading" /\ proc[p] = "starting"
     /\ proc' = [proc EXCEPT ![p] = "serving"]
     /\ ReadOn(r, [client[k] EXCEPT !.state = "READY", !.ready = TRUE], inbox)
     /\ UNCHANGED <<pool, made, spawned, job, sent, deaths>>
     /\ Record

ReadAnswer(r) ==
  LET k == reader[r].of  p == reader[r].on
  IN /\ reader[r].st = "reading" /\ proc[p] = "serving"
     /\ \E q \in Queries :
          /\ sent[q] = p
          /\ sent' = [sent EXCEPT ![q] = 0]
          /\ ReadOn(r, client[k], IF Of(q) = k THEN Put(inbox, q) ELSE inbox)
     /\ UNCHANGED <<pool, made, spawned, proc, job, deaths>>
     /\ Record

\* End of file or cancellation.
ReaderDies(r) ==
  LET k == reader[r].of
  IN /\ \/ reader[r].st = "cancelled"
        \/ reader[r].st = "reading" /\ proc[reader[r].on] = "dead"
     /\ reader' = [reader EXCEPT ![r] = Ended]
     /\ client' = [client EXCEPT ![k] = Down(@)]
     /\ inbox' = Broadcast(inbox, k)
     /\ UNCHANGED <<pool, made, spawned, proc, job, sent, deaths>>
     /\ Record

\* A line over _STREAM_LIMIT, an "exit" message or an exception ends the loop while the
\* process runs: the client keeps it until the next spawn, which does not kill it.
ReaderLeaves(r) ==
  LET k == reader[r].of  p == reader[r].on
  IN /\ reader[r].st = "reading" /\ Live(p) /\ deaths < MaxDeaths
     /\ deaths' = deaths + 1
     /\ reader' = [reader EXCEPT ![r] = Left(p)]
     /\ client' = [client EXCEPT ![k] = Down(@)]
     /\ inbox' = Broadcast(inbox, k)
     /\ UNCHANGED <<pool, made, spawned, proc, job, sent>>
     /\ Record

\* The network, the Mac or the daemon ends the process.
Dies(p) ==
  /\ Live(p) /\ deaths < MaxDeaths
  /\ deaths' = deaths + 1
  /\ proc' = [proc EXCEPT ![p] = "dead"]
  /\ UNCHANGED <<pool, made, client, spawned, reader, job, inbox, sent, mishaps>>

----------------------------------------------------------------------------
(* A kick by the watchdog, or a release by a command. *)

Busy == {q \in Queries : Running(q)}

\* Skipped while a query of the chat runs; else the SSH kill is awaited.
Kick(x) ==
  /\ At(x, "idle") /\ Busy = {}
  /\ job' = [job EXCEPT ![x] = [@ EXCEPT !.pc = "kill", !.why = "kick"]]
  /\ UNCHANGED <<pool, made, client, spawned, proc, reader, inbox, sent, deaths, mishaps>>

\* /relay-kill, an account switch or an MCP tool: no look at running queries.
Command(x) ==
  /\ At(x, "idle") /\ pool # 0
  /\ job' = [job EXCEPT ![x] = [@ EXCEPT !.pc = "kill", !.why = "quit"]]
  /\ UNCHANGED <<pool, made, client, spawned, proc, reader, inbox, sent, deaths, mishaps>>

\* The kill took (the chat's daemon and its ssh are gone) or found no
\* daemon; either way the client is released: out of the pool and, if it has
\* a process, asked to quit.
KickKills(x) ==
  /\ At(x, "kill")
  /\ \E took \in BOOLEAN :
       proc' = [p \in Procs |-> IF took /\ Live(p) THEN "dead" ELSE proc[p]]
  /\ pool' = 0
  /\ IF pool = 0 \/ client[pool].proc = 0
     THEN /\ client' = IF pool = 0 THEN client
                       ELSE [client EXCEPT ![pool].state = "DISCONNECTED"]
          /\ Over(x)
     ELSE /\ job' = [job EXCEPT ![x] = [@ EXCEPT !.pc = "quit", !.of = pool, !.kill = client[pool].proc]]
          /\ UNCHANGED client
  /\ UNCHANGED <<made, spawned, reader, inbox, sent, deaths>>
  /\ Record

\* The SSH command times out or fails: the watchdog releases nothing.
KickFails(x) ==
  /\ At(x, "kill") /\ job[x].why = "kick" /\ Over(x)
  /\ UNCHANGED <<pool, made, client, spawned, proc, reader, inbox, sent, deaths, mishaps>>

\* quit_graceful: the process exits in time, or is killed, or the watchdog's
\* 3 s for the release are over before quit_graceful's own 5 s: the quit is
\* cancelled and the client, out of the pool, keeps its process.
QuitDone(x) ==
  /\ At(x, "quit")
  /\ Ends(x, Of(x), [client[Of(x)] EXCEPT !.state = "DISCONNECTED"])
  /\ proc' = [proc EXCEPT ![job[x].kill] = "dead"]
  /\ UNCHANGED <<pool, made, spawned, reader, inbox, sent, deaths>>
  /\ Record
QuitTimeout(x) ==
  /\ At(x, "quit") /\ job[x].why = "quit" /\ Live(job[x].kill)
  /\ ForceKill(x, Of(x), client[Of(x)], "quit")
  /\ UNCHANGED <<pool, made, spawned, inbox, sent, deaths>>
  /\ Record

QuitCancelled(x) ==
  /\ At(x, "quit") /\ job[x].why = "kick" /\ Live(job[x].kill)
  /\ Over(x)
  /\ UNCHANGED <<pool, made, client, spawned, proc, reader, inbox, sent, deaths, mishaps>>

----------------------------------------------------------------------------
JobStep(j) ==
  \/ Locked(j) \/ Create(j) \/ CreateFails(j) \/ ReadySeen(j) \/ ReadyTimeout(j)
  \/ Exited(j) \/ ReaderEnded(j)
QueryStep(q) == JobStep(q) \/ Send(q) \/ Answered(q) \/ IdleTimeout(q) \/ Again(q)
WarmerStep(w) == WarmUp(w) \/ JobStep(w) \/ WarmUpTimeout(w)
KickStep(x) ==
  KickKills(x) \/ KickFails(x) \/ QuitDone(x) \/ QuitTimeout(x) \/ QuitCancelled(x)
  \/ Exited(x) \/ ReaderEnded(x)
ReaderStep(r) == ReadReady(r) \/ ReadAnswer(r) \/ ReaderDies(r) \/ ReaderLeaves(r)

Next ==
  \/ \E q \in Queries : Message(q) \/ QueryStep(q)
  \/ \E w \in Warmers : Respawn(w) \/ WarmerStep(w)
  \/ \E x \in Kicks : Kick(x) \/ Command(x) \/ KickStep(x)
  \/ \E r \in Procs : ReaderStep(r) \/ Dies(r)

Spec == Init /\ [][Next]_vars

----------------------------------------------------------------------------
(* The client's fields, the jobs and the queues have their types; the       *)
(* retry count never passes the delays there are.                          *)
TypeOK ==
  /\ pool \in 0..made /\ made \in 0..MaxClients /\ spawned \in 0..MaxProcs
  /\ client \in [Clients -> [state : States, proc : 0..spawned, ready : BOOLEAN,
                            retry : 0..MaxRetry, lock : Jobs \cup {Nobody}]]
  /\ proc \in [Procs -> {"none", "starting", "serving", "dead"}]
  /\ reader \in [Procs -> [st : {"none", "reading", "cancelled", "done"},
                           on : 0..spawned, of : 0..made]]
  /\ job \in [Jobs -> [pc : {"idle", "fired", "lock", "create", "ready", "wait", "reader",
                             "send", "stream", "backoff", "kill", "quit", "done"},
                       of : 0..made, kill : 0..spawned,
                       why : {"none", "waited", "spawn", "retry", "kick", "quit"}]]
  /\ inbox \in [Queries -> {"off", "none", "last"}] /\ sent \in [Queries -> 0..spawned]
  /\ deaths \in 0..MaxDeaths /\ mishaps \subseteq Mishaps

Without(S) == mishaps \cap S = {}

(* No coroutine waits for something nobody will do: the connect lock is    *)
(* held by a coroutine that is itself connecting on that client (so a      *)
(* failed, killed or cancelled connect has given it back), and a reader    *)
(* that _force_kill waits for has been cancelled.                          *)
WaitsEnd ==
  \A j \in Jobs :
    /\ At(j, "lock") /\ client[Of(j)].lock # Nobody =>
         LET h == client[Of(j)].lock
         IN  Of(h) = Of(j) /\ job[h].pc \in {"create", "ready", "wait", "reader"}
    /\ At(j, "reader") => reader[job[j].kill].st \in {"cancelled", "done"}

(* A query that waits for its answer has a reader that will still tell it  *)
(* of the daemon's end, so it never sits out the idle timeout of 45        *)
(* minutes on a connection that is gone. The steps that break this are the *)
(* named mishaps and no others.                                            *)
StreamHasReader ==
  Without({"early", "cancelled", "revived"}) =>
    \A q \in Queries : At(q, "stream") /\ inbox[q] = "none" =>
      \E r \in Procs :
        reader[r].of = Of(q) /\ reader[r].st \in {"reading", "cancelled"}

(* Every running ssh process is the process of a client, so release, retry *)
(* and shutdown can end it: no daemon is left behind that holds the chat's *)
(* pid file and makes every later spawn fail. Short of the mishaps, only a *)
(* process whose reader gave up on it is lost, when the next one comes.    *)
NoOrphan ==
  Without({"clobbered", "stale", "cancelled"}) =>
    \A p \in Procs : Live(p) => LeftUnread(p) \/ \E k \in Clients : client[k].proc = p

(* The same without that exception.                                        *)
NoneLost ==
  mishaps = {} => \A p \in Procs : Live(p) => \E k \in Clients : client[k].proc = p

(* Between messages the state of the pool's client is what the watchdog's  *)
(* sweep takes it for: BUSY, CONNECTING and RETRY, which it skips as being *)
(* handled, mean that somebody handles it, and READY means that the        *)
(* process is being read.                                                  *)
IdleStateIsTrue ==
  (\A j \in Jobs : ~Running(j)) /\ pool # 0 =>
    LET c == client[pool]
    IN /\ Without({"index", "cancelled"}) => c.state \notin {"BUSY", "CONNECTING", "RETRY"}
       /\ Without({"early", "clobbered", "stale", "cancelled", "revived"})
            /\ c.state = "READY" => c.proc # 0 /\ reader[c.proc].st = "reading"

(* What the comment of _kick_one_chat says: a kick never ends a query that *)
(* is being answered.                                                      *)
KickSparesQueries == "cut" \notin mishaps
=============================================================================
