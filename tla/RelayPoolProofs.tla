--------------------------- MODULE RelayPoolProofs ---------------------------
(* Proofs about RelayPool, for any number of messages, respawns, kicks,     *)
(* clients and processes, after any history of mishaps.                     *)
EXTENDS RelayPool, TLAPS

-----------------------------------------------------------------------------
(* The invariant                                                           *)

Active == {"reading", "cancelled"}      \* a reader that has not ended

\* Where a coroutine can be, by what it is, and what it remembers there.
JobOK(j, m) ==
  /\ j \in Queries =>
       /\ m.pc \in {"idle", "lock", "create", "ready", "wait", "reader", "send", "stream",
                   "backoff", "done"}
       /\ m.pc \in {"wait", "reader"} => m.why \in {"spawn", "retry"}
  /\ j \in Warmers =>
       /\ m.pc \in {"idle", "fired", "lock", "create", "ready", "wait", "reader", "done"}
       /\ m.pc \in {"wait", "reader"} => m.why = "spawn"
  /\ j \in Kicks =>
       /\ m.pc \in {"idle", "kill", "quit", "wait", "reader", "done"}
       /\ m.pc \in {"wait", "reader"} => m.why = "quit"
  /\ m.pc \notin {"idle", "fired", "kill", "done"} => m.of # 0
  /\ m.pc \in {"quit", "reader"} => m.kill # 0
JobsOK ==
  /\ \A j \in Jobs : JobOK(j, job[j])
  /\ \A q \in Queries : inbox[q] # "off" => job[q].pc \in {"send", "stream"}

\* Processes and readers come in pairs; no two readers wait on one pipe; the reader of a
\* client's process is the client's.
TableOK ==
  /\ \A p \in Procs : proc[p] = "none" <=> p > spawned
  /\ \A p \in Procs : reader[p].st = "none" <=> p > spawned
  /\ \A r \in Procs : reader[r].st \in Active => reader[r].on # 0 /\ reader[r].of # 0
  /\ \A r, s \in Procs :
       reader[r].st = "reading" /\ reader[s].st = "reading" /\ reader[r].on = reader[s].on => r = s
  /\ \A k \in Clients :
       client[k].proc # 0 /\ reader[client[k].proc].st \in Active => reader[client[k].proc].of = k

\* The connect lock is held by the coroutine that connects, and by no other.
Connecting(j) ==
  \/ job[j].pc \in {"create", "ready"}
  \/ job[j].pc \in {"wait", "reader"} /\ job[j].why = "spawn"
LockInv == \A k \in Clients, j \in Jobs : client[k].lock = j <=> Of(j) = k /\ Connecting(j)

\* A reader somebody waits for is cancelled, and one that is cancelled is waited for.
CancelInv ==
  /\ \A j \in Jobs : At(j, "reader") => reader[job[j].kill].st \in {"cancelled", "done"}
  /\ \A r \in Procs :
       reader[r].st = "cancelled" =>
         \E j \in Jobs : At(j, "reader") /\ job[j].kill = r /\ Of(j) = reader[r].of

Shape == TypeOK /\ JobsOK /\ TableOK /\ LockInv /\ CancelInv

\* A running process whose reader has not left it is a client's, is read by its own reader, and
\* the client's state says so unless the connect is still under way; nobody reads one left.
Attended(p) == Live(p) /\ ~LeftUnread(p)
DaemonInv ==
  /\ \A p \in Procs : Attended(p) => \E k \in Clients : client[k].proc = p
  /\ \A k \in Clients :
       Attended(client[k].proc) =>
         /\ reader[client[k].proc].st = "reading" /\ reader[client[k].proc].on = client[k].proc
         /\ client[k].lock = Nobody \/ client[k].ready => client[k].state \in {"READY", "BUSY"}
  /\ \A j \in Jobs : At(j, "create") => ~Attended(client[Of(j)].proc) /\ ~client[Of(j)].ready
  /\ \A r \in Procs : reader[r].st = "reading" => ~LeftUnread(reader[r].on)

\* A client that looks connected, and a query that waits, have a reader.
HasReader(k) == \E r \in Procs : reader[r].of = k /\ reader[r].st \in Active
StreamInv ==
  /\ \A k \in Clients :
       client[k].lock = Nobody /\ client[k].state \in {"READY", "BUSY"} => HasReader(k)
  /\ \A q \in Queries : inbox[q] = "none" => HasReader(Of(q))

\* The states the watchdog leaves alone have somebody at work on them.
BusyAt(k) ==
  /\ Without({"cancelled"}) /\ client[k].state = "CONNECTING" =>
       client[k].lock # Nobody /\ ~client[k].ready
  /\ client[k].state = "BUSY" => \E q \in Queries : Of(q) = k /\ job[q].pc \in {"send", "stream"}
  /\ Without({"index"}) /\ client[k].state = "RETRY" =>
       \E q \in Queries : Of(q) = k /\ job[q].pc \in {"lock", "backoff"}
BusyInv == \A k \in Clients : BusyAt(k)

\* A client that looks connected is read, or somebody is about to change its state.
ReadyAt(k) ==
  client[k].state \in {"READY", "BUSY"} =>
    \/ client[k].proc # 0 /\ reader[client[k].proc].st = "reading"
    \/ client[k].lock # Nobody
    \/ \E j \in Jobs : Of(j) = k /\ job[j].pc \in {"wait", "reader"}
ReadyInv == \A k \in Clients : ReadyAt(k)

PoolInv ==
  /\ Shape /\ BusyInv
  /\ Without({"clobbered", "stale", "cancelled"}) => DaemonInv
  /\ Without({"early", "cancelled", "revived"}) => StreamInv
  /\ Without({"early", "clobbered", "stale", "cancelled", "revived"}) => ReadyInv

-----------------------------------------------------------------------------
(* What a step does, by kind. The pieces of RelayPool's steps come together *)
(* in six kinds of a coroutine's step on a client; each says only what the  *)
(* invariant needs.                                                         *)

Finished == [pc |-> "done", of |-> 0, kill |-> 0, why |-> "none"]

\* A coroutine's step touches itself and one client.
Frame(j, k) ==
  /\ \A i \in Clients : i # k => client'[i] = client[i]
  /\ \A i \in Jobs : i # j => job'[i] = job[i]
  /\ spawned' = spawned /\ made <= made' /\ Record
  /\ job[j].pc \notin {"idle", "fired", "kill", "done"} => Of(j) = k

\* Its queue is gone, if it has one; and the lock, if it holds it.
DropsQueue(j) == inbox' = IF j \in Queries THEN [inbox EXCEPT ![j] = "off"] ELSE inbox
Unlocks(j, k) == client'[k].lock = IF client[k].lock = j THEN Nobody ELSE client[k].lock
Enters(j) == j \notin Kicks /\ job[j].pc \in {"idle", "fired", "lock", "backoff"}

\* Waits for the lock.
Queues(j, k) ==
  /\ Frame(j, k) /\ Enters(j) /\ job[j].pc # "lock" /\ client[k].lock # Nobody
  /\ client' = client /\ job'[j].pc = "lock" /\ job'[j].of = k
  /\ UNCHANGED <<proc, reader, inbox>>

\* Takes the lock and begins to connect.
Takes(j, k) ==
  /\ Frame(j, k) /\ Enters(j)
  /\ client[k].lock = Nobody /\ client[k].state \notin {"READY", "BUSY", "DEAD"}
  /\ client'[k] = [client[k] EXCEPT !.state = "CONNECTING", !.ready = FALSE, !.lock = j]
  /\ job'[j].pc = "create" /\ job'[j].of = k
  /\ UNCHANGED <<proc, reader, inbox>>

\* Finds the client connected, or has connected it.
Joins(j, k) ==
  /\ Frame(j, k) /\ j \notin Kicks
  /\ \/ Enters(j) /\ client[k].lock = Nobody /\ client[k].state \in {"READY", "BUSY"}
     \/ At(j, "ready") /\ client[k].ready
  /\ client'[k].proc = client[k].proc /\ client'[k].ready = client[k].ready
  /\ client'[k].lock = Nobody
  /\ \/ /\ j \in Queries /\ client'[k].state = "BUSY" /\ job'[j].pc = "send" /\ job'[j].of = k
        /\ inbox' = [inbox EXCEPT ![j] = "none"]
     \/ /\ j \in Warmers /\ client'[k].state = client[k].state /\ job'[j] = Finished
        /\ inbox' = inbox
  /\ UNCHANGED <<proc, reader>>

\* Gives up, backs off, or has quit.
Stops(j, k) ==
  /\ Frame(j, k) /\ DropsQueue(j) /\ Unlocks(j, k)
  /\ job[j].pc \notin {"kill", "stream", "done"}
  /\ At(j, "reader") => reader[job[j].kill].st = "done"
  /\ client'[k].proc \in {client[k].proc, 0} /\ client'[k].ready = client[k].ready
  /\ client'[k].state \in {"ERROR", "DEAD", "RETRY", "DISCONNECTED"}
  /\ \/ job'[j] = Finished /\ (client'[k].state = "RETRY" => j \in Queries /\ Running(j))
     \/ j \in Queries /\ job'[j].pc = "backoff" /\ job'[j].of = k
  /\ Live(client[k].proc) =>
       \/ job[j].pc \in {"wait", "reader"} /\ client'[k].proc = 0
       \/ client[k].state = "DEAD" /\ client[k].lock = Nobody /\ client' = client
       \/ At(j, "create")
  /\ UNCHANGED <<proc, reader>>

\* Waits within _force_kill: for the process it has killed, or the reader it has cancelled.
Parks(j, k) ==
  /\ Frame(j, k) /\ DropsQueue(j)
  /\ job[j].pc \notin {"reader", "kill", "stream", "done"} /\ job'[j].of = k
  /\ client'[k].proc = client[k].proc /\ client'[k].ready = client[k].ready
  /\ \/ client'[k].state = "ERROR"
     \/ client'[k].state = client[k].state /\ client[k].state = "DEAD"
     \/ /\ client'[k].state = client[k].state /\ client'[k].lock = client[k].lock
        /\ job[j].pc \in {"ready", "quit", "wait"}
  /\ IF job'[j].why = "spawn" THEN client'[k].lock = j /\ client[k].lock = j ELSE Unlocks(j, k)
  /\ j \in Queries => job'[j].why \in {"spawn", "retry"}
  /\ j \in Warmers => job'[j].why = "spawn"
  /\ j \in Kicks => job'[j].why = "quit"
Kills(j, k) ==
  /\ Parks(j, k) /\ Live(client[k].proc) /\ job'[j].pc = "wait"
  /\ proc' = [proc EXCEPT ![client[k].proc] = "dead"] /\ reader' = reader
Cancels(j, k) ==
  /\ Parks(j, k) /\ client[k].proc # 0 /\ reader[client[k].proc].st # "done"
  /\ ~Live(client[k].proc) \/ At(j, "wait")
  /\ job'[j].pc = "reader" /\ job'[j].kill = client[k].proc
  /\ reader' = [reader EXCEPT ![client[k].proc].st = "cancelled"] /\ proc' = proc

\* A coroutine goes on alone.
Drifts(j) ==
  /\ UNCHANGED <<pool, made, client, spawned, proc, reader, inbox, deaths>>
  /\ \A i \in Jobs : i # j => job'[i] = job[i]
  /\ \/ j \in Queries /\ At(j, "send") /\ job'[j] = [job[j] EXCEPT !.pc = "stream"]
     \/ j \in Queries /\ At(j, "backoff") /\ client[Of(j)].state = "DEAD" /\ job'[j] = Finished
     \/ j \in Warmers /\ At(j, "idle") /\ job'[j] = [job[j] EXCEPT !.pc = "fired"]
     \/ j \in Warmers /\ At(j, "lock") /\ job'[j] = Finished
     \/ j \in Kicks /\ At(j, "idle") /\ job'[j].pc = "kill"
     \/ j \in Kicks /\ job[j].pc \in {"kill", "quit"} /\ job'[j] = Finished

\* A reader goes on reading from the process its client has now.
Serves(r) == \* it has read "ready"
  /\ proc[reader[r].on] = "starting" /\ proc' = [proc EXCEPT ![reader[r].on] = "serving"]
Reads(r) ==
  LET k == reader[r].of
  IN /\ UNCHANGED <<pool, made, spawned, job, deaths>>
     /\ reader[r].st = "reading" /\ Live(reader[r].on) /\ ~LostPipe(r)
     /\ reader' = [reader EXCEPT ![r].on = client[k].proc]
     /\ \A i \in Clients : i # k => client'[i] = client[i]
     /\ \/ proc' = proc /\ client' = client
        \/ Serves(r) /\ client'[k] = [client[k] EXCEPT !.state = "READY", !.ready = TRUE]
     /\ \A q \in Queries : (inbox'[q] = "none" => inbox[q] = "none") /\ (inbox'[q] # "off" => inbox[q] # "off")

\* A reader ends, and leaves its process alive if that is not what ended it.
Leaving(r, p) ==
  \/ p = 0 /\ reader[r].st = "cancelled"
  \/ p = 0 /\ reader[r].st = "reading" /\ (proc[reader[r].on] = "dead" \/ LostPipe(r))
  \/ p = reader[r].on /\ reader[r].st = "reading" /\ Live(p)
Fails(r) ==
  LET k == reader[r].of
  IN /\ UNCHANGED <<pool, made, spawned, job>> /\ Record
     /\ reader[r].st \in Active
     /\ \E p \in 0..spawned : Leaving(r, p) /\ reader' = [reader EXCEPT ![r] = Left(p)]
     /\ \A i \in Clients : i # k => client'[i] = client[i]
     /\ client'[k].proc = client[k].proc /\ client'[k].lock = client[k].lock
     /\ \/ client'[k].state = "DISCONNECTED"
        \/ client'[k].state = "DEAD" /\ client[k].state = "DEAD"
     /\ \/ proc' = proc /\ client'[k].ready = client[k].ready
        \/ Serves(r) /\ reader[r].st = "reading" /\ LostPipe(r)
     /\ \A q \in Queries : /\ inbox'[q] = "none" => inbox[q] = "none" /\ Of(q) # k
                           /\ inbox'[q] # "off" => inbox[q] # "off"

-----------------------------------------------------------------------------
(* The pieces                                                              *)

ClientType == [state : States, proc : 0..spawned, ready : BOOLEAN,
               retry : 0..MaxRetry, lock : Jobs \cup {Nobody}]
Places == {"idle", "fired", "lock", "create", "ready", "wait", "reader", "send", "stream",
           "backoff", "kill", "quit", "done"}
Whys == {"none", "waited", "spawn", "retry", "kick", "quit"}
JobType == [pc : Places, of : 0..made, kill : 0..spawned, why : Whys]
ReaderType == [st : {"none", "reading", "cancelled", "done"}, on : 0..spawned, of : 0..made]
ProcType == {"none", "starting", "serving", "dead"}

\* TypeOK in the words used here.
LEMMA Types ==
  TypeOK <=>
    /\ pool \in 0..made /\ made \in 0..MaxClients /\ spawned \in 0..MaxProcs
    /\ client \in [Clients -> ClientType] /\ proc \in [Procs -> ProcType]
    /\ reader \in [Procs -> ReaderType] /\ job \in [Jobs -> JobType]
    /\ inbox \in [Queries -> {"off", "none", "last"}] /\ sent \in [Queries -> 0..spawned]
    /\ deaths \in 0..MaxDeaths /\ mishaps \subseteq Mishaps
BY DEF TypeOK, ClientType, JobType, Places, Whys, ReaderType, ProcType

\* The same after a step.
LEMMA TypesThen ==
  TypeOK' <=>
    /\ pool' \in 0..made' /\ made' \in 0..MaxClients /\ spawned' \in 0..MaxProcs
    /\ client' \in [Clients -> ClientType'] /\ proc' \in [Procs -> ProcType]
    /\ reader' \in [Procs -> ReaderType'] /\ job' \in [Jobs -> JobType']
    /\ inbox' \in [Queries -> {"off", "none", "last"}] /\ sent' \in [Queries -> 0..spawned']
    /\ deaths' \in 0..MaxDeaths /\ mishaps' \subseteq Mishaps
BY DEF TypeOK, ClientType, JobType, Places, Whys, ReaderType, ProcType

\* The tables that a coroutine's step changes, before it.
Tables ==
  /\ client \in [Clients -> ClientType] /\ proc \in [Procs -> ProcType]
  /\ reader \in [Procs -> ReaderType] /\ job \in [Jobs -> JobType']
  /\ made' \in Nat /\ spawned \in Nat /\ spawned' = spawned

\* The same after it, and what it has left alone.
Moved(j, k) ==
  /\ client' \in [Clients -> ClientType] /\ proc' \in [Procs -> ProcType]
  /\ reader' \in [Procs -> ReaderType] /\ job' \in [Jobs -> JobType']
  /\ \A i \in Clients : i # k => client'[i] = client[i]
  /\ \A i \in Jobs : i # j => job'[i] = job[i]

\* A client with another value in one of its fields.
LEMMA Fields ==
  ASSUME NEW c \in ClientType
  PROVE  /\ \A s \in States : LET n == [c EXCEPT !.state = s] IN
              /\ n \in ClientType /\ n.state = s /\ n.proc = c.proc /\ n.ready = c.ready
              /\ n.retry = c.retry /\ n.lock = c.lock
         /\ \A p \in 0..spawned : LET n == [c EXCEPT !.proc = p] IN
              /\ n \in ClientType /\ n.proc = p /\ n.state = c.state /\ n.ready = c.ready
              /\ n.retry = c.retry /\ n.lock = c.lock
         /\ \A l \in Jobs \cup {Nobody} : LET n == [c EXCEPT !.lock = l] IN
              /\ n \in ClientType /\ n.lock = l /\ n.state = c.state /\ n.ready = c.ready
              /\ n.retry = c.retry /\ n.proc = c.proc
         /\ \A a \in 0..MaxRetry : LET n == [c EXCEPT !.retry = a] IN
              /\ n \in ClientType /\ n.retry = a /\ n.state = c.state /\ n.ready = c.ready
              /\ n.lock = c.lock /\ n.proc = c.proc
<1> USE DEF ClientType
<1>1. \A s \in States : LET n == [c EXCEPT !.state = s] IN
        /\ n \in ClientType /\ n.state = s /\ n.proc = c.proc /\ n.ready = c.ready
        /\ n.retry = c.retry /\ n.lock = c.lock
  OBVIOUS
<1>2. \A p \in 0..spawned : LET n == [c EXCEPT !.proc = p] IN
        /\ n \in ClientType /\ n.proc = p /\ n.state = c.state /\ n.ready = c.ready
        /\ n.retry = c.retry /\ n.lock = c.lock
  OBVIOUS
<1>3. \A l \in Jobs \cup {Nobody} : LET n == [c EXCEPT !.lock = l] IN
        /\ n \in ClientType /\ n.lock = l /\ n.state = c.state /\ n.ready = c.ready
        /\ n.retry = c.retry /\ n.proc = c.proc
  OBVIOUS
<1>4. \A a \in 0..MaxRetry : LET n == [c EXCEPT !.retry = a] IN
        /\ n \in ClientType /\ n.retry = a /\ n.state = c.state /\ n.ready = c.ready
        /\ n.lock = c.lock /\ n.proc = c.proc
  OBVIOUS
<1> QED BY <1>1, <1>2, <1>3, <1>4

Dead(c) == [c EXCEPT !.state = "DEAD"]

\* The last statements of a coroutine that gives up.
LEMMA FinalIs ==
  ASSUME Tables, NEW j \in Jobs, NEW k \in Clients, k <= made', NEW b \in ClientType, Final(j, k, b),
         UNCHANGED <<proc, reader>>
  PROVE  /\ Moved(j, k) /\ job'[j] = Finished /\ client'[k] = Dead(b)
         /\ client'[k].state = "DEAD"
         /\ client'[k].proc = b.proc /\ client'[k].ready = b.ready /\ client'[k].lock = b.lock
<1> DEFINE n == Dead(b)
<1>1. n \in ClientType /\ n.state = "DEAD" /\ n.proc = b.proc /\ n.ready = b.ready /\ n.lock = b.lock
  BY Fields DEF States, Dead
<1>2. client' = [client EXCEPT ![k] = n] /\ job' = [job EXCEPT ![j] = Finished]
  BY DEF Final, Over, Finished, Dead
<1>3. Finished \in JobType'
  BY DEF Tables, JobType, Places, Whys, Finished
<1> HIDE DEF n
<1>4. Moved(j, k) /\ client'[k] = n /\ job'[j] = Finished
  BY <1>1, <1>2, <1>3 DEF Tables, Moved
<1> QED BY <1>1, <1>4 DEF n

\* The ways out of _force_kill: settled; or waiting, for the process or for the reader.
Settled(j, k, c, why) ==
  /\ Moved(j, k) /\ UNCHANGED <<proc, reader>>
  /\ client'[k].proc = 0 /\ client'[k].ready = c.ready
  /\ client'[k].lock = IF why = "spawn" THEN Nobody ELSE c.lock
  /\ \/ client'[k].state \in {"ERROR", "DEAD", "DISCONNECTED"} /\ job'[j] = Finished
     \/ /\ client'[k].state = "RETRY" /\ job'[j] = Finished /\ j \in Queries
        /\ ~(c.retry < MaxRetry)
     \/ client'[k].state = "RETRY" /\ j \in Queries /\ job'[j].pc = "backoff" /\ job'[j].of = k
Waits(j, k, c, why) ==
  /\ Moved(j, k) /\ client'[k] = c /\ Live(c.proc)
  /\ proc' = [proc EXCEPT ![c.proc] = "dead"] /\ reader' = reader
  /\ job'[j] = [pc |-> "wait", of |-> k, kill |-> 0, why |-> why]
WaitsForReader(j, k, c, why) ==
  /\ Moved(j, k) /\ client'[k] = c /\ c.proc # 0 /\ reader[c.proc].st # "done"
  /\ reader' = [reader EXCEPT ![c.proc].st = "cancelled"] /\ proc' = proc
  /\ job'[j] = [pc |-> "reader", of |-> k, kill |-> c.proc, why |-> why]

\* Killed: the client without its process, and the coroutine done or in its back-off.
LEMMA KilledIs ==
  ASSUME Tables, NEW j \in Jobs, NEW k \in Clients, k <= made', NEW c \in ClientType,
         NEW why \in {"spawn", "retry", "quit"}, why = "retry" => j \in Queries,
         Killed(j, k, c, why), UNCHANGED <<proc, reader>>
  PROVE  Settled(j, k, c, why)
<1> USE DEF Settled
<1> DEFINE d == [c EXCEPT !.proc = 0]
           open == [d EXCEPT !.lock = Nobody]
           failed == [open EXCEPT !.state = "ERROR"]
<1>m. MaxRetry \in Nat /\ spawned \in Nat /\ {"ERROR", "DEAD", "DISCONNECTED", "RETRY"} \subseteq States
  BY PoolAssumption DEF Tables, States
<1>1. /\ d \in ClientType /\ d.proc = 0 /\ d.ready = c.ready /\ d.lock = c.lock
      /\ d.retry = c.retry
  BY <1>m, Fields
<1>2. failed = [Unlocked(d) EXCEPT !.state = "ERROR"]
  BY DEF Unlocked
<1> HIDE DEF d
<1>o. /\ open \in ClientType /\ open.proc = 0 /\ open.ready = c.ready /\ open.lock = Nobody
      /\ open.retry = c.retry
  BY <1>1, Fields
<1> HIDE DEF open
<1>f. /\ failed \in ClientType /\ failed.proc = 0 /\ failed.ready = c.ready /\ failed.lock = Nobody
      /\ failed.state = "ERROR" /\ failed.retry = c.retry
  BY <1>m, <1>o, Fields
<1> HIDE DEF failed
<1>3. Finished \in JobType' /\ k \in 0..made'
      /\ [pc |-> "backoff", of |-> k, kill |-> 0, why |-> "none"] \in JobType'
  BY DEF Tables, JobType, Places, Whys, Finished, Clients
<1>4. ASSUME NEW n \in ClientType, NEW m \in JobType', client' = [client EXCEPT ![k] = n],
             job' = [job EXCEPT ![j] = m]
      PROVE  Moved(j, k) /\ client'[k] = n /\ job'[j] = m
  BY <1>4 DEF Tables, Moved
<1>5. ASSUME NEW b \in ClientType, Final(j, k, b)
      PROVE  /\ Moved(j, k) /\ job'[j] = Finished /\ client'[k].state = "DEAD"
             /\ client'[k].proc = b.proc /\ client'[k].ready = b.ready /\ client'[k].lock = b.lock
  BY <1>5, FinalIs
<1>6. ASSUME NEW b \in ClientType, BackOff(j, k, b)
      PROVE  /\ Moved(j, k) /\ client'[k].state = "RETRY"
             /\ client'[k].proc = b.proc /\ client'[k].ready = b.ready /\ client'[k].lock = b.lock
             /\ \/ job'[j] = Finished /\ ~(b.retry < MaxRetry)
                \/ job'[j].pc = "backoff" /\ job'[j].of = k
  <2> DEFINE same == [b EXCEPT !.state = "RETRY"]
             less == [same EXCEPT !.retry = b.retry + 1]
  <2>1. /\ same \in ClientType /\ same.state = "RETRY" /\ same.proc = b.proc
        /\ same.ready = b.ready /\ same.lock = b.lock
    BY <1>m, Fields
  <2>l. [b EXCEPT !.state = "RETRY", !.retry = @ + 1] = less
    BY DEF ClientType
  <2> HIDE DEF same
  <2>k. b.retry < MaxRetry =>
          /\ less \in ClientType /\ less.state = "RETRY" /\ less.proc = b.proc
          /\ less.ready = b.ready /\ less.lock = b.lock
    <3>1. b.retry \in 0..MaxRetry
      BY DEF ClientType
    <3>2. b.retry < MaxRetry => b.retry + 1 \in 0..MaxRetry
      BY <1>m, <3>1
    <3> QED BY <2>1, <3>2, Fields
  <2> HIDE DEF less
  <2>2. CASE b.retry < MaxRetry
    <3>1. /\ client' = [client EXCEPT ![k] = less]
          /\ job' = [job EXCEPT ![j] = [pc |-> "backoff", of |-> k, kill |-> 0, why |-> "none"]]
      BY <1>6, <2>2, <2>l DEF BackOff
    <3>2. /\ Moved(j, k) /\ client'[k] = less
          /\ job'[j] = [pc |-> "backoff", of |-> k, kill |-> 0, why |-> "none"]
      BY <1>3, <1>4, <2>k, <2>2, <3>1
    <3> QED BY <3>2, <2>k, <2>2
  <2>3. CASE ~(b.retry < MaxRetry)
    <3>1. client' = [client EXCEPT ![k] = same] /\ job' = [job EXCEPT ![j] = Finished]
      BY <1>6, <2>3 DEF BackOff, Over, Finished, same
    <3>2. Moved(j, k) /\ client'[k] = same /\ job'[j] = Finished
      BY <1>3, <1>4, <2>1, <3>1
    <3> QED BY <3>2, <2>1, <2>3
  <2> QED BY <2>2, <2>3
<1>7. ASSUME NEW n \in ClientType, Ends(j, k, n)
      PROVE  Moved(j, k) /\ client'[k] = n /\ job'[j] = Finished
  <2>1. client' = [client EXCEPT ![k] = n] /\ job' = [job EXCEPT ![j] = Finished]
    BY <1>7 DEF Ends, Over, Finished
  <2> QED BY <1>3, <1>4, <2>1
<1>8. CASE why = "quit"
  <2> DEFINE n == [d EXCEPT !.state = "DISCONNECTED"]
  <2>1. n \in ClientType /\ n.proc = 0 /\ n.ready = c.ready /\ n.lock = c.lock /\ n.state = "DISCONNECTED"
    BY <1>1, <1>m, Fields
  <2>2. Ends(j, k, n)
    BY <1>8 DEF Killed, d
  <2> QED BY <1>7, <1>8, <2>1, <2>2
<1>9. CASE why = "retry"
  <2>1. BackOff(j, k, d)
    BY <1>9 DEF Killed, d
  <2> QED BY <1>1, <1>6, <1>9, <2>1
<1>10. CASE why = "spawn" /\ j \notin Queries
  <2>1. Ends(j, k, failed)
    BY <1>2, <1>10 DEF Killed, d
  <2> QED BY <1>f, <1>7, <1>10, <2>1
<1>11. CASE why = "spawn" /\ j \in Queries
  <2>1. Final(j, k, failed) \/ BackOff(j, k, failed)
    BY <1>2, <1>11 DEF Killed, d
  <2>2. CASE Final(j, k, failed)
    <3>1. /\ Moved(j, k) /\ job'[j] = Finished /\ client'[k].state = "DEAD"
          /\ client'[k].proc = failed.proc /\ client'[k].ready = failed.ready
          /\ client'[k].lock = failed.lock
      BY <1>f, <1>5, <2>2
    <3> QED BY <1>f, <1>11, <3>1
  <2>3. CASE BackOff(j, k, failed)
    BY <1>f, <1>6, <1>11, <2>3
  <2> QED BY <2>1, <2>2, <2>3
<1> QED BY <1>8, <1>9, <1>10, <1>11

\* _force_kill from its second statement.
LEMMA KillReaderIs ==
  ASSUME Tables, NEW j \in Jobs, NEW k \in Clients, k <= made', NEW c \in ClientType,
         NEW why \in {"spawn", "retry", "quit"}, why = "retry" => j \in Queries,
         spawned <= MaxProcs, KillReader(j, k, c, why), proc' = proc
  PROVE  Settled(j, k, c, why) \/ WaitsForReader(j, k, c, why)
<1>1. CASE c.proc # 0 /\ reader[c.proc].st # "done"
  <2> DEFINE m == [pc |-> "reader", of |-> k, kill |-> c.proc, why |-> why]
             r == [reader[c.proc] EXCEPT !.st = "cancelled"]
  <2>1. c.proc \in Procs /\ c.proc \in 0..spawned
    BY <1>1, PoolAssumption DEF ClientType, Procs, Tables
  <2>2. m \in JobType'
    BY <2>1 DEF JobType, Places, Whys, Tables, Clients
  <2>3. r \in ReaderType
    BY <2>1 DEF Tables, ReaderType
  <2>4. /\ reader' = [reader EXCEPT ![c.proc].st = "cancelled"]
        /\ client' = [client EXCEPT ![k] = c] /\ job' = [job EXCEPT ![j] = m]
    BY <1>1 DEF KillReader
  <2>5. reader' = [reader EXCEPT ![c.proc] = r]
    BY <2>1, <2>4 DEF Tables
  <2> HIDE DEF r, m
  <2>6. Moved(j, k) /\ client'[k] = c /\ job'[j] = m
    BY <2>1, <2>2, <2>3, <2>4, <2>5 DEF Tables, Moved
  <2> QED BY <1>1, <2>4, <2>6 DEF WaitsForReader, m
<1>2. CASE ~(c.proc # 0 /\ reader[c.proc].st # "done")
  <2>1. Killed(j, k, c, why) /\ reader' = reader
    BY <1>2 DEF KillReader
  <2> QED BY <2>1, KilledIs
<1> QED BY <1>1, <1>2

\* _force_kill.
LEMMA ForceKillIs ==
  ASSUME Tables, NEW j \in Jobs, NEW k \in Clients, k <= made', NEW c \in ClientType,
         NEW why \in {"spawn", "retry", "quit"}, why = "retry" => j \in Queries,
         spawned <= MaxProcs, ForceKill(j, k, c, why)
  PROVE  \/ Waits(j, k, c, why)
         \/ ~Live(c.proc) /\ (Settled(j, k, c, why) \/ WaitsForReader(j, k, c, why))
<1>1. CASE Live(c.proc)
  <2> DEFINE m == [pc |-> "wait", of |-> k, kill |-> 0, why |-> why]
  <2>1. c.proc \in Procs
    BY <1>1, PoolAssumption DEF ClientType, Procs, Tables, Live
  <2>2. m \in JobType'
    BY <2>1 DEF JobType, Places, Whys, Tables, Clients
  <2>3. /\ proc' = [proc EXCEPT ![c.proc] = "dead"] /\ reader' = reader
        /\ client' = [client EXCEPT ![k] = c] /\ job' = [job EXCEPT ![j] = m]
    BY <1>1 DEF ForceKill
  <2> HIDE DEF m
  <2>4. Moved(j, k) /\ client'[k] = c /\ job'[j] = m
    BY <2>1, <2>2, <2>3 DEF Tables, Moved, ProcType
  <2> QED BY <1>1, <2>3, <2>4 DEF Waits, m
<1>2. CASE ~Live(c.proc)
  <2>1. KillReader(j, k, c, why) /\ proc' = proc
    BY <1>2 DEF ForceKill
  <2> QED BY <1>2, <2>1, KillReaderIs
<1> QED BY <1>1, <1>2

-----------------------------------------------------------------------------
(* Steps of a coroutine on a client                                        *)

\* What all of them share.
OnClient(j, k) ==
  /\ j \in Jobs /\ k \in Clients /\ k <= made' /\ made' \in made..MaxClients /\ pool' \in 0..made'
  /\ UNCHANGED <<spawned, sent, deaths>> /\ Record
  /\ job[j].pc \notin {"idle", "fired", "kill", "done"} => Of(j) = k

\* The tables of a coroutine on a client, from their types.
LEMMA OnClientTables ==
  ASSUME TypeOK, NEW j, NEW k, OnClient(j, k)
  PROVE  /\ Tables /\ spawned <= MaxProcs /\ client[k] \in ClientType
         /\ made \in Nat /\ made' \in Nat /\ made <= made' /\ k \in 1..made'
<1>1. /\ pool \in 0..made /\ made \in 0..MaxClients /\ spawned \in 0..MaxProcs
      /\ client \in [Clients -> ClientType] /\ proc \in [Procs -> ProcType]
      /\ reader \in [Procs -> ReaderType] /\ job \in [Jobs -> JobType]
  BY Types
<1>2. made \in Nat /\ made' \in Nat /\ made <= made' /\ spawned \in Nat /\ spawned' = spawned
  BY <1>1, PoolAssumption DEF OnClient
<1>3. JobType \subseteq JobType'
  BY <1>2 DEF JobType
<1>4. job \in [Jobs -> JobType']
  BY <1>1, <1>3
<1> QED BY <1>1, <1>2, <1>4, PoolAssumption DEF Tables, OnClient, Clients

\* The types after such a step.
LEMMA MovedTypes ==
  ASSUME TypeOK, NEW j, NEW k, OnClient(j, k), Moved(j, k),
         inbox' \in [Queries -> {"off", "none", "last"}]
  PROVE  TypeOK' /\ Frame(j, k)
<1>1. /\ spawned \in 0..MaxProcs /\ sent \in [Queries -> 0..spawned] /\ deaths \in 0..MaxDeaths
      /\ mishaps \subseteq Mishaps
  BY Types
<1>2. made \in Nat /\ made' \in Nat /\ made <= made' /\ made' \in 0..MaxClients
  BY OnClientTables, PoolAssumption DEF OnClient
<1>3. ReaderType \subseteq ReaderType' /\ ClientType' = ClientType
  BY <1>2 DEF ReaderType, ClientType, OnClient
<1>4. mishaps' \subseteq Mishaps
  BY <1>1 DEF OnClient, Record
<1>5. reader' \in [Procs -> ReaderType'] /\ client' \in [Clients -> ClientType']
  BY <1>3 DEF Moved
<1>6. TypeOK'
  BY <1>1, <1>2, <1>4, <1>5, TypesThen DEF Moved, OnClient
<1> QED BY <1>2, <1>6 DEF Frame, Moved, OnClient

\* A client about to be killed: only its state and its lock may have been touched.
Prepared(j, k, c, why) ==
  /\ c \in ClientType /\ c.proc = client[k].proc /\ c.ready = client[k].ready
  /\ IF why = "spawn" THEN c.lock = j /\ client[k].lock = j
     ELSE c.lock = IF client[k].lock = j THEN Nobody ELSE client[k].lock
  /\ job[j].pc \notin {"kill", "stream", "done"}
  /\ Running(j) \/ c.retry < MaxRetry
  /\ why = "retry" => j \in Queries
  /\ why \in {"spawn", "retry", "quit"}
  /\ j \in Queries => why \in {"spawn", "retry"}
  /\ j \in Warmers => why = "spawn"
  /\ j \in Kicks => why = "quit"
Touched(j, k, c) ==
  \/ c.state = "ERROR"
  \/ c.state = client[k].state /\ client[k].state = "DEAD"
  \/ c.state = client[k].state /\ c.lock = client[k].lock /\ job[j].pc \in {"ready", "quit", "wait"}

\* _force_kill that is over at once is a stop.
LEMMA SettledStops ==
  ASSUME NEW j, NEW k, NEW c, NEW why, Prepared(j, k, c, why), Frame(j, k), DropsQueue(j),
         Settled(j, k, c, why), Live(client[k].proc) => job[j].pc \in {"wait", "reader"},
         At(j, "reader") => reader[job[j].kill].st = "done"
  PROVE  Stops(j, k)
<1>1. Unlocks(j, k)
  BY DEF Settled, Prepared, Unlocks
<1>2. \/ job'[j] = Finished /\ (client'[k].state = "RETRY" => j \in Queries /\ Running(j))
      \/ j \in Queries /\ job'[j].pc = "backoff" /\ job'[j].of = k
  BY DEF Settled, Prepared
<1>3. /\ client'[k].proc = 0 /\ client'[k].ready = client[k].ready /\ UNCHANGED <<proc, reader>>
      /\ client'[k].state \in {"ERROR", "DEAD", "RETRY", "DISCONNECTED"}
      /\ job[j].pc \notin {"kill", "stream", "done"}
  BY DEF Settled, Prepared
<1> QED BY <1>1, <1>2, <1>3 DEF Stops

\* _force_kill of a running process waits for its exit.
LEMMA WaitsKills ==
  ASSUME NEW j, NEW k, NEW c, NEW why, Prepared(j, k, c, why), Touched(j, k, c), Frame(j, k),
         DropsQueue(j), Waits(j, k, c, why), ~At(j, "reader")
  PROVE  Kills(j, k)
<1>1. /\ client'[k] = c /\ job'[j] = [pc |-> "wait", of |-> k, kill |-> 0, why |-> why]
      /\ Live(client[k].proc) /\ reader' = reader
      /\ proc' = [proc EXCEPT ![client[k].proc] = "dead"]
  BY DEF Waits, Prepared
<1>2. Parks(j, k)
  BY <1>1 DEF Prepared, Touched, Parks, Unlocks, At
<1> QED BY <1>1, <1>2 DEF Kills

\* _force_kill without a running process waits for the reader.
LEMMA WaitsCancels ==
  ASSUME NEW j, NEW k, NEW c, NEW why, Prepared(j, k, c, why), Touched(j, k, c), Frame(j, k),
         DropsQueue(j), WaitsForReader(j, k, c, why), ~At(j, "reader"),
         ~Live(c.proc) \/ At(j, "wait")
  PROVE  Cancels(j, k)
<1>1. /\ client'[k] = c /\ job'[j] = [pc |-> "reader", of |-> k, kill |-> c.proc, why |-> why]
      /\ c.proc # 0 /\ c.proc = client[k].proc /\ reader[c.proc].st # "done" /\ proc' = proc
      /\ reader' = [reader EXCEPT ![c.proc].st = "cancelled"]
  BY DEF WaitsForReader, Prepared
<1>2. Parks(j, k)
  BY <1>1 DEF Prepared, Touched, Parks, Unlocks, At
<1> QED BY <1>1, <1>2 DEF Cancels

Leaves(j, k) == Stops(j, k) \/ Kills(j, k) \/ Cancels(j, k)

\* DropsQueue keeps the queues' type.
LEMMA DropTypes ==
  ASSUME TypeOK, NEW j, DropsQueue(j) PROVE inbox' \in [Queries -> {"off", "none", "last"}]
BY Types DEF DropsQueue

\* _force_kill.
LEMMA ForceKillStep ==
  ASSUME TypeOK, NEW j, NEW k, OnClient(j, k), NEW c, NEW why, Prepared(j, k, c, why),
         Touched(j, k, c), DropsQueue(j), ForceKill(j, k, c, why), job[j].pc \notin {"wait", "reader"}
  PROVE  TypeOK' /\ Leaves(j, k)
<1>1. /\ Tables /\ spawned <= MaxProcs /\ j \in Jobs /\ k \in Clients /\ k <= made' /\ c \in ClientType
      /\ c.proc = client[k].proc
  BY OnClientTables DEF OnClient, Prepared
<1>2. \/ Waits(j, k, c, why)
      \/ ~Live(c.proc) /\ (Settled(j, k, c, why) \/ WaitsForReader(j, k, c, why))
  BY <1>1, ForceKillIs DEF Prepared
<1>3. Moved(j, k)
  BY <1>2 DEF Waits, Settled, WaitsForReader
<1>4. TypeOK' /\ Frame(j, k)
  BY <1>3, MovedTypes, DropTypes
<1>5. CASE Waits(j, k, c, why)
  BY <1>4, <1>5, WaitsKills DEF Leaves, At
<1>6. CASE ~Live(c.proc) /\ Settled(j, k, c, why)
  BY <1>1, <1>4, <1>6, SettledStops DEF Leaves, At
<1>7. CASE ~Live(c.proc) /\ WaitsForReader(j, k, c, why)
  BY <1>4, <1>7, WaitsCancels DEF Leaves, At
<1> QED BY <1>2, <1>4, <1>5, <1>6, <1>7

\* _retry_and_query.
LEMMA RetryStep ==
  ASSUME TypeOK, NEW q \in Queries, NEW k, OnClient(q, k), NEW c, c \in ClientType,
         c.proc = client[k].proc, c.ready = client[k].ready,
         c.lock = IF client[k].lock = q THEN Nobody ELSE client[k].lock, Touched(q, k, c),
         job[q].pc \notin {"kill", "stream", "done", "wait", "reader", "ready"},
         Live(client[k].proc) =>
           At(q, "create") \/ (client[k].state = "DEAD" /\ client[k].lock = Nobody /\ c = client[k]),
         Retry(q, k, c)
  PROVE  TypeOK' /\ Leaves(q, k)
<1>1. /\ Tables /\ spawned <= MaxProcs /\ q \in Jobs /\ k \in Clients /\ k <= made'
      /\ client[k] \in ClientType
  BY OnClientTables DEF OnClient
<1>2. DropsQueue(q) /\ q \notin Warmers /\ q \notin Kicks
  BY PoolAssumption DEF Retry, DropsQueue
<1>r. c.retry \in Nat /\ MaxRetry \in Nat
  BY PoolAssumption DEF ClientType
<1>3. CASE c.retry >= MaxRetry
  <2>1. Final(q, k, c) /\ UNCHANGED <<reader, proc>>
    BY <1>3 DEF Retry
  <2>2. /\ Moved(q, k) /\ job'[q] = Finished /\ client'[k] = Dead(c)
        /\ client'[k].state = "DEAD"
        /\ client'[k].proc = c.proc /\ client'[k].ready = c.ready /\ client'[k].lock = c.lock
    BY <1>1, <2>1, FinalIs
  <2>3. TypeOK' /\ Frame(q, k)
    BY <2>2, <1>2, MovedTypes, DropTypes
  <2>4. Live(client[k].proc) => At(q, "create") \/ client' = client
    <3>1. SUFFICES ASSUME Live(client[k].proc), ~At(q, "create") PROVE client' = client
      OBVIOUS
    <3>2. client'[k] = client[k]
      BY <3>1, <2>2 DEF ClientType, Dead
    <3> QED BY <1>1, <2>2, <3>2 DEF Moved, Tables
  <2>5. Unlocks(q, k)
    BY <2>2 DEF Unlocks
  <2> QED BY <1>2, <2>1, <2>2, <2>3, <2>4, <2>5 DEF Leaves, Stops, At
<1>4. CASE ~(c.retry >= MaxRetry)
  <2>1. ForceKill(q, k, c, "retry")
    BY <1>4 DEF Retry
  <2>2. Prepared(q, k, c, "retry")
    BY <1>2, <1>4, <1>r DEF Prepared
  <2> QED BY <1>2, <2>1, <2>2, ForceKillStep
<1> QED BY <1>3, <1>4

\* ensure_ready has succeeded.
LEMMA ConnectedStep ==
  ASSUME TypeOK, NEW j \in Queries \cup Warmers, NEW k, OnClient(j, k), NEW c \in ClientType,
         c.proc = client[k].proc, c.ready = client[k].ready, c.state = client[k].state,
         \/ Enters(j) /\ client[k].lock = Nobody /\ client[k].state \in {"READY", "BUSY"}
         \/ At(j, "ready") /\ client[k].ready,
         Connected(j, k, c)
  PROVE  TypeOK' /\ Joins(j, k)
<1>1. /\ Tables /\ j \in Jobs /\ k \in Clients /\ k \in 1..made' /\ job[j] \in JobType'
      /\ inbox \in [Queries -> {"off", "none", "last"}] /\ j \notin Kicks /\ UNCHANGED <<proc, reader>>
  BY OnClientTables, Types, PoolAssumption DEF Tables, Jobs, Connected, OnClient
<1> DEFINE d == [c EXCEPT !.lock = Nobody]
           busy == [d EXCEPT !.state = "BUSY"]
<1>2. Unlocked(c) = d
  BY DEF Unlocked
<1>3. /\ d \in ClientType /\ d.proc = c.proc /\ d.ready = c.ready /\ d.lock = Nobody
      /\ d.state = c.state
  BY Fields
<1> HIDE DEF d
<1>4. /\ busy \in ClientType /\ busy.proc = c.proc /\ busy.ready = c.ready /\ busy.lock = Nobody
      /\ busy.state = "BUSY"
  BY <1>3, Fields DEF States
<1> HIDE DEF busy
<1>5. CASE j \in Queries
  <2> DEFINE m == [job[j] EXCEPT !.pc = "send", !.of = k]
  <2>1. m \in JobType' /\ m.pc = "send" /\ m.of = k
    <3>1. k \in 0..made'
      BY <1>1 DEF Tables
    <3> QED BY <1>1, <3>1 DEF JobType, Places
  <2>2. /\ client' = [client EXCEPT ![k] = busy] /\ inbox' = [inbox EXCEPT ![j] = "none"]
        /\ job' = [job EXCEPT ![j] = m]
    BY <1>2, <1>5 DEF Connected, busy
  <2> HIDE DEF m
  <2>3. Moved(j, k) /\ client'[k] = busy /\ job'[j] = m
    BY <1>1, <1>4, <2>1, <2>2 DEF Tables, Moved
  <2>4. inbox' \in [Queries -> {"off", "none", "last"}]
    BY <1>1, <1>5, <2>2
  <2>5. TypeOK' /\ Frame(j, k)
    BY <2>3, <2>4, MovedTypes
  <2> QED BY <1>1, <1>4, <1>5, <2>1, <2>2, <2>3, <2>5 DEF Joins
<1>6. CASE j \notin Queries
  <2>1. Finished \in JobType'
    BY <1>1 DEF JobType, Places, Whys, Finished, Tables
  <2>2. client' = [client EXCEPT ![k] = d] /\ inbox' = inbox /\ job' = [job EXCEPT ![j] = Finished]
    BY <1>2, <1>6 DEF Connected, Over, Finished
  <2>3. Moved(j, k) /\ client'[k] = d /\ job'[j] = Finished
    BY <1>1, <1>3, <2>1, <2>2 DEF Tables, Moved
  <2>5. TypeOK' /\ Frame(j, k)
    BY <1>1, <2>2, <2>3, MovedTypes
  <2> QED BY <1>1, <1>3, <1>6, <2>2, <2>3, <2>5 DEF Joins
<1> QED BY <1>5, <1>6

\* ensure_ready has failed.
LEMMA ConnectFailsStep ==
  ASSUME TypeOK, JobsOK, NEW j \in Queries \cup Warmers, NEW k, OnClient(j, k), NEW c \in ClientType,
         c.proc = client[k].proc, c.ready = client[k].ready, client[k].lock \in {j, Nobody},
         c.state = "ERROR" \/ (c.state = "DEAD" /\ client[k].state = "DEAD"),
         job[j].pc \notin {"kill", "stream", "done", "wait", "reader", "ready"},
         Live(client[k].proc) =>
           At(j, "create") \/ (client[k].state = "DEAD" /\ client[k].lock = Nobody /\ c = client[k]),
         ConnectFails(j, k, c)
  PROVE  TypeOK' /\ Leaves(j, k)
<1>1. /\ Tables /\ j \in Jobs /\ k \in Clients /\ k <= made' /\ client[k] \in ClientType
  BY OnClientTables DEF OnClient, Jobs
<1> DEFINE d == [c EXCEPT !.lock = Nobody]
<1>2. Unlocked(c) = d
  BY DEF Unlocked
<1>3. /\ d \in ClientType /\ d.proc = c.proc /\ d.ready = c.ready /\ d.lock = Nobody
      /\ d.state = c.state
  BY Fields
<1>4. Live(client[k].proc) =>
        At(j, "create") \/ (client[k].state = "DEAD" /\ client[k].lock = Nobody /\ d = client[k])
  BY <1>1 DEF ClientType
<1> HIDE DEF d
<1>5. CASE j \in Queries
  <2>1. Retry(j, k, d)
    BY <1>2, <1>5 DEF ConnectFails
  <2>2. d.lock = IF client[k].lock = j THEN Nobody ELSE client[k].lock
    BY <1>3
  <2>3. Touched(j, k, d)
    BY <1>3 DEF Touched
  <2> QED BY <1>3, <1>4, <1>5, <2>1, <2>2, <2>3, RetryStep
<1>6. CASE j \notin Queries
  <2>1. Finished \in JobType'
    BY <1>1 DEF JobType, Places, Whys, Finished, Tables
  <2>2. /\ client' = [client EXCEPT ![k] = d] /\ inbox' = inbox /\ job' = [job EXCEPT ![j] = Finished]
        /\ UNCHANGED <<reader, proc>>
    BY <1>2, <1>6 DEF ConnectFails, Ends, Over, Finished
  <2>3. Moved(j, k) /\ client'[k] = d /\ job'[j] = Finished
    BY <1>1, <1>3, <2>1, <2>2 DEF Tables, Moved
  <2>4. DropsQueue(j)
    BY <1>6, <2>2 DEF DropsQueue
  <2>5. TypeOK' /\ Frame(j, k)
    BY <2>3, <2>4, MovedTypes, DropTypes
  <2>6. Live(client[k].proc) =>
          At(j, "create") \/ (client[k].state = "DEAD" /\ client[k].lock = Nobody /\ client' = client)
    BY <1>1, <1>4, <2>2 DEF Tables
  <2>7. Unlocks(j, k)
    BY <1>3, <2>3 DEF Unlocks
  <2>8. Stops(j, k)
    BY <1>3, <2>2, <2>3, <2>4, <2>5, <2>6, <2>7 DEF Stops, At
  <2> QED BY <2>5, <2>8 DEF Leaves
<1> QED BY <1>5, <1>6

Acts(j, k) == Queues(j, k) \/ Takes(j, k) \/ Joins(j, k) \/ Leaves(j, k)

\* ensure_ready with the lock just taken.
LEMMA EnsureReadyStep ==
  ASSUME TypeOK, JobsOK, NEW j \in Queries \cup Warmers, NEW k, OnClient(j, k), Enters(j),
         client[k].lock = Nobody, EnsureReady(j, k, client[k])
  PROVE  TypeOK' /\ Acts(j, k)
<1>1. /\ Tables /\ j \in Jobs /\ k \in Clients /\ k \in 1..made' /\ client[k] \in ClientType
      /\ job[j] \in JobType' /\ inbox \in [Queries -> {"off", "none", "last"}] /\ j \notin Kicks
  BY OnClientTables, Types, PoolAssumption DEF Tables, Jobs, OnClient
<1>2. CASE client[k].state \in {"READY", "BUSY"}
  <2>1. Connected(j, k, client[k])
    BY <1>2 DEF EnsureReady
  <2> QED BY <1>1, <1>2, <2>1, ConnectedStep DEF Acts
<1>3. CASE client[k].state = "DEAD"
  <2>1. ConnectFails(j, k, client[k])
    BY <1>3 DEF EnsureReady
  <2>2. job[j].pc \notin {"kill", "stream", "done", "wait", "reader", "ready"}
    BY DEF Enters
  <2> QED BY <1>1, <1>3, <2>1, <2>2, ConnectFailsStep DEF Acts
<1>4. CASE client[k].state \notin {"READY", "BUSY", "DEAD"}
  <2> DEFINE n == [client[k] EXCEPT !.state = "CONNECTING", !.ready = FALSE, !.lock = j]
             m == [job[j] EXCEPT !.pc = "create", !.of = k]
  <2>1. n \in ClientType
    BY <1>1 DEF ClientType, States
  <2>j. m \in JobType' /\ m.pc = "create" /\ m.of = k
    <3>1. k \in 0..made'
      BY <1>1 DEF Tables
    <3> QED BY <1>1, <3>1 DEF JobType, Places
  <2>2. /\ client' = [client EXCEPT ![k] = n] /\ job' = [job EXCEPT ![j] = m]
        /\ UNCHANGED <<reader, proc, inbox>>
    BY <1>4 DEF EnsureReady
  <2> HIDE DEF m
  <2>3. Moved(j, k) /\ client'[k] = n /\ job'[j] = m
    <3> HIDE DEF n
    <3> QED BY <1>1, <2>1, <2>j, <2>2 DEF Tables, Moved
  <2>4. TypeOK' /\ Frame(j, k)
    BY <1>1, <2>2, <2>3, MovedTypes
  <2>5. Takes(j, k)
    BY <1>4, <2>1, <2>j, <2>2, <2>3, <2>4 DEF Takes
  <2> QED BY <2>4, <2>5 DEF Acts
<1> QED BY <1>2, <1>3, <1>4

\* ensure_ready from its beginning.
LEMMA EnterStep ==
  ASSUME TypeOK, JobsOK, NEW j \in Queries \cup Warmers, NEW k, OnClient(j, k), Enters(j),
         ~At(j, "lock"), Enter(j, k)
  PROVE  TypeOK' /\ Acts(j, k)
<1>1. /\ Tables /\ j \in Jobs /\ k \in Clients /\ k \in 1..made' /\ client \in [Clients -> ClientType]
      /\ inbox \in [Queries -> {"off", "none", "last"}]
  BY OnClientTables, Types DEF Tables, Jobs, OnClient
<1>2. CASE client[k].lock = Nobody
  BY <1>2, EnsureReadyStep DEF Enter
<1>3. CASE client[k].lock # Nobody
  <2> DEFINE m == [pc |-> "lock", of |-> k, kill |-> 0, why |-> "waited"]
  <2>1. m \in JobType'
    BY <1>1 DEF JobType, Places, Whys, Tables
  <2>2. job' = [job EXCEPT ![j] = m] /\ UNCHANGED <<client, reader, proc, inbox>>
    BY <1>3 DEF Enter
  <2> HIDE DEF m
  <2>3. Moved(j, k) /\ job'[j] = m
    BY <1>1, <2>1, <2>2 DEF Tables, Moved
  <2>4. TypeOK' /\ Frame(j, k)
    BY <1>1, <2>2, <2>3, MovedTypes
  <2>5. Queues(j, k)
    BY <1>3, <2>2, <2>3, <2>4 DEF Queues, At, m
  <2> QED BY <2>4, <2>5 DEF Acts
<1> QED BY <1>2, <1>3

\* The pool hands out its client, or a new one.
LEMMA AcquireStep ==
  ASSUME TypeOK, JobsOK, NEW j \in Queries \cup Warmers, job[j].pc \in {"idle", "fired"}, Acquire(j),
         UNCHANGED <<spawned, sent, deaths>>, Record
  PROVE  TypeOK' /\ \E k \in Clients : Acts(j, k)
<1>1. /\ pool \in 0..made /\ made \in 0..MaxClients /\ MaxClients \in Nat /\ j \in Jobs
      /\ Enters(j) /\ ~At(j, "lock")
  BY Types, PoolAssumption DEF Enters, At, Jobs
<1>2. PICK k : Enter(j, k) /\ k \in Clients /\ k <= made' /\ made' \in made..MaxClients /\ pool' \in 0..made'
  <2>1. CASE pool # 0 /\ client[pool].state # "DEAD"
    BY <1>1, <2>1 DEF Acquire, Clients
  <2>2. CASE ~(pool # 0 /\ client[pool].state # "DEAD")
    <3>1. made + 1 \in Clients /\ made' = made + 1 /\ pool' = made + 1 /\ Enter(j, made + 1)
      BY <1>1, <2>2 DEF Acquire, Clients
    <3> QED BY <1>1, <3>1 DEF Clients
  <2> QED BY <2>1, <2>2
<1>3. OnClient(j, k)
  BY <1>1, <1>2 DEF OnClient
<1> QED BY <1>1, <1>2, <1>3, EnterStep

-----------------------------------------------------------------------------
(* Every step has its types and its kind                                   *)

\* A coroutine under way is on a client.
LEMMA ItsClient ==
  ASSUME TypeOK, JobsOK, NEW j \in Jobs, job[j].pc \notin {"idle", "fired", "kill", "done"}
  PROVE  Of(j) \in 1..made /\ Of(j) \in Clients /\ client[Of(j)] \in ClientType
<1>1. made \in 0..MaxClients /\ job[j] \in JobType /\ MaxClients \in Nat
  BY Types, PoolAssumption
<1>2. Of(j) \in 1..made /\ Of(j) \in Clients
  BY <1>1 DEF JobsOK, JobOK, JobType, Of, Clients
<1> QED BY <1>2, Types

\* A coroutine under way stays on its client.
LEMMA Placed ==
  ASSUME TypeOK, JobsOK, NEW j \in Jobs, job[j].pc \notin {"idle", "fired", "kill", "done"},
         UNCHANGED <<pool, made, spawned, sent, deaths>>, Record
  PROVE  OnClient(j, Of(j)) /\ Of(j) \in Clients /\ client[Of(j)] \in ClientType
<1>1. pool \in 0..made /\ made \in 0..MaxClients /\ MaxClients \in Nat
  BY Types, PoolAssumption
<1>2. Of(j) \in 1..made /\ Of(j) \in Clients /\ client[Of(j)] \in ClientType
  BY ItsClient
<1>3. OnClient(j, Of(j))
  BY <1>1, <1>2 DEF OnClient, Of
<1> QED BY <1>2, <1>3

\* What the lock says of a coroutine on its client.
LEMMA OwnLock ==
  ASSUME LockInv, NEW j \in Jobs, NEW k \in Clients, Of(j) = k
  PROVE  client[k].lock = j <=> Connecting(j)
BY DEF LockInv

\* The lock is free: ensure_ready goes on.
LEMMA LockedStep ==
  ASSUME TypeOK, JobsOK, NEW j \in Queries \cup Warmers, Locked(j)
  PROVE  TypeOK' /\ \E k \in Clients : Acts(j, k)
<1>1. OnClient(j, Of(j)) /\ Of(j) \in Clients
  BY Placed DEF Locked, At, Jobs
<1>2. Enters(j)
  BY PoolAssumption DEF Locked, At, Enters, Jobs
<1> QED BY <1>1, <1>2, EnsureReadyStep DEF Locked

\* No process could be spawned.
LEMMA CreateFailsStep ==
  ASSUME TypeOK, JobsOK, LockInv, NEW j \in Queries \cup Warmers, CreateFails(j)
  PROVE  TypeOK' /\ \E k \in Clients : Acts(j, k)
<1>1. /\ OnClient(j, Of(j)) /\ Of(j) \in Clients /\ client[Of(j)] \in ClientType /\ j \in Jobs
      /\ At(j, "create")
  BY Placed DEF CreateFails, At, Jobs
<1> DEFINE c == [client[Of(j)] EXCEPT !.state = "ERROR"]
<1>2. /\ c \in ClientType /\ c.state = "ERROR" /\ c.proc = client[Of(j)].proc
      /\ c.ready = client[Of(j)].ready
  BY <1>1, Fields DEF States
<1>3. ConnectFails(j, Of(j), c)
  BY DEF CreateFails
<1>4. client[Of(j)].lock = j
  BY <1>1, OwnLock DEF Connecting, At
<1> HIDE DEF c
<1>5. TypeOK' /\ Leaves(j, Of(j))
  BY <1>1, <1>2, <1>3, <1>4, ConnectFailsStep DEF At
<1> QED BY <1>1, <1>5 DEF Acts

\* "ready" came in time.
LEMMA ReadySeenStep ==
  ASSUME TypeOK, JobsOK, NEW j \in Queries \cup Warmers, ReadySeen(j)
  PROVE  TypeOK' /\ \E k \in Clients : Acts(j, k)
<1>1. OnClient(j, Of(j)) /\ Of(j) \in Clients /\ client[Of(j)] \in ClientType
  BY Placed DEF ReadySeen, At, Jobs
<1> DEFINE c == [client[Of(j)] EXCEPT !.retry = 0]
<1>2. /\ c \in ClientType /\ c.state = client[Of(j)].state /\ c.proc = client[Of(j)].proc
      /\ c.ready = client[Of(j)].ready
  BY <1>1, Fields, PoolAssumption
<1>3. Connected(j, Of(j), c)
  BY DEF ReadySeen
<1> HIDE DEF c
<1>4. TypeOK' /\ Joins(j, Of(j))
  BY <1>1, <1>2, <1>3, ConnectedStep DEF ReadySeen
<1> QED BY <1>1, <1>4 DEF Acts

\* "ready" did not come: kill, with the lock held.
LEMMA ReadyTimeoutStep ==
  ASSUME TypeOK, JobsOK, LockInv, NEW j \in Queries \cup Warmers, ReadyTimeout(j)
  PROVE  TypeOK' /\ \E k \in Clients : Acts(j, k)
<1>1. /\ OnClient(j, Of(j)) /\ Of(j) \in Clients /\ client[Of(j)] \in ClientType /\ j \in Jobs
      /\ At(j, "ready") /\ j \notin Kicks
  BY Placed, PoolAssumption DEF ReadyTimeout, At, Jobs
<1>2. client[Of(j)].lock = j
  BY <1>1, OwnLock DEF Connecting, At
<1>3. Prepared(j, Of(j), client[Of(j)], "spawn") /\ Touched(j, Of(j), client[Of(j)])
  BY <1>1, <1>2 DEF Prepared, Touched, At, Running
<1>4. DropsQueue(j)
  <2>1. j \in Queries => inbox[j] = "off"
    BY <1>1 DEF JobsOK, JobOK, At
  <2> QED BY <2>1, Types DEF DropsQueue, ReadyTimeout
<1>5. TypeOK' /\ Leaves(j, Of(j))
  BY <1>1, <1>3, <1>4, ForceKillStep DEF ReadyTimeout, At
<1> QED BY <1>1, <1>5 DEF Acts

\* Within _force_kill the coroutine is ready for what comes next.
LEMMA KillPrepared ==
  ASSUME TypeOK, JobsOK, LockInv, NEW j \in Jobs, job[j].pc \in {"wait", "reader"},
         UNCHANGED inbox, Of(j) \in Clients, client[Of(j)] \in ClientType
  PROVE  Prepared(j, Of(j), client[Of(j)], job[j].why) /\ DropsQueue(j)
<1>1. job[j].why = "spawn" <=> client[Of(j)].lock = j
  BY OwnLock DEF Connecting
<1>2. /\ job[j].why = "retry" => j \in Queries
      /\ job[j].why \in {"spawn", "retry", "quit"}
      /\ j \in Queries => job[j].why \in {"spawn", "retry"} /\ inbox[j] = "off"
      /\ j \in Warmers => job[j].why = "spawn"
      /\ j \in Kicks => job[j].why = "quit"
  BY PoolAssumption DEF JobsOK, JobOK, Jobs
<1>3. DropsQueue(j)
  BY <1>2, Types DEF DropsQueue
<1> QED BY <1>1, <1>2, <1>3 DEF Prepared, Running

\* _force_kill after the exit of the process.
LEMMA ExitedStep ==
  ASSUME TypeOK, JobsOK, LockInv, NEW j \in Jobs, Exited(j)
  PROVE  TypeOK' /\ \E k \in Clients : Acts(j, k)
<1> DEFINE k == Of(j)
           c == client[k]
           why == job[j].why
<1>1. OnClient(j, k) /\ k \in Clients /\ c \in ClientType /\ At(j, "wait")
  BY Placed DEF Exited, At
<1>2. Prepared(j, k, c, why) /\ DropsQueue(j)
  BY <1>1, KillPrepared DEF Exited, At
<1>3. KillReader(j, k, c, why) /\ proc' = proc
  BY DEF Exited
<1> HIDE DEF k, c, why
<1>4. Tables /\ spawned <= MaxProcs /\ k <= made' /\ why \in {"spawn", "retry", "quit"} /\ (why = "retry" => j \in Queries)
  BY <1>1, <1>2, OnClientTables DEF Prepared, OnClient
<1>5. Settled(j, k, c, why) \/ WaitsForReader(j, k, c, why)
  BY <1>1, <1>3, <1>4, KillReaderIs
<1>6. TypeOK' /\ Frame(j, k)
  BY <1>1, <1>2, <1>5, MovedTypes, DropTypes DEF Settled, WaitsForReader
<1>7. CASE Settled(j, k, c, why)
  BY <1>1, <1>2, <1>6, <1>7, SettledStops DEF Acts, Leaves, At
<1>8. CASE WaitsForReader(j, k, c, why)
  <2>1. Touched(j, k, c)
    BY <1>1 DEF Touched, At, c
  <2> QED BY <1>1, <1>2, <1>6, <1>8, <2>1, WaitsCancels DEF Acts, Leaves, At
<1> QED BY <1>1, <1>5, <1>6, <1>7, <1>8

\* _force_kill after the end of the reader.
LEMMA ReaderEndedStep ==
  ASSUME TypeOK, JobsOK, LockInv, NEW j \in Jobs, ReaderEnded(j)
  PROVE  TypeOK' /\ \E k \in Clients : Acts(j, k)
<1> DEFINE k == Of(j)
           c == client[k]
           why == job[j].why
<1>1. OnClient(j, k) /\ k \in Clients /\ c \in ClientType /\ At(j, "reader")
  BY Placed DEF ReaderEnded, At
<1>2. Prepared(j, k, c, why) /\ DropsQueue(j)
  BY <1>1, KillPrepared DEF ReaderEnded, At
<1>3. Killed(j, k, c, why) /\ UNCHANGED <<proc, reader>> /\ reader[job[j].kill].st = "done"
  BY DEF ReaderEnded
<1> HIDE DEF k, c, why
<1>4. Tables /\ k <= made' /\ why \in {"spawn", "retry", "quit"} /\ (why = "retry" => j \in Queries)
  BY <1>1, <1>2, OnClientTables DEF Prepared, OnClient
<1>5. Settled(j, k, c, why)
  BY <1>1, <1>3, <1>4, KilledIs
<1>6. TypeOK' /\ Frame(j, k)
  BY <1>1, <1>2, <1>5, MovedTypes, DropTypes DEF Settled
<1>7. Stops(j, k)
  BY <1>1, <1>2, <1>3, <1>5, <1>6, SettledStops DEF At
<1> QED BY <1>1, <1>6, <1>7 DEF Acts, Leaves

\* quit_graceful falls back on _force_kill.
LEMMA QuitTimeoutStep ==
  ASSUME TypeOK, JobsOK, LockInv, NEW x \in Kicks, QuitTimeout(x)
  PROVE  TypeOK' /\ \E k \in Clients : Acts(x, k)
<1>1. /\ OnClient(x, Of(x)) /\ Of(x) \in Clients /\ client[Of(x)] \in ClientType /\ x \in Jobs
      /\ At(x, "quit") /\ x \notin Queries /\ x \notin Warmers
  BY Placed, PoolAssumption DEF QuitTimeout, At, Jobs
<1>2. client[Of(x)].lock # x
  BY <1>1, OwnLock DEF Connecting, At
<1>3. Prepared(x, Of(x), client[Of(x)], "quit") /\ Touched(x, Of(x), client[Of(x)])
  BY <1>1, <1>2 DEF Prepared, Touched, At, Running
<1>4. DropsQueue(x)
  BY <1>1 DEF DropsQueue, QuitTimeout
<1>5. TypeOK' /\ Leaves(x, Of(x))
  BY <1>1, <1>3, <1>4, ForceKillStep DEF QuitTimeout, At
<1> QED BY <1>1, <1>5 DEF Acts

\* The types after a step that makes no client and no process.
LEMMA Steady ==
  ASSUME UNCHANGED <<made, spawned>>
  PROVE  ClientType' = ClientType /\ JobType' = JobType /\ ReaderType' = ReaderType
BY DEF ClientType, JobType, ReaderType

\* What has gone wrong stays on record.
LEMMA Grows ==
  ASSUME TypeOK, Record \/ UNCHANGED mishaps \/ mishaps' = mishaps \cup {"cancelled"}
  PROVE  mishaps \subseteq mishaps' /\ mishaps' \subseteq Mishaps
BY Types DEF Record, Mishaps

\* The types after a coroutine's step that touches nobody else.
LEMMA DriftTypes ==
  ASSUME TypeOK, UNCHANGED <<pool, made, client, spawned, proc, reader, inbox, deaths>>,
         job' \in [Jobs -> JobType], sent' \in [Queries -> 0..spawned],
         mishaps' \subseteq Mishaps
  PROVE  TypeOK'
BY Types, TypesThen, Steady

\* A query sends, or fails to.
LEMMA SendStep ==
  ASSUME TypeOK, JobsOK, LockInv, NEW q \in Queries, Send(q)
  PROVE  TypeOK' /\ ((\E k \in Clients : Acts(q, k)) \/ Drifts(q))
<1>1. /\ q \in Jobs /\ At(q, "send") /\ Record /\ mishaps' \subseteq Mishaps /\ job[q] \in JobType
      /\ q \notin Warmers /\ q \notin Kicks
  BY Types, Grows, PoolAssumption DEF Send, Jobs
<1>2. Of(q) \in Clients /\ client[Of(q)] \in ClientType
  BY <1>1, ItsClient DEF At
<1>3. CASE /\ client[Of(q)].proc # 0 /\ sent' = [sent EXCEPT ![q] = client[Of(q)].proc]
           /\ Goto(q, "stream") /\ UNCHANGED <<client, reader, proc, inbox>>
  <2>1. client[Of(q)].proc \in 0..spawned
    BY <1>2 DEF ClientType
  <2>2. sent' \in [Queries -> 0..spawned]
    BY <1>3, <2>1, Types
  <2>3. [job[q] EXCEPT !.pc = "stream"] \in JobType
    BY <1>1 DEF JobType, Places
  <2>4. job' = [job EXCEPT ![q] = [job[q] EXCEPT !.pc = "stream"]]
    BY <1>3, <1>1, Types DEF Goto
  <2>5. /\ job' \in [Jobs -> JobType] /\ job'[q] = [job[q] EXCEPT !.pc = "stream"]
        /\ \A i \in Jobs : i # q => job'[i] = job[i]
    BY <1>1, <2>3, <2>4, Types
  <2>6. UNCHANGED <<pool, made, spawned, deaths>>
    BY DEF Send
  <2> QED BY <1>1, <1>3, <2>2, <2>5, <2>6, DriftTypes DEF Drifts
<1>4. CASE /\ ~Live(client[Of(q)].proc) /\ Retry(q, Of(q), [client[Of(q)] EXCEPT !.state = "ERROR"])
           /\ UNCHANGED sent
  <2> DEFINE c == [client[Of(q)] EXCEPT !.state = "ERROR"]
  <2>1. /\ c \in ClientType /\ c.state = "ERROR" /\ c.proc = client[Of(q)].proc
        /\ c.ready = client[Of(q)].ready /\ c.lock = client[Of(q)].lock
    BY <1>2, Fields DEF States
  <2>2. OnClient(q, Of(q))
    BY <1>1, <1>4, Placed DEF Send, At
  <2>3. client[Of(q)].lock # q
    BY <1>1, <1>2, OwnLock DEF Connecting, At
  <2>4. Retry(q, Of(q), c)
    BY <1>4
  <2> HIDE DEF c
  <2>5. Touched(q, Of(q), c)
    BY <2>1 DEF Touched
  <2>6. TypeOK' /\ Leaves(q, Of(q))
    BY <1>1, <1>4, <2>1, <2>2, <2>3, <2>4, <2>5, RetryStep DEF At
  <2> QED BY <1>2, <2>6 DEF Acts
<1> QED BY <1>3, <1>4 DEF Send

\* A coroutine that is over.
LEMMA OverIs ==
  ASSUME TypeOK, NEW j \in Jobs, Over(j)
  PROVE  /\ job' \in [Jobs -> JobType] /\ job'[j] = Finished
         /\ \A i \in Jobs : i # j => job'[i] = job[i]
<1>1. Finished \in JobType /\ job' = [job EXCEPT ![j] = Finished]
  BY Types, PoolAssumption DEF JobType, Places, Whys, Finished, Over
<1> QED BY <1>1, Types

\* A query starts again after its back-off.
LEMMA AgainStep ==
  ASSUME TypeOK, JobsOK, NEW q \in Queries, Again(q)
  PROVE  TypeOK' /\ ((\E k \in Clients : Acts(q, k)) \/ Drifts(q))
<1>1. /\ q \in Jobs /\ At(q, "backoff") /\ q \notin Kicks /\ mishaps' \subseteq Mishaps
      /\ UNCHANGED <<pool, made, spawned, sent, deaths>> /\ Record
  BY Grows, PoolAssumption DEF Again, Jobs
<1>2. CASE client[Of(q)].state = "DEAD"
  <2>1. Over(q) /\ UNCHANGED <<client, reader, proc, inbox>>
    BY <1>2 DEF Again
  <2>2. TypeOK'
    BY <1>1, <2>1, OverIs, Types, DriftTypes
  <2> QED BY <1>1, <1>2, <2>1, <2>2, OverIs DEF Drifts
<1>3. CASE client[Of(q)].state # "DEAD"
  <2>1. OnClient(q, Of(q)) /\ Of(q) \in Clients
    BY <1>1, Placed DEF At
  <2>2. Enters(q) /\ Enter(q, Of(q)) /\ ~At(q, "lock")
    BY <1>1, <1>3 DEF Enters, Again, At
  <2> QED BY <2>1, <2>2, EnterStep
<1> QED BY <1>2, <1>3

\* The steps of a coroutine that touch nobody else.
LEMMA DriftSteps ==
  ASSUME TypeOK,
         \/ \E w \in Warmers : Respawn(w) \/ (At(w, "lock") /\ WarmUpTimeout(w))
         \/ \E x \in Kicks : Kick(x) \/ Command(x) \/ KickFails(x) \/ QuitCancelled(x)
  PROVE  TypeOK' /\ \E j \in Jobs : Drifts(j)
<1>1. /\ sent \in [Queries -> 0..spawned] /\ mishaps \subseteq Mishaps /\ job \in [Jobs -> JobType]
      /\ client \in [Clients -> ClientType]
  BY Types
<1>2. ASSUME NEW w \in Warmers, Respawn(w) PROVE TypeOK' /\ Drifts(w)
  <2>1. w \in Jobs /\ [job[w] EXCEPT !.pc = "fired"] \in JobType
    BY <1>1 DEF JobType, Places, Jobs
  <2>2. job' = [job EXCEPT ![w] = [job[w] EXCEPT !.pc = "fired"]]
    BY <1>2, <2>1, <1>1 DEF Respawn, Goto
  <2>3. /\ job' \in [Jobs -> JobType] /\ job'[w] = [job[w] EXCEPT !.pc = "fired"]
        /\ \A i \in Jobs : i # w => job'[i] = job[i]
    BY <1>1, <2>1, <2>2
  <2>4. TypeOK'
    BY <1>1, <1>2, <2>3, DriftTypes DEF Respawn
  <2> QED BY <1>2, <2>3, <2>4 DEF Respawn, Drifts
<1>3. ASSUME NEW w \in Warmers, At(w, "lock"), WarmUpTimeout(w) PROVE TypeOK' /\ Drifts(w)
  <2>1. /\ Ends(w, Of(w), client[Of(w)]) /\ UNCHANGED mishaps /\ w \in Jobs
        /\ UNCHANGED <<pool, made, spawned, proc, reader, inbox, sent, deaths>>
    BY <1>3 DEF WarmUpTimeout, At, Jobs
  <2>2. client' = client /\ Over(w)
    BY <1>1, <2>1 DEF Ends
  <2>3. TypeOK'
    BY <1>1, <2>1, <2>2, OverIs, DriftTypes
  <2> QED BY <1>3, <2>1, <2>2, <2>3, OverIs DEF Drifts
<1>4. ASSUME NEW x \in Kicks, Kick(x) \/ Command(x) PROVE TypeOK' /\ Drifts(x)
  <2>1. PICK y \in {"kick", "quit"} : job' = [job EXCEPT ![x] = [job[x] EXCEPT !.pc = "kill", !.why = y]]
    BY <1>4, <1>1 DEF Kick, Command, Jobs
  <2>2. /\ x \in Jobs /\ [job[x] EXCEPT !.pc = "kill", !.why = y] \in JobType
        /\ [job[x] EXCEPT !.pc = "kill", !.why = y].pc = "kill"
    BY <1>1 DEF JobType, Places, Whys, Jobs
  <2>3. /\ job' \in [Jobs -> JobType] /\ job'[x].pc = "kill"
        /\ \A i \in Jobs : i # x => job'[i] = job[i]
    BY <1>1, <2>1, <2>2
  <2>4. TypeOK'
    BY <1>1, <1>4, <2>3, DriftTypes DEF Kick, Command
  <2> QED BY <1>4, <2>3, <2>4 DEF Kick, Command, Drifts
<1>5. ASSUME NEW x \in Kicks, KickFails(x) \/ QuitCancelled(x) PROVE TypeOK' /\ Drifts(x)
  <2>1. x \in Jobs /\ Over(x)
    BY <1>5 DEF KickFails, QuitCancelled, Jobs
  <2>2. TypeOK'
    BY <1>1, <1>5, <2>1, OverIs, DriftTypes DEF KickFails, QuitCancelled
  <2> QED BY <1>5, <2>1, <2>2, OverIs DEF KickFails, QuitCancelled, Drifts, At
<1> QED BY <1>2, <1>3, <1>4, <1>5 DEF Jobs

\* A process and its reader are new, and only their client points to them.
LEMMA CreateTypes ==
  ASSUME TypeOK, JobsOK, NEW j \in Jobs, Create(j)
  PROVE  /\ TypeOK' /\ Of(j) \in Clients /\ spawned \in Nat /\ spawned' = spawned + 1
         /\ spawned' \in Procs /\ spawned' \notin 0..spawned
         /\ proc' = [proc EXCEPT ![spawned'] = "starting"]
         /\ reader'[spawned'] = [st |-> "reading", on |-> spawned', of |-> Of(j)]
         /\ \A r \in Procs : r # spawned' => reader'[r] = reader[r]
         /\ client'[Of(j)] = [client[Of(j)] EXCEPT !.proc = spawned']
         /\ client'[Of(j)].proc = spawned' /\ client'[Of(j)].state = client[Of(j)].state
         /\ client'[Of(j)].ready = client[Of(j)].ready /\ client'[Of(j)].lock = client[Of(j)].lock
         /\ \A i \in Clients : i # Of(j) => client'[i] = client[i]
         /\ job'[j] = [job[j] EXCEPT !.pc = "ready"] /\ job'[j].pc = "ready" /\ job'[j].of = Of(j)
         /\ \A i \in Jobs : i # j => job'[i] = job[i]
<1>1. /\ pool \in 0..made /\ made \in 0..MaxClients /\ spawned \in 0..MaxProcs
      /\ client \in [Clients -> ClientType] /\ proc \in [Procs -> ProcType]
      /\ reader \in [Procs -> ReaderType] /\ job \in [Jobs -> JobType]
      /\ inbox \in [Queries -> {"off", "none", "last"}] /\ sent \in [Queries -> 0..spawned]
      /\ deaths \in 0..MaxDeaths /\ mishaps \subseteq Mishaps /\ MaxClients \in Nat /\ MaxProcs \in Nat
  BY Types, PoolAssumption
<1>2. /\ At(j, "create") /\ spawned < MaxProcs /\ spawned' = spawned + 1
      /\ proc' = [proc EXCEPT ![spawned'] = "starting"]
      /\ reader' = [reader EXCEPT ![spawned'] = [st |-> "reading", on |-> spawned', of |-> Of(j)]]
      /\ client' = [client EXCEPT ![Of(j)].proc = spawned'] /\ Goto(j, "ready")
      /\ UNCHANGED <<pool, made, inbox, sent, deaths, mishaps>>
  BY DEF Create
<1>3. Of(j) \in 1..made /\ Of(j) \in Clients
  <2>1. At(j, "create")
    BY <1>2
  <2> QED BY <2>1, ItsClient DEF At
<1>4. /\ spawned \in Nat /\ spawned' \in 1..MaxProcs /\ spawned' \notin 0..spawned
      /\ 0..spawned \subseteq 0..spawned'
  BY <1>1, <1>2
<1>5. /\ ClientType \subseteq ClientType' /\ JobType \subseteq JobType' /\ ReaderType \subseteq ReaderType'
  BY <1>2, <1>4 DEF ClientType, JobType, ReaderType
<1> DEFINE n == [client[Of(j)] EXCEPT !.proc = spawned']
           m == [job[j] EXCEPT !.pc = "ready"]
           s == [st |-> "reading", on |-> spawned', of |-> Of(j)]
<1>6. /\ n \in ClientType' /\ n.proc = spawned' /\ n.state = client[Of(j)].state
      /\ n.ready = client[Of(j)].ready /\ n.lock = client[Of(j)].lock
  <2>1. client[Of(j)] \in ClientType
    BY <1>1, <1>3
  <2>2. spawned' \in 0..spawned'
    BY <1>4
  <2> QED BY <2>1, <1>4, <2>2 DEF ClientType
<1>7. m \in JobType' /\ m.pc = "ready" /\ m.of = Of(j)
  <2>1. job[j] \in JobType'
    BY <1>1, <1>5
  <2> QED BY <2>1 DEF JobType, Places, Of
<1>8. s \in ReaderType'
  BY <1>2, <1>3, <1>4 DEF ReaderType
<1>9. client' = [client EXCEPT ![Of(j)] = n] /\ job' = [job EXCEPT ![j] = m] /\ reader' = [reader EXCEPT ![spawned'] = s]
  BY <1>1, <1>2, <1>3 DEF Goto
<1> HIDE DEF n, m, s
<1>10. /\ client' \in [Clients -> ClientType'] /\ client'[Of(j)] = n
       /\ \A i \in Clients : i # Of(j) => client'[i] = client[i]
  BY <1>1, <1>3, <1>5, <1>6, <1>9
<1>11. /\ job' \in [Jobs -> JobType'] /\ job'[j] = m /\ \A i \in Jobs : i # j => job'[i] = job[i]
  BY <1>1, <1>5, <1>7, <1>9
<1>12. spawned' \in Procs
  BY <1>4 DEF Procs
<1>13. /\ reader' \in [Procs -> ReaderType'] /\ reader'[spawned'] = s
       /\ \A r \in Procs : r # spawned' => reader'[r] = reader[r]
  BY <1>1, <1>5, <1>8, <1>9, <1>12
<1>14. proc' \in [Procs -> ProcType]
  BY <1>1, <1>2, <1>12 DEF ProcType
<1>15. sent' \in [Queries -> 0..spawned']
  BY <1>1, <1>2, <1>4
<1>16. spawned' \in 0..MaxProcs
  BY <1>4
<1>17. TypeOK'
  BY <1>1, <1>2, <1>10, <1>11, <1>13, <1>14, <1>15, <1>16, TypesThen
<1> QED BY <1>2, <1>3, <1>4, <1>6, <1>7, <1>10, <1>11, <1>12, <1>13, <1>17 DEF n, m, s

\* The remaining steps of a coroutine, on the client k it is on, with the new record n.
LEMMA OneClientTypes ==
  ASSUME TypeOK, NEW k \in Clients, NEW n \in ClientType,
         client' = [client EXCEPT ![k] = n], UNCHANGED <<made, spawned, sent>>,
         proc' \in [Procs -> ProcType], reader' \in [Procs -> ReaderType],
         job' \in [Jobs -> JobType], inbox' \in [Queries -> {"off", "none", "last"}],
         pool' \in 0..made, deaths' \in 0..MaxDeaths, mishaps' \subseteq Mishaps
  PROVE  TypeOK' /\ client'[k] = n /\ \A i \in Clients : i # k => client'[i] = client[i]
<1>1. client' \in [Clients -> ClientType] /\ client'[k] = n /\ \A i \in Clients : i # k => client'[i] = client[i]
  BY Types
<1> QED BY <1>1, Types, TypesThen, Steady

\* A cancelled warm-up gives back the lock and nothing else.
LEMMA AbandonTypes ==
  ASSUME TypeOK, JobsOK, NEW w \in Warmers, At(w, "ready"), WarmUpTimeout(w)
  PROVE  /\ TypeOK' /\ Of(w) \in Clients /\ "cancelled" \in mishaps'
         /\ client'[Of(w)].lock = Nobody /\ client'[Of(w)].proc = client[Of(w)].proc
         /\ client'[Of(w)].state = client[Of(w)].state
         /\ \A i \in Clients : i # Of(w) => client'[i] = client[i]
         /\ job'[w] = Finished /\ \A i \in Jobs : i # w => job'[i] = job[i]
         /\ UNCHANGED <<spawned, proc, reader, inbox>>
<1>1. /\ Ends(w, Of(w), Unlocked(client[Of(w)])) /\ mishaps' = mishaps \cup {"cancelled"} /\ w \in Jobs
      /\ UNCHANGED <<pool, made, spawned, proc, reader, inbox, sent, deaths>>
  BY DEF WarmUpTimeout, At, Jobs
<1>2. Of(w) \in Clients /\ client[Of(w)] \in ClientType
  BY <1>1, ItsClient DEF At
<1> DEFINE n == [client[Of(w)] EXCEPT !.lock = Nobody]
<1>3. n \in ClientType /\ n.lock = Nobody /\ n.proc = client[Of(w)].proc /\ n.state = client[Of(w)].state
  BY <1>2, Fields
<1>4. client' = [client EXCEPT ![Of(w)] = n] /\ Over(w)
  BY <1>1 DEF Ends, Unlocked
<1> HIDE DEF n
<1>5. TypeOK' /\ client'[Of(w)] = n /\ \A i \in Clients : i # Of(w) => client'[i] = client[i]
  BY <1>1, <1>2, <1>3, <1>4, OverIs, Grows, Types, OneClientTypes
<1> QED BY <1>1, <1>2, <1>3, <1>4, <1>5, OverIs

\* The end of a query touches its client's state, and drops its queue.
LEMMA FinishTypes ==
  ASSUME TypeOK, JobsOK, NEW q \in Queries, At(q, "stream"), Finish(q)
  PROVE  /\ TypeOK' /\ Of(q) \in Clients /\ Record /\ q \in Jobs
         /\ client'[Of(q)].lock = client[Of(q)].lock /\ client'[Of(q)].proc = client[Of(q)].proc
         /\ client'[Of(q)].ready = client[Of(q)].ready
         /\ client'[Of(q)].state = IF client[Of(q)].state = "DISCONNECTED" THEN "DISCONNECTED" ELSE "READY"
         /\ \A i \in Clients : i # Of(q) => client'[i] = client[i]
         /\ job'[q] = Finished /\ \A i \in Jobs : i # q => job'[i] = job[i]
         /\ inbox' = [inbox EXCEPT ![q] = "off"]
         /\ UNCHANGED <<spawned, proc, reader>>
<1>1. /\ inbox' = [inbox EXCEPT ![q] = "off"] /\ Over(q) /\ Record /\ q \in Jobs
      /\ UNCHANGED <<pool, made, spawned, proc, reader, sent, deaths>>
  BY DEF Finish, Jobs
<1>2. Of(q) \in Clients /\ client[Of(q)] \in ClientType
  BY <1>1, ItsClient DEF At
<1> DEFINE s == IF client[Of(q)].state = "DISCONNECTED" THEN "DISCONNECTED" ELSE "READY"
           n == [client[Of(q)] EXCEPT !.state = s]
<1>3. s \in States
  BY DEF States
<1>4. client' = [client EXCEPT ![Of(q)] = n]
  BY <1>2, Types DEF Finish
<1> HIDE DEF s
<1>5. /\ n \in ClientType /\ n.lock = client[Of(q)].lock /\ n.proc = client[Of(q)].proc
      /\ n.ready = client[Of(q)].ready /\ n.state = s
  BY <1>2, <1>3, Fields
<1> HIDE DEF n
<1>6. inbox' \in [Queries -> {"off", "none", "last"}]
  BY <1>1, Types
<1>7. TypeOK' /\ client'[Of(q)] = n /\ \A i \in Clients : i # Of(q) => client'[i] = client[i]
  BY <1>1, <1>2, <1>4, <1>5, <1>6, OverIs, Grows, Types, OneClientTypes
<1> QED BY <1>1, <1>2, <1>5, <1>7, OverIs DEF s

\* A process dies.
LEMMA DiesTypes ==
  ASSUME TypeOK, NEW p \in Procs, Dies(p)
  PROVE  TypeOK'
<1>1. /\ deaths \in 0..MaxDeaths /\ deaths < MaxDeaths /\ deaths' = deaths + 1 /\ MaxDeaths \in Nat
      /\ proc' = [proc EXCEPT ![p] = "dead"] /\ proc \in [Procs -> ProcType]
      /\ UNCHANGED <<pool, made, client, spawned, reader, job, inbox, sent, mishaps>>
  BY Types, PoolAssumption DEF Dies
<1>2. deaths' \in 0..MaxDeaths /\ proc' \in [Procs -> ProcType]
  BY <1>1 DEF ProcType
<1> QED BY <1>1, <1>2, Types, TypesThen, Steady

\* The asked process has exited.
LEMMA QuitDoneTypes ==
  ASSUME TypeOK, JobsOK, NEW x \in Kicks, QuitDone(x)
  PROVE  /\ TypeOK' /\ Of(x) \in Clients /\ Record /\ x \in Jobs /\ At(x, "quit") /\ job[x].kill \in Procs
         /\ client'[Of(x)].lock = client[Of(x)].lock /\ client'[Of(x)].proc = client[Of(x)].proc
         /\ client'[Of(x)].ready = client[Of(x)].ready /\ client'[Of(x)].state = "DISCONNECTED"
         /\ \A i \in Clients : i # Of(x) => client'[i] = client[i]
         /\ job'[x] = Finished /\ \A i \in Jobs : i # x => job'[i] = job[i]
         /\ proc' = [proc EXCEPT ![job[x].kill] = "dead"]
         /\ UNCHANGED <<spawned, reader, inbox>>
<1>1. /\ Ends(x, Of(x), [client[Of(x)] EXCEPT !.state = "DISCONNECTED"]) /\ Record /\ x \in Jobs
      /\ proc' = [proc EXCEPT ![job[x].kill] = "dead"] /\ At(x, "quit")
      /\ UNCHANGED <<pool, made, spawned, reader, inbox, sent, deaths>>
  BY DEF QuitDone, Jobs
<1>2. Of(x) \in Clients /\ client[Of(x)] \in ClientType /\ job[x].kill \in Procs
  <2>1. job[x] \in JobType /\ spawned \in 0..MaxProcs /\ MaxProcs \in Nat
    BY <1>1, Types, PoolAssumption
  <2>2. job[x].kill \in 1..spawned
    BY <1>1, <2>1 DEF JobsOK, JobOK, JobType, At
  <2>3. Of(x) \in Clients /\ client[Of(x)] \in ClientType
    BY <1>1, ItsClient DEF At
  <2> QED BY <2>1, <2>2, <2>3 DEF Procs
<1> DEFINE n == [client[Of(x)] EXCEPT !.state = "DISCONNECTED"]
<1>3. /\ n \in ClientType /\ n.lock = client[Of(x)].lock /\ n.proc = client[Of(x)].proc
      /\ n.ready = client[Of(x)].ready /\ n.state = "DISCONNECTED"
  BY <1>2, Fields DEF States
<1>4. client' = [client EXCEPT ![Of(x)] = n] /\ Over(x)
  BY <1>1 DEF Ends
<1> HIDE DEF n
<1>5. proc' \in [Procs -> ProcType]
  BY <1>1, <1>2, Types DEF ProcType
<1>6. TypeOK' /\ client'[Of(x)] = n /\ \A i \in Clients : i # Of(x) => client'[i] = client[i]
  BY <1>1, <1>2, <1>3, <1>4, <1>5, OverIs, Grows, Types, OneClientTypes
<1> QED BY <1>1, <1>2, <1>3, <1>4, <1>6, OverIs

\* The SSH kill ends processes, and the pool forgets its client.
LEMMA KickKillsTypes ==
  ASSUME TypeOK, NEW x \in Kicks, KickKills(x)
  PROVE  /\ TypeOK' /\ At(x, "kill") /\ x \in Jobs /\ Record /\ UNCHANGED <<spawned, reader, inbox>>
         /\ \A p \in Procs : proc'[p] = proc[p] \/ (Live(p) /\ proc'[p] = "dead")
         /\ \A i \in Clients :
              /\ client'[i].proc = client[i].proc /\ client'[i].lock = client[i].lock
              /\ client'[i].ready = client[i].ready
              /\ \/ client'[i].state = client[i].state
                 \/ client[i].proc = 0 /\ client'[i].state = "DISCONNECTED"
         /\ \A i \in Jobs : i # x => job'[i] = job[i]
         /\ \/ job'[x] = Finished
            \/ job'[x].pc = "quit" /\ job'[x].of # 0 /\ job'[x].kill # 0
<1>1. /\ pool \in 0..made /\ made \in 0..MaxClients /\ spawned \in 0..MaxProcs
      /\ client \in [Clients -> ClientType] /\ proc \in [Procs -> ProcType]
      /\ reader \in [Procs -> ReaderType] /\ job \in [Jobs -> JobType] /\ MaxClients \in Nat
      /\ x \in Jobs
  BY Types, PoolAssumption DEF Jobs
<1>2. /\ At(x, "kill") /\ pool' = 0 /\ Record /\ UNCHANGED <<made, spawned, reader, inbox, sent, deaths>>
  BY DEF KickKills
<1>3. PICK took \in BOOLEAN : proc' = [p \in Procs |-> IF took /\ Live(p) THEN "dead" ELSE proc[p]]
  BY DEF KickKills
<1>4. /\ proc' \in [Procs -> ProcType]
      /\ \A p \in Procs : proc'[p] = proc[p] \/ (Live(p) /\ proc'[p] = "dead")
  BY <1>1, <1>3 DEF ProcType
<1>5. CASE pool = 0 \/ client[pool].proc = 0
  <2>1. Over(x)
    BY <1>5 DEF KickKills
  <2>2. CASE pool = 0
    <3>1. client' = client
      BY <1>5, <2>2 DEF KickKills
    <3>2. TypeOK'
      BY <1>1, <1>2, <1>4, <2>1, <3>1, OverIs, Grows, Types, TypesThen, Steady
    <3> QED BY <1>1, <1>2, <1>4, <2>1, <3>1, <3>2, OverIs
  <2>3. CASE pool # 0
    <3> DEFINE n == [client[pool] EXCEPT !.state = "DISCONNECTED"]
    <3>1. pool \in Clients /\ client[pool] \in ClientType /\ client[pool].proc = 0
      BY <1>1, <1>5, <2>3 DEF Clients
    <3>2. /\ n \in ClientType /\ n.lock = client[pool].lock /\ n.proc = client[pool].proc
          /\ n.ready = client[pool].ready /\ n.state = "DISCONNECTED"
      BY <3>1, Fields DEF States
    <3>3. client' = [client EXCEPT ![pool] = n]
      BY <1>1, <1>5, <2>3, <3>1 DEF KickKills
    <3> HIDE DEF n
    <3>4. pool' \in 0..made /\ inbox' \in [Queries -> {"off", "none", "last"}] /\ deaths' \in 0..MaxDeaths
      BY <1>1, <1>2, Types
    <3>5. TypeOK' /\ client'[pool] = n /\ \A i \in Clients : i # pool => client'[i] = client[i]
      BY <1>1, <1>2, <1>4, <2>1, <3>1, <3>2, <3>3, <3>4, OverIs, Grows, OneClientTypes
    <3> QED BY <1>1, <1>2, <1>4, <2>1, <3>1, <3>2, <3>5, OverIs
  <2> QED BY <2>2, <2>3
<1>6. CASE ~(pool = 0 \/ client[pool].proc = 0)
  <2> DEFINE m == [job[x] EXCEPT !.pc = "quit", !.of = pool, !.kill = client[pool].proc]
  <2>1. pool \in Clients /\ pool \in 0..made /\ client[pool].proc \in 0..spawned
    BY <1>1, <1>6 DEF Clients, ClientType
  <2>2. m \in JobType /\ m.pc = "quit" /\ m.of # 0 /\ m.kill # 0
    BY <1>1, <1>6, <2>1 DEF JobType, Places
  <2>3. job' = [job EXCEPT ![x] = m] /\ client' = client
    BY <1>1, <1>6 DEF KickKills
  <2> HIDE DEF m
  <2>4. job' \in [Jobs -> JobType] /\ job'[x] = m /\ \A i \in Jobs : i # x => job'[i] = job[i]
    BY <1>1, <2>2, <2>3
  <2>5. TypeOK'
    BY <1>1, <1>2, <1>4, <2>3, <2>4, Grows, Types, TypesThen, Steady
  <2> QED BY <1>1, <1>2, <1>4, <2>2, <2>3, <2>4, <2>5
<1> QED BY <1>5, <1>6

\* What a message makes of the queues, at most.
Fuller(box) ==
  /\ box \in [Queries -> {"off", "none", "last"}]
  /\ \A q \in Queries : (box[q] = "none" => inbox[q] = "none") /\ (box[q] # "off" => inbox[q] # "off")

\* The end of a reader tells every query of its client.
LEMMA BroadcastIs ==
  ASSUME TypeOK, NEW k \in Clients, NEW box, Fuller(box), inbox' = Broadcast(box, k)
  PROVE  /\ inbox' \in [Queries -> {"off", "none", "last"}]
         /\ \A q \in Queries : /\ inbox'[q] = "none" => inbox[q] = "none" /\ Of(q) # k
                               /\ inbox'[q] # "off" => inbox[q] # "off"
<1>1. inbox' = [q \in Queries |-> IF Of(q) = k /\ inbox[q] # "off" THEN "last" ELSE box[q]]
  BY DEF Broadcast, Waiting
<1> QED BY <1>1 DEF Fuller

\* Down changes the client's state only.
LEMMA DownIs ==
  ASSUME NEW c \in ClientType
  PROVE  /\ Down(c) \in ClientType /\ Down(c).proc = c.proc /\ Down(c).lock = c.lock
         /\ Down(c).ready = c.ready
         /\ Down(c).state = "DISCONNECTED" \/ (Down(c).state = "DEAD" /\ c.state = "DEAD")
<1>1. CASE c.state = "DEAD"
  BY <1>1 DEF Down
<1>2. CASE c.state # "DEAD"
  <2>1. "DISCONNECTED" \in States
    BY DEF States
  <2> QED BY <1>2, <2>1, Fields DEF Down
<1> QED BY <1>1, <1>2

\* A reader that has not ended reads from a process, for a client.
LEMMA ReaderAt ==
  ASSUME TypeOK, TableOK, NEW r \in Procs, reader[r].st \in Active
  PROVE  reader[r].of \in Clients /\ client[reader[r].of] \in ClientType /\ reader[r].on \in Procs
<1>1. /\ reader[r] \in ReaderType /\ made \in 0..MaxClients /\ MaxClients \in Nat
      /\ spawned \in 0..MaxProcs /\ MaxProcs \in Nat
  BY Types, PoolAssumption
<1>2. reader[r].on # 0 /\ reader[r].of # 0
  BY DEF TableOK
<1>3. reader[r].of \in Clients /\ reader[r].on \in Procs
  BY <1>1, <1>2 DEF ReaderType, Clients, Procs
<1> QED BY <1>3, Types

\* After a message a reader goes on, or fails.
LEMMA ReadOnIs ==
  ASSUME TypeOK, TableOK, NEW r \in Procs, reader[r].st = "reading", NEW c \in ClientType, NEW box,
         Fuller(box), ReadOn(r, c, box)
  PROVE  /\ reader' \in [Procs -> ReaderType] /\ client' \in [Clients -> ClientType]
         /\ \A i \in Clients : i # reader[r].of => client'[i] = client[i]
         /\ inbox' \in [Queries -> {"off", "none", "last"}]
         /\ \/ /\ ~LostPipe(r) /\ client' = [client EXCEPT ![reader[r].of] = c]
               /\ client'[reader[r].of] = c
               /\ reader' = [reader EXCEPT ![r].on = client[reader[r].of].proc] /\ inbox' = box
            \/ /\ LostPipe(r) /\ client'[reader[r].of] = Down(c)
               /\ reader' = [reader EXCEPT ![r] = Ended]
               /\ \A q \in Queries : /\ inbox'[q] = "none" => inbox[q] = "none" /\ Of(q) # reader[r].of
                                     /\ inbox'[q] # "off" => inbox[q] # "off"
<1> DEFINE k == reader[r].of
<1>1. k \in Clients /\ client[k] \in ClientType /\ Down(c) \in ClientType
  BY ReaderAt, DownIs DEF Active
<1>2. reader \in [Procs -> ReaderType] /\ client \in [Clients -> ClientType] /\ made \in Nat
  BY Types, PoolAssumption
<1>3. CASE LostPipe(r)
  <2>1. /\ reader' = [reader EXCEPT ![r] = Ended] /\ client' = [client EXCEPT ![k] = Down(c)]
        /\ inbox' = Broadcast(box, k)
    BY <1>3 DEF ReadOn
  <2>2. Ended \in ReaderType
    BY <1>2, Types, PoolAssumption DEF ReaderType, Ended, Left
  <2>3. reader' \in [Procs -> ReaderType]
    BY <1>2, <2>1, <2>2
  <2>4. /\ client' \in [Clients -> ClientType] /\ client'[k] = Down(c)
        /\ \A i \in Clients : i # k => client'[i] = client[i]
    BY <1>1, <1>2, <2>1
  <2>5. /\ inbox' \in [Queries -> {"off", "none", "last"}]
        /\ \A q \in Queries : /\ inbox'[q] = "none" => inbox[q] = "none" /\ Of(q) # k
                              /\ inbox'[q] # "off" => inbox[q] # "off"
    BY <1>1, <2>1, BroadcastIs
  <2> QED BY <1>3, <2>1, <2>3, <2>4, <2>5
<1>4. CASE ~LostPipe(r)
  <2>1. /\ reader' = [reader EXCEPT ![r].on = client[k].proc] /\ client' = [client EXCEPT ![k] = c]
        /\ inbox' = box
    BY <1>4 DEF ReadOn
  <2>2. [reader[r] EXCEPT !.on = client[k].proc] \in ReaderType
    <3>1. client[k].proc \in 0..spawned /\ reader[r] \in ReaderType
      BY <1>1, <1>2 DEF ClientType
    <3> QED BY <3>1 DEF ReaderType
  <2>3. reader' = [reader EXCEPT ![r] = [reader[r] EXCEPT !.on = client[k].proc]]
    BY <2>1, <1>2
  <2>4. reader' \in [Procs -> ReaderType]
    BY <1>2, <2>2, <2>3
  <2>5. /\ client' \in [Clients -> ClientType] /\ client'[k] = c
        /\ \A i \in Clients : i # k => client'[i] = client[i]
    BY <1>1, <1>2, <2>1
  <2> QED BY <1>4, <2>1, <2>4, <2>5 DEF Fuller
<1> QED BY <1>3, <1>4

\* "ready" is read.
LEMMA ReadReadyStep ==
  ASSUME TypeOK, TableOK, NEW r \in Procs, ReadReady(r)
  PROVE  TypeOK' /\ (Reads(r) \/ Fails(r))
<1> DEFINE k == reader[r].of
           s == [client[k] EXCEPT !.state = "READY"]
           c == [client[k] EXCEPT !.state = "READY", !.ready = TRUE]
<1>1. /\ reader[r].st = "reading" /\ proc[reader[r].on] = "starting"
      /\ proc' = [proc EXCEPT ![reader[r].on] = "serving"] /\ Record
      /\ UNCHANGED <<pool, made, spawned, job, sent, deaths>> /\ ReadOn(r, c, inbox)
  BY DEF ReadReady
<1>2. k \in Clients /\ client[k] \in ClientType /\ reader[r].on \in Procs
  BY <1>1, ReaderAt DEF Active
<1>2a. Live(reader[r].on) /\ 0 \in 0..spawned
  BY <1>1, <1>2, Types, PoolAssumption DEF Live, Procs
<1>3. /\ c \in ClientType /\ c.state = "READY" /\ c.proc = client[k].proc /\ c.lock = client[k].lock
  BY <1>2 DEF ClientType, States
<1>4. Fuller(inbox)
  BY Types DEF Fuller
<1>5. proc' \in [Procs -> ProcType]
  BY <1>1, <1>2, Types DEF ProcType
<1>6. /\ Down(c).proc = c.proc /\ Down(c).lock = c.lock /\ Down(c).state = "DISCONNECTED"
  BY <1>3, DownIs
<1> HIDE DEF c
<1>7. /\ reader' \in [Procs -> ReaderType] /\ client' \in [Clients -> ClientType]
      /\ \A i \in Clients : i # k => client'[i] = client[i]
      /\ inbox' \in [Queries -> {"off", "none", "last"}]
      /\ \/ /\ ~LostPipe(r) /\ client'[k] = c
            /\ reader' = [reader EXCEPT ![r].on = client[k].proc] /\ inbox' = inbox
         \/ /\ LostPipe(r) /\ client'[k] = Down(c)
            /\ reader' = [reader EXCEPT ![r] = Ended]
            /\ \A q \in Queries : /\ inbox'[q] = "none" => inbox[q] = "none" /\ Of(q) # k
                                  /\ inbox'[q] # "off" => inbox[q] # "off"
  BY <1>1, <1>3, <1>4, ReadOnIs
<1>8. TypeOK'
  BY <1>1, <1>5, <1>7, Grows, Types, TypesThen, Steady
<1>9. CASE ~LostPipe(r)
  <2>1. client'[k] = c /\ reader' = [reader EXCEPT ![r].on = client[k].proc] /\ inbox' = inbox
    BY <1>7, <1>9
  <2>2. Serves(r)
    BY <1>1 DEF Serves
  <2> QED BY <1>1, <1>2a, <1>7, <1>8, <1>9, <2>1, <2>2 DEF Reads, c
<1>10. CASE LostPipe(r)
  <2>1. /\ client'[k] = Down(c) /\ reader' = [reader EXCEPT ![r] = Ended]
        /\ \A q \in Queries : /\ inbox'[q] = "none" => inbox[q] = "none" /\ Of(q) # k
                              /\ inbox'[q] # "off" => inbox[q] # "off"
    BY <1>7, <1>10
  <2>2. Serves(r)
    BY <1>1 DEF Serves
  <2>3. \E p \in 0..spawned : Leaving(r, p) /\ reader' = [reader EXCEPT ![r] = Left(p)]
    BY <1>1, <1>2a, <1>10, <2>1 DEF Leaving, Ended
  <2> QED BY <1>1, <1>3, <1>6, <1>7, <1>8, <1>10, <2>1, <2>2, <2>3 DEF Fails, Active
<1> QED BY <1>9, <1>10

\* An answer is read.
LEMMA ReadAnswerStep ==
  ASSUME TypeOK, TableOK, NEW r \in Procs, ReadAnswer(r)
  PROVE  TypeOK' /\ (Reads(r) \/ Fails(r))
<1> DEFINE k == reader[r].of
<1>1. /\ reader[r].st = "reading" /\ Record /\ UNCHANGED <<pool, made, spawned, proc, job, deaths>>
      /\ proc[reader[r].on] = "serving"
  BY DEF ReadAnswer
<1>2. PICK q \in Queries :
        /\ sent' = [sent EXCEPT ![q] = 0]
        /\ ReadOn(r, client[k], IF Of(q) = k THEN Put(inbox, q) ELSE inbox)
  BY DEF ReadAnswer
<1>3. k \in Clients /\ client[k] \in ClientType /\ reader[r].on \in Procs
  BY <1>1, ReaderAt DEF Active
<1>3a. Live(reader[r].on) /\ 0 \in 0..spawned
  BY <1>1, <1>3, Types, PoolAssumption DEF Live, Procs
<1> DEFINE box == IF Of(q) = k THEN Put(inbox, q) ELSE inbox
<1>4. Fuller(box)
  <2>1. inbox \in [Queries -> {"off", "none", "last"}]
    BY Types
  <2>2. Fuller(inbox)
    BY <2>1 DEF Fuller
  <2>3. Put(inbox, q) = [inbox EXCEPT ![q] = IF inbox[q] = "none" THEN "last" ELSE inbox[q]]
    BY <2>1 DEF Put
  <2>4. Fuller(Put(inbox, q))
    BY <2>1, <2>3 DEF Fuller
  <2> QED BY <2>2, <2>4
<1>5. ReadOn(r, client[k], box)
  BY <1>2
<1> HIDE DEF box
<1>6. sent' \in [Queries -> 0..spawned]
  <2>1. 0 \in 0..spawned
    BY Types, PoolAssumption
  <2> QED BY <1>2, <2>1, Types
<1>7. /\ Down(client[k]).proc = client[k].proc /\ Down(client[k]).lock = client[k].lock
      /\ Down(client[k]).ready = client[k].ready
      /\ \/ Down(client[k]).state = "DISCONNECTED"
         \/ Down(client[k]).state = "DEAD" /\ client[k].state = "DEAD"
  BY <1>3, DownIs
<1>8. /\ reader' \in [Procs -> ReaderType] /\ client' \in [Clients -> ClientType]
      /\ \A i \in Clients : i # k => client'[i] = client[i]
      /\ inbox' \in [Queries -> {"off", "none", "last"}]
      /\ \/ /\ ~LostPipe(r) /\ client' = [client EXCEPT ![k] = client[k]]
            /\ reader' = [reader EXCEPT ![r].on = client[k].proc] /\ inbox' = box
         \/ /\ LostPipe(r) /\ client'[k] = Down(client[k])
            /\ reader' = [reader EXCEPT ![r] = Ended]
            /\ \A p \in Queries : /\ inbox'[p] = "none" => inbox[p] = "none" /\ Of(p) # k
                                  /\ inbox'[p] # "off" => inbox[p] # "off"
  BY <1>1, <1>3, <1>4, <1>5, ReadOnIs
<1>9. TypeOK'
  BY <1>1, <1>6, <1>8, Grows, Types, TypesThen, Steady
<1>10. CASE ~LostPipe(r)
  <2>1. client' = [client EXCEPT ![k] = client[k]] /\ reader' = [reader EXCEPT ![r].on = client[k].proc] /\ inbox' = box
    BY <1>8, <1>10
  <2>2. client' = client
    BY <2>1, Types
  <2> QED BY <1>1, <1>3a, <1>4, <1>8, <1>9, <1>10, <2>1, <2>2 DEF Reads, Fuller
<1>11. CASE LostPipe(r)
  <2>1. /\ client'[k] = Down(client[k]) /\ reader' = [reader EXCEPT ![r] = Ended]
        /\ \A p \in Queries : /\ inbox'[p] = "none" => inbox[p] = "none" /\ Of(p) # k
                              /\ inbox'[p] # "off" => inbox[p] # "off"
    BY <1>8, <1>11
  <2>2. \E p \in 0..spawned : Leaving(r, p) /\ reader' = [reader EXCEPT ![r] = Left(p)]
    BY <1>1, <1>3a, <1>11, <2>1 DEF Leaving, Ended
  <2> QED BY <1>1, <1>7, <1>8, <1>9, <1>11, <2>1, <2>2 DEF Fails, Active
<1> QED BY <1>10, <1>11

\* A reader ends with its process, by cancellation, or before its process.
LEMMA ReaderEndsStep ==
  ASSUME TypeOK, TableOK, NEW r \in Procs, ReaderDies(r) \/ ReaderLeaves(r)
  PROVE  TypeOK' /\ Fails(r)
<1> DEFINE k == reader[r].of
<1>0. reader[r].st \in Active
  BY DEF ReaderDies, ReaderLeaves, Active
<1>1. PICK p \in 0..spawned :
        /\ Leaving(r, p) /\ reader' = [reader EXCEPT ![r] = Left(p)]
        /\ inbox' = Broadcast(inbox, k) /\ Record /\ client' = [client EXCEPT ![k] = Down(@)]
        /\ UNCHANGED <<pool, made, spawned, proc, job, sent>> /\ deaths' \in 0..MaxDeaths
  <2>1. CASE ReaderDies(r)
    <3>1. 0 \in 0..spawned /\ deaths \in 0..MaxDeaths
      BY Types, PoolAssumption
    <3> QED BY <2>1, <3>1 DEF ReaderDies, Leaving, Ended
  <2>2. CASE ReaderLeaves(r)
    <3>1. reader[r].on \in 0..spawned
      BY Types DEF ReaderType
    <3>2. deaths + 1 \in 0..MaxDeaths
      BY <2>2, Types, PoolAssumption DEF ReaderLeaves
    <3> QED BY <2>2, <3>1, <3>2 DEF ReaderLeaves, Leaving
  <2> QED BY <2>1, <2>2
<1>2. k \in Clients /\ client[k] \in ClientType
  BY <1>0, ReaderAt
<1>3. /\ Down(client[k]) \in ClientType
      /\ Down(client[k]).proc = client[k].proc /\ Down(client[k]).lock = client[k].lock
      /\ Down(client[k]).ready = client[k].ready
      /\ \/ Down(client[k]).state = "DISCONNECTED"
         \/ Down(client[k]).state = "DEAD" /\ client[k].state = "DEAD"
  BY <1>2, DownIs
<1>4. client' = [client EXCEPT ![k] = Down(client[k])]
  BY <1>1, <1>2, Types
<1>5. reader' \in [Procs -> ReaderType]
  <2>1. Left(p) \in ReaderType
    BY Types, PoolAssumption DEF ReaderType, Left
  <2> QED BY <1>1, <2>1, Types
<1>6. /\ inbox' \in [Queries -> {"off", "none", "last"}]
      /\ \A q \in Queries : /\ inbox'[q] = "none" => inbox[q] = "none" /\ Of(q) # k
                            /\ inbox'[q] # "off" => inbox[q] # "off"
  <2>1. Fuller(inbox)
    BY Types DEF Fuller
  <2> QED BY <1>1, <1>2, <2>1, BroadcastIs
<1>7. pool' \in 0..made /\ deaths' \in 0..MaxDeaths /\ mishaps' \subseteq Mishaps
      /\ proc' \in [Procs -> ProcType] /\ job' \in [Jobs -> JobType]
  BY <1>1, Types, Grows
<1>8. TypeOK' /\ client'[k] = Down(client[k]) /\ \A i \in Clients : i # k => client'[i] = client[i]
  BY <1>1, <1>2, <1>3, <1>4, <1>5, <1>6, <1>7, OneClientTypes
<1> QED BY <1>0, <1>1, <1>3, <1>6, <1>8 DEF Fails

\* The kinds of steps.
Kind ==
  \/ \E j \in Jobs, k \in Clients : Acts(j, k)
  \/ \E j \in Jobs : Drifts(j)
  \/ \E j \in Queries \cup Warmers : Create(j)
  \/ \E w \in Warmers : At(w, "ready") /\ WarmUpTimeout(w)
  \/ \E q \in Queries : At(q, "stream") /\ Finish(q)
  \/ \E r \in Procs : Reads(r) \/ Fails(r) \/ Dies(r)
  \/ \E x \in Kicks : KickKills(x) \/ QuitDone(x)

\* The steps both queries and warm-ups take.
LEMMA ConnectSteps ==
  ASSUME TypeOK, JobsOK, LockInv, NEW j \in Queries \cup Warmers, JobStep(j)
  PROVE  TypeOK' /\ Kind
<1>1. j \in Jobs
  BY DEF Jobs
<1>2. CASE Locked(j)
  BY <1>1, <1>2, LockedStep DEF Kind
<1>3. CASE Create(j)
  BY <1>1, <1>3, CreateTypes DEF Kind
<1>4. CASE CreateFails(j)
  BY <1>1, <1>4, CreateFailsStep DEF Kind
<1>5. CASE ReadySeen(j)
  BY <1>1, <1>5, ReadySeenStep DEF Kind
<1>6. CASE ReadyTimeout(j)
  BY <1>1, <1>6, ReadyTimeoutStep DEF Kind
<1>7. CASE Exited(j)
  BY <1>1, <1>7, ExitedStep DEF Kind
<1>8. CASE ReaderEnded(j)
  BY <1>1, <1>8, ReaderEndedStep DEF Kind
<1> QED BY <1>2, <1>3, <1>4, <1>5, <1>6, <1>7, <1>8 DEF JobStep

\* Every step of the module is of one of these kinds, and keeps the types.
LEMMA StepKinds ==
  ASSUME TypeOK, JobsOK, TableOK, LockInv, Next
  PROVE  TypeOK' /\ Kind /\ mishaps \subseteq mishaps'
<1>1. ASSUME NEW q \in Queries, Message(q) \/ QueryStep(q) PROVE TypeOK' /\ Kind
  <2>1. q \in Jobs /\ q \in Queries \cup Warmers
    BY DEF Jobs
  <2>2. CASE Message(q)
    <3>1. Acquire(q) /\ job[q].pc = "idle" /\ UNCHANGED <<spawned, sent, deaths>> /\ Record
      BY <2>2 DEF Message, At
    <3> QED BY <2>1, <3>1, AcquireStep DEF Kind
  <2>3. CASE JobStep(q)
    BY <2>1, <2>3, ConnectSteps
  <2>4. CASE Send(q)
    BY <2>1, <2>4, SendStep DEF Kind
  <2>5. CASE Answered(q) \/ IdleTimeout(q)
    BY <2>1, <2>5, FinishTypes DEF Kind, Answered, IdleTimeout
  <2>6. CASE Again(q)
    BY <2>1, <2>6, AgainStep DEF Kind
  <2> QED BY <1>1, <2>2, <2>3, <2>4, <2>5, <2>6 DEF QueryStep
<1>2. ASSUME NEW w \in Warmers, Respawn(w) \/ WarmerStep(w) PROVE TypeOK' /\ Kind
  <2>1. w \in Jobs /\ w \in Queries \cup Warmers
    BY DEF Jobs
  <2>2. CASE Respawn(w) \/ (At(w, "lock") /\ WarmUpTimeout(w))
    BY <2>2, DriftSteps DEF Kind
  <2>3. CASE WarmUp(w)
    <3>1. Acquire(w) /\ job[w].pc = "fired" /\ UNCHANGED <<spawned, sent, deaths>> /\ Record
      BY <2>3 DEF WarmUp, At
    <3> QED BY <2>1, <3>1, AcquireStep DEF Kind
  <2>4. CASE JobStep(w)
    BY <2>1, <2>4, ConnectSteps
  <2>5. CASE At(w, "ready") /\ WarmUpTimeout(w)
    BY <2>1, <2>5, AbandonTypes DEF Kind
  <2>6. WarmUpTimeout(w) => At(w, "lock") \/ At(w, "ready")
    BY DEF WarmUpTimeout
  <2> QED BY <1>2, <2>2, <2>3, <2>4, <2>5, <2>6 DEF WarmerStep
<1>3. ASSUME NEW x \in Kicks, Kick(x) \/ Command(x) \/ KickStep(x) PROVE TypeOK' /\ Kind
  <2>1. x \in Jobs
    BY DEF Jobs
  <2>2. CASE Kick(x) \/ Command(x) \/ KickFails(x) \/ QuitCancelled(x)
    BY <2>2, DriftSteps DEF Kind
  <2>3. CASE KickKills(x)
    BY <2>3, KickKillsTypes DEF Kind
  <2>4. CASE QuitDone(x)
    BY <2>4, QuitDoneTypes DEF Kind
  <2>5. CASE QuitTimeout(x)
    BY <2>1, <2>5, QuitTimeoutStep DEF Kind
  <2>6. CASE Exited(x)
    BY <2>1, <2>6, ExitedStep DEF Kind
  <2>7. CASE ReaderEnded(x)
    BY <2>1, <2>7, ReaderEndedStep DEF Kind
  <2> QED BY <1>3, <2>2, <2>3, <2>4, <2>5, <2>6, <2>7 DEF KickStep
<1>4. ASSUME NEW r \in Procs, ReaderStep(r) \/ Dies(r) PROVE TypeOK' /\ Kind
  <2>1. CASE ReadReady(r)
    BY <2>1, ReadReadyStep DEF Kind
  <2>2. CASE ReadAnswer(r)
    BY <2>2, ReadAnswerStep DEF Kind
  <2>3. CASE ReaderDies(r) \/ ReaderLeaves(r)
    BY <2>3, ReaderEndsStep DEF Kind
  <2>4. CASE Dies(r)
    BY <2>4, DiesTypes DEF Kind
  <2> QED BY <1>4, <2>1, <2>2, <2>3, <2>4 DEF ReaderStep
<1>5. Record \/ UNCHANGED mishaps \/ mishaps' = mishaps \cup {"cancelled"}
  BY DEF Next, QueryStep, WarmerStep, KickStep, ReaderStep, JobStep, Message, Respawn, WarmUp, Locked,
         Create, CreateFails, ReadySeen, ReadyTimeout, Exited, ReaderEnded, WarmUpTimeout, Send, Finish,
         Answered, IdleTimeout, Again, ReadReady, ReadAnswer, ReaderDies, ReaderLeaves, Dies, Kick, Command,
         KickKills, KickFails, QuitDone, QuitTimeout, QuitCancelled
<1>6. mishaps \subseteq mishaps'
  BY <1>5, Grows
<1> QED BY <1>1, <1>2, <1>3, <1>4, <1>6 DEF Next

-----------------------------------------------------------------------------
(* Where coroutines are                                                    *)

\* A step of j keeps the coroutines in place if it keeps j in place.
LEMMA JobKeeps ==
  ASSUME JobsOK, NEW j \in Jobs, JobOK(j, job'[j]), \A i \in Jobs : i # j => job'[i] = job[i],
         \A q \in Queries : q # j /\ inbox'[q] # "off" => inbox[q] # "off",
         j \in Queries /\ inbox'[j] # "off" => job'[j].pc \in {"send", "stream"}
  PROVE  JobsOK'
BY DEF JobsOK, Jobs

\* A coroutine that is done is in place.
LEMMA FinishedOK ==
  ASSUME NEW j \in Jobs PROVE JobOK(j, Finished)
BY DEF JobOK, Finished

\* A step on a client keeps the coroutines in place.
LEMMA ActsJobs ==
  ASSUME TypeOK, JobsOK, NEW j \in Jobs, NEW k \in Clients, Acts(j, k)
  PROVE  JobsOK'
<1>1. /\ k # 0 /\ inbox \in [Queries -> {"off", "none", "last"}]
      /\ Queries \cap Warmers = {} /\ Queries \cap Kicks = {} /\ Warmers \cap Kicks = {}
  BY Types, PoolAssumption DEF Clients
<1>2. \A i \in Jobs : i # j => job'[i] = job[i]
  BY DEF Acts, Queues, Takes, Joins, Leaves, Stops, Kills, Cancels, Parks, Frame
<1>3. Enters(j) => (j \in Queries \/ j \in Warmers) /\ (j \in Queries => inbox[j] = "off")
  BY DEF Enters, JobsOK, Jobs
<1>4. CASE Queues(j, k) \/ Takes(j, k)
  <2>1. job'[j].pc \in {"lock", "create"} /\ job'[j].of = k /\ inbox' = inbox /\ Enters(j)
    BY <1>4 DEF Queues, Takes
  <2>2. JobOK(j, job'[j])
    BY <1>1, <1>3, <2>1 DEF JobOK
  <2> QED BY <1>2, <1>3, <2>1, <2>2, JobKeeps
<1>5. CASE Joins(j, k)
  <2>1. CASE j \in Queries
    <3>1. job'[j].pc = "send" /\ job'[j].of = k /\ inbox' = [inbox EXCEPT ![j] = "none"]
      BY <1>1, <1>5, <2>1 DEF Joins
    <3>2. JobOK(j, job'[j])
      BY <1>1, <2>1, <3>1 DEF JobOK
    <3> QED BY <1>1, <1>2, <3>1, <3>2, JobKeeps
  <2>2. CASE j \notin Queries
    <3>1. job'[j] = Finished /\ inbox' = inbox
      BY <1>5, <2>2 DEF Joins
    <3> QED BY <1>2, <2>2, <3>1, FinishedOK, JobKeeps
  <2> QED BY <2>1, <2>2
<1>6. CASE Leaves(j, k)
  <2>1. /\ \A q \in Queries : q # j /\ inbox'[q] # "off" => inbox[q] # "off"
        /\ ~(j \in Queries /\ inbox'[j] # "off")
    <3>1. DropsQueue(j)
      BY <1>6 DEF Leaves, Stops, Kills, Cancels, Parks
    <3> QED BY <1>1, <3>1 DEF DropsQueue
  <2>2. JobOK(j, job'[j])
    <3>1. CASE Stops(j, k)
      <4>1. job'[j] = Finished \/ (j \in Queries /\ job'[j].pc = "backoff" /\ job'[j].of = k)
        BY <3>1 DEF Stops
      <4> QED BY <1>1, <4>1, FinishedOK DEF JobOK
    <3>2. CASE Kills(j, k) \/ Cancels(j, k)
      <4>1. /\ job'[j].pc \in {"wait", "reader"} /\ job'[j].of = k
            /\ j \in Queries => job'[j].why \in {"spawn", "retry"}
            /\ j \in Warmers => job'[j].why = "spawn"
            /\ j \in Kicks => job'[j].why = "quit"
            /\ job'[j].pc = "reader" => job'[j].kill # 0
        BY <3>2 DEF Kills, Cancels, Parks
      <4> QED BY <1>1, <4>1 DEF JobOK
    <3> QED BY <1>6, <3>1, <3>2 DEF Leaves
  <2> QED BY <1>2, <2>1, <2>2, JobKeeps
<1> QED BY <1>4, <1>5, <1>6 DEF Acts

\* So does a step without one.
LEMMA DriftsJobs ==
  ASSUME TypeOK, JobsOK, NEW j \in Jobs, Drifts(j)
  PROVE  JobsOK'
<1>1. /\ inbox' = inbox /\ \A i \in Jobs : i # j => job'[i] = job[i]
      /\ job[j] \in JobType /\ JobOK(j, job[j])
      /\ Queries \cap Warmers = {} /\ Queries \cap Kicks = {} /\ Warmers \cap Kicks = {}
  BY Types, PoolAssumption DEF Drifts, JobsOK
<1>2. CASE job'[j] = Finished /\ (j \in Queries => At(j, "backoff"))
  <2>1. j \in Queries => inbox[j] = "off"
    BY <1>2 DEF JobsOK, At
  <2> QED BY <1>1, <1>2, <2>1, FinishedOK, JobKeeps
<1>3. CASE j \in Queries /\ At(j, "send") /\ job'[j] = [job[j] EXCEPT !.pc = "stream"]
  <2>1. job'[j].pc = "stream" /\ job'[j].of = job[j].of
    BY <1>1, <1>3 DEF JobType
  <2>2. JobOK(j, job'[j])
    BY <1>1, <1>3, <2>1 DEF JobOK, At
  <2> QED BY <1>1, <2>1, <2>2, JobKeeps
<1>4. CASE j \in Warmers /\ At(j, "idle") /\ job'[j] = [job[j] EXCEPT !.pc = "fired"]
  <2>1. job'[j].pc = "fired"
    BY <1>1, <1>4 DEF JobType
  <2>2. JobOK(j, job'[j])
    BY <1>1, <1>4, <2>1 DEF JobOK
  <2> QED BY <1>1, <1>4, <2>2, JobKeeps
<1>5. CASE j \in Kicks /\ job'[j].pc = "kill"
  <2>1. JobOK(j, job'[j])
    BY <1>1, <1>5 DEF JobOK
  <2> QED BY <1>1, <1>5, <2>1, JobKeeps
<1> QED BY <1>1, <1>2, <1>3, <1>4, <1>5 DEF Drifts

\* Every step keeps the coroutines where their kind can be.
LEMMA JobsStep ==
  ASSUME TypeOK, JobsOK, Kind
  PROVE  JobsOK'
<1>1. inbox \in [Queries -> {"off", "none", "last"}] /\ Queries \cap Kicks = {} /\ Queries \cap Warmers = {}
  BY Types, PoolAssumption
<1>2. ASSUME NEW j \in Queries \cup Warmers, Create(j) PROVE JobsOK'
  <2>1. /\ j \in Jobs /\ At(j, "create") /\ inbox' = inbox /\ job[j] \in JobType /\ JobOK(j, job[j])
    BY <1>2, Types DEF Create, Jobs, JobsOK
  <2>2. /\ job'[j] = [job[j] EXCEPT !.pc = "ready"] /\ job'[j].pc = "ready" /\ job'[j].of = Of(j)
        /\ \A i \in Jobs : i # j => job'[i] = job[i]
    BY <1>2, <2>1, CreateTypes
  <2>3. JobOK(j, job'[j])
    <3>1. j \notin Kicks
      BY PoolAssumption
    <3> QED BY <2>1, <2>2, <3>1 DEF JobOK, At, Of
  <2>4. j \in Queries => inbox[j] = "off"
    BY <2>1 DEF JobsOK, At
  <2> QED BY <2>1, <2>2, <2>3, <2>4, JobKeeps
<1>3. ASSUME NEW w \in Warmers, At(w, "ready") /\ WarmUpTimeout(w) PROVE JobsOK'
  BY <1>1, <1>3, AbandonTypes, FinishedOK, JobKeeps DEF Jobs
<1>4. ASSUME NEW q \in Queries, At(q, "stream") /\ Finish(q) PROVE JobsOK'
  <2>1. /\ q \in Jobs /\ job'[q] = Finished /\ \A i \in Jobs : i # q => job'[i] = job[i]
        /\ inbox' = [inbox EXCEPT ![q] = "off"]
    BY <1>4, FinishTypes
  <2> QED BY <1>1, <2>1, FinishedOK, JobKeeps
<1>5. ASSUME NEW r \in Procs, Reads(r) \/ Fails(r) \/ Dies(r) PROVE JobsOK'
  <2>1. job' = job /\ \A q \in Queries : inbox'[q] # "off" => inbox[q] # "off"
    BY <1>5 DEF Reads, Fails, Dies
  <2> QED BY <2>1 DEF JobsOK
<1>6. ASSUME NEW x \in Kicks, KickKills(x) \/ QuitDone(x) PROVE JobsOK'
  <2>1. /\ x \in Jobs /\ inbox' = inbox /\ \A i \in Jobs : i # x => job'[i] = job[i]
        /\ job'[x] = Finished \/ (job'[x].pc = "quit" /\ job'[x].of # 0 /\ job'[x].kill # 0)
    BY <1>6, KickKillsTypes, QuitDoneTypes
  <2>2. JobOK(x, job'[x])
    <3>1. x \notin Queries /\ x \notin Warmers
      BY PoolAssumption
    <3> QED BY <2>1, <3>1, FinishedOK DEF JobOK
  <2> QED BY <1>1, <2>1, <2>2, JobKeeps
<1> QED BY <1>2, <1>3, <1>4, <1>5, <1>6, ActsJobs, DriftsJobs DEF Kind

-----------------------------------------------------------------------------
(* The connect lock                                                        *)

\* A step of j that touches the lock of one client, k, and rightly.
LEMMA LockKeeps ==
  ASSUME LockInv, NEW j \in Jobs, NEW k \in Clients,
         \A i \in Clients : i # k => client'[i].lock = client[i].lock,
         \A i \in Jobs : i # j => job'[i] = job[i],
         client'[k].lock = j <=> Of(j)' = k /\ Connecting(j)',
         \A i \in Jobs : i # j => (client'[k].lock = i <=> client[k].lock = i),
         Connecting(j) => Of(j) = k, Connecting(j)' => Of(j)' = k
  PROVE  LockInv'
<1> SUFFICES ASSUME NEW c \in Clients, NEW i \in Jobs
             PROVE  client'[c].lock = i <=> Of(i)' = c /\ Connecting(i)'
  BY DEF LockInv
<1>1. client[c].lock = i <=> Of(i) = c /\ Connecting(i)
  BY DEF LockInv
<1>2. i # j => Of(i)' = Of(i) /\ (Connecting(i)' <=> Connecting(i))
  BY DEF Of, Connecting
<1>3. CASE i = j
  BY <1>1, <1>3
<1>4. CASE i # j
  BY <1>1, <1>2, <1>4
<1> QED BY <1>3, <1>4

\* A step on a client moves the client's lock with the coroutine that connects.
LEMMA ActsLock ==
  ASSUME TypeOK, LockInv, NEW j \in Jobs, NEW k \in Clients, Acts(j, k)
  PROVE  LockInv'
<1>1. /\ Nobody \notin Jobs
      /\ (client[k].lock = j <=> Of(j) = k /\ Connecting(j))
  BY PoolAssumption DEF LockInv
<1>2. /\ \A i \in Jobs : i # j => job'[i] = job[i]
      /\ \A i \in Clients : i # k => client'[i].lock = client[i].lock
      /\ Connecting(j) => Of(j) = k
  BY DEF Acts, Queues, Takes, Joins, Leaves, Stops, Kills, Cancels, Parks, Frame, Connecting
<1>3. CASE Queues(j, k)
  <2>1. client'[k].lock = client[k].lock /\ ~Connecting(j) /\ ~Connecting(j)'
    BY <1>3 DEF Queues, Enters, Connecting
  <2> QED BY <1>1, <1>2, <2>1, LockKeeps
<1>4. CASE Takes(j, k)
  <2>1. /\ client'[k] = [client[k] EXCEPT !.state = "CONNECTING", !.ready = FALSE, !.lock = j]
        /\ job'[j].pc = "create" /\ job'[j].of = k /\ client[k].lock = Nobody
    BY <1>4 DEF Takes
  <2>2. client'[k].lock = j
    <3>1. client[k] \in ClientType
      BY Types
    <3> QED BY <2>1, <3>1 DEF ClientType
  <2>3. Of(j)' = k /\ Connecting(j)'
    BY <2>1 DEF Connecting, Of
  <2>4. \A i \in Jobs : i # j => (client'[k].lock = i <=> client[k].lock = i)
    BY <1>1, <2>1, <2>2
  <2> QED BY <1>2, <2>2, <2>3, <2>4, LockKeeps
<1>5. CASE Joins(j, k)
  <2>1. client[k].lock \in {Nobody, j} /\ client'[k].lock = Nobody
    <3>1. At(j, "ready") => Of(j) = k /\ Connecting(j)
      BY <1>5 DEF Joins, Frame, At, Connecting
    <3> QED BY <1>1, <1>5, <3>1 DEF Joins
  <2>2. ~Connecting(j)'
    BY <1>5 DEF Joins, Connecting, Finished
  <2> QED BY <1>1, <1>2, <2>1, <2>2, LockKeeps
<1>6. CASE Stops(j, k)
  <2>1. Unlocks(j, k)
    BY <1>6 DEF Stops
  <2>2. ~Connecting(j)'
    BY <1>6 DEF Stops, Connecting, Finished
  <2> QED BY <1>1, <1>2, <2>1, <2>2, LockKeeps DEF Unlocks
<1>7. CASE Kills(j, k) \/ Cancels(j, k)
  <2>1. job'[j].pc \in {"wait", "reader"} /\ job'[j].of = k /\ Parks(j, k)
    BY <1>7 DEF Kills, Cancels, Parks
  <2>2. CASE job'[j].why = "spawn"
    <3>1. client'[k].lock = j /\ client[k].lock = j
      BY <2>1, <2>2 DEF Parks
    <3> QED BY <1>1, <1>2, <2>1, <2>2, <3>1, LockKeeps DEF Connecting, Of
  <2>3. CASE job'[j].why # "spawn"
    <3>1. Unlocks(j, k)
      BY <2>1, <2>3 DEF Parks
    <3>2. ~Connecting(j)'
      BY <2>1, <2>3 DEF Connecting
    <3> QED BY <1>1, <1>2, <3>1, <3>2, LockKeeps DEF Unlocks
  <2> QED BY <2>2, <2>3
<1> QED BY <1>3, <1>4, <1>5, <1>6, <1>7 DEF Acts, Leaves

\* Every step keeps the lock with the coroutine that connects.
LEMMA LockStep ==
  ASSUME TypeOK, JobsOK, TableOK, LockInv, Kind
  PROVE  LockInv'
<1>1. Nobody \notin Jobs /\ client \in [Clients -> ClientType]
  BY Types, PoolAssumption
<1>2. ASSUME NEW j \in Jobs, ~Connecting(j), ~Connecting(j)', \A i \in Jobs : i # j => job'[i] = job[i],
             \A i \in Clients : client'[i].lock = client[i].lock
      PROVE  LockInv'
  <2> SUFFICES ASSUME NEW c \in Clients, NEW i \in Jobs
               PROVE  client'[c].lock = i <=> Of(i)' = c /\ Connecting(i)'
    BY DEF LockInv
  <2>1. client[c].lock = i <=> Of(i) = c /\ Connecting(i)
    BY DEF LockInv
  <2>2. i # j => Of(i)' = Of(i) /\ (Connecting(i)' <=> Connecting(i))
    BY <1>2 DEF Of, Connecting
  <2> QED BY <1>2, <2>1, <2>2
<1>3. ASSUME NEW j \in Jobs, Drifts(j) PROVE LockInv'
  <2>1. client' = client /\ \A i \in Jobs : i # j => job'[i] = job[i]
    BY <1>3 DEF Drifts
  <2>2. ~Connecting(j)
    BY <1>3 DEF Drifts, Connecting, At
  <2>3. job'[j].pc \in {"stream", "done", "fired", "kill"}
    <3>1. job[j] \in JobType
      BY Types
    <3> QED BY <1>3, <3>1 DEF Drifts, Finished, JobType
  <2>4. ~Connecting(j)'
    BY <2>3 DEF Connecting
  <2> QED BY <1>2, <2>1, <2>2, <2>4
<1>4. ASSUME NEW j \in Queries \cup Warmers, Create(j) PROVE LockInv'
  <2>1. /\ j \in Jobs /\ Of(j) \in Clients /\ job'[j].pc = "ready" /\ job'[j].of = Of(j) /\ At(j, "create")
        /\ client'[Of(j)].lock = client[Of(j)].lock
        /\ \A i \in Clients : i # Of(j) => client'[i] = client[i]
        /\ \A i \in Jobs : i # j => job'[i] = job[i]
    <3>1. j \in Jobs /\ At(j, "create")
      BY <1>4 DEF Jobs, Create
    <3> QED BY <1>4, <3>1, CreateTypes
  <2>2. Connecting(j) /\ Connecting(j)' /\ Of(j)' = Of(j)
    BY <2>1 DEF Connecting, At, Of
  <2>3. client[Of(j)].lock = j
    BY <2>1, <2>2, OwnLock
  <2> QED BY <2>1, <2>2, <2>3, LockKeeps
<1>5. ASSUME NEW w \in Warmers, At(w, "ready") /\ WarmUpTimeout(w) PROVE LockInv'
  <2>1. /\ w \in Jobs /\ Of(w) \in Clients /\ job'[w] = Finished
        /\ client'[Of(w)].lock = Nobody
        /\ \A i \in Clients : i # Of(w) => client'[i] = client[i]
        /\ \A i \in Jobs : i # w => job'[i] = job[i]
    BY <1>5, AbandonTypes DEF Jobs
  <2>2. Connecting(w) /\ ~Connecting(w)'
    BY <1>5, <2>1 DEF Connecting, At, Finished
  <2>3. client[Of(w)].lock = w
    BY <2>1, <2>2, OwnLock
  <2> QED BY <1>1, <2>1, <2>2, <2>3, LockKeeps
<1>6. ASSUME NEW q \in Queries, At(q, "stream") /\ Finish(q) PROVE LockInv'
  <2>1. /\ q \in Jobs /\ job'[q] = Finished
        /\ \A i \in Clients : client'[i].lock = client[i].lock
        /\ \A i \in Jobs : i # q => job'[i] = job[i]
    BY <1>6, FinishTypes
  <2>2. ~Connecting(q) /\ ~Connecting(q)'
    BY <1>6, <2>1 DEF Connecting, At, Finished
  <2> QED BY <1>2, <2>1, <2>2
<1>7. ASSUME NEW r \in Procs, Reads(r) \/ Fails(r) \/ Dies(r) PROVE LockInv'
  <2>1. job' = job /\ \A i \in Clients : client'[i].lock = client[i].lock
    <3>1. CASE Reads(r)
      <4>1. /\ reader[r].of \in Clients /\ client[reader[r].of] \in ClientType
        BY <3>1, ReaderAt DEF Reads, Active
      <4>2. client'[reader[r].of].lock = client[reader[r].of].lock
        BY <3>1, <4>1 DEF Reads, ClientType
      <4> QED BY <3>1, <4>2 DEF Reads
    <3>2. CASE Fails(r)
      BY <3>2 DEF Fails
    <3>3. CASE Dies(r)
      BY <3>3 DEF Dies
    <3> QED BY <1>7, <3>1, <3>2, <3>3
  <2> QED BY <2>1 DEF LockInv, Of, Connecting
<1>8. ASSUME NEW x \in Kicks, KickKills(x) \/ QuitDone(x) PROVE LockInv'
  <2>1. /\ x \in Jobs /\ job[x].pc \in {"kill", "quit"} /\ job'[x].pc \in {"done", "quit"}
        /\ \A i \in Clients : client'[i].lock = client[i].lock
        /\ \A i \in Jobs : i # x => job'[i] = job[i]
    BY <1>8, KickKillsTypes, QuitDoneTypes DEF At, Finished
  <2>2. ~Connecting(x) /\ ~Connecting(x)'
    BY <2>1 DEF Connecting
  <2> QED BY <1>2, <2>1, <2>2
<1> QED BY <1>3, <1>4, <1>5, <1>6, <1>7, <1>8, ActsLock DEF Kind

-----------------------------------------------------------------------------
(* Processes and their readers                                             *)

\* A step that leaves the readers alone.
LEMMA TableKeeps ==
  ASSUME TableOK, UNCHANGED <<spawned, reader>>,
         \A p \in Procs : proc'[p] = "none" <=> proc[p] = "none",
         \A i \in Clients : client'[i].proc \in {client[i].proc, 0}
  PROVE  TableOK'
BY DEF TableOK

\* A process that has been spawned is one; and a client's process has been.
LEMMA SpawnedIs ==
  ASSUME TypeOK, TableOK, NEW p \in 0..spawned, p # 0
  PROVE  p \in Procs /\ proc[p] # "none" /\ reader[p].st # "none" /\ proc[p] \in ProcType
<1>1. p \in Procs /\ ~(p > spawned)
  BY Types, PoolAssumption DEF Procs
<1> QED BY <1>1, Types DEF TableOK

\* A client's process is one that was spawned.
LEMMA ClientProc ==
  ASSUME TypeOK, TableOK, NEW k \in Clients, client[k].proc # 0
  PROVE  /\ client[k].proc \in Procs /\ client[k].proc \in 0..spawned
         /\ proc[client[k].proc] # "none" /\ reader[client[k].proc].st # "none"
         /\ proc[client[k].proc] \in ProcType
<1>1. client[k].proc \in 0..spawned
  BY Types DEF ClientType
<1> QED BY <1>1, SpawnedIs

\* A step on a client keeps processes and readers paired.
LEMMA ActsTable ==
  ASSUME TypeOK, TableOK, NEW j \in Jobs, NEW k \in Clients, Acts(j, k)
  PROVE  TableOK'
<1>1. /\ proc \in [Procs -> ProcType] /\ reader \in [Procs -> ReaderType] /\ client[k] \in ClientType
  BY Types
<1>2. spawned' = spawned /\ \A i \in Clients : i # k => client'[i] = client[i]
  BY DEF Acts, Queues, Takes, Joins, Leaves, Stops, Kills, Cancels, Parks, Frame
<1>3. CASE Queues(j, k) \/ Takes(j, k) \/ Joins(j, k) \/ Stops(j, k)
  <2>1. UNCHANGED <<proc, reader>>
    BY <1>3 DEF Queues, Takes, Joins, Stops
  <2>2. client'[k].proc \in {client[k].proc, 0}
    BY <1>1, <1>3 DEF Queues, Takes, Joins, Stops, ClientType
  <2> QED BY <1>2, <2>1, <2>2, TableKeeps
<1>4. CASE Kills(j, k)
  <2>1. /\ Live(client[k].proc) /\ reader' = reader /\ client'[k].proc = client[k].proc
        /\ proc' = [proc EXCEPT ![client[k].proc] = "dead"]
    BY <1>4 DEF Kills, Parks
  <2>2. \A p \in Procs : proc'[p] = "none" <=> proc[p] = "none"
    BY <1>1, <2>1 DEF Live
  <2> QED BY <1>2, <2>1, <2>2, TableKeeps
<1>5. CASE Cancels(j, k)
  <2>1. PICK p : p = client[k].proc
    OBVIOUS
  <2>2. /\ p # 0 /\ reader[p].st # "done" /\ proc' = proc
        /\ reader' = [reader EXCEPT ![p].st = "cancelled"] /\ client'[k].proc = client[k].proc
    BY <1>5, <2>1 DEF Cancels, Parks
  <2>3. p \in Procs /\ reader[p].st \in Active /\ reader[p] \in ReaderType
    <3>1. p \in Procs /\ reader[p].st # "none"
      BY <2>1, <2>2, ClientProc
    <3> QED BY <1>1, <2>2, <3>1 DEF ReaderType, Active
  <2>4. /\ reader'[p].st = "cancelled" /\ reader'[p].on = reader[p].on /\ reader'[p].of = reader[p].of
        /\ \A r \in Procs : r # p => reader'[r] = reader[r]
    BY <1>1, <2>2, <2>3 DEF ReaderType
  <2>5. \A i \in Clients : client'[i].proc = client[i].proc
    BY <1>2, <2>2
  <2>6. \A r \in Procs : /\ reader'[r].on = reader[r].on /\ reader'[r].of = reader[r].of
                         /\ reader'[r].st \in Active <=> reader[r].st \in Active
                         /\ reader'[r].st = "reading" => reader[r].st = "reading"
                         /\ reader'[r].st = "none" <=> reader[r].st = "none"
    BY <2>3, <2>4 DEF Active
  <2>7. \A q \in Procs : reader'[q].st = "none" <=> q > spawned'
    BY <1>2, <2>6 DEF TableOK
  <2>8. \A q \in Procs : proc'[q] = "none" <=> q > spawned'
    BY <1>2, <2>2 DEF TableOK
  <2>9. \A r \in Procs : reader'[r].st \in Active => reader'[r].on # 0 /\ reader'[r].of # 0
    BY <2>6 DEF TableOK
  <2>10. \A r, s \in Procs :
           reader'[r].st = "reading" /\ reader'[s].st = "reading" /\ reader'[r].on = reader'[s].on => r = s
    BY <2>6 DEF TableOK
  <2>11. \A i \in Clients :
           client'[i].proc # 0 /\ reader'[client'[i].proc].st \in Active => reader'[client'[i].proc].of = i
    <3> SUFFICES ASSUME NEW i \in Clients, client'[i].proc # 0, reader'[client'[i].proc].st \in Active
                 PROVE  reader'[client'[i].proc].of = i
      OBVIOUS
    <3>1. client[i].proc # 0 /\ client'[i].proc = client[i].proc
      BY <2>5
    <3>2. client[i].proc \in Procs
      BY <3>1, ClientProc
    <3>3. reader[client[i].proc].st \in Active /\ reader'[client[i].proc].of = reader[client[i].proc].of
      BY <2>6, <3>1, <3>2
    <3> QED BY <3>1, <3>3 DEF TableOK
  <2> QED BY <2>7, <2>8, <2>9, <2>10, <2>11 DEF TableOK, Active
<1> QED BY <1>3, <1>4, <1>5 DEF Acts, Leaves

\* So does a spawn.
LEMMA CreateTable ==
  ASSUME TypeOK, JobsOK, TableOK, NEW j \in Jobs, Create(j)
  PROVE  TableOK'
<1>1. PICK n : n = spawned'
  OBVIOUS
<1>2. /\ Of(j) \in Clients /\ spawned \in Nat /\ n = spawned + 1 /\ n \in Procs /\ n \notin 0..spawned
      /\ proc' = [proc EXCEPT ![n] = "starting"]
      /\ reader'[n] = [st |-> "reading", on |-> n, of |-> Of(j)]
      /\ \A r \in Procs : r # n => reader'[r] = reader[r]
      /\ client'[Of(j)].proc = n
      /\ \A i \in Clients : i # Of(j) => client'[i] = client[i]
  BY <1>1, CreateTypes
<1>3. /\ proc \in [Procs -> ProcType] /\ reader \in [Procs -> ReaderType]
      /\ client \in [Clients -> ClientType] /\ Procs \subseteq Nat
  BY Types DEF Procs
<1>4. reader'[n].st = "reading" /\ reader'[n].on = n /\ reader'[n].of = Of(j) /\ n # 0 /\ Of(j) # 0
  BY <1>2, PoolAssumption DEF Clients
<1>5. \A p \in Procs : p # n => (p > n <=> p > spawned)
  BY <1>2, <1>3
<1>6. \A p \in Procs : proc'[p] = "none" <=> p > spawned'
  <2> SUFFICES ASSUME NEW p \in Procs PROVE proc'[p] = "none" <=> p > n
    BY <1>1
  <2>1. CASE p = n
    BY <1>2, <1>3, <2>1
  <2>2. CASE p # n
    BY <1>2, <1>3, <1>5, <2>2 DEF TableOK
  <2> QED BY <2>1, <2>2
<1>7. \A p \in Procs : reader'[p].st = "none" <=> p > spawned'
  <2> SUFFICES ASSUME NEW p \in Procs PROVE reader'[p].st = "none" <=> p > n
    BY <1>1
  <2>1. CASE p = n
    BY <1>3, <1>4, <2>1, <1>2
  <2>2. CASE p # n
    BY <1>2, <1>3, <1>5, <2>2 DEF TableOK
  <2> QED BY <2>1, <2>2
<1>8. \A r \in Procs : reader'[r].st \in Active => reader'[r].on # 0 /\ reader'[r].of # 0
  BY <1>2, <1>4 DEF TableOK
<1>9. \A r \in Procs : r # n => reader'[r].on # n
  BY <1>2, <1>3 DEF ReaderType
<1>10. \A r, s \in Procs :
         reader'[r].st = "reading" /\ reader'[s].st = "reading" /\ reader'[r].on = reader'[s].on => r = s
  <2> SUFFICES ASSUME NEW r \in Procs, NEW s \in Procs, reader'[r].st = "reading",
                      reader'[s].st = "reading", reader'[r].on = reader'[s].on
               PROVE  r = s
    OBVIOUS
  <2>1. CASE r = n \/ s = n
    BY <1>4, <1>9, <2>1
  <2>2. CASE r # n /\ s # n
    BY <1>2, <2>2 DEF TableOK
  <2> QED BY <2>1, <2>2
<1>11. \A i \in Clients :
         client'[i].proc # 0 /\ reader'[client'[i].proc].st \in Active => reader'[client'[i].proc].of = i
  <2> SUFFICES ASSUME NEW i \in Clients, client'[i].proc # 0, reader'[client'[i].proc].st \in Active
               PROVE  reader'[client'[i].proc].of = i
    OBVIOUS
  <2>1. CASE i = Of(j)
    BY <1>2, <1>4, <2>1
  <2>2. CASE i # Of(j)
    <3>1. client'[i].proc = client[i].proc /\ client[i].proc # 0
      BY <1>2, <2>2
    <3>2. client[i].proc \in Procs /\ client[i].proc \in 0..spawned
      BY <3>1, ClientProc
    <3>3. client[i].proc # n
      BY <1>2, <3>2
    <3>4. reader'[client[i].proc] = reader[client[i].proc]
      BY <1>2, <3>2, <3>3
    <3> QED BY <3>1, <3>4 DEF TableOK
  <2> QED BY <2>1, <2>2
<1> QED BY <1>6, <1>7, <1>8, <1>10, <1>11 DEF TableOK, Active

\* A reader goes on reading.
LEMMA ReadsTable ==
  ASSUME TypeOK, TableOK, NEW r \in Procs, Reads(r)
  PROVE  TableOK'
<1>1. PICK k : k = reader[r].of
  OBVIOUS
<1>2. PICK p : p = client[k].proc
  OBVIOUS
<1>3. /\ reader[r].st = "reading" /\ ~LostPipe(r) /\ spawned' = spawned
      /\ reader' = [reader EXCEPT ![r].on = p]
      /\ \A i \in Clients : i # k => client'[i] = client[i]
      /\ \/ proc' = proc /\ client' = client
         \/ Serves(r) /\ client'[k] = [client[k] EXCEPT !.state = "READY", !.ready = TRUE]
  BY <1>1, <1>2 DEF Reads
<1>4. /\ proc \in [Procs -> ProcType] /\ reader \in [Procs -> ReaderType]
      /\ k \in Clients /\ client[k] \in ClientType /\ reader[r].on \in Procs /\ k # 0
  BY <1>1, <1>3, Types, ReaderAt DEF Active, Clients
<1>5. \A i \in Clients : client'[i].proc = client[i].proc
  <2>1. client'[k].proc = client[k].proc
    BY <1>3, <1>4 DEF ClientType
  <2> QED BY <1>3, <2>1
<1>6. \A q \in Procs : proc'[q] = "none" <=> proc[q] = "none"
  BY <1>3, <1>4 DEF Serves
<1>7. /\ reader'[r].on = p /\ reader'[r].st = "reading" /\ reader'[r].of = k
      /\ \A s \in Procs : s # r => reader'[s] = reader[s]
  BY <1>1, <1>3, <1>4 DEF ReaderType
<1>8. p # 0 /\ \A s \in Procs : s # r /\ reader[s].st = "reading" => reader[s].on # p
  BY <1>1, <1>2, <1>3 DEF LostPipe
<1>9. \A s \in Procs : reader'[s].st = reader[s].st /\ reader'[s].of = reader[s].of
  BY <1>1, <1>3, <1>7
<1>10. \A q \in Procs : (proc'[q] = "none" <=> q > spawned') /\ (reader'[q].st = "none" <=> q > spawned')
  BY <1>3, <1>6, <1>9 DEF TableOK
<1>11. \A s \in Procs : reader'[s].st \in Active => reader'[s].on # 0 /\ reader'[s].of # 0
  BY <1>4, <1>7, <1>8 DEF TableOK
<1>12. \A s, t \in Procs :
         reader'[s].st = "reading" /\ reader'[t].st = "reading" /\ reader'[s].on = reader'[t].on => s = t
  BY <1>7, <1>8 DEF TableOK
<1>13. \A i \in Clients :
         client'[i].proc # 0 /\ reader'[client'[i].proc].st \in Active => reader'[client'[i].proc].of = i
  <2> SUFFICES ASSUME NEW i \in Clients, client'[i].proc # 0, reader'[client'[i].proc].st \in Active
               PROVE  reader'[client'[i].proc].of = i
    OBVIOUS
  <2>1. client[i].proc # 0 /\ client'[i].proc = client[i].proc
    BY <1>5
  <2>2. client[i].proc \in Procs
    BY <2>1, ClientProc
  <2>3. reader[client[i].proc].st \in Active /\ reader'[client[i].proc].of = reader[client[i].proc].of
    BY <1>9, <2>1, <2>2
  <2> QED BY <2>1, <2>3 DEF TableOK
<1> QED BY <1>10, <1>11, <1>12, <1>13 DEF TableOK, Active

\* A reader ends.
LEMMA FailsTable ==
  ASSUME TypeOK, TableOK, NEW r \in Procs, Fails(r)
  PROVE  TableOK'
<1>1. PICK k : k = reader[r].of
  OBVIOUS
<1>2. /\ reader[r].st \in Active /\ spawned' = spawned
      /\ \E p : reader' = [reader EXCEPT ![r] = Left(p)]
      /\ \A i \in Clients : i # k => client'[i] = client[i]
      /\ client'[k].proc = client[k].proc /\ (proc' = proc \/ Serves(r))
  BY <1>1 DEF Fails
<1>3. /\ proc \in [Procs -> ProcType] /\ reader \in [Procs -> ReaderType] /\ reader[r].on \in Procs
  BY <1>2, Types, ReaderAt
<1>4. \A i \in Clients : client'[i].proc = client[i].proc
  BY <1>2
<1>5. \A q \in Procs : proc'[q] = "none" <=> proc[q] = "none"
  BY <1>2, <1>3 DEF Serves
<1>6. reader'[r].st = "done" /\ \A s \in Procs : s # r => reader'[s] = reader[s]
  BY <1>2, <1>3 DEF Left
<1>7. \A s \in Procs : reader'[s].st = "none" <=> reader[s].st = "none"
  BY <1>2, <1>6 DEF Active
<1>8. \A s \in Procs : reader'[s].st \in Active => reader'[s] = reader[s]
  BY <1>6 DEF Active
<1>9. \A q \in Procs : (proc'[q] = "none" <=> q > spawned') /\ (reader'[q].st = "none" <=> q > spawned')
  BY <1>2, <1>5, <1>7 DEF TableOK
<1>10. \A s \in Procs : reader'[s].st \in Active => reader'[s].on # 0 /\ reader'[s].of # 0
  BY <1>8 DEF TableOK
<1>11. \A s, t \in Procs :
         reader'[s].st = "reading" /\ reader'[t].st = "reading" /\ reader'[s].on = reader'[t].on => s = t
  BY <1>8 DEF TableOK, Active
<1>12. \A i \in Clients :
         client'[i].proc # 0 /\ reader'[client'[i].proc].st \in Active => reader'[client'[i].proc].of = i
  <2> SUFFICES ASSUME NEW i \in Clients, client'[i].proc # 0, reader'[client'[i].proc].st \in Active
               PROVE  reader'[client'[i].proc].of = i
    OBVIOUS
  <2>1. client[i].proc # 0 /\ client'[i].proc = client[i].proc
    BY <1>4
  <2>2. client[i].proc \in Procs
    BY <2>1, ClientProc
  <2>3. reader'[client[i].proc] = reader[client[i].proc]
    BY <1>8, <2>1, <2>2
  <2> QED BY <2>1, <2>3 DEF TableOK
<1> QED BY <1>9, <1>10, <1>11, <1>12 DEF TableOK, Active

\* Every step keeps processes and readers paired, and pipes unshared.
LEMMA TableStep ==
  ASSUME TypeOK, JobsOK, TableOK, Kind
  PROVE  TableOK'
<1>1. proc \in [Procs -> ProcType] /\ client \in [Clients -> ClientType] /\ spawned \in 0..MaxProcs
  BY Types
<1>2. ASSUME NEW j \in Jobs, Drifts(j) PROVE TableOK'
  BY <1>2, TableKeeps DEF Drifts
<1>3. ASSUME NEW w \in Warmers, At(w, "ready") /\ WarmUpTimeout(w) PROVE TableOK'
  BY <1>3, AbandonTypes, TableKeeps
<1>4. ASSUME NEW q \in Queries, At(q, "stream") /\ Finish(q) PROVE TableOK'
  BY <1>4, FinishTypes, TableKeeps
<1>5. ASSUME NEW p \in Procs, Dies(p) PROVE TableOK'
  <2>1. /\ Live(p) /\ proc' = [proc EXCEPT ![p] = "dead"] /\ UNCHANGED <<spawned, reader, client>>
    BY <1>5 DEF Dies
  <2>2. \A q \in Procs : proc'[q] = "none" <=> proc[q] = "none"
    BY <1>1, <2>1 DEF Live
  <2> QED BY <2>1, <2>2, TableKeeps
<1>6. ASSUME NEW x \in Kicks, KickKills(x) PROVE TableOK'
  <2>1. /\ UNCHANGED <<spawned, reader>> /\ \A i \in Clients : client'[i].proc = client[i].proc
        /\ \A p \in Procs : proc'[p] = proc[p] \/ (Live(p) /\ proc'[p] = "dead")
    BY <1>6, KickKillsTypes
  <2>2. \A q \in Procs : proc'[q] = "none" <=> proc[q] = "none"
    BY <2>1 DEF Live
  <2> QED BY <2>1, <2>2, TableKeeps
<1>7. ASSUME NEW x \in Kicks, QuitDone(x) PROVE TableOK'
  <2>1. /\ UNCHANGED <<spawned, reader>> /\ \A i \in Clients : client'[i].proc = client[i].proc
        /\ proc' = [proc EXCEPT ![job[x].kill] = "dead"] /\ x \in Jobs /\ At(x, "quit")
    BY <1>7, QuitDoneTypes
  <2>2. job[x].kill \in 0..spawned /\ job[x].kill # 0
    BY <2>1, Types DEF JobsOK, JobOK, JobType, At
  <2>3. proc[job[x].kill] # "none"
    BY <2>2, SpawnedIs
  <2>4. \A q \in Procs : proc'[q] = "none" <=> proc[q] = "none"
    BY <1>1, <2>1, <2>3
  <2> QED BY <2>1, <2>4, TableKeeps
<1>8. ASSUME NEW j \in Queries \cup Warmers, Create(j) PROVE TableOK'
  BY <1>8, CreateTable DEF Jobs
<1> QED BY <1>2, <1>3, <1>4, <1>5, <1>6, <1>7, <1>8, ActsTable, ReadsTable, FailsTable DEF Kind

-----------------------------------------------------------------------------
(* Cancelled readers                                                       *)

\* The reader a coroutine waits for is one that was started.
LEMMA WaitedFor ==
  ASSUME TypeOK, JobsOK, TableOK, NEW j \in Jobs, At(j, "reader")
  PROVE  job[j].kill \in Procs
<1>1. job[j].kill \in 0..spawned /\ job[j].kill # 0
  BY Types DEF JobsOK, JobOK, JobType, At
<1> QED BY <1>1, SpawnedIs

\* A step that cancels no reader.
LEMMA CancelKeeps ==
  ASSUME TypeOK, JobsOK, TableOK, CancelInv,
         \A i \in Jobs : job'[i].pc = "reader" => job'[i] = job[i],
         \A i \in Jobs : At(i, "reader") => job'[i] = job[i] \/ reader[job[i].kill].st = "done",
         \A r \in Procs : reader'[r].st = "cancelled" =>
                            reader[r].st = "cancelled" /\ reader'[r].of = reader[r].of,
         \A r \in Procs : reader[r].st \in {"cancelled", "done"} => reader'[r].st \in {"cancelled", "done"}
  PROVE  CancelInv'
<1>1. ASSUME NEW i \in Jobs, At(i, "reader")'
      PROVE  reader'[job'[i].kill].st \in {"cancelled", "done"}
  <2>1. At(i, "reader") /\ job'[i] = job[i]
    BY <1>1 DEF At
  <2>2. job[i].kill \in Procs
    BY <2>1, WaitedFor
  <2> QED BY <2>1, <2>2 DEF CancelInv
<1>2. ASSUME NEW r \in Procs, reader'[r].st = "cancelled"
      PROVE  \E i \in Jobs : At(i, "reader")' /\ job'[i].kill = r /\ Of(i)' = reader'[r].of
  <2>1. reader[r].st = "cancelled" /\ reader'[r].of = reader[r].of
    BY <1>2
  <2>2. PICK i \in Jobs : At(i, "reader") /\ job[i].kill = r /\ Of(i) = reader[r].of
    BY <2>1 DEF CancelInv
  <2>3. job'[i] = job[i]
    BY <2>1, <2>2
  <2> QED BY <2>1, <2>2, <2>3 DEF At, Of
<1> QED BY <1>1, <1>2 DEF CancelInv, At, Of

\* A coroutine's step that leaves the readers alone.
LEMMA CancelSame ==
  ASSUME TypeOK, JobsOK, TableOK, CancelInv, NEW j \in Jobs, reader' = reader,
         \A i \in Jobs : i # j => job'[i] = job[i], job'[j].pc # "reader",
         At(j, "reader") => reader[job[j].kill].st = "done"
  PROVE  CancelInv'
BY CancelKeeps

\* _force_kill waits for the reader it cancels.
LEMMA CancelsCancel ==
  ASSUME TypeOK, JobsOK, TableOK, CancelInv, NEW j \in Jobs, NEW k \in Clients, Cancels(j, k)
  PROVE  CancelInv'
<1>1. PICK p : p = client[k].proc
  OBVIOUS
<1>2. /\ p # 0 /\ reader[p].st # "done" /\ job'[j].pc = "reader" /\ job'[j].kill = p /\ job'[j].of = k
      /\ reader' = [reader EXCEPT ![p].st = "cancelled"] /\ job[j].pc # "reader"
      /\ \A i \in Jobs : i # j => job'[i] = job[i]
  BY <1>1 DEF Cancels, Parks, Frame
<1>3. reader \in [Procs -> ReaderType] /\ p \in Procs /\ reader[p].st # "none"
  BY <1>1, <1>2, Types, ClientProc
<1>4. /\ reader'[p].st = "cancelled" /\ reader'[p].of = reader[p].of
      /\ \A r \in Procs : r # p => reader'[r] = reader[r]
  BY <1>2, <1>3 DEF ReaderType
<1>5. reader[p].of = k
  <2>1. reader[p].st \in Active
    BY <1>2, <1>3 DEF ReaderType, Active
  <2> QED BY <1>1, <1>2, <2>1 DEF TableOK
<1>6. ASSUME NEW i \in Jobs, At(i, "reader")'
      PROVE  reader'[job'[i].kill].st \in {"cancelled", "done"}
  <2>1. CASE i = j
    BY <1>2, <1>4, <2>1
  <2>2. CASE i # j
    <3>1. At(i, "reader") /\ job'[i] = job[i]
      BY <1>2, <1>6, <2>2 DEF At
    <3>2. job[i].kill \in Procs
      BY <3>1, WaitedFor
    <3> QED BY <1>4, <3>1, <3>2 DEF CancelInv
  <2> QED BY <2>1, <2>2
<1>7. ASSUME NEW r \in Procs, reader'[r].st = "cancelled"
      PROVE  \E i \in Jobs : At(i, "reader")' /\ job'[i].kill = r /\ Of(i)' = reader'[r].of
  <2>1. CASE r = p
    BY <1>2, <1>4, <1>5, <2>1 DEF At, Of
  <2>2. CASE r # p
    <3>1. reader[r].st = "cancelled" /\ reader'[r] = reader[r]
      BY <1>4, <1>7, <2>2
    <3>2. PICK i \in Jobs : At(i, "reader") /\ job[i].kill = r /\ Of(i) = reader[r].of
      BY <3>1 DEF CancelInv
    <3>3. job'[i] = job[i]
      BY <1>2, <3>2 DEF At
    <3> QED BY <3>1, <3>2, <3>3 DEF At, Of
  <2> QED BY <2>1, <2>2
<1> QED BY <1>6, <1>7 DEF CancelInv, At, Of

\* A step on a client keeps cancelled readers waited for.
LEMMA ActsCancel ==
  ASSUME TypeOK, JobsOK, TableOK, CancelInv, NEW j \in Jobs, NEW k \in Clients, Acts(j, k)
  PROVE  CancelInv'
<1>1. CASE Queues(j, k) \/ Takes(j, k) \/ Joins(j, k)
  <2>1. /\ reader' = reader /\ \A i \in Jobs : i # j => job'[i] = job[i]
        /\ job'[j].pc # "reader" /\ ~At(j, "reader")
    BY <1>1 DEF Queues, Takes, Joins, Frame, Enters, At, Finished
  <2> QED BY <2>1, CancelSame
<1>2. CASE Stops(j, k)
  <2>1. /\ reader' = reader /\ \A i \in Jobs : i # j => job'[i] = job[i]
        /\ job'[j].pc # "reader" /\ (At(j, "reader") => reader[job[j].kill].st = "done")
    BY <1>2 DEF Stops, Frame, Finished
  <2> QED BY <2>1, CancelSame
<1>3. CASE Kills(j, k)
  <2>1. /\ reader' = reader /\ \A i \in Jobs : i # j => job'[i] = job[i]
        /\ job'[j].pc # "reader" /\ ~At(j, "reader")
    BY <1>3 DEF Kills, Parks, Frame, At
  <2> QED BY <2>1, CancelSame
<1> QED BY <1>1, <1>2, <1>3, CancelsCancel DEF Acts, Leaves

\* Every step keeps cancelled readers waited for, and waited-for readers cancelled.
LEMMA CancelStep ==
  ASSUME TypeOK, JobsOK, TableOK, CancelInv, Kind
  PROVE  CancelInv'
<1>1. ASSUME NEW j \in Jobs, Drifts(j) PROVE CancelInv'
  <2>1. reader' = reader /\ (\A i \in Jobs : i # j => job'[i] = job[i]) /\ ~At(j, "reader")
    BY <1>1 DEF Drifts, At
  <2>2. job'[j].pc # "reader"
    <3>1. job[j] \in JobType
      BY Types
    <3> QED BY <1>1, <3>1 DEF Drifts, JobType, Finished
  <2> QED BY <2>1, <2>2, CancelSame
<1>2. ASSUME NEW j \in Queries \cup Warmers, Create(j) PROVE CancelInv'
  <2>1. j \in Jobs /\ At(j, "create")
    BY <1>2 DEF Create, Jobs
  <2>2. PICK n : n = spawned'
    OBVIOUS
  <2>3. /\ n \in Procs /\ spawned \in Nat /\ n = spawned + 1
        /\ reader'[n] = [st |-> "reading", on |-> n, of |-> Of(j)]
        /\ \A r \in Procs : r # n => reader'[r] = reader[r]
        /\ job'[j].pc = "ready" /\ \A i \in Jobs : i # j => job'[i] = job[i]
    BY <1>2, <2>1, <2>2, CreateTypes
  <2>4. reader'[n].st = "reading"
    BY <2>3
  <2>5. reader[n].st = "none"
    BY <2>3 DEF TableOK
  <2> QED BY <2>1, <2>3, <2>4, <2>5, CancelKeeps DEF At
<1>3. ASSUME NEW w \in Warmers, At(w, "ready") /\ WarmUpTimeout(w) PROVE CancelInv'
  BY <1>3, AbandonTypes, CancelSame DEF At, Finished, Jobs
<1>4. ASSUME NEW q \in Queries, At(q, "stream") /\ Finish(q) PROVE CancelInv'
  BY <1>4, FinishTypes, CancelSame DEF At, Finished
<1>5. ASSUME NEW r \in Procs, Reads(r) \/ Fails(r) \/ Dies(r) PROVE CancelInv'
  <2>1. job' = job /\ reader \in [Procs -> ReaderType]
    BY <1>5, Types DEF Reads, Fails, Dies
  <2>2. /\ \A s \in Procs : reader'[s].st = "cancelled" => reader[s].st = "cancelled" /\ reader'[s].of = reader[s].of
        /\ \A s \in Procs : reader[s].st \in {"cancelled", "done"} => reader'[s].st \in {"cancelled", "done"}
    <3>1. CASE Reads(r)
      <4>1. /\ reader'[r].st = reader[r].st /\ reader'[r].of = reader[r].of
            /\ \A s \in Procs : s # r => reader'[s] = reader[s]
        BY <2>1, <3>1 DEF Reads, ReaderType
      <4> QED BY <4>1
    <3>2. CASE Fails(r)
      <4>1. reader'[r].st = "done" /\ \A s \in Procs : s # r => reader'[s] = reader[s]
        BY <2>1, <3>2 DEF Fails, Left
      <4> QED BY <4>1
    <3>3. CASE Dies(r)
      BY <3>3 DEF Dies
    <3> QED BY <1>5, <3>1, <3>2, <3>3
  <2> QED BY <2>1, <2>2, CancelKeeps
<1>6. ASSUME NEW x \in Kicks, KickKills(x) \/ QuitDone(x) PROVE CancelInv'
  BY <1>6, KickKillsTypes, QuitDoneTypes, CancelSame DEF At, Finished
<1> QED BY <1>1, <1>2, <1>3, <1>4, <1>5, <1>6, ActsCancel DEF Kind

-----------------------------------------------------------------------------
(* Mishaps                                                                 *)

\* A mishap that is not on record has not happened.
LEMMA NotHappened ==
  ASSUME Record, NEW m \in Mishaps, m \notin mishaps' PROVE ~Happens(m)
BY DEF Record

\* _force_kill has not taken a newer process or reader.
LEMMA NotClobbered ==
  ASSUME Record, "clobbered" \notin mishaps', NEW j \in Jobs, NEW k \in Clients,
         job[j].pc \in {"wait", "reader"}, job'[j] # job[j],
         Live(client[k].proc), proc'[client[k].proc] # "dead"
  PROVE  /\ client'[k].proc # 0
         /\ reader[client[k].proc].st = "cancelled" \/ reader'[client[k].proc].st # "cancelled"
<1>1. ~Happens("clobbered")
  BY NotHappened DEF Mishaps
<1> QED BY <1>1 DEF Happens

\* No reader that is behind has marked a client that is served.
LEMMA NotStale ==
  ASSUME Record, "stale" \notin mishaps', NEW k \in Clients, client'[k].state = "DISCONNECTED",
         client'[k].proc # 0, proc'[client'[k].proc] # "dead",
         reader'[client'[k].proc].st = "reading"
  PROVE  client[k].state = "DISCONNECTED"
<1>1. ~Happens("stale")
  BY NotHappened DEF Mishaps
<1> QED BY <1>1 DEF Happens

\* A connect taken for good has its reader.
LEMMA NotEarly ==
  ASSUME Record, "early" \notin mishaps', NEW j \in Jobs, At(j, "ready"), client[Of(j)].ready,
         client'[Of(j)].lock = Nobody
  PROVE  client[Of(j)].proc # 0 /\ reader[client[Of(j)].proc].st # "done"
<1>1. ~Happens("early")
  BY NotHappened DEF Mishaps
<1> QED BY <1>1 DEF Happens

\* The end of a query overwrote no other coroutine's state.
LEMMA NotRevived ==
  ASSUME Record, "revived" \notin mishaps', NEW q \in Queries, At(q, "stream"), job'[q].pc = "done"
  PROVE  client[Of(q)].state \in {"BUSY", "READY", "DISCONNECTED"}
<1>1. ~Happens("revived")
  BY NotHappened DEF Mishaps
<1> QED BY <1>1 DEF Happens

\* A retry that is over has not left the client in RETRY.
LEMMA NotIndex ==
  ASSUME Record, "index" \notin mishaps', NEW q \in Queries, Running(q), job'[q].pc = "done"
  PROVE  client'[Of(q)].state # "RETRY"
<1>1. ~Happens("index")
  BY NotHappened DEF Mishaps
<1> QED BY <1>1 DEF Happens

-----------------------------------------------------------------------------
(* Running processes                                                       *)

UnreadThen(p) == \E r \in Procs : reader'[r] = Left(p)
LiveThen(p) == p # 0 /\ proc'[p] \in {"starting", "serving"} /\ ~UnreadThen(p)

\* What a reader has left stays left, so what is attended after a step was before it.
LEMMA WasAttended ==
  ASSUME \A r \in Procs : reader[r].st = "done" => reader'[r] = reader[r], NEW p, LiveThen(p),
         proc[p] \in {"starting", "serving"}
  PROVE  Attended(p)
BY DEF Attended, Live, LeftUnread, LiveThen, UnreadThen, Left

\* A step that spawns nothing and starts no connect: what is left running is still its client's
\* and its reader's.
LEMMA DaemonKeeps ==
  ASSUME TypeOK, JobsOK, DaemonInv,
         \A i \in Jobs : job'[i].pc = "create" => job'[i] = job[i],
         \A p \in Procs : LiveThen(p) => Attended(p) /\ reader'[p] = reader[p],
         \A i \in Clients : client'[i].proc \in {client[i].proc, 0},
         \A i \in Clients : LiveThen(client[i].proc) => client'[i].proc = client[i].proc,
         \A i \in Clients : LiveThen(client'[i].proc) /\ (client'[i].lock = Nobody \/ client'[i].ready) =>
                              client'[i].state \in {"READY", "BUSY"},
         \A i \in Jobs : At(i, "create") => ~client'[Of(i)].ready,
         \A r \in Procs : reader'[r].st = "reading" => ~UnreadThen(reader'[r].on)
  PROVE  DaemonInv'
<1>0. \A i \in Clients : LiveThen(client'[i].proc) =>
        /\ Attended(client[i].proc) /\ client[i].proc = client'[i].proc
        /\ reader'[client[i].proc] = reader[client[i].proc]
  <2> SUFFICES ASSUME NEW i \in Clients, LiveThen(client'[i].proc)
               PROVE  /\ Attended(client[i].proc) /\ client[i].proc = client'[i].proc
                      /\ reader'[client[i].proc] = reader[client[i].proc]
    OBVIOUS
  <2>1. client'[i].proc = client[i].proc /\ client[i].proc # 0
    BY DEF LiveThen
  <2>2. client[i].proc \in 0..spawned /\ spawned \in 0..MaxProcs /\ MaxProcs \in Nat
    BY Types, PoolAssumption DEF ClientType
  <2>3. client[i].proc \in Procs
    BY <2>1, <2>2 DEF Procs
  <2> QED BY <2>1, <2>3
<1>1. ASSUME NEW p \in Procs, LiveThen(p)
      PROVE  \E i \in Clients : client'[i].proc = p
  <2>1. PICK i \in Clients : client[i].proc = p
    BY <1>1 DEF DaemonInv
  <2> QED BY <1>1, <2>1
<1>2. ASSUME NEW i \in Clients, LiveThen(client'[i].proc)
      PROVE  /\ reader'[client'[i].proc].st = "reading" /\ reader'[client'[i].proc].on = client'[i].proc
             /\ client'[i].lock = Nobody \/ client'[i].ready => client'[i].state \in {"READY", "BUSY"}
  <2>1. Attended(client[i].proc) /\ client[i].proc = client'[i].proc
        /\ reader'[client[i].proc] = reader[client[i].proc]
    BY <1>0, <1>2
  <2>2. reader[client[i].proc].st = "reading" /\ reader[client[i].proc].on = client[i].proc
    BY <2>1 DEF DaemonInv
  <2> QED BY <1>2, <2>1, <2>2
<1>3. ASSUME NEW i \in Jobs, At(i, "create")'
      PROVE  ~LiveThen(client'[Of(i)'].proc) /\ ~client'[Of(i)'].ready
  <2>1. job'[i] = job[i] /\ At(i, "create") /\ Of(i)' = Of(i)
    BY <1>3 DEF At, Of
  <2>2. Of(i) \in Clients
    BY <2>1, ItsClient DEF At
  <2>3. ~Attended(client[Of(i)].proc)
    BY <2>1 DEF DaemonInv
  <2> QED BY <1>0, <2>1, <2>2, <2>3
<1> QED BY <1>1, <1>2, <1>3 DEF DaemonInv, LiveThen, UnreadThen, Attended, LeftUnread, Live

\* While no reader moves, nobody begins to read what was left.
LEMMA NobodyReadsLeft ==
  ASSUME DaemonInv, reader' = reader
  PROVE  \A r \in Procs : reader'[r].st = "reading" => ~UnreadThen(reader'[r].on)
BY DEF DaemonInv, UnreadThen, LeftUnread

Clean == Without({"clobbered", "stale", "cancelled"})

\* Without the three mishaps after a step, none of them happened in it or before it.
LEMMA CleanThen ==
  ASSUME Clean', mishaps \subseteq mishaps'
  PROVE  /\ Clean /\ "clobbered" \notin mishaps' /\ "stale" \notin mishaps'
         /\ "cancelled" \notin mishaps'
BY DEF Clean, Without

\* What the invariant says of a client's running process.
LEMMA LiveIs ==
  ASSUME TypeOK, TableOK, DaemonInv, NEW k \in Clients, Attended(client[k].proc)
  PROVE  /\ client[k].proc \in Procs /\ Live(client[k].proc) /\ proc[client[k].proc] # "dead"
         /\ reader[client[k].proc].st = "reading" /\ reader[client[k].proc].on = client[k].proc
         /\ reader[client[k].proc].of = k
         /\ client[k].lock = Nobody \/ client[k].ready => client[k].state \in {"READY", "BUSY"}
<1>1. client[k].proc # 0
  BY DEF Attended, Live
<1>2. client[k].proc \in Procs
  BY <1>1, ClientProc
<1>3. /\ reader[client[k].proc].st = "reading" /\ reader[client[k].proc].on = client[k].proc
      /\ client[k].lock = Nobody \/ client[k].ready => client[k].state \in {"READY", "BUSY"}
  BY DEF DaemonInv
<1> QED BY <1>1, <1>2, <1>3 DEF Attended, Live, TableOK, Active

\* Whoever is about to spawn for a client holds its lock.
LEMMA OneCreates ==
  ASSUME TypeOK, JobsOK, LockInv, NEW i \in Jobs, At(i, "create")
  PROVE  Of(i) \in Clients /\ client[Of(i)].lock = i
<1>1. Of(i) \in Clients
  BY ItsClient DEF At
<1> QED BY <1>1, OwnLock DEF Connecting, At

\* Waiting for the lock changes no process.
LEMMA QueuesDaemon ==
  ASSUME TypeOK, JobsOK, TableOK, DaemonInv, NEW j \in Jobs, NEW k \in Clients, Queues(j, k)
  PROVE  DaemonInv'
<1>1. /\ client' = client /\ UNCHANGED <<proc, reader>> /\ job'[j].pc = "lock"
      /\ \A i \in Jobs : i # j => job'[i] = job[i]
  BY DEF Queues, Frame
<1>2. \A i \in Clients : LiveThen(client[i].proc) => Attended(client[i].proc)
  BY <1>1 DEF LiveThen, UnreadThen, Attended, LeftUnread, Live
<1> QED BY <1>1, <1>2, NobodyReadsLeft, DaemonKeeps DEF LiveThen, UnreadThen, Attended, LeftUnread, Live, DaemonInv

\* A connect begins where no process runs.
LEMMA TakesDaemon ==
  ASSUME TypeOK, JobsOK, TableOK, LockInv, DaemonInv, NEW j \in Jobs, NEW k \in Clients, Takes(j, k)
  PROVE  DaemonInv'
<1>1. /\ client[k].lock = Nobody /\ client[k].state \notin {"READY", "BUSY", "DEAD"}
      /\ client'[k] = [client[k] EXCEPT !.state = "CONNECTING", !.ready = FALSE, !.lock = j]
      /\ job'[j].pc = "create" /\ job'[j].of = k /\ UNCHANGED <<proc, reader>>
      /\ \A i \in Clients : i # k => client'[i] = client[i]
      /\ \A i \in Jobs : i # j => job'[i] = job[i]
  BY DEF Takes, Frame
<1>2. client[k] \in ClientType /\ Nobody \notin Jobs
  BY Types, PoolAssumption
<1>3. client'[k].proc = client[k].proc /\ ~client'[k].ready
  BY <1>1, <1>2 DEF ClientType
<1>4. ~Attended(client[k].proc)
  BY <1>1, LiveIs
<1>5. \A i \in Clients : client'[i].proc = client[i].proc
  BY <1>1, <1>3
<1>6. \A p \in Procs : Attended(p)' => \E i \in Clients : client'[i].proc = p
  BY <1>1, <1>5 DEF DaemonInv, Attended, LeftUnread, Live
<1>7. ASSUME NEW i \in Clients, Attended(client[i].proc)'
      PROVE  /\ reader'[client'[i].proc].st = "reading" /\ reader'[client'[i].proc].on = client'[i].proc
             /\ client'[i].lock = Nobody \/ client'[i].ready => client'[i].state \in {"READY", "BUSY"}
  <2>1. Attended(client[i].proc)
    BY <1>1, <1>5, <1>7 DEF Attended, LeftUnread, Live
  <2>2. i # k
    BY <1>4, <2>1
  <2> QED BY <1>1, <2>1, <2>2, LiveIs
<1>8. ASSUME NEW i \in Jobs, At(i, "create")'
      PROVE  ~Attended(client[Of(i)].proc)' /\ ~client'[Of(i)'].ready
  <2>1. CASE i = j
    BY <1>1, <1>3, <1>4, <2>1 DEF Of, Attended, LeftUnread, Live
  <2>2. CASE i # j
    <3>1. At(i, "create") /\ Of(i)' = Of(i)
      BY <1>1, <1>8, <2>2 DEF At, Of
    <3>2. Of(i) \in Clients /\ Of(i) # k
      BY <1>1, <1>2, <3>1, OneCreates
    <3> QED BY <1>1, <3>1, <3>2 DEF DaemonInv, Attended, LeftUnread, Live
  <2> QED BY <2>1, <2>2
<1>9. \A r \in Procs : reader'[r].st = "reading" => ~UnreadThen(reader'[r].on)
  BY <1>1, NobodyReadsLeft
<1> QED BY <1>6, <1>7, <1>8, <1>9 DEF DaemonInv, UnreadThen, LeftUnread

\* A connect that succeeds leaves its process READY or BUSY.
LEMMA JoinsDaemon ==
  ASSUME TypeOK, JobsOK, TableOK, LockInv, DaemonInv, NEW j \in Jobs, NEW k \in Clients, Joins(j, k)
  PROVE  DaemonInv'
<1>1. /\ client'[k].proc = client[k].proc /\ client'[k].ready = client[k].ready
      /\ client'[k].state \in {"BUSY", client[k].state}
      /\ job'[j].pc # "create" /\ UNCHANGED <<proc, reader>>
      /\ \A i \in Clients : i # k => client'[i] = client[i]
      /\ \A i \in Jobs : i # j => job'[i] = job[i]
      /\ (client[k].lock = Nobody /\ client[k].state \in {"READY", "BUSY"}) \/ (At(j, "ready") /\ client[k].ready)
  BY DEF Joins, Frame, Finished
<1>2. Attended(client[k].proc) => client[k].state \in {"READY", "BUSY"}
  BY <1>1, LiveIs
<1>3. \A i \in Clients : LiveThen(client'[i].proc) /\ (client'[i].lock = Nobody \/ client'[i].ready) =>
                           client'[i].state \in {"READY", "BUSY"}
  <2> SUFFICES ASSUME NEW i \in Clients, LiveThen(client'[i].proc), client'[i].lock = Nobody \/ client'[i].ready
               PROVE  client'[i].state \in {"READY", "BUSY"}
    OBVIOUS
  <2>1. Attended(client[i].proc)
    BY <1>1 DEF LiveThen, UnreadThen, Attended, LeftUnread, Live
  <2>2. CASE i = k
    BY <1>1, <1>2, <2>1, <2>2
  <2>3. CASE i # k
    BY <1>1, <2>1, <2>3, LiveIs
  <2> QED BY <2>2, <2>3
<1>4. \A i \in Clients : client'[i].proc = client[i].proc /\ client'[i].ready = client[i].ready
  BY <1>1
<1>5. \A i \in Jobs : At(i, "create") => ~client'[Of(i)].ready
  BY <1>4, OneCreates DEF DaemonInv
<1> QED BY <1>1, <1>3, <1>4, <1>5, NobodyReadsLeft, DaemonKeeps DEF LiveThen, UnreadThen, Attended, LeftUnread, Live

\* Only a process that is not running is forgotten.
LEMMA StopsDaemon ==
  ASSUME TypeOK, JobsOK, TableOK, LockInv, DaemonInv, NEW j \in Jobs, NEW k \in Clients, Stops(j, k),
         "clobbered" \notin mishaps'
  PROVE  DaemonInv'
<1>1. /\ client'[k].proc \in {client[k].proc, 0} /\ client'[k].ready = client[k].ready
      /\ job'[j].pc \notin {"create", "wait", "reader"} /\ UNCHANGED <<proc, reader>> /\ Record
      /\ \A i \in Clients : i # k => client'[i] = client[i]
      /\ \A i \in Jobs : i # j => job'[i] = job[i]
      /\ At(j, "create") => Of(j) = k
      /\ Attended(client[k].proc) =>
           \/ job[j].pc \in {"wait", "reader"} /\ client'[k].proc = 0
           \/ client[k].state = "DEAD" /\ client[k].lock = Nobody /\ client' = client
           \/ At(j, "create")
  BY DEF Stops, Frame, Finished, At, Attended
<1>2. ~Attended(client[k].proc)
  <2> SUFFICES ASSUME Attended(client[k].proc) PROVE FALSE
    OBVIOUS
  <2>1. Live(client[k].proc) /\ proc[client[k].proc] # "dead" /\ (client[k].lock = Nobody => client[k].state \in {"READY", "BUSY"})
    BY LiveIs
  <2>2. ~At(j, "create")
    BY <1>1 DEF DaemonInv
  <2>3. CASE job[j].pc \in {"wait", "reader"} /\ client'[k].proc = 0
    <3>1. job'[j] # job[j]
      BY <1>1, <2>3
    <3> QED BY <1>1, <2>1, <2>3, <3>1, NotClobbered
  <2>4. CASE client[k].state = "DEAD" /\ client[k].lock = Nobody
    BY <2>1, <2>4
  <2> QED BY <1>1, <2>2, <2>3, <2>4
<1>3. ASSUME NEW i \in Clients
      PROVE  /\ client'[i].proc \in {client[i].proc, 0} /\ client'[i].ready = client[i].ready
             /\ LiveThen(client[i].proc) => client'[i].proc = client[i].proc
             /\ LiveThen(client'[i].proc) /\ (client'[i].lock = Nobody \/ client'[i].ready) =>
                  client'[i].state \in {"READY", "BUSY"}
  <2>1. LiveThen(client[i].proc) => Attended(client[i].proc)
    BY <1>1 DEF LiveThen, UnreadThen, Attended, LeftUnread, Live
  <2>2. CASE i = k
    BY <1>1, <1>2, <2>1, <2>2 DEF LiveThen
  <2>3. CASE i # k
    BY <1>1, <2>1, <2>3, LiveIs
  <2> QED BY <2>2, <2>3
<1>4. \A i \in Jobs : At(i, "create") => ~client'[Of(i)].ready
  BY <1>3, OneCreates DEF DaemonInv
<1>5. \A i \in Jobs : job'[i].pc = "create" => job'[i] = job[i]
  BY <1>1
<1>6. \A p \in Procs : LiveThen(p) => Attended(p) /\ reader'[p] = reader[p]
  BY <1>1 DEF LiveThen, UnreadThen, Attended, LeftUnread, Live
<1> QED BY <1>1, <1>3, <1>4, <1>5, <1>6, NobodyReadsLeft, DaemonKeeps

\* _force_kill ends the process it takes from the client.
LEMMA ParksDaemon ==
  ASSUME TypeOK, JobsOK, TableOK, LockInv, DaemonInv, NEW j \in Jobs, NEW k \in Clients,
         Kills(j, k) \/ Cancels(j, k), "clobbered" \notin mishaps'
  PROVE  DaemonInv'
<1>1. PICK p : p = client[k].proc
  OBVIOUS
<1>2. /\ client'[k].proc = p /\ client'[k].ready = client[k].ready
      /\ job'[j].pc \in {"wait", "reader"} /\ Record
      /\ \A i \in Clients : i # k => client'[i] = client[i]
      /\ \A i \in Jobs : i # j => job'[i] = job[i]
  BY <1>1 DEF Kills, Cancels, Parks, Frame
<1>3. proc \in [Procs -> ProcType] /\ reader \in [Procs -> ReaderType]
  BY Types
<1>4. /\ ~LiveThen(p) /\ \A q \in Procs : LiveThen(q) => Attended(q) /\ reader'[q] = reader[q]
      /\ \A q \in Procs : reader'[q].st = "reading" => ~UnreadThen(reader'[q].on)
  <2>1. CASE Kills(j, k)
    <3>1. Live(p) /\ proc' = [proc EXCEPT ![p] = "dead"] /\ reader' = reader
      BY <1>1, <2>1 DEF Kills
    <3>2. p \in Procs
      BY <1>1, <3>1, ClientProc DEF Live
    <3>3. ~LiveThen(p)
      BY <1>3, <3>1, <3>2 DEF LiveThen
    <3>4. ASSUME NEW q \in Procs, LiveThen(q) PROVE Attended(q)
      BY <1>3, <3>1, <3>2, <3>4 DEF LiveThen, UnreadThen, Attended, LeftUnread, Live
    <3> QED BY <3>1, <3>3, <3>4, NobodyReadsLeft
  <2>2. CASE Cancels(j, k)
    <3>1. /\ p # 0 /\ reader[p].st # "done" /\ proc' = proc /\ (~Live(p) \/ At(j, "wait"))
          /\ reader' = [reader EXCEPT ![p].st = "cancelled"] /\ job'[j].pc = "reader"
      BY <1>1, <2>2 DEF Cancels
    <3>2. p \in Procs /\ reader'[p].st = "cancelled" /\ \A q \in Procs : q # p => reader'[q] = reader[q]
      <4>1. p \in Procs
        BY <1>1, <3>1, ClientProc
      <4> QED BY <1>3, <3>1, <4>1 DEF ReaderType
    <3>3. ~Attended(p)
      <4> SUFFICES ASSUME Attended(p) PROVE FALSE
        OBVIOUS
      <4>1. Live(p) /\ proc[p] # "dead" /\ reader[p].st = "reading"
        BY <1>1, LiveIs
      <4>2. job[j].pc \in {"wait", "reader"} /\ job'[j] # job[j]
        BY <3>1, <4>1 DEF At
      <4> QED BY <1>1, <1>2, <3>1, <3>2, <4>1, <4>2, NotClobbered
    <3>4. ASSUME NEW q, LiveThen(q) PROVE Attended(q)
      BY <3>1, <3>2, <3>4, WasAttended DEF LiveThen
    <3>5. ASSUME NEW q \in Procs, reader'[q].st = "reading" PROVE ~UnreadThen(reader'[q].on)
      <4>1. reader'[q] = reader[q] /\ ~LeftUnread(reader[q].on)
        BY <3>2, <3>5 DEF DaemonInv
      <4> QED BY <3>2, <4>1 DEF UnreadThen, LeftUnread, Left
    <3> QED BY <3>2, <3>3, <3>4, <3>5
  <2> QED BY <2>1, <2>2
<1>5. ASSUME NEW i \in Clients
      PROVE  /\ client'[i].proc = client[i].proc /\ client'[i].ready = client[i].ready
             /\ LiveThen(client'[i].proc) /\ (client'[i].lock = Nobody \/ client'[i].ready) =>
                  client'[i].state \in {"READY", "BUSY"}
  <2>1. CASE i = k
    BY <1>1, <1>2, <1>4, <2>1
  <2>2. CASE i # k
    <3>1. client'[i] = client[i]
      BY <1>2, <2>2
    <3>2. LiveThen(client[i].proc) => Attended(client[i].proc)
      <4>1. client[i].proc # 0 => client[i].proc \in Procs
        BY ClientProc
      <4> QED BY <1>4, <4>1 DEF LiveThen
    <3> QED BY <3>1, <3>2, LiveIs
  <2> QED BY <2>1, <2>2
<1>6. \A i \in Jobs : At(i, "create") => ~client'[Of(i)].ready
  BY <1>5, OneCreates DEF DaemonInv
<1>7. \A i \in Jobs : job'[i].pc = "create" => job'[i] = job[i]
  BY <1>2
<1> QED BY <1>4, <1>5, <1>6, <1>7, DaemonKeeps

\* A step on a client keeps every running process a client's.
LEMMA ActsDaemon ==
  ASSUME TypeOK, JobsOK, TableOK, LockInv, DaemonInv, NEW j \in Jobs, NEW k \in Clients, Acts(j, k),
         "clobbered" \notin mishaps'
  PROVE  DaemonInv'
BY QueuesDaemon, TakesDaemon, JoinsDaemon, StopsDaemon, ParksDaemon DEF Acts, Leaves

\* A step that leaves every client's process, readiness and lock alone and runs no more processes;
\* it may change the state of a client without a running process, or make READY what was connected.
LEMMA DaemonSame ==
  ASSUME TypeOK, JobsOK, TableOK, LockInv, DaemonInv,
         \A i \in Jobs : job'[i].pc = "create" => job'[i] = job[i],
         \A p \in Procs : LiveThen(p) => Attended(p) /\ reader'[p] = reader[p],
         \A i \in Clients :
           /\ client'[i].proc = client[i].proc /\ client'[i].ready = client[i].ready
           /\ client'[i].lock = client[i].lock
           /\ LiveThen(client[i].proc) /\ client[i].state \in {"READY", "BUSY"} =>
                client'[i].state \in {"READY", "BUSY"},
         \A r \in Procs : reader'[r].st = "reading" => ~UnreadThen(reader'[r].on)
  PROVE  DaemonInv'
<1>1. ASSUME NEW i \in Clients, LiveThen(client'[i].proc), client'[i].lock = Nobody \/ client'[i].ready
      PROVE  client'[i].state \in {"READY", "BUSY"}
  <2>1. client[i].proc # 0 /\ LiveThen(client[i].proc)
    BY <1>1 DEF LiveThen
  <2>2. Attended(client[i].proc)
    BY <2>1, ClientProc
  <2>3. client[i].state \in {"READY", "BUSY"}
    BY <1>1, <2>2, LiveIs
  <2> QED BY <2>1, <2>3
<1>2. \A i \in Jobs : At(i, "create") => ~client'[Of(i)].ready
  BY OneCreates DEF DaemonInv
<1> QED BY <1>1, <1>2, DaemonKeeps

\* A new process is its client's, and read.
LEMMA CreateDaemon ==
  ASSUME TypeOK, JobsOK, TableOK, LockInv, DaemonInv, NEW j \in Jobs, Create(j)
  PROVE  DaemonInv'
<1>1. PICK n : n = spawned'
  OBVIOUS
<1>2. PICK k : k = Of(j)
  OBVIOUS
<1>3. /\ k \in Clients /\ n \in Procs /\ n \notin 0..spawned /\ proc' = [proc EXCEPT ![n] = "starting"]
      /\ reader'[n] = [st |-> "reading", on |-> n, of |-> k]
      /\ \A r \in Procs : r # n => reader'[r] = reader[r]
      /\ client'[k].proc = n /\ client'[k].ready = client[k].ready /\ client'[k].lock = client[k].lock
      /\ \A i \in Clients : i # k => client'[i] = client[i]
      /\ job'[j].pc = "ready" /\ \A i \in Jobs : i # j => job'[i] = job[i]
  BY <1>1, <1>2, CreateTypes
<1>4. At(j, "create") /\ client \in [Clients -> ClientType] /\ proc \in [Procs -> ProcType] /\ Nobody \notin Jobs
  BY Types, PoolAssumption DEF Create
<1>5. ~Attended(client[k].proc) /\ ~client[k].ready /\ client[k].lock = j
  BY <1>2, <1>3, <1>4, OwnLock DEF DaemonInv, Connecting, At
<1>5a. \A r \in Procs : reader[r].st = "done" => reader'[r] = reader[r]
  <2>1. n > spawned
    BY <1>3, Types, PoolAssumption DEF Procs
  <2>2. reader[n].st = "none"
    BY <1>3, <2>1 DEF TableOK
  <2> QED BY <1>3, <2>2
<1>5b. \A p : Attended(p)' <=> LiveThen(p)
  BY DEF Attended, Live, LeftUnread, LiveThen, UnreadThen
<1>6. ASSUME NEW p \in Procs, p # n, Attended(p)'
      PROVE  Attended(p)
  BY <1>3, <1>4, <1>5a, <1>5b, <1>6, WasAttended DEF LiveThen
<1>7. ASSUME NEW i \in Clients, i # k, Attended(client[i].proc)'
      PROVE  Attended(client[i].proc) /\ client[i].proc # n /\ client[i].proc \in Procs
  <2>1. client'[i].proc = client[i].proc /\ client[i].proc # 0
    BY <1>3, <1>7 DEF Attended, Live
  <2>2. client[i].proc \in Procs /\ client[i].proc \in 0..spawned
    BY <2>1, ClientProc
  <2>3. client[i].proc # n
    BY <1>3, <2>2
  <2>4. proc'[client[i].proc] = proc[client[i].proc]
    BY <1>3, <1>4, <2>2, <2>3
  <2> QED BY <1>5a, <1>7, <2>1, <2>2, <2>3, <2>4, WasAttended DEF Attended, Live, LeftUnread, LiveThen, UnreadThen
<1>8. ASSUME NEW p \in Procs, Attended(p)'
      PROVE  \E i \in Clients : client'[i].proc = p
  <2>1. CASE p = n
    BY <1>3, <2>1
  <2>2. CASE p # n
    <3>1. PICK i \in Clients : client[i].proc = p
      BY <1>6, <1>8, <2>2 DEF DaemonInv
    <3>2. i # k
      BY <1>5, <1>6, <1>8, <2>2, <3>1
    <3> QED BY <1>3, <3>1, <3>2
  <2> QED BY <2>1, <2>2
<1>9. ASSUME NEW i \in Clients, Attended(client[i].proc)'
      PROVE  /\ reader'[client'[i].proc].st = "reading" /\ reader'[client'[i].proc].on = client'[i].proc
             /\ client'[i].lock = Nobody \/ client'[i].ready => client'[i].state \in {"READY", "BUSY"}
  <2>1. CASE i = k
    BY <1>3, <1>4, <1>5, <2>1
  <2>2. CASE i # k
    <3>1. /\ Attended(client[i].proc) /\ client'[i] = client[i]
          /\ reader'[client[i].proc] = reader[client[i].proc]
      BY <1>3, <1>7, <1>9, <2>2
    <3> QED BY <3>1, LiveIs
  <2> QED BY <2>1, <2>2
<1>10. ASSUME NEW i \in Jobs, At(i, "create")'
       PROVE  ~Attended(client[Of(i)].proc)' /\ ~client'[Of(i)'].ready
  <2>1. i # j
    BY <1>3, <1>10 DEF At
  <2>2. At(i, "create") /\ Of(i)' = Of(i)
    BY <1>3, <1>10, <2>1 DEF At, Of
  <2>3. Of(i) \in Clients /\ Of(i) # k
    BY <1>5, <2>1, <2>2, OneCreates
  <2>4. ~Attended(client[Of(i)].proc) /\ ~client[Of(i)].ready /\ client'[Of(i)] = client[Of(i)]
    BY <1>3, <2>2, <2>3 DEF DaemonInv
  <2>5. ASSUME Attended(client[Of(i)].proc)' PROVE FALSE
    <3>1. PICK c \in Clients : c = Of(i)
      BY <2>3
    <3>2. Attended(client[c].proc)' /\ c # k
      BY <2>2, <2>3, <2>5, <3>1 DEF Attended, LeftUnread, Live
    <3> QED BY <1>7, <2>4, <3>1, <3>2
  <2> QED BY <2>2, <2>4, <2>5
<1>11. ASSUME NEW r \in Procs, reader'[r].st = "reading" PROVE ~UnreadThen(reader'[r].on)
  <2>1. CASE r = n
    <3>1. \A q \in Procs : reader[q] \in ReaderType /\ reader[q].on \in 0..spawned
      BY Types DEF ReaderType
    <3> QED BY <1>3, <2>1, <3>1 DEF UnreadThen, Left
  <2>2. CASE r # n
    <3>1. reader'[r] = reader[r] /\ ~LeftUnread(reader[r].on)
      BY <1>3, <1>11, <2>2 DEF DaemonInv
    <3> QED BY <1>3, <3>1 DEF UnreadThen, LeftUnread, Left
  <2> QED BY <2>1, <2>2
<1> QED BY <1>8, <1>9, <1>10, <1>11 DEF DaemonInv, UnreadThen, LeftUnread

\* A reader that reads from a running process is that process's own, and its client's.
LEMMA ReadsOwn ==
  ASSUME TypeOK, TableOK, DaemonInv, NEW r \in Procs, reader[r].st = "reading", Live(reader[r].on)
  PROVE  /\ reader[r].on = r /\ reader[r].of \in Clients /\ client[reader[r].of].proc = r
         /\ Attended(r) /\ ~LostPipe(r)
<1>1. PICK q \in Procs : q = reader[r].on
  BY ReaderAt DEF Active
<1>2. Attended(q)
  BY <1>1 DEF DaemonInv, Attended
<1>3. PICK i \in Clients : client[i].proc = q
  BY <1>2 DEF DaemonInv
<1>4. reader[q].st = "reading" /\ reader[q].on = q /\ reader[q].of = i
  BY <1>2, <1>3, LiveIs
<1>5. q = r
  BY <1>1, <1>4 DEF TableOK
<1>6. ~LostPipe(r)
  <2>1. \A s \in Procs \ {r} : ~(reader[s].st = "reading" /\ reader[s].on = r)
    BY <1>4, <1>5 DEF TableOK
  <2>2. client[reader[r].of].proc = r /\ r # 0
    BY <1>2, <1>3, <1>4, <1>5 DEF Attended, Live
  <2> QED BY <2>1, <2>2 DEF LostPipe
<1> QED BY <1>1, <1>2, <1>3, <1>4, <1>5, <1>6

\* The reader of a running process is its own and its client's.
LEMMA LiveOwn ==
  ASSUME TypeOK, TableOK, DaemonInv, NEW r \in Procs, Attended(r)
  PROVE  /\ reader[r].st = "reading" /\ reader[r].on = r /\ proc[r] # "dead"
         /\ reader[r].of \in Clients /\ client[reader[r].of].proc = r /\ ~LostPipe(r)
<1>1. PICK i \in Clients : client[i].proc = r
  BY DEF DaemonInv
<1>2. reader[r].st = "reading" /\ reader[r].on = r /\ reader[r].of = i
  BY <1>1, LiveIs
<1>3. ~LostPipe(r)
  <2>1. \A s \in Procs \ {r} : ~(reader[s].st = "reading" /\ reader[s].on = r)
    BY <1>2 DEF TableOK
  <2> QED BY <1>1, <1>2, <2>1 DEF LostPipe, Attended, Live
<1> QED BY <1>1, <1>2, <1>3 DEF Attended, Live

\* A reader that goes on reads from its own process.
LEMMA ReadsDaemon ==
  ASSUME TypeOK, JobsOK, TableOK, LockInv, DaemonInv, NEW r \in Procs, Reads(r)
  PROVE  DaemonInv'
<1>1. PICK k : k = reader[r].of
  OBVIOUS
<1>2. /\ reader[r].st = "reading" /\ job' = job
      /\ reader' = [reader EXCEPT ![r].on = client[k].proc]
      /\ \A i \in Clients : i # k => client'[i] = client[i]
      /\ \/ proc' = proc /\ client' = client
         \/ Serves(r) /\ client'[k] = [client[k] EXCEPT !.state = "READY", !.ready = TRUE]
  BY <1>1 DEF Reads
<1>3. /\ proc \in [Procs -> ProcType] /\ reader \in [Procs -> ReaderType]
      /\ k \in Clients /\ client[k] \in ClientType /\ reader[r].on \in Procs
  BY <1>1, <1>2, Types, ReaderAt DEF Active
<1>4. reader[r].on = r /\ client[k].proc = r /\ Attended(r) /\ reader' = reader
  <2>1. Live(reader[r].on)
    BY DEF Reads
  <2>2. reader[r].on = r /\ client[k].proc = r /\ Attended(r)
    BY <1>1, <1>2, <2>1, ReadsOwn
  <2>3. reader' = [reader EXCEPT ![r] = reader[r]]
    BY <1>2, <1>3, <2>2 DEF ReaderType
  <2> QED BY <1>3, <2>2, <2>3
<1>5. /\ \A p \in Procs : LiveThen(p) => Attended(p) /\ reader'[p] = reader[p]
      /\ \A p \in Procs : reader'[p].st = "reading" => ~UnreadThen(reader'[p].on)
  <2>1. \A p \in Procs : LiveThen(p) => Attended(p)
    BY <1>2, <1>3, <1>4 DEF LiveThen, UnreadThen, Attended, LeftUnread, Live, Serves
  <2> QED BY <1>4, <2>1, NobodyReadsLeft
<1>6. CASE proc' = proc /\ client' = client
  BY <1>2, <1>5, <1>6, DaemonSame
<1>7. CASE Serves(r) /\ client'[k] = [client[k] EXCEPT !.state = "READY", !.ready = TRUE]
  <2>1. client[k].proc = r /\ Attended(r)
    BY <1>4
  <2>2. client'[k].state = "READY" /\ client'[k].proc = client[k].proc
    BY <1>3, <1>7 DEF ClientType
  <2>3. \A i \in Clients : client'[i].proc = client[i].proc
    BY <1>2, <2>2
  <2>4. \A i \in Jobs : At(i, "create") => Of(i) # k
    BY <2>1 DEF DaemonInv
  <2>5. \A i \in Jobs : At(i, "create") => ~client'[Of(i)].ready
    BY <1>2, <2>4, OneCreates DEF DaemonInv
  <2>6. ASSUME NEW i \in Clients, LiveThen(client'[i].proc), client'[i].lock = Nobody \/ client'[i].ready
        PROVE  client'[i].state \in {"READY", "BUSY"}
    <3>1. CASE i = k
      BY <2>2, <3>1
    <3>2. CASE i # k
      <4>1. client'[i] = client[i] /\ client[i].proc # 0
        BY <1>2, <2>6, <3>2 DEF LiveThen
      <4>2. Attended(client[i].proc)
        BY <1>5, <2>6, <4>1, ClientProc
      <4> QED BY <2>6, <4>1, <4>2, LiveIs
    <3> QED BY <3>1, <3>2
  <2> QED BY <1>2, <1>5, <2>3, <2>5, <2>6, DaemonKeeps
<1> QED BY <1>2, <1>6, <1>7

\* A reader that ends served no running process.
LEMMA FailsDaemon ==
  ASSUME TypeOK, JobsOK, TableOK, LockInv, DaemonInv, NEW r \in Procs, Fails(r), "stale" \notin mishaps'
  PROVE  DaemonInv'
<1>1. PICK k : k = reader[r].of
  OBVIOUS
<1>2. /\ job' = job /\ Record /\ reader[r].st \in Active
      /\ \A i \in Clients : i # k => client'[i] = client[i]
      /\ client'[k].proc = client[k].proc /\ client'[k].lock = client[k].lock
      /\ \/ client'[k].state = "DISCONNECTED"
         \/ client'[k].state = "DEAD" /\ client[k].state = "DEAD"
      /\ \/ proc' = proc /\ client'[k].ready = client[k].ready
         \/ Serves(r) /\ reader[r].st = "reading" /\ LostPipe(r)
  BY <1>1 DEF Fails
<1>2a. PICK p \in 0..spawned : Leaving(r, p) /\ reader' = [reader EXCEPT ![r] = Left(p)]
  BY DEF Fails
<1>3. reader \in [Procs -> ReaderType] /\ k \in Clients
  BY <1>1, <1>2, Types, ReaderAt
<1>4. proc' = proc /\ client'[k].ready = client[k].ready
  <2>1. Serves(r) /\ reader[r].st = "reading" => Live(reader[r].on)
    BY <1>2, ReaderAt, PoolAssumption DEF Serves, Live, Procs
  <2> QED BY <1>2, <2>1, ReadsOwn
<1>5. reader'[r] = Left(p) /\ \A s \in Procs : s # r => reader'[s] = reader[s]
  BY <1>2a, <1>3
<1>5a. ~LiveThen(r)
  <2> SUFFICES ASSUME LiveThen(r) PROVE FALSE
    OBVIOUS
  <2>1. Attended(r)
    BY <1>2, <1>4, <1>5, WasAttended DEF LiveThen, Active
  <2>2. reader[r].st = "reading" /\ reader[r].on = r /\ proc[r] # "dead" /\ ~LostPipe(r)
    BY <2>1, LiveOwn
  <2>3. p = r
    BY <1>2a, <2>2 DEF Leaving
  <2> QED BY <1>5, <2>3 DEF LiveThen, UnreadThen
<1>6. ASSUME NEW q \in Procs, LiveThen(q) PROVE Attended(q) /\ reader'[q] = reader[q]
  BY <1>2, <1>4, <1>5, <1>5a, <1>6, WasAttended DEF LiveThen, Active
<1>6a. ASSUME NEW s \in Procs, reader'[s].st = "reading" PROVE ~UnreadThen(reader'[s].on)
  <2>1. s # r /\ reader'[s] = reader[s] /\ ~LeftUnread(reader[s].on) /\ reader[s].on # 0
    BY <1>5, <1>6a DEF Left, DaemonInv, TableOK, Active
  <2>2. p # reader[s].on
    BY <1>2a, <1>6a, <2>1 DEF Leaving, TableOK
  <2> QED BY <1>5, <2>1, <2>2 DEF UnreadThen, LeftUnread, Left
<1>7. LiveThen(client[k].proc) => client[k].state \notin {"READY", "BUSY"}
  <2> SUFFICES ASSUME LiveThen(client[k].proc) PROVE client[k].state \notin {"READY", "BUSY"}
    OBVIOUS
  <2>1. client[k].proc # 0 /\ client[k].proc \in Procs /\ Attended(client[k].proc)
    <3>1. client[k].proc # 0
      BY DEF LiveThen
    <3> QED BY <1>3, <1>6, <3>1, ClientProc
  <2>2. reader'[client[k].proc].st = "reading" /\ proc'[client[k].proc] # "dead"
    BY <1>3, <1>4, <1>6, <2>1, LiveIs
  <2>3. client'[k].state = "DISCONNECTED" => client[k].state = "DISCONNECTED"
    BY <1>2, <1>3, <2>1, <2>2, NotStale
  <2> QED BY <1>2, <2>3
<1>8. ASSUME NEW i \in Clients
      PROVE  /\ client'[i].proc = client[i].proc /\ client'[i].ready = client[i].ready
             /\ client'[i].lock = client[i].lock
             /\ LiveThen(client[i].proc) /\ client[i].state \in {"READY", "BUSY"} =>
                  client'[i].state \in {"READY", "BUSY"}
  BY <1>2, <1>4, <1>7
<1> QED BY <1>2, <1>6, <1>6a, <1>8, DaemonSame

\* Every step that is no such mishap keeps running processes with their clients.
LEMMA DaemonStep ==
  ASSUME TypeOK, JobsOK, TableOK, LockInv, DaemonInv, Kind,
         "clobbered" \notin mishaps', "stale" \notin mishaps', "cancelled" \notin mishaps'
  PROVE  DaemonInv'
<1>1. proc \in [Procs -> ProcType]
  BY Types
<1>2. ASSUME NEW j \in Jobs, Drifts(j) PROVE DaemonInv'
  <2>1. UNCHANGED <<client, proc, reader>> /\ \A i \in Jobs : i # j => job'[i] = job[i]
    BY <1>2 DEF Drifts
  <2>2. job'[j].pc # "create"
    <3>1. job[j] \in JobType
      BY Types
    <3> QED BY <1>2, <3>1 DEF Drifts, JobType, Finished
  <2>3. \A p \in Procs : LiveThen(p) => Attended(p) /\ reader'[p] = reader[p]
    BY <2>1 DEF LiveThen, UnreadThen, Attended, LeftUnread, Live
  <2> QED BY <2>1, <2>2, <2>3, NobodyReadsLeft, DaemonSame
<1>3. ASSUME NEW j \in Queries \cup Warmers, Create(j) PROVE DaemonInv'
  BY <1>3, CreateDaemon DEF Jobs
<1>4. ASSUME NEW q \in Queries, At(q, "stream") /\ Finish(q) PROVE DaemonInv'
  <2>1. /\ Of(q) \in Clients /\ UNCHANGED <<proc, reader>> /\ job'[q] = Finished
        /\ client'[Of(q)].lock = client[Of(q)].lock /\ client'[Of(q)].proc = client[Of(q)].proc
        /\ client'[Of(q)].ready = client[Of(q)].ready
        /\ client'[Of(q)].state = IF client[Of(q)].state = "DISCONNECTED" THEN "DISCONNECTED" ELSE "READY"
        /\ \A i \in Clients : i # Of(q) => client'[i] = client[i]
        /\ \A i \in Jobs : i # q => job'[i] = job[i]
    BY <1>4, FinishTypes
  <2>2. \A p \in Procs : LiveThen(p) => Attended(p) /\ reader'[p] = reader[p]
    BY <2>1 DEF LiveThen, UnreadThen, Attended, LeftUnread, Live
  <2>3. \A i \in Jobs : job'[i].pc = "create" => job'[i] = job[i]
    BY <2>1 DEF Finished
  <2> QED BY <2>1, <2>2, <2>3, NobodyReadsLeft, DaemonSame
<1>5. ASSUME NEW p \in Procs, Dies(p) PROVE DaemonInv'
  <2>1. proc' = [proc EXCEPT ![p] = "dead"] /\ UNCHANGED <<reader, client, job>>
    BY <1>5 DEF Dies
  <2>2. \A q \in Procs : LiveThen(q) => Attended(q) /\ reader'[q] = reader[q]
    BY <1>1, <2>1 DEF LiveThen, UnreadThen, Attended, LeftUnread, Live
  <2> QED BY <2>1, <2>2, NobodyReadsLeft, DaemonSame
<1>6. ASSUME NEW x \in Kicks, KickKills(x) PROVE DaemonInv'
  <2>1. /\ reader' = reader /\ \A p \in Procs : proc'[p] = proc[p] \/ (Live(p) /\ proc'[p] = "dead")
        /\ \A i \in Clients :
              /\ client'[i].proc = client[i].proc /\ client'[i].lock = client[i].lock
              /\ client'[i].ready = client[i].ready
              /\ \/ client'[i].state = client[i].state
                 \/ client[i].proc = 0 /\ client'[i].state = "DISCONNECTED"
        /\ \A i \in Jobs : i # x => job'[i] = job[i]
        /\ job'[x].pc # "create"
    BY <1>6, KickKillsTypes DEF Finished
  <2>2. \A q \in Procs : LiveThen(q) => Attended(q) /\ reader'[q] = reader[q]
    BY <1>1, <2>1 DEF LiveThen, UnreadThen, Attended, LeftUnread, Live
  <2>3. \A i \in Clients : LiveThen(client[i].proc) => client[i].proc # 0
    BY DEF LiveThen
  <2> QED BY <2>1, <2>2, <2>3, NobodyReadsLeft, DaemonSame
<1>7. ASSUME NEW x \in Kicks, QuitDone(x) PROVE DaemonInv'
  <2>1. PICK k : k = Of(x)
    OBVIOUS
  <2>2. /\ k \in Clients /\ Record /\ reader' = reader /\ job[x].kill \in Procs
        /\ proc' = [proc EXCEPT ![job[x].kill] = "dead"] /\ job'[x] = Finished
        /\ client'[k].lock = client[k].lock /\ client'[k].proc = client[k].proc
        /\ client'[k].ready = client[k].ready /\ client'[k].state = "DISCONNECTED"
        /\ \A i \in Clients : i # k => client'[i] = client[i]
        /\ \A i \in Jobs : i # x => job'[i] = job[i]
    BY <1>7, <2>1, QuitDoneTypes
  <2>3. \A q \in Procs : LiveThen(q) => Attended(q) /\ reader'[q] = reader[q]
    BY <1>1, <2>2 DEF LiveThen, UnreadThen, Attended, LeftUnread, Live
  <2>4. LiveThen(client[k].proc) => client[k].state \notin {"READY", "BUSY"}
    <3> SUFFICES ASSUME LiveThen(client[k].proc) PROVE client[k].state = "DISCONNECTED"
      OBVIOUS
    <3>1. client[k].proc # 0 /\ Attended(client[k].proc)
      <4>1. client[k].proc # 0
        BY DEF LiveThen
      <4> QED BY <2>2, <2>3, <4>1, ClientProc
    <3>2. reader'[client[k].proc].st = "reading" /\ proc'[client[k].proc] # "dead"
      BY <2>2, <3>1, LiveIs DEF LiveThen
    <3> QED BY <2>2, <3>1, <3>2, NotStale
  <2>5. \A i \in Jobs : job'[i].pc = "create" => job'[i] = job[i]
    BY <2>2 DEF Finished
  <2>6. ASSUME NEW i \in Clients
        PROVE  /\ client'[i].proc = client[i].proc /\ client'[i].ready = client[i].ready
               /\ client'[i].lock = client[i].lock
               /\ LiveThen(client[i].proc) /\ client[i].state \in {"READY", "BUSY"} =>
                    client'[i].state \in {"READY", "BUSY"}
    BY <2>2, <2>4
  <2> QED BY <2>2, <2>3, <2>5, <2>6, NobodyReadsLeft, DaemonSame
<1>8. ASSUME NEW w \in Warmers, At(w, "ready") /\ WarmUpTimeout(w) PROVE DaemonInv'
  BY <1>8, AbandonTypes
<1> QED BY <1>2, <1>3, <1>4, <1>5, <1>6, <1>7, <1>8, ActsDaemon, ReadsDaemon, FailsDaemon DEF Kind

-----------------------------------------------------------------------------
(* Queries that wait                                                       *)

HasReaderThen(k) == \E r \in Procs : reader'[r].of = k /\ reader'[r].st \in Active

\* A step keeps the waiting queries served if readers stay and new queues have one.
LEMMA StreamKeeps ==
  ASSUME TypeOK, JobsOK, StreamInv,
         \A i \in Clients : HasReader(i) => HasReaderThen(i),
         \A i \in Clients : client'[i].lock = Nobody /\ client'[i].state \in {"READY", "BUSY"} =>
           HasReaderThen(i) \/ (client[i].lock = Nobody /\ client[i].state \in {"READY", "BUSY"}),
         \A q \in Queries : inbox'[q] = "none" =>
           HasReaderThen(job'[q].of) \/ (inbox[q] = "none" /\ job'[q].of = Of(q))
  PROVE  StreamInv'
<1>1. ASSUME NEW i \in Clients, client'[i].lock = Nobody, client'[i].state \in {"READY", "BUSY"}
      PROVE  HasReaderThen(i)
  BY <1>1 DEF StreamInv
<1>2. ASSUME NEW q \in Queries, inbox'[q] = "none" PROVE HasReaderThen(job'[q].of)
  <2> SUFFICES ASSUME inbox[q] = "none", job'[q].of = Of(q) PROVE HasReaderThen(Of(q))
    BY <1>2
  <2>1. HasReader(Of(q))
    BY DEF StreamInv
  <2>2. Of(q) \in Clients
    <3>1. job[q].pc \in {"send", "stream"} /\ q \in Jobs
      BY DEF JobsOK, Jobs
    <3> QED BY <3>1, ItsClient
  <2> QED BY <2>1, <2>2
<1> QED BY <1>1, <1>2 DEF StreamInv, HasReader, HasReaderThen, Of, Active

\* Queries with a queue, and where they are, survive a step of j that gives it none.
LEMMA StreamSame ==
  ASSUME TypeOK, JobsOK, StreamInv, NEW j \in Jobs, \A i \in Jobs : i # j => job'[i] = job[i],
         \A q \in Queries : inbox'[q] = "none" => inbox[q] = "none" /\ (q = j => job'[q].of = Of(q)),
         \A i \in Clients : HasReader(i) => HasReaderThen(i),
         \A i \in Clients : client'[i].lock = Nobody /\ client'[i].state \in {"READY", "BUSY"} =>
           HasReaderThen(i) \/ (client[i].lock = Nobody /\ client[i].state \in {"READY", "BUSY"})
  PROVE  StreamInv'
<1>1. \A q \in Queries : inbox'[q] = "none" => inbox[q] = "none" /\ job'[q].of = Of(q)
  BY DEF Of, Jobs
<1> QED BY <1>1, StreamKeeps

\* No reader has changed.
LEMMA ReadersStay ==
  ASSUME reader' = reader, NEW i \in Clients
  PROVE  HasReader(i) => HasReaderThen(i)
BY DEF HasReader, HasReaderThen

\* Whoever has a queue is sending or waiting.
LEMMA NoQueue ==
  ASSUME TypeOK, JobsOK, NEW q \in Queries, job[q].pc \notin {"send", "stream"}
  PROVE  inbox[q] = "off"
BY Types DEF JobsOK

\* A query that goes on to send has a reader.
LEMMA JoinsStream ==
  ASSUME TypeOK, JobsOK, TableOK, LockInv, StreamInv, NEW j \in Jobs, NEW k \in Clients, Joins(j, k),
         "early" \notin mishaps'
  PROVE  StreamInv'
<1>1. /\ Record /\ reader' = reader /\ client'[k].lock = Nobody
      /\ \/ Enters(j) /\ client[k].lock = Nobody /\ client[k].state \in {"READY", "BUSY"}
         \/ At(j, "ready") /\ client[k].ready
      /\ \A i \in Clients : i # k => client'[i] = client[i]
      /\ \A i \in Jobs : i # j => job'[i] = job[i]
      /\ \/ j \in Queries /\ job'[j].of = k /\ inbox' = [inbox EXCEPT ![j] = "none"]
         \/ j \in Warmers /\ inbox' = inbox
  BY DEF Joins, Frame
<1>2. HasReader(k)
  <2>1. CASE client[k].lock = Nobody /\ client[k].state \in {"READY", "BUSY"}
    BY <2>1 DEF StreamInv
  <2>2. CASE At(j, "ready") /\ client[k].ready
    <3>1. Of(j) = k
      BY <2>2 DEF Joins, Frame, At
    <3>2. client[k].proc # 0 /\ reader[client[k].proc].st # "done"
      BY <1>1, <2>2, <3>1, NotEarly
    <3>3. client[k].proc \in Procs /\ reader[client[k].proc].st # "none"
      BY <3>2, ClientProc
    <3>4. reader[client[k].proc].st \in Active
      BY <3>2, <3>3, Types DEF Active, ReaderType
    <3> QED BY <3>2, <3>3, <3>4 DEF TableOK, HasReader
  <2> QED BY <1>1, <2>1, <2>2
<1>3. \A i \in Clients : HasReader(i) => HasReaderThen(i)
  BY <1>1, ReadersStay
<1>4. \A i \in Clients : client'[i].lock = Nobody /\ client'[i].state \in {"READY", "BUSY"} =>
        HasReaderThen(i) \/ (client[i].lock = Nobody /\ client[i].state \in {"READY", "BUSY"})
  BY <1>1, <1>2, <1>3
<1>5. \A q \in Queries : inbox'[q] = "none" =>
        HasReaderThen(job'[q].of) \/ (inbox[q] = "none" /\ job'[q].of = Of(q))
  <2> SUFFICES ASSUME NEW q \in Queries, inbox'[q] = "none"
               PROVE  HasReaderThen(job'[q].of) \/ (inbox[q] = "none" /\ job'[q].of = Of(q))
    OBVIOUS
  <2>1. CASE q = j
    <3>1. job'[j].of = k
      BY <1>1, <2>1, PoolAssumption
    <3> QED BY <1>2, <1>3, <2>1, <3>1
  <2>2. CASE q # j
    BY <1>1, <2>2, Types DEF Of, Jobs
  <2> QED BY <2>1, <2>2
<1> QED BY <1>3, <1>4, <1>5, StreamKeeps

\* A step on a client keeps the waiting queries served.
LEMMA ActsStream ==
  ASSUME TypeOK, JobsOK, TableOK, LockInv, StreamInv, NEW j \in Jobs, NEW k \in Clients, Acts(j, k),
         "early" \notin mishaps'
  PROVE  StreamInv'
<1>1. inbox \in [Queries -> {"off", "none", "last"}] /\ client[k] \in ClientType
  BY Types
<1>2. /\ \A i \in Clients : i # k => client'[i] = client[i]
      /\ \A i \in Jobs : i # j => job'[i] = job[i]
  BY DEF Acts, Queues, Takes, Joins, Leaves, Stops, Kills, Cancels, Parks, Frame
<1>3. CASE Queues(j, k) \/ Takes(j, k)
  <2>1. inbox' = inbox /\ reader' = reader /\ Enters(j)
    BY <1>3 DEF Queues, Takes
  <2>2. j \in Queries => inbox[j] = "off"
    BY <2>1, NoQueue DEF Enters
  <2>3. client'[k].state \in {"READY", "BUSY"} => client' = client
    BY <1>1, <1>3 DEF Queues, Takes, ClientType
  <2> QED BY <1>2, <2>1, <2>2, <2>3, ReadersStay, StreamSame
<1>4. CASE Leaves(j, k)
  <2>1. \A q \in Queries : inbox'[q] = "none" => inbox[q] = "none" /\ q # j
    <3>1. DropsQueue(j)
      BY <1>4 DEF Leaves, Stops, Kills, Cancels, Parks
    <3> QED BY <1>1, <3>1 DEF DropsQueue
  <2>2. \A i \in Clients : HasReader(i) => HasReaderThen(i)
    <3>1. CASE reader' = reader
      BY <3>1, ReadersStay
    <3>2. CASE Cancels(j, k)
      <4>1. PICK p : p = client[k].proc
        OBVIOUS
      <4>2. reader' = [reader EXCEPT ![p].st = "cancelled"] /\ p # 0
        BY <3>2, <4>1 DEF Cancels
      <4>3. p \in Procs
        BY <4>1, <4>2, ClientProc
      <4>4. \A r \in Procs : reader'[r].of = reader[r].of /\ (reader[r].st \in Active => reader'[r].st \in Active)
        BY <4>2, <4>3, Types DEF ReaderType, Active
      <4> QED BY <4>4 DEF HasReader, HasReaderThen
    <3> QED BY <1>4, <3>1, <3>2 DEF Leaves, Stops, Kills
  <2>3. client'[k].lock = Nobody /\ client'[k].state \in {"READY", "BUSY"} =>
          client[k].lock = Nobody /\ client[k].state \in {"READY", "BUSY"}
    <3>1. CASE Stops(j, k)
      BY <3>1 DEF Stops
    <3>2. CASE Parks(j, k)
      BY <3>2 DEF Parks
    <3> QED BY <1>4, <3>1, <3>2 DEF Leaves, Kills, Cancels
  <2> QED BY <1>2, <2>1, <2>2, <2>3, StreamSame
<1> QED BY <1>3, <1>4, JoinsStream DEF Acts

\* Every step that is no such mishap keeps the waiting queries served.
LEMMA StreamStep ==
  ASSUME TypeOK, JobsOK, TableOK, LockInv, StreamInv, Kind,
         "early" \notin mishaps', "revived" \notin mishaps', "cancelled" \notin mishaps'
  PROVE  StreamInv'
<1>1. inbox \in [Queries -> {"off", "none", "last"}] /\ Queries \cap Kicks = {} /\ reader \in [Procs -> ReaderType]
  BY Types, PoolAssumption
<1>2. ASSUME NEW j \in Jobs, Drifts(j) PROVE StreamInv'
  <2>1. UNCHANGED <<client, inbox, reader>> /\ \A i \in Jobs : i # j => job'[i] = job[i]
    BY <1>2 DEF Drifts
  <2>2. j \in Queries /\ inbox[j] = "none" => job'[j].of = Of(j)
    <3> SUFFICES ASSUME j \in Queries, inbox[j] = "none" PROVE job'[j].of = Of(j)
      OBVIOUS
    <3>1. job[j].pc \in {"send", "stream"} /\ job[j] \in JobType /\ j \notin Kicks /\ j \notin Warmers
      BY Types, PoolAssumption DEF JobsOK
    <3>2. job'[j] = [job[j] EXCEPT !.pc = "stream"]
      BY <1>2, <3>1 DEF Drifts, At
    <3> QED BY <3>1, <3>2 DEF JobType, Of
  <2> QED BY <2>1, <2>2, ReadersStay, StreamSame
<1>3. ASSUME NEW j \in Queries \cup Warmers, Create(j) PROVE StreamInv'
  <2>1. j \in Jobs /\ inbox' = inbox
    BY <1>3 DEF Create, Jobs
  <2>2. PICK n : n = spawned'
    OBVIOUS
  <2>3. /\ n \in Procs /\ n = spawned + 1 /\ spawned \in Nat
        /\ \A r \in Procs : r # n => reader'[r] = reader[r]
        /\ client'[Of(j)].state = client[Of(j)].state /\ client'[Of(j)].lock = client[Of(j)].lock
        /\ \A i \in Clients : i # Of(j) => client'[i] = client[i]
        /\ job'[j].of = Of(j) /\ \A i \in Jobs : i # j => job'[i] = job[i]
    BY <1>3, <2>1, <2>2, CreateTypes
  <2>4. reader[n].st = "none"
    BY <2>3 DEF TableOK
  <2>5. \A i \in Clients : HasReader(i) => HasReaderThen(i)
    BY <2>3, <2>4 DEF HasReader, HasReaderThen, Active
  <2>6. \A i \in Clients : client'[i].state = client[i].state /\ client'[i].lock = client[i].lock
    BY <2>3
  <2> QED BY <2>1, <2>3, <2>5, <2>6, StreamSame
<1>4. ASSUME NEW q \in Queries, At(q, "stream") /\ Finish(q) PROVE StreamInv'
  <2>1. /\ q \in Jobs /\ Of(q) \in Clients /\ Record /\ reader' = reader /\ job'[q] = Finished
        /\ client'[Of(q)].lock = client[Of(q)].lock
        /\ client'[Of(q)].state = IF client[Of(q)].state = "DISCONNECTED" THEN "DISCONNECTED" ELSE "READY"
        /\ \A i \in Clients : i # Of(q) => client'[i] = client[i]
        /\ \A i \in Jobs : i # q => job'[i] = job[i]
        /\ inbox' = [inbox EXCEPT ![q] = "off"]
    BY <1>4, FinishTypes
  <2>2. client[Of(q)].state \in {"BUSY", "READY", "DISCONNECTED"}
    BY <1>4, <2>1, NotRevived DEF Finished
  <2>3. \A p \in Queries : inbox'[p] = "none" => inbox[p] = "none" /\ p # q
    BY <1>1, <2>1
  <2>4. \A i \in Clients : client'[i].lock = Nobody /\ client'[i].state \in {"READY", "BUSY"} =>
          client[i].lock = Nobody /\ client[i].state \in {"READY", "BUSY"}
    BY <2>1, <2>2
  <2> QED BY <2>1, <2>3, <2>4, ReadersStay, StreamSame
<1>5. ASSUME NEW r \in Procs, Reads(r) PROVE StreamInv'
  <2>1. PICK k : k = reader[r].of
    OBVIOUS
  <2>2. /\ reader[r].st = "reading" /\ job' = job
        /\ reader' = [reader EXCEPT ![r].on = client[k].proc]
        /\ \A i \in Clients : i # k => client'[i] = client[i]
        /\ \A q \in Queries : inbox'[q] = "none" => inbox[q] = "none"
    BY <1>5, <2>1 DEF Reads
  <2>3. \A s \in Procs : reader'[s].st = reader[s].st /\ reader'[s].of = reader[s].of
    BY <1>1, <2>2 DEF ReaderType
  <2>4. HasReaderThen(k) /\ \A i \in Clients : HasReader(i) => HasReaderThen(i)
    BY <2>1, <2>2, <2>3 DEF HasReader, HasReaderThen, Active
  <2>5. \A i \in Clients : client'[i].lock = Nobody /\ client'[i].state \in {"READY", "BUSY"} =>
          HasReaderThen(i) \/ (client[i].lock = Nobody /\ client[i].state \in {"READY", "BUSY"})
    BY <2>2, <2>4
  <2>6. \A q \in Queries : inbox'[q] = "none" => inbox[q] = "none" /\ job'[q].of = Of(q)
    BY <2>2 DEF Of
  <2> QED BY <2>4, <2>5, <2>6, StreamKeeps
<1>6. ASSUME NEW r \in Procs, Fails(r) PROVE StreamInv'
  <2>1. PICK k : k = reader[r].of
    OBVIOUS
  <2>2. /\ job' = job /\ \E p : reader' = [reader EXCEPT ![r] = Left(p)]
        /\ \A i \in Clients : i # k => client'[i] = client[i]
        /\ client'[k].state \notin {"READY", "BUSY"}
        /\ \A q \in Queries : inbox'[q] = "none" => inbox[q] = "none" /\ Of(q) # k
    BY <1>6, <2>1 DEF Fails
  <2>3. \A s \in Procs : s # r => reader'[s] = reader[s]
    BY <1>1, <2>2
  <2>4. ASSUME NEW i, i # k, HasReader(i) PROVE HasReaderThen(i)
    BY <2>1, <2>3, <2>4 DEF HasReader, HasReaderThen
  <2>5. ASSUME NEW i \in Clients, client'[i].lock = Nobody, client'[i].state \in {"READY", "BUSY"}
        PROVE  HasReaderThen(i)
    <3>1. i # k /\ client'[i] = client[i]
      BY <2>2, <2>5
    <3>2. HasReader(i)
      BY <2>5, <3>1 DEF StreamInv
    <3> QED BY <2>4, <3>1, <3>2
  <2>6. ASSUME NEW q \in Queries, inbox'[q] = "none" PROVE HasReaderThen(job'[q].of)
    <3>1. inbox[q] = "none" /\ Of(q) # k /\ job'[q].of = Of(q)
      BY <2>2, <2>6 DEF Of
    <3>2. HasReader(Of(q))
      BY <3>1 DEF StreamInv
    <3> QED BY <2>4, <3>1, <3>2
  <2> QED BY <2>5, <2>6 DEF StreamInv, HasReader, HasReaderThen, Of, Active
<1>7. ASSUME NEW r \in Procs, Dies(r) PROVE StreamInv'
  <2>1. UNCHANGED <<client, reader, job, inbox>>
    BY <1>7 DEF Dies
  <2> QED BY <2>1 DEF StreamInv, HasReader, Of
<1>8. ASSUME NEW x \in Kicks, KickKills(x) \/ QuitDone(x) PROVE StreamInv'
  <2>1. /\ x \in Jobs /\ reader' = reader /\ inbox' = inbox /\ \A i \in Jobs : i # x => job'[i] = job[i]
    BY <1>8, KickKillsTypes, QuitDoneTypes
  <2>2. \A i \in Clients : client'[i].lock = Nobody /\ client'[i].state \in {"READY", "BUSY"} =>
          client[i].lock = Nobody /\ client[i].state \in {"READY", "BUSY"}
    <3>1. CASE KickKills(x)
      BY <3>1, KickKillsTypes
    <3>2. CASE QuitDone(x)
      BY <3>2, QuitDoneTypes
    <3> QED BY <1>8, <3>1, <3>2
  <2>3. x \notin Queries
    BY <1>1
  <2> QED BY <2>1, <2>2, <2>3, ReadersStay, StreamSame
<1>9. ASSUME NEW w \in Warmers, At(w, "ready") /\ WarmUpTimeout(w) PROVE StreamInv'
  BY <1>9, AbandonTypes
<1> QED BY <1>2, <1>3, <1>4, <1>5, <1>6, <1>7, <1>8, <1>9, ActsStream DEF Kind

-----------------------------------------------------------------------------
(* States that mean somebody is at work                                    *)

\* What has not gone wrong after a step had not gone wrong before it.
LEMMA WithoutThen ==
  ASSUME mishaps \subseteq mishaps'
  PROVE  /\ Without({"cancelled"})' => Without({"cancelled"})
         /\ Without({"index"})' => Without({"index"})
         /\ "cancelled" \in mishaps' => ~Without({"cancelled"})'
         /\ "index" \in mishaps' => ~Without({"index"})'
BY DEF Without

\* Who is at work on a client stays, unless it is j, which works on k alone.
LEMMA BusyKeeps ==
  ASSUME BusyInv, mishaps \subseteq mishaps', NEW j \in Jobs, NEW k \in Clients, BusyAt(k)',
         \A i \in Clients : i # k => client'[i] = client[i],
         \A i \in Jobs : i # j => job'[i] = job[i],
         j \in Queries /\ job[j].pc \in {"send", "stream", "lock", "backoff"} => Of(j) = k
  PROVE  BusyInv'
<1> SUFFICES ASSUME NEW i \in Clients, i # k PROVE BusyAt(i)'
  BY DEF BusyInv
<1>1. client'[i] = client[i] /\ BusyAt(i)
  BY DEF BusyInv
<1>2. ASSUME NEW q \in Queries, Of(q) = i, job[q].pc \in {"send", "stream", "lock", "backoff"}
      PROVE  job'[q] = job[q]
  BY <1>2 DEF Jobs
<1>3. ASSUME Without({"cancelled"})', client'[i].state = "CONNECTING"
      PROVE  client'[i].lock # Nobody /\ ~client'[i].ready
  BY <1>1, <1>3, WithoutThen DEF BusyAt
<1>4. ASSUME client'[i].state = "BUSY"
      PROVE  \E q \in Queries : Of(q)' = i /\ job'[q].pc \in {"send", "stream"}
  <2>1. PICK q \in Queries : Of(q) = i /\ job[q].pc \in {"send", "stream"}
    BY <1>1, <1>4 DEF BusyAt
  <2> QED BY <1>2, <2>1 DEF Of
<1>5. ASSUME Without({"index"})', client'[i].state = "RETRY"
      PROVE  \E q \in Queries : Of(q)' = i /\ job'[q].pc \in {"lock", "backoff"}
  <2>1. PICK q \in Queries : Of(q) = i /\ job[q].pc \in {"lock", "backoff"}
    BY <1>1, <1>5, WithoutThen DEF BusyAt
  <2> QED BY <1>2, <2>1 DEF Of
<1> QED BY <1>3, <1>4, <1>5 DEF BusyAt

\* A client in none of these states needs nobody.
LEMMA BusyNot ==
  ASSUME NEW k \in Clients, client'[k].state \notin {"CONNECTING", "BUSY", "RETRY"}
  PROVE  BusyAt(k)'
BY DEF BusyAt

\* A client left as it was keeps whoever is at work on it, if that is not j.
LEMMA BusyStays ==
  ASSUME BusyInv, mishaps \subseteq mishaps', NEW j \in Jobs, NEW k \in Clients,
         client'[k].state = client[k].state,
         Without({"cancelled"})' /\ client[k].state = "CONNECTING" =>
           client'[k].lock = client[k].lock /\ client'[k].ready = client[k].ready,
         \A i \in Jobs : i # j => job'[i] = job[i],
         j \in Queries => job[j].pc \notin {"send", "stream", "lock", "backoff"} \/ Of(j) # k
  PROVE  BusyAt(k)'
<1>1. BusyAt(k)
  BY DEF BusyInv
<1>2. ASSUME NEW q \in Queries, Of(q) = k, job[q].pc \in {"send", "stream", "lock", "backoff"}
      PROVE  job'[q] = job[q]
  BY <1>2 DEF Jobs
<1>3. ASSUME Without({"cancelled"})', client'[k].state = "CONNECTING"
      PROVE  client'[k].lock # Nobody /\ ~client'[k].ready
  BY <1>1, <1>3, WithoutThen DEF BusyAt
<1>4. ASSUME client'[k].state = "BUSY"
      PROVE  \E q \in Queries : Of(q)' = k /\ job'[q].pc \in {"send", "stream"}
  <2>1. PICK q \in Queries : Of(q) = k /\ job[q].pc \in {"send", "stream"}
    BY <1>1, <1>4 DEF BusyAt
  <2> QED BY <1>2, <2>1 DEF Of
<1>5. ASSUME Without({"index"})', client'[k].state = "RETRY"
      PROVE  \E q \in Queries : Of(q)' = k /\ job'[q].pc \in {"lock", "backoff"}
  <2>1. PICK q \in Queries : Of(q) = k /\ job[q].pc \in {"lock", "backoff"}
    BY <1>1, <1>5, WithoutThen DEF BusyAt
  <2> QED BY <1>2, <2>1 DEF Of
<1> QED BY <1>3, <1>4, <1>5 DEF BusyAt

\* A step on a client keeps its state true.
LEMMA ActsBusy ==
  ASSUME TypeOK, JobsOK, LockInv, BusyInv, NEW j \in Jobs, NEW k \in Clients, Acts(j, k),
         mishaps \subseteq mishaps'
  PROVE  BusyInv'
<1>1. /\ client[k] \in ClientType /\ Nobody \notin Jobs /\ BusyAt(k) /\ (j \in Warmers => j \notin Queries)
  BY Types, PoolAssumption DEF BusyInv
<1>2. /\ \A i \in Clients : i # k => client'[i] = client[i]
      /\ \A i \in Jobs : i # j => job'[i] = job[i]
      /\ job[j].pc \notin {"idle", "fired", "kill", "done"} => Of(j) = k
      /\ Record
  BY DEF Acts, Queues, Takes, Joins, Leaves, Stops, Kills, Cancels, Parks, Frame
<1>3. SUFFICES BusyAt(k)'
  BY <1>2, BusyKeeps
<1>4. CASE Queues(j, k)
  <2>1. /\ client' = client /\ job'[j].pc = "lock" /\ job'[j].of = k
        /\ job[j].pc \notin {"send", "stream"}
    BY <1>4 DEF Queues, Enters
  <2>2. CASE j \in Queries
    <3>1. client'[k].state = "BUSY" => \E q \in Queries : Of(q)' = k /\ job'[q].pc \in {"send", "stream"}
      <4> SUFFICES ASSUME client[k].state = "BUSY"
                   PROVE  \E q \in Queries : Of(q)' = k /\ job'[q].pc \in {"send", "stream"}
        BY <2>1
      <4>1. PICK q \in Queries : Of(q) = k /\ job[q].pc \in {"send", "stream"}
        BY <1>1 DEF BusyAt
      <4>2. job'[q] = job[q]
        BY <1>2, <2>1, <4>1 DEF Jobs
      <4> QED BY <4>1, <4>2 DEF Of
    <3>2. \E q \in Queries : Of(q)' = k /\ job'[q].pc \in {"lock", "backoff"}
      BY <2>1, <2>2 DEF Of
    <3>3. Without({"cancelled"})' /\ client'[k].state = "CONNECTING" =>
            client'[k].lock # Nobody /\ ~client'[k].ready
      BY <1>1, <2>1, WithoutThen DEF BusyAt
    <3> QED BY <3>1, <3>2, <3>3 DEF BusyAt
  <2>3. CASE j \notin Queries
    BY <1>2, <2>1, <2>3, BusyStays
  <2> QED BY <2>2, <2>3
<1>5. CASE Takes(j, k)
  <2>1. client'[k].state = "CONNECTING" /\ client'[k].lock = j /\ ~client'[k].ready
    BY <1>1, <1>5 DEF Takes, ClientType
  <2> QED BY <1>1, <2>1 DEF BusyAt
<1>6. CASE Joins(j, k)
  <2>1. CASE j \in Queries /\ client'[k].state = "BUSY" /\ job'[j].pc = "send" /\ job'[j].of = k
    BY <2>1 DEF BusyAt, Of
  <2>2. CASE j \in Warmers /\ client'[k].state = client[k].state
    <3>1. Without({"cancelled"})' => client[k].state # "CONNECTING"
      BY <1>1, <1>6, WithoutThen DEF Joins, BusyAt
    <3> QED BY <1>1, <1>2, <2>2, <3>1, BusyStays
  <2> QED BY <1>6, <2>1, <2>2 DEF Joins
<1>7. CASE Stops(j, k)
  <2>1. CASE client'[k].state # "RETRY"
    BY <1>7, <2>1, BusyNot DEF Stops
  <2>2. CASE client'[k].state = "RETRY"
    <3>1. CASE j \in Queries /\ job'[j].pc = "backoff" /\ job'[j].of = k
      BY <2>2, <3>1 DEF BusyAt, Of
    <3>2. CASE job'[j] = Finished /\ j \in Queries /\ Running(j)
      <4>1. job[j].pc \notin {"idle", "fired", "kill", "done"}
        BY <1>1, <1>7, <3>2 DEF Stops, Running, JobsOK, JobOK
      <4>2. Of(j) = k
        BY <1>2, <4>1
      <4>3. "index" \in mishaps'
        BY <1>2, <2>2, <3>2, <4>2, NotIndex DEF Finished
      <4> QED BY <2>2, <4>3, WithoutThen DEF BusyAt
    <3> QED BY <1>7, <2>2, <3>1, <3>2 DEF Stops
  <2> QED BY <2>1, <2>2
<1>8. CASE Parks(j, k)
  <2>1. CASE client'[k].state \in {"ERROR", "DEAD"}
    BY <2>1, BusyNot
  <2>2. CASE /\ client'[k].state = client[k].state /\ client'[k].lock = client[k].lock
             /\ job[j].pc \in {"ready", "quit", "wait"}
    <3>1. client'[k].ready = client[k].ready
      BY <1>8 DEF Parks
    <3> QED BY <1>2, <2>2, <3>1, BusyStays
  <2> QED BY <1>8, <2>1, <2>2 DEF Parks
<1> QED BY <1>4, <1>5, <1>6, <1>7, <1>8 DEF Acts, Leaves, Kills, Cancels

\* Every step keeps the states true that mean somebody is at work.
LEMMA BusyStep ==
  ASSUME TypeOK, JobsOK, TableOK, LockInv, BusyInv, Kind, mishaps \subseteq mishaps'
  PROVE  BusyInv'
<1>1. Queries \cap Kicks = {} /\ Queries \cap Warmers = {} /\ Warmers \cap Kicks = {}
  BY PoolAssumption
<1>2. ASSUME NEW j \in Jobs, Drifts(j) PROVE BusyInv'
  <2>1. client' = client /\ \A i \in Jobs : i # j => job'[i] = job[i]
    BY <1>2 DEF Drifts
  <2>2. CASE j \in Queries /\ At(j, "send") /\ job'[j] = [job[j] EXCEPT !.pc = "stream"]
    <3>1. job[j] \in JobType
      BY Types
    <3>2. Of(j)' = Of(j) /\ job'[j].pc = "stream" /\ job[j].pc = "send"
      BY <2>2, <3>1 DEF Of, JobType, At
    <3>3. \A q \in Queries : Of(q)' = Of(q) /\ (job[q].pc \in {"send", "stream"} => job'[q].pc \in {"send", "stream"})
                             /\ (job[q].pc \in {"lock", "backoff"} => job'[q].pc \in {"lock", "backoff"})
      BY <2>1, <3>2 DEF Of, Jobs
    <3>4. ASSUME NEW i \in Clients PROVE BusyAt(i)'
      <4>1. BusyAt(i)
        BY DEF BusyInv
      <4>2. client'[i].state = "BUSY" => \E q \in Queries : Of(q)' = i /\ job'[q].pc \in {"send", "stream"}
        BY <2>1, <3>3, <4>1 DEF BusyAt
      <4>3. Without({"index"})' /\ client'[i].state = "RETRY" =>
              \E q \in Queries : Of(q)' = i /\ job'[q].pc \in {"lock", "backoff"}
        BY <2>1, <3>3, <4>1, WithoutThen DEF BusyAt
      <4>4. Without({"cancelled"})' /\ client'[i].state = "CONNECTING" =>
              client'[i].lock # Nobody /\ ~client'[i].ready
        BY <2>1, <4>1, WithoutThen DEF BusyAt
      <4> QED BY <4>2, <4>3, <4>4 DEF BusyAt
    <3> QED BY <3>4 DEF BusyInv
  <2>3. CASE j \in Queries /\ At(j, "backoff") /\ client[Of(j)].state = "DEAD"
    <3>1. PICK k \in Clients : k = Of(j)
      BY <2>3, ItsClient DEF At
    <3>2. BusyAt(k)'
      BY <2>1, <2>3, <3>1, BusyNot
    <3> QED BY <2>1, <3>1, <3>2, BusyKeeps
  <2>4. CASE j \notin Queries
    <3>1. ASSUME NEW i \in Clients PROVE BusyAt(i)'
      BY <2>1, <2>4, BusyStays
    <3> QED BY <3>1 DEF BusyInv
  <2> QED BY <1>1, <1>2, <2>2, <2>3, <2>4 DEF Drifts
<1>3. ASSUME NEW j \in Queries \cup Warmers, Create(j) PROVE BusyInv'
  <2>1. j \in Jobs /\ At(j, "create") /\ Of(j) \in Clients
    BY <1>3, CreateTypes DEF Create, Jobs
  <2>2. PICK k \in Clients : k = Of(j)
    BY <2>1
  <2>3. /\ client'[k].state = client[k].state /\ client'[k].lock = client[k].lock
        /\ client'[k].ready = client[k].ready
        /\ \A i \in Clients : i # k => client'[i] = client[i]
        /\ \A i \in Jobs : i # j => job'[i] = job[i]
    BY <1>3, <2>1, <2>2, CreateTypes
  <2>4. BusyAt(k)'
    BY <2>1, <2>3, BusyStays DEF At
  <2> QED BY <2>1, <2>2, <2>3, <2>4, BusyKeeps
<1>4. ASSUME NEW w \in Warmers, At(w, "ready") /\ WarmUpTimeout(w) PROVE BusyInv'
  <2>1. w \in Jobs /\ Of(w) \in Clients /\ "cancelled" \in mishaps' /\ w \notin Queries
    BY <1>1, <1>4, AbandonTypes DEF Jobs
  <2>2. PICK k \in Clients : k = Of(w)
    BY <2>1
  <2>3. /\ client'[k].state = client[k].state
        /\ \A i \in Clients : i # k => client'[i] = client[i]
        /\ \A i \in Jobs : i # w => job'[i] = job[i]
        /\ ~Without({"cancelled"})'
    BY <1>4, <2>1, <2>2, AbandonTypes, WithoutThen
  <2>4. BusyAt(k)'
    BY <2>1, <2>3, BusyStays
  <2> QED BY <2>1, <2>2, <2>3, <2>4, BusyKeeps
<1>5. ASSUME NEW q \in Queries, At(q, "stream") /\ Finish(q) PROVE BusyInv'
  <2>1. q \in Jobs /\ Of(q) \in Clients
    BY <1>5, FinishTypes
  <2>2. PICK k \in Clients : k = Of(q)
    BY <2>1
  <2>3. /\ client'[k].state \in {"DISCONNECTED", "READY"}
        /\ \A i \in Clients : i # k => client'[i] = client[i]
        /\ \A i \in Jobs : i # q => job'[i] = job[i]
    BY <1>5, <2>1, <2>2, FinishTypes
  <2>4. BusyAt(k)'
    BY <2>3, BusyNot
  <2> QED BY <2>1, <2>2, <2>3, <2>4, BusyKeeps
<1>6. ASSUME NEW r \in Procs, Reads(r) \/ Fails(r) \/ Dies(r) PROVE BusyInv'
  <2>1. job' = job
    BY <1>6 DEF Reads, Fails, Dies
  <2>2. \A i \in Clients : client'[i].state \in {"DISCONNECTED", "DEAD", "READY"} \/ client'[i] = client[i]
    <3>1. CASE Reads(r)
      <4>1. reader[r].of \in Clients /\ client[reader[r].of] \in ClientType
        BY <3>1, ReaderAt DEF Reads, Active
      <4>2. client'[reader[r].of].state = "READY" \/ client' = client
        BY <3>1, <4>1 DEF Reads, ClientType
      <4> QED BY <3>1, <4>2 DEF Reads
    <3>2. CASE Fails(r)
      BY <3>2 DEF Fails
    <3>3. CASE Dies(r)
      BY <3>3 DEF Dies
    <3> QED BY <1>6, <3>1, <3>2, <3>3
  <2>3. ASSUME NEW i \in Clients PROVE BusyAt(i)'
    <3>1. CASE client'[i] = client[i]
      <4>1. BusyAt(i)
        BY DEF BusyInv
      <4>2. Without({"cancelled"})' => Without({"cancelled"})
        BY WithoutThen
      <4>3. Without({"index"})' => Without({"index"})
        BY WithoutThen
      <4> QED BY <2>1, <3>1, <4>1, <4>2, <4>3 DEF BusyAt, Of
    <3>2. CASE client'[i].state \in {"DISCONNECTED", "DEAD", "READY"}
      BY <3>2, BusyNot
    <3> QED BY <2>2, <3>1, <3>2
  <2> QED BY <2>3 DEF BusyInv
<1>7. ASSUME NEW x \in Kicks, KickKills(x) \/ QuitDone(x) PROVE BusyInv'
  <2>1. x \in Jobs /\ x \notin Queries /\ \A i \in Jobs : i # x => job'[i] = job[i]
    BY <1>1, <1>7, KickKillsTypes, QuitDoneTypes
  <2>2. \A i \in Clients : \/ client'[i].state = "DISCONNECTED"
                           \/ /\ client'[i].state = client[i].state /\ client'[i].lock = client[i].lock
                              /\ client'[i].ready = client[i].ready
    <3>1. CASE KickKills(x)
      BY <3>1, KickKillsTypes
    <3>2. CASE QuitDone(x)
      BY <3>2, QuitDoneTypes
    <3> QED BY <1>7, <3>1, <3>2
  <2>3. ASSUME NEW i \in Clients PROVE BusyAt(i)'
    BY <2>1, <2>2, BusyNot, BusyStays
  <2> QED BY <2>3 DEF BusyInv
<1> QED BY <1>2, <1>3, <1>4, <1>5, <1>6, <1>7, ActsBusy DEF Kind

-----------------------------------------------------------------------------
(* Clients that look connected                                             *)

\* A client left connected as it was stays read, or in somebody's hands.
LEMMA ReadyStays ==
  ASSUME ReadyInv, NEW i \in Clients,
         client'[i].state \in {"READY", "BUSY"} => client[i].state \in {"READY", "BUSY"},
         client'[i].proc = client[i].proc,
         client[i].lock # Nobody => client'[i].lock # Nobody,
         client[i].proc # 0 /\ reader[client[i].proc].st = "reading" =>
           reader'[client[i].proc].st = "reading",
         \A j \in Jobs : job[j].pc \in {"wait", "reader"} /\ Of(j) = i => job'[j] = job[j]
  PROVE  ReadyAt(i)'
<1> SUFFICES ASSUME client'[i].state \in {"READY", "BUSY"}
             PROVE  \/ client'[i].proc # 0 /\ reader'[client'[i].proc].st = "reading"
                    \/ client'[i].lock # Nobody
                    \/ \E j \in Jobs : job'[j].of = i /\ job'[j].pc \in {"wait", "reader"}
  BY DEF ReadyAt, Of
<1>1. \/ client[i].proc # 0 /\ reader[client[i].proc].st = "reading"
      \/ client[i].lock # Nobody
      \/ \E j \in Jobs : Of(j) = i /\ job[j].pc \in {"wait", "reader"}
  BY DEF ReadyInv, ReadyAt
<1>2. CASE \E j \in Jobs : Of(j) = i /\ job[j].pc \in {"wait", "reader"}
  <2>1. PICK j \in Jobs : Of(j) = i /\ job[j].pc \in {"wait", "reader"}
    BY <1>2
  <2>2. job'[j] = job[j]
    BY <2>1
  <2> QED BY <2>1, <2>2 DEF Of
<1> QED BY <1>1, <1>2

\* A client that does not look connected needs no reader.
LEMMA ReadyNot ==
  ASSUME NEW k \in Clients, client'[k].state \notin {"READY", "BUSY"} PROVE ReadyAt(k)'
BY DEF ReadyAt

\* A step of j on client k leaves the other clients theirs.
LEMMA ReadyOthers ==
  ASSUME ReadyInv, NEW j \in Jobs, NEW k \in Clients, ReadyAt(k)',
         \A i \in Clients : i # k => client'[i] = client[i],
         \A i \in Jobs : i # j => job'[i] = job[i],
         job[j].pc \in {"wait", "reader"} => Of(j) = k,
         \A i \in Clients : i # k /\ client[i].proc # 0 /\ reader[client[i].proc].st = "reading" =>
           reader'[client[i].proc].st = "reading"
  PROVE  ReadyInv'
<1> SUFFICES ASSUME NEW i \in Clients, i # k PROVE ReadyAt(i)'
  BY DEF ReadyInv
<1>1. client'[i] = client[i] /\ \A h \in Jobs : job[h].pc \in {"wait", "reader"} /\ Of(h) = i => job'[h] = job[h]
  OBVIOUS
<1> QED BY <1>1, ReadyStays

\* A client found connected, or just connected, is read or about to be changed.
LEMMA JoinsReady ==
  ASSUME TypeOK, TableOK, CancelInv, ReadyInv, NEW j \in Jobs, NEW k \in Clients, Joins(j, k),
         "early" \notin mishaps'
  PROVE  ReadyAt(k)'
<1>1. /\ Record /\ reader' = reader /\ client'[k].lock = Nobody /\ client'[k].proc = client[k].proc
      /\ \/ Enters(j) /\ client[k].lock = Nobody /\ client[k].state \in {"READY", "BUSY"}
         \/ At(j, "ready") /\ client[k].ready
      /\ \A i \in Jobs : i # j => job'[i] = job[i]
  BY DEF Joins, Frame
<1>2. CASE Enters(j) /\ client[k].lock = Nobody /\ client[k].state \in {"READY", "BUSY"}
  <2>1. \A i \in Jobs : job[i].pc \in {"wait", "reader"} /\ Of(i) = k => job'[i] = job[i]
    BY <1>1, <1>2 DEF Enters
  <2> QED BY <1>1, <1>2, <2>1, ReadyStays
<1>3. CASE At(j, "ready") /\ client[k].ready
  <2>1. Of(j) = k
    BY <1>3 DEF Joins, Frame, At
  <2>2. client[k].proc # 0 /\ reader[client[k].proc].st # "done"
    BY <1>1, <1>3, <2>1, NotEarly
  <2>3. PICK p \in Procs : p = client[k].proc /\ p # 0 /\ reader[p].st # "none"
    BY <2>2, ClientProc
  <2>4. reader[p].st \in Active
    BY <2>2, <2>3, Types DEF Active, ReaderType
  <2>5. CASE reader[p].st = "reading"
    BY <1>1, <2>3, <2>5 DEF ReadyAt
  <2>6. CASE reader[p].st = "cancelled"
    <3>1. PICK i \in Jobs : At(i, "reader") /\ Of(i) = reader[p].of
      BY <2>6 DEF CancelInv
    <3>2. reader[p].of = k
      BY <2>3, <2>4 DEF TableOK
    <3>3. job'[i] = job[i] /\ job[i].of = k /\ job[i].pc = "reader"
      BY <1>1, <1>3, <3>1, <3>2 DEF At, Of
    <3>4. \E h \in Jobs : job'[h].of = k /\ job'[h].pc \in {"wait", "reader"}
      BY <3>3
    <3> QED BY <3>4 DEF ReadyAt, Of
  <2> QED BY <2>4, <2>5, <2>6 DEF Active
<1> QED BY <1>1, <1>2, <1>3

\* A step on a client keeps connected clients read.
LEMMA ActsReady ==
  ASSUME TypeOK, TableOK, CancelInv, ReadyInv, NEW j \in Jobs, NEW k \in Clients, Acts(j, k),
         "early" \notin mishaps'
  PROVE  ReadyInv'
<1>1. /\ \A i \in Clients : i # k => client'[i] = client[i]
      /\ \A i \in Jobs : i # j => job'[i] = job[i]
      /\ job[j].pc \in {"wait", "reader"} => Of(j) = k
  BY DEF Acts, Queues, Takes, Joins, Leaves, Stops, Kills, Cancels, Parks, Frame
<1>2. \A i \in Clients : i # k /\ client[i].proc # 0 /\ reader[client[i].proc].st = "reading" =>
        reader'[client[i].proc].st = "reading"
  <2>1. CASE reader' = reader
    BY <2>1
  <2>2. CASE Cancels(j, k)
    <3>1. PICK p : p = client[k].proc
      OBVIOUS
    <3>2. p # 0 /\ reader' = [reader EXCEPT ![p].st = "cancelled"]
      BY <2>2, <3>1 DEF Cancels
    <3> SUFFICES ASSUME NEW i \in Clients, i # k, client[i].proc # 0, reader[client[i].proc].st = "reading"
                 PROVE  reader'[client[i].proc].st = "reading"
      OBVIOUS
    <3>3. client[i].proc \in Procs /\ reader[client[i].proc].of = i
      BY ClientProc DEF TableOK, Active
    <3>4. client[i].proc # p
      BY <3>1, <3>2, <3>3 DEF TableOK, Active
    <3> QED BY <3>2, <3>3, <3>4, Types
  <2> QED BY <2>1, <2>2 DEF Acts, Queues, Takes, Joins, Leaves, Stops, Kills
<1>3. ReadyAt(k)'
  <2>1. CASE Queues(j, k)
    <3>1. client' = client /\ reader' = reader /\ Enters(j)
      BY <2>1 DEF Queues
    <3>2. \A i \in Jobs : job[i].pc \in {"wait", "reader"} /\ Of(i) = k => job'[i] = job[i]
      BY <1>1, <3>1 DEF Enters
    <3> QED BY <3>1, <3>2, ReadyStays
  <2>2. CASE Takes(j, k)
    <3>1. client'[k].state = "CONNECTING"
      BY <2>2, Types DEF Takes, ClientType
    <3> QED BY <3>1, ReadyNot
  <2>3. CASE Joins(j, k)
    BY <2>3, JoinsReady
  <2>4. CASE Stops(j, k)
    BY <2>4, ReadyNot DEF Stops
  <2>5. CASE Kills(j, k) \/ Cancels(j, k)
    <3>1. job'[j].of = k /\ job'[j].pc \in {"wait", "reader"}
      BY <2>5 DEF Kills, Cancels, Parks
    <3> QED BY <3>1 DEF ReadyAt, Of
  <2> QED BY <2>1, <2>2, <2>3, <2>4, <2>5 DEF Acts, Leaves
<1> QED BY <1>1, <1>2, <1>3, ReadyOthers

\* Every step that is no such mishap keeps connected clients read.
LEMMA ReadyStep ==
  ASSUME TypeOK, JobsOK, TableOK, LockInv, CancelInv, DaemonInv, ReadyInv, Kind,
         "early" \notin mishaps', "revived" \notin mishaps', "cancelled" \notin mishaps'
  PROVE  ReadyInv'
<1>1. reader \in [Procs -> ReaderType] /\ Nobody \notin Jobs
  BY Types, PoolAssumption
<1>2. ASSUME NEW j \in Jobs, Drifts(j) PROVE ReadyInv'
  <2>1. UNCHANGED <<client, reader>> /\ \A i \in Jobs : i # j => job'[i] = job[i]
    BY <1>2 DEF Drifts
  <2>2. job[j].pc \notin {"wait", "reader"}
    BY <1>2 DEF Drifts, At
  <2>3. ASSUME NEW i \in Clients PROVE ReadyAt(i)'
    BY <2>1, <2>2, ReadyStays
  <2> QED BY <2>3 DEF ReadyInv
<1>3. ASSUME NEW j \in Queries \cup Warmers, Create(j) PROVE ReadyInv'
  <2>1. j \in Jobs /\ At(j, "create") /\ Of(j) \in Clients /\ client[Of(j)].lock = j
    BY <1>3, OneCreates DEF Create, Jobs
  <2>2. PICK k \in Clients : k = Of(j)
    BY <2>1
  <2>3. PICK n : n = spawned'
    OBVIOUS
  <2>4. /\ client'[k].lock = j /\ n \notin 0..spawned
        /\ \A r \in Procs : r # n => reader'[r] = reader[r]
        /\ \A i \in Clients : i # k => client'[i] = client[i]
        /\ \A i \in Jobs : i # j => job'[i] = job[i]
    BY <1>3, <2>1, <2>2, <2>3, CreateTypes
  <2>5. ReadyAt(k)'
    BY <1>1, <2>1, <2>4 DEF ReadyAt
  <2>6. \A i \in Clients : client[i].proc # 0 => reader'[client[i].proc] = reader[client[i].proc]
    BY <2>4, ClientProc
  <2> QED BY <2>1, <2>4, <2>5, <2>6, ReadyOthers DEF At
<1>4. ASSUME NEW q \in Queries, At(q, "stream") /\ Finish(q) PROVE ReadyInv'
  <2>1. q \in Jobs /\ Of(q) \in Clients
    BY <1>4, FinishTypes
  <2>2. PICK k \in Clients : k = Of(q)
    BY <2>1
  <2>3. /\ Record /\ reader' = reader /\ job'[q].pc = "done"
        /\ client'[k].lock = client[k].lock /\ client'[k].proc = client[k].proc
        /\ client'[k].state = IF client[k].state = "DISCONNECTED" THEN "DISCONNECTED" ELSE "READY"
        /\ \A i \in Clients : i # k => client'[i] = client[i]
        /\ \A i \in Jobs : i # q => job'[i] = job[i]
    BY <1>4, <2>1, <2>2, FinishTypes DEF Finished
  <2>4. client[k].state \in {"BUSY", "READY", "DISCONNECTED"}
    BY <1>4, <2>2, <2>3, NotRevived
  <2>5. ReadyAt(k)'
    BY <1>4, <2>3, <2>4, ReadyStays DEF At
  <2> QED BY <1>4, <2>1, <2>3, <2>5, ReadyOthers DEF At
<1>5. ASSUME NEW r \in Procs, Reads(r) PROVE ReadyInv'
  <2>1. PICK k : k = reader[r].of
    OBVIOUS
  <2>2. /\ reader[r].st = "reading" /\ job' = job
        /\ reader' = [reader EXCEPT ![r].on = client[k].proc]
        /\ Live(reader[r].on) /\ \A i \in Clients : i # k => client'[i] = client[i]
        /\ \/ client' = client
           \/ Serves(r) /\ client'[k] = [client[k] EXCEPT !.state = "READY", !.ready = TRUE]
    BY <1>5, <2>1 DEF Reads
  <2>3. k \in Clients /\ client[k] \in ClientType
    BY <2>1, <2>2, ReaderAt DEF Active
  <2>4. \A s \in Procs : reader'[s].st = reader[s].st
    BY <1>1, <2>2 DEF ReaderType
  <2>5. \A i \in Clients : client[i].proc # 0 => reader'[client[i].proc].st = reader[client[i].proc].st
    BY <2>4, ClientProc
  <2>6. ASSUME NEW i \in Clients, client'[i] = client[i] PROVE ReadyAt(i)'
    BY <2>2, <2>5, <2>6, ReadyStays
  <2>7. ASSUME Serves(r), client'[k] = [client[k] EXCEPT !.state = "READY", !.ready = TRUE]
        PROVE  ReadyAt(k)'
    <3>1. client[k].proc = r /\ r # 0
      BY <2>1, <2>2, <2>7, ReadsOwn DEF Attended, Live
    <3>2. client'[k].proc = r
      BY <2>3, <2>7, <3>1 DEF ClientType
    <3> QED BY <2>2, <2>4, <3>1, <3>2 DEF ReadyAt
  <2>8. ASSUME NEW i \in Clients PROVE ReadyAt(i)'
    BY <2>2, <2>6, <2>7
  <2> QED BY <2>8 DEF ReadyInv
<1>6. ASSUME NEW r \in Procs, Fails(r) PROVE ReadyInv'
  <2>1. PICK k : k = reader[r].of
    OBVIOUS
  <2>2. /\ job' = job /\ reader[r].st \in Active
        /\ \E p : reader' = [reader EXCEPT ![r] = Left(p)]
        /\ \A i \in Clients : i # k => client'[i] = client[i]
        /\ client'[k].state \notin {"READY", "BUSY"}
    BY <1>6, <2>1 DEF Fails
  <2>3. ASSUME NEW i \in Clients, i # k, client[i].proc # 0
        PROVE  reader'[client[i].proc] = reader[client[i].proc]
    <3>1. client[i].proc # r
      BY <2>1, <2>2, <2>3 DEF TableOK
    <3> QED BY <1>1, <2>2, <2>3, <3>1, ClientProc
  <2>4. ASSUME NEW i \in Clients PROVE ReadyAt(i)'
    <3>1. CASE i = k
      BY <2>2, <3>1, ReadyNot
    <3>2. CASE i # k
      BY <2>2, <2>3, <3>2, ReadyStays
    <3> QED BY <3>1, <3>2
  <2> QED BY <2>4 DEF ReadyInv
<1>7. ASSUME NEW r \in Procs, Dies(r) PROVE ReadyInv'
  <2>1. UNCHANGED <<client, reader, job>>
    BY <1>7 DEF Dies
  <2> QED BY <2>1 DEF ReadyInv, ReadyAt, Of
<1>8. ASSUME NEW x \in Kicks, KickKills(x) \/ QuitDone(x) PROVE ReadyInv'
  <2>1. /\ x \in Jobs /\ reader' = reader /\ job[x].pc \notin {"wait", "reader"}
        /\ \A i \in Jobs : i # x => job'[i] = job[i]
    BY <1>8, KickKillsTypes, QuitDoneTypes DEF At
  <2>2. \A i \in Clients :
          /\ client'[i].proc = client[i].proc /\ client'[i].lock = client[i].lock
          /\ client'[i].state = client[i].state \/ client'[i].state = "DISCONNECTED"
    <3>1. CASE KickKills(x)
      BY <3>1, KickKillsTypes
    <3>2. CASE QuitDone(x)
      BY <3>2, QuitDoneTypes
    <3> QED BY <1>8, <3>1, <3>2
  <2>3. ASSUME NEW i \in Clients PROVE ReadyAt(i)'
    <3>1. \A j \in Jobs : job[j].pc \in {"wait", "reader"} /\ Of(j) = i => job'[j] = job[j]
      BY <2>1
    <3> QED BY <2>1, <2>2, <3>1, ReadyStays
  <2> QED BY <2>3 DEF ReadyInv
<1>9. ASSUME NEW w \in Warmers, At(w, "ready") /\ WarmUpTimeout(w) PROVE ReadyInv'
  BY <1>9, AbandonTypes
<1> QED BY <1>2, <1>3, <1>4, <1>5, <1>6, <1>7, <1>8, <1>9, ActsReady DEF Kind

-----------------------------------------------------------------------------
(* The whole invariant, and what it says                                   *)

\* Initially nothing is under way.
LEMMA PoolInit == Init => PoolInv
<1> SUFFICES ASSUME Init PROVE PoolInv
  OBVIOUS
<1>1. /\ MaxRetry \in Nat /\ MaxProcs \in Nat /\ MaxClients \in Nat /\ MaxDeaths \in Nat
      /\ Nobody \notin Jobs
  BY PoolAssumption
<1>2. /\ \A j \in Jobs : job[j] = [pc |-> "idle", of |-> 0, kill |-> 0, why |-> "none"]
      /\ \A k \in Clients : client[k] = New
      /\ \A p \in Procs : proc[p] = "none" /\ reader[p] = [st |-> "none", on |-> 0, of |-> 0]
      /\ \A q \in Queries : inbox[q] = "off"
      /\ spawned = 0
  BY DEF Init
<1>3. TypeOK
  <2>1. New \in [state : States, proc : 0..0, ready : BOOLEAN, retry : 0..MaxRetry,
                 lock : Jobs \cup {Nobody}]
    BY <1>1 DEF New, States
  <2> QED BY <1>1, <2>1 DEF Init, TypeOK, Mishaps
<1>4. JobsOK
  BY <1>2 DEF JobsOK, JobOK
<1>5. TableOK
  BY <1>1, <1>2 DEF TableOK, Active, New, Procs
<1>6. LockInv
  BY <1>1, <1>2 DEF LockInv, New, Connecting
<1>7. CancelInv
  BY <1>2 DEF CancelInv, At
<1>8. BusyInv
  BY <1>2 DEF BusyInv, BusyAt, New
<1>9. DaemonInv
  BY <1>2 DEF DaemonInv, Attended, Live, LeftUnread, Left, New, At
<1>10. StreamInv
  BY <1>2 DEF StreamInv, New
<1>11. ReadyInv
  BY <1>2 DEF ReadyInv, ReadyAt, New
<1> QED BY <1>3, <1>4, <1>5, <1>6, <1>7, <1>8, <1>9, <1>10, <1>11 DEF PoolInv, Shape

\* Once recorded, a mishap stays so: what holds without it has held from the start.
LEMMA StreamThen ==
  ASSUME Without({"early", "cancelled", "revived"})', mishaps \subseteq mishaps'
  PROVE  /\ Without({"early", "cancelled", "revived"})
         /\ "early" \notin mishaps' /\ "cancelled" \notin mishaps' /\ "revived" \notin mishaps'
BY DEF Without

\* The same for what is promised without five of them.
LEMMA ReadyThen ==
  ASSUME Without({"early", "clobbered", "stale", "cancelled", "revived"})', mishaps \subseteq mishaps'
  PROVE  /\ Without({"early", "clobbered", "stale", "cancelled", "revived"})
         /\ Without({"clobbered", "stale", "cancelled"})
         /\ "early" \notin mishaps' /\ "cancelled" \notin mishaps' /\ "revived" \notin mishaps'
BY DEF Without

\* A step that changes nothing changes nothing the invariant speaks of.
LEMMA PoolStutter ==
  ASSUME PoolInv, UNCHANGED vars PROVE PoolInv'
<1>1. /\ TypeOK' /\ JobsOK' /\ TableOK'
  BY DEF PoolInv, Shape, vars, TypeOK, JobsOK, TableOK
<1>2. LockInv' /\ CancelInv'
  BY DEF PoolInv, Shape, vars, LockInv, Connecting, Of, CancelInv, At
<1>3. BusyInv'
  BY DEF PoolInv, vars, BusyInv, BusyAt, Of, Without
<1>4. (Without({"clobbered", "stale", "cancelled"}) => DaemonInv)'
  BY DEF PoolInv, vars, DaemonInv, Attended, Live, LeftUnread, At, Of, Without
<1>5. (Without({"early", "cancelled", "revived"}) => StreamInv)'
  BY DEF PoolInv, vars, StreamInv, HasReader, Of, Without
<1>6. (Without({"early", "clobbered", "stale", "cancelled", "revived"}) => ReadyInv)'
  BY DEF PoolInv, vars, ReadyInv, ReadyAt, Of, Without
<1> QED BY <1>1, <1>2, <1>3, <1>4, <1>5, <1>6 DEF PoolInv, Shape

\* Every step keeps the invariant.
LEMMA PoolStep == PoolInv /\ [Next]_vars => PoolInv'
<1>1. ASSUME PoolInv, Next PROVE PoolInv'
  <2>1. TypeOK /\ JobsOK /\ TableOK /\ LockInv /\ CancelInv /\ BusyInv
    BY <1>1 DEF PoolInv, Shape
  <2>2. TypeOK' /\ Kind /\ mishaps \subseteq mishaps'
    BY <1>1, <2>1, StepKinds
  <2>3. JobsOK'
    BY <2>1, <2>2, JobsStep
  <2>4. TableOK'
    BY <2>1, <2>2, TableStep
  <2>5. LockInv'
    BY <2>1, <2>2, LockStep
  <2>6. CancelInv'
    BY <2>1, <2>2, CancelStep
  <2>7. BusyInv'
    BY <2>1, <2>2, BusyStep
  <2>8. ASSUME Without({"clobbered", "stale", "cancelled"})' PROVE DaemonInv'
    <3>1. Clean /\ "clobbered" \notin mishaps' /\ "stale" \notin mishaps' /\ "cancelled" \notin mishaps'
      BY <2>2, <2>8, CleanThen DEF Clean
    <3>2. DaemonInv
      BY <1>1, <3>1 DEF PoolInv, Clean
    <3> QED BY <2>1, <2>2, <3>1, <3>2, DaemonStep
  <2>9. ASSUME Without({"early", "cancelled", "revived"})' PROVE StreamInv'
    <3>1. /\ Without({"early", "cancelled", "revived"})
          /\ "early" \notin mishaps' /\ "cancelled" \notin mishaps' /\ "revived" \notin mishaps'
      BY <2>2, <2>9, StreamThen
    <3>2. StreamInv
      BY <1>1, <3>1 DEF PoolInv
    <3> QED BY <2>1, <2>2, <3>1, <3>2, StreamStep
  <2>10. ASSUME Without({"early", "clobbered", "stale", "cancelled", "revived"})' PROVE ReadyInv'
    <3>1. /\ Without({"early", "clobbered", "stale", "cancelled", "revived"})
          /\ Without({"clobbered", "stale", "cancelled"})
          /\ "early" \notin mishaps' /\ "cancelled" \notin mishaps' /\ "revived" \notin mishaps'
      BY <2>2, <2>10, ReadyThen
    <3>2. ReadyInv /\ DaemonInv
      BY <1>1, <3>1 DEF PoolInv
    <3> QED BY <2>1, <2>2, <3>1, <3>2, ReadyStep
  <2> QED BY <2>2, <2>3, <2>4, <2>5, <2>6, <2>7, <2>8, <2>9, <2>10 DEF PoolInv, Shape
<1> QED BY <1>1, PoolStutter

\* The invariant holds forever.
LEMMA PoolAlways == Spec => []PoolInv
BY PoolInit, PoolStep, PTL DEF Spec

\* The client's fields, the coroutines and the queues keep their types; the retry count never
\* passes the delays there are (_RETRY_BACKOFF).
THEOREM TypeCorrect == Spec => []TypeOK
<1>1. PoolInv => TypeOK
  BY DEF PoolInv, Shape
<1> QED BY <1>1, PoolAlways, PTL

\* No coroutine waits for something nobody will do: who waits for the connect lock waits for a
\* coroutine that connects on that client, and a reader that _force_kill waits for is cancelled.
THEOREM NobodyWaitsForever == Spec => []WaitsEnd
<1>1. ASSUME PoolInv PROVE WaitsEnd
  <2> SUFFICES ASSUME NEW j \in Jobs
               PROVE  /\ At(j, "lock") /\ client[Of(j)].lock # Nobody =>
                           LET h == client[Of(j)].lock
                           IN  Of(h) = Of(j) /\ job[h].pc \in {"create", "ready", "wait", "reader"}
                      /\ At(j, "reader") => reader[job[j].kill].st \in {"cancelled", "done"}
    BY DEF WaitsEnd
  <2>1. ASSUME At(j, "lock"), client[Of(j)].lock # Nobody
        PROVE  LET h == client[Of(j)].lock
               IN  Of(h) = Of(j) /\ job[h].pc \in {"create", "ready", "wait", "reader"}
    <3>1. TypeOK /\ JobsOK /\ LockInv
      BY <1>1 DEF PoolInv, Shape
    <3>2. Of(j) \in Clients /\ client[Of(j)] \in ClientType
      BY <2>1, <3>1, ItsClient DEF At
    <3>3. PICK h \in Jobs : h = client[Of(j)].lock
      BY <2>1, <3>2 DEF ClientType
    <3> QED BY <3>1, <3>2, <3>3 DEF LockInv, Connecting
  <2>2. At(j, "reader") => reader[job[j].kill].st \in {"cancelled", "done"}
    BY <1>1 DEF PoolInv, Shape, CancelInv
  <2> QED BY <2>1, <2>2
<1> QED BY <1>1, PoolAlways, PTL

\* A query that waits for its answer has a reader that will still tell it of the daemon's end,
\* unless one of the three mishaps has happened.
THEOREM WaitingQueryIsServed == Spec => []StreamHasReader
<1>1. PoolInv => StreamHasReader
  BY DEF PoolInv, StreamHasReader, StreamInv, HasReader, Active
<1> QED BY <1>1, PoolAlways, PTL

\* No running ssh process is left without a client that can end it, unless one of the three
\* mishaps has happened.
THEOREM EveryProcessHasAClient == Spec => []NoOrphan
<1>1. PoolInv => NoOrphan
  BY DEF PoolInv, NoOrphan, DaemonInv, Attended
<1> QED BY <1>1, PoolAlways, PTL

\* Between messages the client's state is what the watchdog's sweep takes it for.
THEOREM SweepSeesTheTruth == Spec => []IdleStateIsTrue
<1>1. ASSUME PoolInv PROVE IdleStateIsTrue
  <2> SUFFICES ASSUME \A j \in Jobs : ~Running(j), pool # 0
               PROVE  LET c == client[pool]
                      IN /\ Without({"index", "cancelled"}) => c.state \notin {"BUSY", "CONNECTING", "RETRY"}
                         /\ Without({"early", "clobbered", "stale", "cancelled", "revived"})
                              /\ c.state = "READY" => c.proc # 0 /\ reader[c.proc].st = "reading"
    BY DEF IdleStateIsTrue
  <2>1. TypeOK /\ LockInv /\ BusyInv
    BY <1>1 DEF PoolInv, Shape
  <2>2. PICK k \in Clients : k = pool
    <3>1. pool \in 0..made /\ made \in 0..MaxClients /\ MaxClients \in Nat
      BY <2>1, Types, PoolAssumption
    <3> QED BY <3>1 DEF Clients
  <2>3. \A j \in Jobs : job[j].pc \in {"idle", "done"}
    BY DEF Running
  <2>4. client[k].lock = Nobody
    <3>1. client[k].lock \in Jobs \cup {Nobody}
      BY <2>1, Types DEF ClientType
    <3> QED BY <2>1, <2>3, <3>1 DEF LockInv, Connecting
  <2>5. ASSUME Without({"index", "cancelled"})
        PROVE  client[k].state \notin {"BUSY", "CONNECTING", "RETRY"}
    <3>1. Without({"index"}) /\ Without({"cancelled"})
      BY <2>5 DEF Without
    <3> QED BY <2>1, <2>3, <2>4, <3>1 DEF BusyInv, BusyAt, Jobs
  <2>6. ASSUME Without({"early", "clobbered", "stale", "cancelled", "revived"}), client[k].state = "READY"
        PROVE  client[k].proc # 0 /\ reader[client[k].proc].st = "reading"
    BY <1>1, <2>3, <2>4, <2>6 DEF PoolInv, ReadyInv, ReadyAt
  <2> QED BY <2>2, <2>5, <2>6
<1> QED BY <1>1, PoolAlways, PTL

=============================================================================
