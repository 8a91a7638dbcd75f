---------------------------- MODULE RelayDaemon ----------------------------
(***************************************************************************)
(* The query path of the daemon on an employee's machine: run_query writes *)
(* every query as a frame to the stdin of one long-lived claude process,   *)
(* which is spawned when needed and closed when idle; a reader per process *)
(* tags the process's answers with the head of one FIFO of query ids.      *)
(*                                                                         *)
(* One action is what one coroutine does between two awaits.  The claude   *)
(* process is external: it takes frames in order, echoes each as a user    *)
(* entry, may absorb further frames into the turn it is working on, and    *)
(* answers a turn with one result; it may die at any moment.               *)
(*                                                                         *)
(* A definition that directly precedes another one and is used nowhere is  *)
(* a mutant of it: the same code with a plausible mistake.                 *)
(***************************************************************************)
EXTENDS Naturals, Sequences, FiniteSets, SequencesExt

CONSTANTS
  Queries,    \* the queries the bot sends, numbered in the order they arrive
  Slow,       \* the queries that may meet the cap of three hours
  MaxProcs    \* bound on the processes spawned in one life of the daemon

ASSUME DaemonAssumption == 
  MaxProcs \in Nat \ {0} /\ Queries \subseteq Nat /\ Slow \subseteq Queries

VARIABLES
  pc,         \* where run_query(q) stands
  event,      \* completion events that are set
  pending,    \* _pending_qids
  userText,   \* _user_text_in_window
  cur,        \* _proc: the current process, 0 when None
  drain,      \* _drain_task: the process it is for and where it stands
  reader,     \* the _reader_loop of each process
  proc,       \* the claude processes
  wrote,      \* history: the process a query's frame was written to
  answer,     \* history: what the bot was told about each query, in order
  overlapped  \* history: a process was spawned beside leftovers of another

queryVars  == <<pc, event, wrote>>
readerVars == <<pending, userText, answer>>
procVars   == <<cur, proc, overlapped>>
vars == <<pc, event, wrote, pending, userText, answer, cur, proc, overlapped, drain, reader>>

-----------------------------------------------------------------------------
Procs == 1..MaxProcs
QueryPc == {"new", "queued", "killing", "spawning", "draining", "waiting", "returned"}
ReaderPc == {"none", "reading", "reaping", "gone"}
Line == [type : {"user", "stream", "result"}, turn : SUBSET Queries]

\* "exited" is dead with returncode still None; "reaped" has its returncode.
Process == [st : {"unborn", "up", "exited", "reaped"}, open : BOOLEAN,
            inbox : Seq(Queries), turn : SUBSET Queries, out : Seq(Line)]
Unborn == [st |-> "unborn", open |-> TRUE, inbox |-> << >>, turn |-> {}, out |-> << >>]

DrainTask == [proc : 0..MaxProcs, pc : {"none", "grace", "linger", "killed"}]
NoDrain == [proc |-> 0, pc |-> "none"]
Told == {"answer", "foreign answer", "eof", "foreign eof", "failed", "timeout"}

\* _proc_stdin_lock is held from Enter until the frame is flushed.
Holding == {"killing", "spawning", "draining"}
LockHeld == \E q \in Queries : pc[q] \in Holding
\* The loop starts its tasks, and asyncio.Lock its waiters, in the order they come.
First(q, before) == \A o \in Queries : o < q => pc[o] \notin before

Init ==
  /\ pc = [q \in Queries |-> "new"] /\ event = {} /\ wrote = [q \in Queries |-> 0]
  /\ pending = << >> /\ userText = 0 /\ answer = [q \in Queries |-> << >>]
  /\ cur = 0 /\ proc = [p \in Procs |-> Unborn] /\ overlapped = FALSE
  /\ drain = NoDrain /\ reader = [p \in Procs |-> "none"]

-----------------------------------------------------------------------------
(* run_query and _ensure_proc_and_write                                    *)

Goto(q, where) == pc' = [pc EXCEPT ![q] = where]
Tell(q, what) == answer' = [answer EXCEPT ![q] = Append(@, what)]
\* Set the events of some queries; one that is gone has no event any more.
WakeWaiting(S) == event \cup {q \in S : pc[q] = "waiting"}
Wake(S) == event \cup {q \in S : pc[q] # "returned"}
\* Process p with its stdin as it is; and p after a kill: what it was given is lost,
\* what it wrote can still be read.
Changed(p, st, inbox, turn, out) ==
  [proc EXCEPT ![p] = [st |-> st, open |-> proc[p].open, inbox |-> inbox, turn |-> turn, out |-> out]]
Dead(p) ==
  Changed(p, IF proc[p].st = "up" THEN "exited" ELSE proc[p].st, << >>, {}, proc[p].out)

\* The stdin loop starts run_query in a task of its own.
Dispatch(q) ==
  /\ pc[q] = "new" /\ First(q, {"new"}) /\ Goto(q, "queued")
  /\ UNCHANGED <<event, wrote, readerVars, procVars, drain, reader>>

\* Push the id and write the frame, which the process has once it is flushed.
Frame(q, p) ==
  /\ pending' = Append(pending, q) /\ wrote' = [wrote EXCEPT ![q] = p]
  /\ Goto(q, "draining")

\* What the returncode and stdin of the current process say: it is missing, it can be
\* written to, or its stdin is closing.  The pipe of a dead process may be either.
MissingOrClosing == IF cur = 0 THEN TRUE ELSE proc[cur].st = "reaped" \/ ~proc[cur].open
Missing == IF cur = 0 THEN TRUE ELSE proc[cur].st = "reaped"
Writable == ~Missing /\ proc[cur].open
Closing == ~Missing /\ (proc[cur].open => proc[cur].st = "exited")

\* With the lock: cancel the drain, then write, or kill a closing process, or spawn.
Enter(q) ==
  /\ pc[q] = "queued" /\ ~LockHeld /\ First(q, {"new", "queued"})
  /\ drain' = NoDrain
  /\ \/ Missing /\ Goto(q, "spawning") /\ UNCHANGED <<wrote, pending, proc>>
     \/ Writable /\ Frame(q, cur) /\ UNCHANGED proc
     \/ Closing /\ proc' = Dead(cur) /\ Goto(q, "killing") /\ UNCHANGED <<wrote, pending>>
  /\ UNCHANGED <<event, userText, answer, cur, overlapped, reader>>

\* The killed process is gone, or two seconds are.
Killed(q) ==
  /\ pc[q] = "killing" /\ Goto(q, "spawning")
  /\ cur' = 0
  /\ UNCHANGED <<event, wrote, readerVars, proc, overlapped, drain, reader>>

\* create_subprocess_exec returns: start its reader, write the frame.
Spawn(q) ==
  /\ pc[q] = "spawning"
  /\ \E p \in Procs :
       /\ proc[p].st = "unborn" /\ \A o \in Procs : o < p => proc[o].st # "unborn"
       /\ cur' = p /\ reader' = [reader EXCEPT ![p] = "reading"]
       /\ Frame(q, p) /\ proc' = [proc EXCEPT ![p].st = "up"]
  /\ overlapped' = (overlapped \/ userText # 0 \/ \E p \in Procs : reader[p] \in {"reading", "reaping"})
  /\ UNCHANGED <<event, userText, answer, drain>>

\* No claude binary, or the spawn fails: an error, and the event is set.
CannotSpawn(q) ==
  /\ pc[q] \in {"queued", "spawning"} /\ Goto(q, "waiting")
  /\ event' = event \cup {q} /\ Tell(q, "failed")
  /\ UNCHANGED <<wrote, pending, userText, procVars, drain, reader>>

\* A dead process swallows what is written to it.
Flushed(q) ==
  /\ pc[q] = "draining" /\ Goto(q, "waiting")
  /\ proc' = [proc EXCEPT ![wrote[q]].inbox = IF proc[wrote[q]].st = "up" THEN Append(@, q) ELSE @]
  /\ UNCHANGED <<event, wrote, readerVars, cur, overlapped, drain, reader>>

\* The write fails on a dead process: an error, and the id leaves the FIFO.
FlushFails(q) ==
  /\ pc[q] = "draining" /\ proc[wrote[q]].st # "up" /\ Goto(q, "waiting")
  /\ pending' = RemoveFirst(pending, q)
  /\ event' = event \cup {q} /\ Tell(q, "failed")
  /\ UNCHANGED <<wrote, userText, procVars, drain, reader>>

Return(q) ==
  /\ pc[q] = "waiting" /\ q \in event /\ Goto(q, "returned")
  /\ event' = event \ {q}
  /\ UNCHANGED <<wrote, readerVars, procVars, drain, reader>>

\* The cap of three hours; the id stays in the FIFO.
TimesOut(q) ==
  /\ pc[q] = "waiting" /\ q \in Slow \ event /\ Goto(q, "returned")
  /\ Tell(q, "timeout")
  /\ UNCHANGED <<event, wrote, pending, userText, procVars, drain, reader>>

-----------------------------------------------------------------------------
(* _reader_loop, one per process                                           *)

Consume(p) == proc' = [proc EXCEPT ![p].out = Tail(@)]
NextIs(p, type) == reader[p] = "reading" /\ proc[p].out # << >> /\ Head(proc[p].out).type = type

ReadUser(p) ==
  /\ NextIs(p, "user") /\ Consume(p)
  /\ userText' = userText + 1 /\ drain' = NoDrain
  /\ UNCHANGED <<queryVars, pending, answer, cur, overlapped, reader>>

ReadStream(p) ==
  /\ NextIs(p, "stream") /\ Consume(p) /\ drain' = NoDrain
  /\ UNCHANGED <<queryVars, readerVars, cur, overlapped, reader>>

\* How many ids one result completes: the head, and one more for every further
\* user entry seen since the last result.
CompletedHead == SubSeq(pending, 1, Min({Len(pending), 1}))
Completed == SubSeq(pending, 1, Min({Len(pending), Max({userText, 1})}))

\* The FIFO and the count for the next result.
BehindHead == SubSeq(pending, 2, Len(pending))
Remaining == SubSeq(pending, Len(Completed) + 1, Len(pending))
WindowKept == userText
WindowLess == userText - Len(Completed)
NextWindow == 0

ReadResult(p) ==
  LET turn == Head(proc[p].out).turn
      done == ToSet(Completed)
  IN /\ NextIs(p, "result") /\ Consume(p)
     /\ answer' = [q \in Queries |-> IF q \in done
          THEN Append(answer[q], IF q \in turn THEN "answer" ELSE "foreign answer") ELSE answer[q]]
     /\ pending' = Remaining
     /\ event' = Wake(done)
     /\ userText' = NextWindow
     /\ drain' = IF pending' = << >> THEN [proc |-> p, pc |-> "grace"] ELSE NoDrain
     /\ UNCHANGED <<pc, wrote, cur, overlapped, reader>>

\* A line above the buffer limit: an error for the head, and the process is killed.
Overflow(p) ==
  /\ reader[p] = "reading" /\ proc[p].out # << >>
  /\ proc' = [Dead(p) EXCEPT ![p].out = << >>]
  /\ IF pending = << >> THEN UNCHANGED answer ELSE Tell(Head(pending), "failed")
  /\ reader' = [reader EXCEPT ![p] = "reaping"]
  /\ UNCHANGED <<queryVars, pending, userText, cur, overlapped, drain>>

ReadEof(p) ==
  /\ reader[p] = "reading" /\ proc[p].out = << >> /\ proc[p].st \in {"exited", "reaped"}
  /\ reader' = [reader EXCEPT ![p] = "reaping"]
  /\ UNCHANGED <<queryVars, readerVars, procVars, drain>>

\* After the waits for the returncode and stderr: an error to every id in the FIFO,
\* and None for _proc if it is still this process.
Broadcast(p) ==
  LET left == ToSet(pending)
  IN /\ reader[p] = "reaping" /\ reader' = [reader EXCEPT ![p] = "gone"]
     /\ answer' = [q \in Queries |-> IF q \in left
          THEN Append(answer[q], IF wrote[q] = p THEN "eof" ELSE "foreign eof") ELSE answer[q]]
     /\ event' = Wake(left)
     /\ pending' = << >>
     /\ cur' = IF cur = p THEN 0 ELSE cur
     /\ UNCHANGED <<pc, wrote, userText, proc, overlapped, drain>>

-----------------------------------------------------------------------------
(* _drain_and_close                                                        *)

DrainCloses ==
  /\ drain.pc = "grace" /\ ~LockHeld
  /\ IF pending # << >> THEN drain' = NoDrain /\ UNCHANGED proc
     ELSE /\ drain' = [drain EXCEPT !.pc = "linger"]
          /\ proc' = [proc EXCEPT ![drain.proc].open = FALSE]
  /\ UNCHANGED <<queryVars, readerVars, cur, overlapped, reader>>

DrainSeesExit ==
  /\ drain.pc = "linger" /\ proc[drain.proc].st = "reaped" /\ drain' = NoDrain
  /\ UNCHANGED <<queryVars, readerVars, procVars, reader>>

DrainKills ==
  /\ drain.pc = "linger" /\ proc[drain.proc].st # "reaped"
  /\ proc' = Dead(drain.proc) /\ drain' = [drain EXCEPT !.pc = "killed"]
  /\ UNCHANGED <<queryVars, readerVars, cur, overlapped, reader>>

DrainForgets ==
  /\ drain.pc = "killed" /\ drain' = NoDrain
  /\ cur' = IF cur = drain.proc THEN 0 ELSE cur
  /\ UNCHANGED <<queryVars, readerVars, proc, overlapped, reader>>

-----------------------------------------------------------------------------
(* The claude process (external)                                           *)

Up(p) == proc[p].st = "up"
External == UNCHANGED <<queryVars, readerVars, cur, overlapped, drain, reader>>

\* A frame starts a turn or is absorbed into the one at work.
TakeFrame(p) ==
  LET q == Head(proc[p].inbox)
      echo == [type |-> "user", turn |-> {q}]
  IN /\ Up(p) /\ proc[p].inbox # << >> /\ External
     /\ proc' = Changed(p, "up", Tail(proc[p].inbox), proc[p].turn \cup {q}, Append(proc[p].out, echo))
Answer(p) ==
  LET result == [type |-> "result", turn |-> proc[p].turn]
  IN /\ Up(p) /\ proc[p].turn # {} /\ External
     /\ proc' = Changed(p, "up", proc[p].inbox, {}, Append(proc[p].out, result))

\* Output between turns, as of a tool that still runs.
Murmur(p) ==
  /\ Up(p) /\ proc[p].out = << >> /\ drain.pc # "none" /\ External
  /\ proc' = [proc EXCEPT ![p].out = <<[type |-> "stream", turn |-> {}]>>]
Dies(p) == Up(p) /\ proc' = Dead(p) /\ External
Reaped(p) == /\ proc[p].st = "exited" /\ External
             /\ proc' = [proc EXCEPT ![p].st = "reaped"]

-----------------------------------------------------------------------------
RunQuery(q) == \/ Enter(q) \/ Killed(q) \/ Spawn(q) \/ CannotSpawn(q)
               \/ Flushed(q) \/ FlushFails(q) \/ Return(q)
ReaderLoop(p) == \/ ReadUser(p) \/ ReadStream(p) \/ ReadResult(p) \/ ReadEof(p) \/ Broadcast(p)
DrainStep == DrainCloses \/ DrainSeesExit \/ DrainKills \/ DrainForgets
Claude(p) == TakeFrame(p) \/ Answer(p)

Next ==
  \/ \E q \in Queries : Dispatch(q) \/ RunQuery(q) \/ TimesOut(q)
  \/ \E p \in Procs : ReaderLoop(p) \/ Overflow(p) \/ Claude(p) \/ Murmur(p) \/ Dies(p) \/ Reaped(p)
  \/ DrainStep

Spec == Init /\ [][Next]_vars

\* The event loop runs every coroutine that can run; a claude process that is up
\* takes its frames and ends its turns.
Fairness ==
  /\ WF_vars(\E q \in Queries : RunQuery(q))
  /\ WF_vars(\E p \in Procs : ReaderLoop(p))
  /\ WF_vars(\E p \in Procs : Claude(p))
FairSpec == Spec /\ Fairness

-----------------------------------------------------------------------------
(* Type invariant                                                          *)

QueryOK == /\ pc \in [Queries -> QueryPc] /\ event \subseteq Queries
           /\ wrote \in [Queries -> 0..MaxProcs] /\ answer \in [Queries -> Seq(Told)]
FifoOK == pending \in Seq(Queries) /\ userText \in Nat
ProcOK == /\ cur \in 0..MaxProcs /\ proc \in [Procs -> Process]
          /\ reader \in [Procs -> ReaderPc] /\ drain \in DrainTask /\ overlapped \in BOOLEAN

\* Every variable keeps the shape the session's attributes give it.
TypeOK == QueryOK /\ FifoOK /\ ProcOK

(* Safety                                                                  *)

\* One session, one writer: two claude processes never run on the same session
\* file, through every kill, drain, crash and respawn.
OneProcessUp == Cardinality({p \in Procs : Up(p)}) <= 1

\* The FIFO and the count of user entries put every answer on the query it belongs
\* to, merged turns included, as long as no process starts beside leftovers of
\* another one.
AnswersOwnQuery ==
  overlapped \/ \A q \in Queries :
    \A i \in DOMAIN answer[q] : answer[q][i] \notin {"foreign answer", "foreign eof"}

\* Nothing follows an answer: no second result, no error about the process's end, no
\* timeout.  (Errors may follow each other: an overflow is also an end of file.)
AnswerIsFinal ==
  overlapped \/ \A q \in Queries :
    \A i \in DOMAIN answer[q] : answer[q][i] = "answer" => i = Len(answer[q])

\* An idle drain closes stdin between two turns, never within one: the grace period
\* ends on an empty FIFO, which must mean that claude has nothing left to do.
CloseCutsNothing ==
  overlapped \/ \A p \in Procs :
    Up(p) /\ ~proc[p].open => proc[p].inbox = << >> /\ proc[p].turn = {}

\* Only the end of its own process is reported to a query as such.
EofIsOwn == \A q \in Queries : \A i \in DOMAIN answer[q] : answer[q][i] # "foreign eof"

(* Liveness                                                                *)

\* run_query always returns: a result, an error or an end of file sets the event of
\* every query the loop has started, well before the cap of three hours.  Even beside
\* leftovers no id stays in the FIFO unseen: the old reader ends with a broadcast.
InFlight == {q \in Queries : pc[q] \notin {"new", "returned"}}
EveryQueryReturns == (InFlight # {}) ~> (InFlight = {})
=============================================================================
