------------------------- MODULE RelayDaemonProofs -------------------------
(* Proofs about RelayDaemon, for any number of queries and processes:       *)
(* one claude process on the session (ProcessInv), and answers that reach    *)
(* the query they belong to (AnswerInv).                                     *)
EXTENDS RelayDaemon, FiniteSetTheorems, WellFoundedInduction, TLAPS

\* The part of the type invariant that the processes need.
SessionTypes ==
  /\ pc \in [Queries -> QueryPc] /\ wrote \in [Queries -> 0..MaxProcs]
  /\ cur \in 0..MaxProcs /\ proc \in [Procs -> Process]
  /\ reader \in [Procs -> ReaderPc] /\ drain \in DrainTask

\* The lock has one holder.
OneHolder == \A q, r \in Queries : pc[q] \in Holding /\ pc[r] \in Holding => q = r

\* Readers and drains belong to processes that were started, and those whose reader
\* has met the end, or whose drain has killed them, are dead.
ReadersOfStarted == \A p \in Procs : reader[p] # "none" => proc[p].st # "unborn"
EndedIsDead == \A p \in Procs : reader[p] \in {"reaping", "gone"} => ~Up(p)
DrainsStarted == drain.pc # "none" => drain.proc \in Procs /\ proc[drain.proc].st # "unborn"
KilledIsDead == drain.pc = "killed" => ~Up(drain.proc)

\* Only the current process can be up, and none while the next one is being started.
UpIsCurrent == \A p \in Procs : Up(p) => p = cur
NoneUpAtStart ==
  (\E q \in Queries : pc[q] \in {"killing", "spawning"}) => \A p \in Procs : ~Up(p)

ProcessInv == /\ SessionTypes /\ OneHolder
              /\ ReadersOfStarted /\ EndedIsDead /\ DrainsStarted /\ KilledIsDead
              /\ UpIsCurrent /\ NoneUpAtStart

-----------------------------------------------------------------------------
(* How the processes change                                                *)

\* A kill keeps the types, leaves p dead, and what was started stays started.
LEMMA DeadProcess ==
  ASSUME proc \in [Procs -> Process], NEW p \in Procs
  PROVE  /\ Dead(p) \in [Procs -> Process]
         /\ Dead(p)[p].st = IF proc[p].st = "up" THEN "exited" ELSE proc[p].st
         /\ \A o \in Procs : o # p => Dead(p)[o] = proc[o]
<1>. DEFINE st == IF proc[p].st = "up" THEN "exited" ELSE proc[p].st
            dead == [st |-> st, open |-> proc[p].open, inbox |-> << >>, turn |-> {}, out |-> proc[p].out]
<1>1. dead \in Process
  BY DEF Process
<1>2. Dead(p) = [proc EXCEPT ![p] = dead]
  BY DEF Dead, Changed
<1>3. dead.st = st
  OBVIOUS
<1>. HIDE DEF dead
<1>. QED  BY <1>1, <1>2, <1>3

-----------------------------------------------------------------------------
(* What each action does to them                                           *)

\* The states of the processes before and after a step that starts none: nobody
\* comes to life, and what was started stays started.
Calm == /\ \A p \in Procs : proc'[p].st = "up" => proc[p].st = "up"
        /\ \A p \in Procs : proc[p].st # "unborn" => proc'[p].st # "unborn"

\* Every action but Spawn is calm and keeps the types of the processes.
LEMMA CalmStep ==
  ASSUME SessionTypes, DrainsStarted, Next, ~(\E q \in Queries : Spawn(q))
  PROVE  proc' \in [Procs -> Process] /\ Calm
<1>. USE DEF SessionTypes, Calm
<1>1. ASSUME UNCHANGED proc  PROVE proc' \in [Procs -> Process] /\ Calm
  BY <1>1
<1>2. ASSUME NEW p \in Procs, proc' = Dead(p)  PROVE proc' \in [Procs -> Process] /\ Calm
  BY <1>2, DeadProcess
<1>3. ASSUME NEW q \in Queries, Dispatch(q) \/ RunQuery(q) \/ TimesOut(q)
      PROVE  proc' \in [Procs -> Process] /\ Calm
  <2>1. CASE Enter(q)
    BY <2>1, <1>1, <1>2, DaemonAssumption DEF Enter, Closing, Missing, Procs
  <2>2. CASE Flushed(q)
    <3>1. CASE wrote[q] \in Procs /\ proc[wrote[q]].st = "up"
      <4>. DEFINE p == wrote[q]
      <4>1. Append(proc[p].inbox, q) \in Seq(Queries)
        BY <3>1 DEF Process
      <4>2. proc' = [proc EXCEPT ![p].inbox = Append(proc[p].inbox, q)]
        BY <2>2, <3>1 DEF Flushed
      <4>3. \A o \in Procs : proc'[o].st = proc[o].st
        BY <3>1, <4>2
      <4>4. proc' \in [Procs -> Process]
        <5>1. proc[p] \in Process
          BY <3>1
        <5>2. [proc[p] EXCEPT !.inbox = Append(proc[p].inbox, q)] \in Process
          BY <4>1, <5>1 DEF Process
        <5>3. proc' = [proc EXCEPT ![p] = [proc[p] EXCEPT !.inbox = Append(proc[p].inbox, q)]]
          BY <3>1, <4>2, <5>1 DEF Process
        <5> HIDE DEF Process
        <5>. QED  BY <3>1, <5>2, <5>3
      <4>. QED  BY <4>3, <4>4
    <3>2. CASE ~(wrote[q] \in Procs /\ proc[wrote[q]].st = "up")
      BY <2>2, <3>2, <1>1 DEF Flushed, Process
    <3>. QED  BY <3>1, <3>2
  <2>. QED
    BY <1>1, <1>3, <2>1, <2>2 DEF Dispatch, RunQuery, Killed, CannotSpawn, FlushFails, Return,
       TimesOut, procVars
<1>4. ASSUME NEW p \in Procs, ReaderLoop(p) \/ Overflow(p)
      PROVE  proc' \in [Procs -> Process] /\ Calm
  <2>1. CASE proc[p].out # << >> /\ Consume(p)
    <3>1. Tail(proc[p].out) \in Seq(Line)
      BY <2>1 DEF Process
    <3>. QED  BY <2>1, <3>1 DEF Consume, Process
  <2>2. CASE Overflow(p)
    <3>. DEFINE st == IF proc[p].st = "up" THEN "exited" ELSE proc[p].st
                new == [st |-> st, open |-> proc[p].open, inbox |-> << >>, turn |-> {}, out |-> << >>]
    <3>1. proc' = [proc EXCEPT ![p] = new]
      BY <2>2 DEF Overflow, Dead, Changed
    <3>2. new \in Process
      BY DEF Process
    <3>3. new.st = st
      OBVIOUS
    <3>. HIDE DEF new
    <3>. QED  BY <3>1, <3>2, <3>3
  <2>. QED
    BY <1>1, <1>4, <2>1, <2>2 DEF ReaderLoop, ReadUser, ReadStream, ReadResult, NextIs, ReadEof,
       Broadcast, procVars
<1>5. ASSUME DrainStep, DrainsStarted  PROVE proc' \in [Procs -> Process] /\ Calm
  <2>1. CASE DrainCloses
    <3>1. CASE UNCHANGED proc
      BY <3>1, <1>1
    <3>2. CASE proc' = [proc EXCEPT ![drain.proc].open = FALSE]
      BY <3>2, <2>1, <1>5 DEF DrainCloses, DrainsStarted, Process
    <3>. QED  BY <2>1, <3>1, <3>2 DEF DrainCloses
  <2>2. CASE DrainKills
    BY <2>2, <1>2, <1>5 DEF DrainKills, DrainsStarted
  <2>. QED  BY <1>1, <1>5, <2>1, <2>2 DEF DrainStep, DrainSeesExit, DrainForgets, procVars
<1>6. ASSUME NEW p \in Procs, Claude(p) \/ Murmur(p) \/ Dies(p) \/ Reaped(p)
      PROVE  proc' \in [Procs -> Process] /\ Calm
  <2>1. CASE TakeFrame(p)
    <3>. DEFINE q == Head(proc[p].inbox)
                out == Append(proc[p].out, [type |-> "user", turn |-> {q}])
                new == [st |-> "up", open |-> proc[p].open, inbox |-> Tail(proc[p].inbox),
                        turn |-> proc[p].turn \cup {q}, out |-> out]
    <3>1. q \in Queries /\ Tail(proc[p].inbox) \in Seq(Queries)
      BY <2>1 DEF TakeFrame, Process
    <3>2. out \in Seq(Line)
      <4>. HIDE DEF q
      <4>1. [type |-> "user", turn |-> {q}] \in Line
        BY <3>1 DEF Line
      <4>. QED  BY <4>1 DEF Process
    <3>3. proc' = [proc EXCEPT ![p] = new]
      BY <2>1 DEF TakeFrame, Changed
    <3>. HIDE DEF q, out
    <3>4. new \in Process /\ new.st = "up"
      BY <3>1, <3>2 DEF Process
    <3>. HIDE DEF new
    <3>. QED  BY <2>1, <3>3, <3>4 DEF TakeFrame, Up
  <2>2. CASE Answer(p)
    <3>. DEFINE out == Append(proc[p].out, [type |-> "result", turn |-> proc[p].turn])
                new == [st |-> "up", open |-> proc[p].open, inbox |-> proc[p].inbox,
                        turn |-> {}, out |-> out]
    <3>1. out \in Seq(Line)
      <4>1. [type |-> "result", turn |-> proc[p].turn] \in Line
        BY DEF Line, Process
      <4>. QED  BY <4>1 DEF Process
    <3>2. proc' = [proc EXCEPT ![p] = new]
      BY <2>2 DEF Answer, Changed
    <3>. HIDE DEF out
    <3>3. new \in Process /\ new.st = "up"
      BY <3>1 DEF Process
    <3>. HIDE DEF new
    <3>. QED  BY <2>2, <3>2, <3>3 DEF Answer, Up
  <2>3. CASE Murmur(p)
    <3>1. <<[type |-> "stream", turn |-> {}]>> \in Seq(Line)
      BY DEF Line
    <3>. QED  BY <2>3, <3>1 DEF Murmur, Process
  <2>4. CASE Dies(p)
    BY <2>4, <1>2 DEF Dies
  <2>5. CASE Reaped(p)
    BY <2>5 DEF Reaped, Process
  <2>. QED  BY <1>6, <2>1, <2>2, <2>3, <2>4, <2>5 DEF Claude
<1>. QED  BY <1>3, <1>4, <1>5, <1>6 DEF Next

\* A spawn brings one unborn process to life, with a reader, and makes it the current one.
LEMMA SpawnStep ==
  ASSUME SessionTypes, NEW q \in Queries, Spawn(q)
  PROVE  \E p \in Procs :
           /\ proc[p].st = "unborn" /\ proc' \in [Procs -> Process] /\ cur' = p
           /\ proc'[p].st = "up" /\ \A o \in Procs : o # p => proc'[o] = proc[o]
           /\ reader' = [reader EXCEPT ![p] = "reading"]
<1>1. PICK p \in Procs : /\ proc[p].st = "unborn" /\ cur' = p
                         /\ reader' = [reader EXCEPT ![p] = "reading"]
                         /\ proc' = [proc EXCEPT ![p].st = "up"]
  BY DEF Spawn
<1>2. proc' \in [Procs -> Process] /\ proc'[p].st = "up"
  BY <1>1 DEF SessionTypes, Process
<1>. QED  BY <1>1, <1>2 DEF SessionTypes

LEMMA TypesInit == Init => SessionTypes
<1>. SUFFICES ASSUME Init PROVE SessionTypes
  OBVIOUS
<1>1. Unborn \in Process
  <2>1. << >> \in Seq(Queries) /\ << >> \in Seq(Line)
    OBVIOUS
  <2>. QED  BY <2>1 DEF Unborn, Process
<1>2. proc \in [Procs -> Process]
  BY <1>1 DEF Init
<1>. QED  BY <1>2, DaemonAssumption DEF Init, SessionTypes, QueryPc, ReaderPc, DrainTask, NoDrain

\* The types, for the variables around the processes.
LEMMA TypesStep ==
  ASSUME SessionTypes, DrainsStarted, Next
  PROVE  SessionTypes'
<1>. USE DaemonAssumption DEF SessionTypes
<1>1. proc' \in [Procs -> Process]
  BY CalmStep, SpawnStep
<1>2. pc' \in [Queries -> QueryPc]
  <2>1. ASSUME NEW q \in Queries, NEW where \in QueryPc, Goto(q, where)
        PROVE  pc' \in [Queries -> QueryPc]
    BY <2>1 DEF Goto
  <2>2. ASSUME UNCHANGED pc  PROVE pc' \in [Queries -> QueryPc]
    BY <2>2
  <2>3. ASSUME NEW q \in Queries, Dispatch(q) \/ RunQuery(q) \/ TimesOut(q)
        PROVE  \E where \in QueryPc : Goto(q, where)
    BY <2>3 DEF Dispatch, RunQuery, TimesOut, Enter, Frame, Killed, Spawn, CannotSpawn, Flushed,
       FlushFails, Return, QueryPc
  <2>4. ASSUME ~(\E q \in Queries : Dispatch(q) \/ RunQuery(q) \/ TimesOut(q))
        PROVE  UNCHANGED pc
    BY <2>4 DEF Next, ReaderLoop, Overflow, Claude, Murmur, Dies, Reaped, DrainStep, ReadUser,
       ReadStream, ReadResult, ReadEof, Broadcast, DrainCloses, DrainSeesExit, DrainKills,
       DrainForgets, TakeFrame, Answer, External, queryVars
  <2>. QED  BY <2>1, <2>2, <2>3, <2>4
<1>3. wrote' \in [Queries -> 0..MaxProcs]
  <2>1. ASSUME NEW q \in Queries, NEW p \in 0..MaxProcs, Frame(q, p)
        PROVE  wrote' \in [Queries -> 0..MaxProcs]
    BY <2>1 DEF Frame
  <2>2. Procs \subseteq 0..MaxProcs
    BY DEF Procs
  <2>. QED
    BY <2>1, <2>2 DEF Next, Dispatch, RunQuery, TimesOut, Enter, Killed, Spawn, CannotSpawn,
       Flushed, FlushFails, Return, ReaderLoop, Overflow, Claude, Murmur, Dies, Reaped, DrainStep,
       ReadUser, ReadStream, ReadResult, ReadEof, Broadcast, DrainCloses, DrainSeesExit,
       DrainKills, DrainForgets, TakeFrame, Answer, External, queryVars
<1>4. cur' \in 0..MaxProcs
  <2>1. Procs \subseteq 0..MaxProcs /\ 0 \in 0..MaxProcs
    BY DEF Procs
  <2>. QED
    BY <2>1 DEF Next, Dispatch, RunQuery, TimesOut, Enter, Killed, Spawn, CannotSpawn,
       Flushed, FlushFails, Return, ReaderLoop, Overflow, Claude, Murmur, Dies, Reaped, DrainStep,
       ReadUser, ReadStream, ReadResult, ReadEof, Broadcast, DrainCloses, DrainSeesExit,
       DrainKills, DrainForgets, TakeFrame, Answer, External, procVars
<1>5. reader' \in [Procs -> ReaderPc]
  BY DEF Next, Dispatch, RunQuery, TimesOut, Enter, Killed, Spawn, CannotSpawn,
       Flushed, FlushFails, Return, ReaderLoop, Overflow, Claude, Murmur, Dies, Reaped, DrainStep,
       ReadUser, ReadStream, ReadResult, ReadEof, Broadcast, DrainCloses, DrainSeesExit,
       DrainKills, DrainForgets, TakeFrame, Answer, External, ReaderPc
<1>6. drain' \in DrainTask
  <2>1. NoDrain \in DrainTask
    BY DEF NoDrain, DrainTask
  <2>2. \A p \in Procs : [proc |-> p, pc |-> "grace"] \in DrainTask
    BY DEF DrainTask, Procs
  <2>3. [drain EXCEPT !.pc = "linger"] \in DrainTask /\ [drain EXCEPT !.pc = "killed"] \in DrainTask
    BY DEF DrainTask
  <2>. QED
    BY <2>1, <2>2, <2>3 DEF Next, Dispatch, RunQuery, TimesOut, Enter, Killed, Spawn, CannotSpawn,
       Flushed, FlushFails, Return, ReaderLoop, Overflow, Claude, Murmur, Dies, Reaped, DrainStep,
       ReadUser, ReadStream, ReadResult, ReadEof, Broadcast, DrainCloses, DrainSeesExit,
       DrainKills, DrainForgets, TakeFrame, Answer, External
<1>. QED  BY <1>1, <1>2, <1>3, <1>4, <1>5, <1>6

-----------------------------------------------------------------------------
(* The invariant is kept, one conjunct at a time                           *)

\* A step that neither takes the lock nor passes it on leaves its holders as they are,
\* or releases it.
LEMMA HoldersStep ==
  ASSUME SessionTypes, Next, NEW r \in Queries, pc'[r] \in Holding,
         ~ \E q \in Queries : Enter(q) \/ Killed(q) \/ Spawn(q)
  PROVE  pc'[r] = pc[r]
BY DEF SessionTypes, Goto, Holding, Next, Dispatch, RunQuery, TimesOut, CannotSpawn,
       Flushed, FlushFails, Return, ReaderLoop, Overflow, Claude, Murmur, Dies, Reaped, DrainStep,
       ReadUser, ReadStream, ReadResult, ReadEof, Broadcast, DrainCloses, DrainSeesExit,
       DrainKills, DrainForgets, TakeFrame, Answer, External, queryVars

LEMMA OneHolderStep ==
  ASSUME SessionTypes, OneHolder, Next
  PROVE  OneHolder'
<1>. USE DEF SessionTypes, OneHolder
<1>1. ASSUME NEW q \in Queries, Enter(q)  PROVE OneHolder'
  <2>1. \A r \in Queries : r # q => pc'[r] = pc[r] /\ pc[r] \notin Holding
    BY <1>1 DEF Enter, Frame, Goto, LockHeld
  <2>. QED  BY <2>1
<1>2. ASSUME NEW q \in Queries, Killed(q) \/ Spawn(q)  PROVE OneHolder'
  <2>1. pc[q] \in Holding /\ \A r \in Queries : r # q => pc'[r] = pc[r]
    BY <1>2 DEF Killed, Spawn, Frame, Goto, Holding
  <2>. QED  BY <2>1
<1>3. CASE ~ \E q \in Queries : Enter(q) \/ Killed(q) \/ Spawn(q)
  BY <1>3, HoldersStep
<1>. QED  BY <1>1, <1>2, <1>3

LEMMA ReadersStep ==
  ASSUME ProcessInv, Next
  PROVE  ReadersOfStarted' /\ EndedIsDead'
<1>. USE DEF ProcessInv
<1>1. ASSUME NEW q \in Queries, Spawn(q)  PROVE ReadersOfStarted' /\ EndedIsDead'
  BY <1>1, SpawnStep DEF SessionTypes, ReadersOfStarted, EndedIsDead, Up
<1>2. CASE ~ \E q \in Queries : Spawn(q)
  <2>1. Calm
    BY <1>2, CalmStep
  <2>2. ASSUME NEW p \in Procs, reader'[p] # "none"  PROVE reader[p] # "none"
    BY <1>2, <2>2 DEF SessionTypes, NextIs, Next, Dispatch, RunQuery, TimesOut, Enter, Killed, Spawn, CannotSpawn,
       Flushed, FlushFails, Return, ReaderLoop, Overflow, Claude, Murmur, Dies, Reaped, DrainStep,
       ReadUser, ReadStream, ReadResult, ReadEof, Broadcast, DrainCloses, DrainSeesExit,
       DrainKills, DrainForgets, TakeFrame, Answer, External
  <2>3. ASSUME NEW p \in Procs, Overflow(p)  PROVE EndedIsDead'
    <3>. DEFINE dead == Dead(p)
    <3>1. dead \in [Procs -> Process] /\ dead[p].st # "up"
      BY DeadProcess DEF SessionTypes
    <3>2. proc' = [dead EXCEPT ![p].out = << >>]
      BY <2>3 DEF Overflow
    <3>. HIDE DEF dead
    <3>3. proc'[p].st # "up"
      BY <3>1, <3>2 DEF Process
    <3>4. \A o \in Procs : o # p => reader'[o] = reader[o]
      BY <2>3 DEF Overflow
    <3>. QED  BY <2>1, <3>3, <3>4 DEF EndedIsDead, Calm, Up
  <2>4. ASSUME NEW p \in Procs, ReadEof(p) \/ Broadcast(p)  PROVE EndedIsDead'
    <3>1. ~Up(p)
      BY <2>4 DEF ReadEof, Broadcast, EndedIsDead, Up
    <3>2. \A o \in Procs : o # p => reader'[o] = reader[o]
      BY <2>4 DEF ReadEof, Broadcast, SessionTypes
    <3>. QED  BY <2>1, <3>1, <3>2 DEF EndedIsDead, Calm, Up
  <2>5. ASSUME UNCHANGED reader  PROVE EndedIsDead'
    <3>1. \A p \in Procs : reader'[p] = reader[p]
      BY <2>5
    <3>. QED  BY <2>1, <3>1 DEF EndedIsDead, Calm, Up
  <2>6. UNCHANGED reader \/ \E p \in Procs : Overflow(p) \/ ReadEof(p) \/ Broadcast(p)
    BY <1>2 DEF Next, Dispatch, RunQuery, TimesOut, Enter, Killed, Spawn, CannotSpawn,
       Flushed, FlushFails, Return, ReaderLoop, Overflow, Claude, Murmur, Dies, Reaped, DrainStep,
       ReadUser, ReadStream, ReadResult, ReadEof, Broadcast, DrainCloses, DrainSeesExit,
       DrainKills, DrainForgets, TakeFrame, Answer, External
  <2>7. ReadersOfStarted'
    BY <2>1, <2>2 DEF ReadersOfStarted, Calm
  <2>. QED  BY <2>3, <2>4, <2>5, <2>6, <2>7
<1>. QED  BY <1>1, <1>2

LEMMA DrainsStep ==
  ASSUME ProcessInv, Next
  PROVE  DrainsStarted' /\ KilledIsDead'
<1>. USE DEF ProcessInv
<1>1. ASSUME NEW q \in Queries, Spawn(q)  PROVE DrainsStarted' /\ KilledIsDead'
  <2>1. UNCHANGED drain
    BY <1>1 DEF Spawn
  <2>. QED  BY <1>1, <2>1, SpawnStep DEF DrainsStarted, KilledIsDead, Up
<1>2. CASE ~ \E q \in Queries : Spawn(q)
  <2>1. Calm
    BY <1>2, CalmStep
  <2>2. CASE UNCHANGED drain \/ drain' = NoDrain
    BY <2>1, <2>2 DEF DrainsStarted, KilledIsDead, Calm, NoDrain, Up
  <2>3. ASSUME NEW p \in Procs, ReadResult(p)  PROVE DrainsStarted' /\ KilledIsDead'
    <3>1. reader[p] = "reading" /\ (drain' = NoDrain \/ drain' = [proc |-> p, pc |-> "grace"])
      BY <2>3 DEF ReadResult, NextIs
    <3>. QED  BY <2>1, <3>1 DEF DrainsStarted, KilledIsDead, ReadersOfStarted, Calm, NoDrain
  <2>4. CASE drain' = [drain EXCEPT !.pc = "linger"] /\ drain.pc = "grace"
    BY <2>1, <2>4 DEF SessionTypes, DrainTask, DrainsStarted, KilledIsDead, Calm
  <2>5. CASE DrainKills
    <3>1. /\ drain.proc \in Procs /\ drain'.proc = drain.proc
          /\ proc' = Dead(drain.proc) /\ proc[drain.proc].st # "unborn"
      BY <2>5 DEF SessionTypes, DrainTask, DrainKills, DrainsStarted
    <3>2. proc'[drain.proc].st # "up"
      BY <3>1, DeadProcess DEF SessionTypes
    <3>. QED  BY <2>1, <3>1, <3>2 DEF DrainsStarted, KilledIsDead, Calm, Up
  <2>. QED
    BY <1>2, <2>2, <2>3, <2>4, <2>5 DEF Next, Dispatch, RunQuery, TimesOut, Enter, Killed, Spawn, CannotSpawn,
       Flushed, FlushFails, Return, ReaderLoop, Overflow, Claude, Murmur, Dies, Reaped, DrainStep,
       ReadUser, ReadStream, ReadResult, ReadEof, Broadcast, DrainCloses, DrainSeesExit,
       DrainKills, DrainForgets, TakeFrame, Answer, External
<1>. QED  BY <1>1, <1>2

LEMMA NoneUpStep ==
  ASSUME ProcessInv, Next
  PROVE  NoneUpAtStart'
<1>. USE DEF ProcessInv
<1>1. ASSUME NEW q \in Queries, Enter(q)  PROVE NoneUpAtStart'
  <2>1. \A r \in Queries : r # q => pc'[r] \notin {"killing", "spawning"}
    BY <1>1 DEF SessionTypes, Enter, Frame, Goto, LockHeld, Holding
  <2>2. CASE Missing /\ UNCHANGED proc
    BY <2>2 DEF Missing, UpIsCurrent, Up, NoneUpAtStart, Procs
  <2>3. CASE Frame(q, cur)
    BY <2>1, <2>3 DEF SessionTypes, Frame, Goto, NoneUpAtStart
  <2>4. CASE Closing /\ proc' = Dead(cur)
    <3>1. cur \in Procs
      BY <2>4, DaemonAssumption DEF SessionTypes, Closing, Missing, Procs
    <3>. QED  BY <2>4, <3>1, DeadProcess DEF SessionTypes, UpIsCurrent, Up, NoneUpAtStart
  <2>. QED  BY <1>1, <2>2, <2>3, <2>4 DEF Enter
<1>2. ASSUME NEW q \in Queries, Killed(q)  PROVE NoneUpAtStart'
  BY <1>2 DEF Killed, NoneUpAtStart, Up
<1>3. ASSUME NEW q \in Queries, Spawn(q)  PROVE NoneUpAtStart'
  BY <1>3 DEF SessionTypes, OneHolder, Holding, Spawn, Frame, Goto, NoneUpAtStart
<1>4. CASE ~ \E q \in Queries : Enter(q) \/ Killed(q) \/ Spawn(q)
  <2>1. Calm
    BY <1>4, CalmStep
  <2>2. \A r \in Queries : pc'[r] \in {"killing", "spawning"} => pc[r] \in {"killing", "spawning"}
    BY <1>4, HoldersStep DEF Holding
  <2>. QED  BY <2>1, <2>2 DEF NoneUpAtStart, Calm, Up
<1>. QED  BY <1>1, <1>2, <1>3, <1>4

LEMMA UpIsCurrentStep ==
  ASSUME ProcessInv, Next
  PROVE  UpIsCurrent'
<1>. USE DEF ProcessInv
<1>1. ASSUME NEW q \in Queries, Spawn(q)  PROVE UpIsCurrent'
  <2>1. \A p \in Procs : ~Up(p)
    BY <1>1 DEF Spawn, NoneUpAtStart
  <2>. QED  BY <1>1, <2>1, SpawnStep DEF UpIsCurrent, Up
<1>2. CASE ~ \E q \in Queries : Spawn(q)
  <2>1. Calm
    BY <1>2, CalmStep
  <2>2. CASE UNCHANGED cur
    BY <2>1, <2>2 DEF UpIsCurrent, Calm, Up
  <2>3. ASSUME NEW q \in Queries, Killed(q)  PROVE UpIsCurrent'
    BY <2>1, <2>3 DEF Killed, NoneUpAtStart, UpIsCurrent, Calm, Up
  <2>4. ASSUME NEW p \in Procs, Broadcast(p)  PROVE UpIsCurrent'
    <3>1. ~Up(p) /\ cur' = IF cur = p THEN 0 ELSE cur
      BY <2>4 DEF Broadcast, EndedIsDead
    <3>. QED  BY <2>1, <3>1 DEF UpIsCurrent, Calm, Up
  <2>5. CASE DrainForgets
    <3>1. ~Up(drain.proc) /\ cur' = IF cur = drain.proc THEN 0 ELSE cur
      BY <2>5 DEF DrainForgets, KilledIsDead
    <3>. QED  BY <2>1, <3>1 DEF UpIsCurrent, Calm, Up
  <2>. QED
    BY <1>2, <2>2, <2>3, <2>4, <2>5 DEF Next, Dispatch, RunQuery, TimesOut, Enter, Killed, Spawn, CannotSpawn,
       Flushed, FlushFails, Return, ReaderLoop, Overflow, Claude, Murmur, Dies, Reaped, DrainStep,
       ReadUser, ReadStream, ReadResult, ReadEof, Broadcast, DrainCloses, DrainSeesExit,
       DrainKills, DrainForgets, TakeFrame, Answer, External, procVars
<1>. QED  BY <1>1, <1>2

-----------------------------------------------------------------------------
LEMMA InvInit == Init => ProcessInv
<1>. SUFFICES ASSUME Init PROVE ProcessInv
  OBVIOUS
<1>1. SessionTypes
  BY TypesInit
<1>2. \A p \in Procs : proc[p].st = "unborn"
  BY DEF Init, Unborn
<1>. QED
  BY <1>1, <1>2 DEF Init, ProcessInv, OneHolder, Holding, ReadersOfStarted, EndedIsDead,
     DrainsStarted, KilledIsDead, NoDrain, UpIsCurrent, NoneUpAtStart, Up

LEMMA InvStep == ProcessInv /\ [Next]_vars => ProcessInv'
<1>1. ASSUME ProcessInv, Next  PROVE ProcessInv'
  BY <1>1, TypesStep, OneHolderStep, ReadersStep, DrainsStep, UpIsCurrentStep, NoneUpStep
     DEF ProcessInv
<1>2. ASSUME ProcessInv, UNCHANGED vars  PROVE ProcessInv'
  BY <1>2 DEF ProcessInv, SessionTypes, OneHolder, ReadersOfStarted, EndedIsDead, DrainsStarted,
     KilledIsDead, UpIsCurrent, NoneUpAtStart, Up, vars
<1>. QED  BY <1>1, <1>2

LEMMA InvSuffices == ProcessInv => OneProcessUp
<1>. SUFFICES ASSUME ProcessInv PROVE OneProcessUp
  OBVIOUS
<1>1. {p \in Procs : Up(p)} \subseteq {cur}
  BY DEF ProcessInv, UpIsCurrent
<1>2. IsFiniteSet({cur}) /\ Cardinality({cur}) = 1
  BY FS_Singleton
<1>3. Cardinality({p \in Procs : Up(p)}) <= Cardinality({cur})
  BY <1>1, <1>2, FS_Subset
<1>. QED  BY <1>2, <1>3 DEF OneProcessUp

\* _ensure_proc_and_write, _reader_loop and _drain_and_close never leave two claude
\* processes up on one session file, for any number of queries and respawns: _proc is
\* forgotten or replaced only when its process is dead.
THEOREM OneWriter == Spec => []OneProcessUp
<1>. QED  BY InvInit, InvStep, InvSuffices, PTL DEF Spec
-----------------------------------------------------------------------------
(* Queries and their answers                                               *)

Live == {"reading", "reaping"}
Writing(q, p) == pc[q] = "draining" /\ wrote[q] = p
Answered(q) == \E i \in DOMAIN answer[q] : answer[q][i] = "answer"

\* The variables around the processes, and the locals of run_query.
StartedHasReader ==
  /\ \A p \in Procs : reader[p] = "none" => proc[p] = Unborn
  /\ cur # 0 => reader[cur] \in Live
  /\ \A q \in Queries : pc[q] = "draining" => wrote[q] \in Procs /\ reader[wrote[q]] # "none"

\* Short of leftovers one process has a reader, and every id in the FIFO was written to it.
OneReader ==
  /\ \A p, o \in Procs : reader[p] \in Live /\ reader[o] \in Live => p = o
  /\ \A i \in DOMAIN pending :
       /\ pc[pending[i]] \in {"draining", "waiting", "returned"}
       /\ wrote[pending[i]] \in Procs /\ reader[wrote[pending[i]]] \in Live
  /\ \A i, j \in DOMAIN pending : pending[i] = pending[j] => i = j

\* A line of a process's output and the FIFO: behind a line the frames echoed are those up to
\* c2 and the frames answered those up to s2; s and c are the places before it.
Places(line, s, c, s2, c2) ==
  \/ line.type = "user" /\ s2 = s /\ c2 = c + 1 /\ line.turn = {pending[c + 1]}
  \/ line.type = "stream" /\ s2 = s /\ c2 = c
  \/ /\ line.type = "result" /\ s2 = c /\ c2 = c /\ s < c
     /\ line.turn = {pending[j] : j \in s + 1 .. c}

\* The places of all lines that process p has written and nobody has read.
Marks(p, start, count) ==
  LET out == proc[p].out
      n == Len(out)
  IN /\ start \in [0..n -> Nat] /\ count \in [0..n -> Nat]
     /\ start[0] = 0 /\ count[0] = userText /\ count[n] <= Len(pending)
     /\ \A i, j \in 0..n : i <= j => start[i] <= start[j] /\ count[i] <= count[j]
     /\ \A i \in 1..n : Places(out[i], start[i - 1], count[i - 1], start[i], count[i])

\* What the process works on and what it has not read come next, and last the frame that
\* is being written; a dead process has forgotten all but its output.
Rest(p, s, c) ==
  LET inbox == proc[p].inbox
      writing == \E q \in Queries : Writing(q, p)
  IN /\ writing => c < Len(pending)
     /\ \A q \in Queries : Writing(q, p) => pending[Len(pending)] = q
     /\ Up(p) =>
          /\ s <= c
          /\ proc[p].turn = {pending[j] : j \in s + 1 .. c}
          /\ \A j \in 1..Len(inbox) : inbox[j] = pending[c + j]
          /\ Len(pending) = c + Len(inbox) + (IF writing THEN 1 ELSE 0)

Flows(p, start, count) ==
  Marks(p, start, count) /\ Rest(p, start[Len(proc[p].out)], count[Len(proc[p].out)])
FlowOf(p) == \E start, count : Flows(p, start, count)
Flow == \A p \in Procs : reader[p] = "reading" => FlowOf(p)

\* A process whose stdin is closed has nothing left to do, and gets nothing more.
Closed ==
  \A p \in Procs :
    Up(p) /\ ~proc[p].open =>
      proc[p].inbox = << >> /\ proc[p].turn = {} /\ \A q \in Queries : ~Writing(q, p)

\* Who has an answer has left the FIFO and is on the way out of run_query.
Final ==
  \A q \in Queries :
    /\ Answered(q) =>
         /\ pc[q] \in {"waiting", "returned"} /\ (pc[q] = "waiting" => q \in event)
         /\ \A i \in DOMAIN pending : pending[i] # q
    /\ \A i \in DOMAIN answer[q] : answer[q][i] = "answer" => i = Len(answer[q])

\* The inductive invariant: until a process is started beside leftovers of another, FIFO,
\* frames, turns and output fit together.
AnswerInv ==
  /\ TypeOK /\ ProcessInv /\ StartedHasReader
  /\ overlapped \/ (OneReader /\ Flow /\ Closed /\ Final /\ AnswersOwnQuery)

-----------------------------------------------------------------------------
(* The FIFO                                                                *)

\* The lesser of two numbers.
LEMMA PairMin == ASSUME NEW a \in Nat, NEW b \in Nat PROVE Min({a, b}) = IF a <= b THEN a ELSE b
<1>1. \E x \in {a, b} : \A y \in {a, b} : x <= y
  OBVIOUS
<1> QED BY <1>1 DEF Min

\* The greater of two numbers.
LEMMA PairMax == ASSUME NEW a \in Nat, NEW b \in Nat PROVE Max({a, b}) = IF a >= b THEN a ELSE b
<1>1. \E x \in {a, b} : \A y \in {a, b} : x >= y
  OBVIOUS
<1> QED BY <1>1 DEF Max

\* The least member of a singleton.
LEMMA SingleMin == ASSUME NEW a \in Nat PROVE Min({a}) = a
BY PairMin

\* A non-empty set of natural numbers has a least element.
LEMMA MinOf ==
  ASSUME NEW S \in SUBSET Nat, S # {}
  PROVE  Min(S) \in S
<1> DEFINE less == {ss \in Nat \X Nat : ss[1] < ss[2]}
<1>1. IsWellFoundedOn(less, Nat)
  BY NatLessThanWellFounded DEF OpToRel
<1> HIDE DEF less
<1>2. \E x \in S : \A y \in S : ~ (<<y, x>> \in less)
  BY <1>1, WFMin
<1>3. \A x, y \in Nat : ~ (<<y, x>> \in less) => x <= y
  BY DEF less
<1>4. \E x \in S : \A y \in S : x <= y
  BY <1>2, <1>3
<1> QED BY <1>4 DEF Min

\* How many ids one result completes.
LEMMA CompletedIs ==
  ASSUME pending \in Seq(Queries), userText \in Nat
  PROVE  \E k \in 0..Len(pending) :
           /\ Completed = SubSeq(pending, 1, k) /\ Len(Completed) = k
           /\ Remaining = SubSeq(pending, k + 1, Len(pending))
           /\ ToSet(Completed) = {pending[j] : j \in 1..k}
           /\ (userText > 0 /\ userText <= Len(pending)) => k = userText
<1>1. Len(pending) \in Nat
  OBVIOUS
<1>2. Max({userText, 1}) = IF userText >= 1 THEN userText ELSE 1
  BY PairMax
<1> DEFINE k == Min({Len(pending), Max({userText, 1})})
<1>3. k = IF Len(pending) <= Max({userText, 1}) THEN Len(pending) ELSE Max({userText, 1})
  BY <1>1, <1>2, PairMin
<1>4. k \in 0..Len(pending) /\ ((userText > 0 /\ userText <= Len(pending)) => k = userText)
  BY <1>1, <1>2, <1>3
<1>5. Completed = SubSeq(pending, 1, k)
  BY DEF Completed
<1> HIDE DEF k
<1>6. Len(Completed) = k /\ \A j \in 1..k : Completed[j] = pending[j]
  BY <1>4, <1>5
<1>7. ToSet(Completed) = {pending[j] : j \in 1..k}
  <2>1. DOMAIN Completed = 1..k
    BY <1>4, <1>5, <1>6
  <2>2. ToSet(Completed) = {Completed[j] : j \in 1..k}
    BY <2>1 DEF ToSet
  <2> QED BY <1>6, <2>2
<1>8. Remaining = SubSeq(pending, k + 1, Len(pending))
  BY <1>6 DEF Remaining
<1> QED BY <1>4, <1>5, <1>6, <1>7, <1>8

\* remove() takes one place out of a queue, if any.
LEMMA RemoveOne ==
  ASSUME NEW S, NEW s \in Seq(S), NEW e
  PROVE  \/ RemoveFirst(s, e) = s /\ \A i \in 1..Len(s) : s[i] # e
         \/ \E k \in 1..Len(s) : s[k] = e /\ RemoveFirst(s, e) = SubSeq(s, 1, k - 1) \o SubSeq(s, k + 1, Len(s))
<1> DEFINE I == {i \in 1..Len(s) : s[i] = e}
<1>1. CASE I = {}
  BY <1>1 DEF RemoveFirst
<1>2. CASE I # {}
  <2>1. I \subseteq Nat /\ Len(s) \in Nat
    OBVIOUS
  <2>3. Min(I) \in I
    BY <1>2, <2>1, MinOf
  <2>4. SelectInSeq(s, LAMBDA v : v = e) = Min(I)
    BY <1>2 DEF SelectInSeq
  <2>5. \E i \in 1..Len(s) : s[i] = e
    BY <1>2
  <2> DEFINE k == Min(I)
  <2>6. RemoveFirst(s, e) = SubSeq(s, 1, k - 1) \o SubSeq(s, k + 1, Len(s))
    BY <2>4, <2>5 DEF RemoveFirst, RemoveAt
  <2>7. k \in 1..Len(s) /\ s[k] = e
    BY <2>3
  <2> QED BY <2>6, <2>7
<1> QED BY <1>1, <1>2

\* What is left is what was there, at places that keep their order.
LEMMA RemoveKeeps ==
  ASSUME NEW S, NEW s \in Seq(S), NEW e
  PROVE  /\ RemoveFirst(s, e) \in Seq(S)
         /\ \A i \in 1..Len(RemoveFirst(s, e)) : \E j \in 1..Len(s) : RemoveFirst(s, e)[i] = s[j]
         /\ (\A i, j \in 1..Len(s) : s[i] = s[j] => i = j) =>
              \A i, j \in 1..Len(RemoveFirst(s, e)) : RemoveFirst(s, e)[i] = RemoveFirst(s, e)[j] => i = j
<1>1. CASE RemoveFirst(s, e) = s
  BY <1>1
<1>2. ASSUME NEW k \in 1..Len(s), RemoveFirst(s, e) = SubSeq(s, 1, k - 1) \o SubSeq(s, k + 1, Len(s))
      PROVE  /\ RemoveFirst(s, e) \in Seq(S)
             /\ \A i \in 1..Len(RemoveFirst(s, e)) :
                  RemoveFirst(s, e)[i] = s[IF i < k THEN i ELSE i + 1]
             /\ Len(RemoveFirst(s, e)) = Len(s) - 1
  <2>1. Len(s) \in Nat /\ k \in Nat
    OBVIOUS
  <2> DEFINE a == SubSeq(s, 1, k - 1)
             b == SubSeq(s, k + 1, Len(s))
  <2>2. a \in Seq(S) /\ Len(a) = k - 1 /\ \A i \in 1..k - 1 : a[i] = s[i]
    BY <2>1
  <2>3. b \in Seq(S) /\ Len(b) = Len(s) - k /\ \A i \in 1..Len(s) - k : b[i] = s[k + i]
    BY <2>1
  <2> HIDE DEF a, b
  <2>j. ASSUME NEW x \in Seq(S), NEW y \in Seq(S)
        PROVE  /\ x \o y \in Seq(S) /\ Len(x \o y) = Len(x) + Len(y)
               /\ \A i \in 1..Len(x) + Len(y) : (x \o y)[i] = IF i <= Len(x) THEN x[i] ELSE y[i - Len(x)]
    OBVIOUS
  <2>4. a \o b \in Seq(S) /\ Len(a \o b) = Len(s) - 1
    <3>1. a \o b \in Seq(S) /\ Len(a \o b) = Len(a) + Len(b)
      BY <2>2, <2>3, <2>j
    <3> QED BY <2>1, <2>2, <2>3, <3>1
  <2>5. \A i \in 1..Len(a \o b) : (a \o b)[i] = IF i <= k - 1 THEN a[i] ELSE b[i - (k - 1)]
    <3>1. \A i \in 1..Len(a) + Len(b) : (a \o b)[i] = IF i <= Len(a) THEN a[i] ELSE b[i - Len(a)]
      BY <2>2, <2>3, <2>j
    <3> QED BY <2>1, <2>2, <2>3, <2>4, <3>1
  <2>6. ASSUME NEW i \in 1..Len(s) - 1 PROVE (a \o b)[i] = s[IF i < k THEN i ELSE i + 1]
    <3>1. CASE i < k
      BY <2>1, <2>2, <2>4, <2>5, <3>1
    <3>2. CASE ~(i < k)
      <4>1. i - (k - 1) \in 1..Len(s) - k /\ k + (i - (k - 1)) = i + 1 /\ ~(i <= k - 1)
        BY <2>1, <3>2
      <4>2. (a \o b)[i] = b[i - (k - 1)]
        BY <2>4, <2>5, <4>1
      <4> QED BY <2>3, <3>2, <4>1, <4>2
    <3> QED BY <3>1, <3>2
  <2>7. RemoveFirst(s, e) = a \o b
    BY <1>2 DEF a, b
  <2> QED BY <2>4, <2>6, <2>7
<1>3. ASSUME NEW k \in 1..Len(s), RemoveFirst(s, e) \in Seq(S),
             \A i \in 1..Len(RemoveFirst(s, e)) : RemoveFirst(s, e)[i] = s[IF i < k THEN i ELSE i + 1],
             Len(RemoveFirst(s, e)) = Len(s) - 1
      PROVE  /\ \A i \in 1..Len(RemoveFirst(s, e)) : \E j \in 1..Len(s) : RemoveFirst(s, e)[i] = s[j]
             /\ (\A i, j \in 1..Len(s) : s[i] = s[j] => i = j) =>
                  \A i, j \in 1..Len(RemoveFirst(s, e)) : RemoveFirst(s, e)[i] = RemoveFirst(s, e)[j] => i = j
  <2> DEFINE r == RemoveFirst(s, e)
             at(i) == IF i < k THEN i ELSE i + 1
  <2>1. Len(s) \in Nat /\ Len(r) = Len(s) - 1 /\ \A i \in 1..Len(r) : r[i] = s[at(i)]
    BY <1>3
  <2> HIDE DEF r
  <2>2. \A i \in 1..Len(r) : at(i) \in 1..Len(s)
    BY <2>1
  <2>3. \A i, j \in 1..Len(r) : at(i) = at(j) => i = j
    BY <2>1
  <2>4. \A i \in 1..Len(r) : \E j \in 1..Len(s) : r[i] = s[j]
    BY <2>1, <2>2
  <2>5. ASSUME \A i, j \in 1..Len(s) : s[i] = s[j] => i = j, NEW i \in 1..Len(r), NEW j \in 1..Len(r), r[i] = r[j]
        PROVE  i = j
    <3> HIDE DEF at
    <3> QED BY <2>1, <2>2, <2>3, <2>5
  <2> QED BY <2>4, <2>5 DEF r
<1>4. CASE \E k \in 1..Len(s) : RemoveFirst(s, e) = SubSeq(s, 1, k - 1) \o SubSeq(s, k + 1, Len(s))
  BY <1>2, <1>3, <1>4
<1> QED BY <1>1, <1>4, RemoveOne

\* The id of a failed write is the last one of the queue.
LEMMA RemoveLast ==
  ASSUME NEW S, NEW s \in Seq(S), NEW e, s # << >>, s[Len(s)] = e,
         \A i, j \in 1..Len(s) : s[i] = s[j] => i = j
  PROVE  RemoveFirst(s, e) = SubSeq(s, 1, Len(s) - 1)
<1>1. {i \in 1..Len(s) : s[i] = e} = {Len(s)}
  OBVIOUS
<1>2. Len(s) \in Nat /\ Len(s) \in 1..Len(s)
  OBVIOUS
<1>3. SelectInSeq(s, LAMBDA v : v = e) = Len(s)
  BY <1>1, <1>2, SingleMin DEF SelectInSeq
<1>4. RemoveFirst(s, e) = SubSeq(s, 1, Len(s) - 1) \o SubSeq(s, Len(s) + 1, Len(s))
  BY <1>2, <1>3 DEF RemoveFirst, RemoveAt
<1>5. SubSeq(s, Len(s) + 1, Len(s)) = << >>
  BY <1>2
<1>6. SubSeq(s, 1, Len(s) - 1) \in Seq(S)
  BY <1>2
<1> QED BY <1>4, <1>5, <1>6

-----------------------------------------------------------------------------
(* Types                                                                   *)

\* Every action keeps the type invariant.
LEMMA TypeStep ==
  ASSUME TypeOK, SessionTypes', Next
  PROVE  TypeOK'
<1> USE DaemonAssumption
<1>t. /\ pc \in [Queries -> QueryPc] /\ event \subseteq Queries /\ answer \in [Queries -> Seq(Told)]
      /\ wrote \in [Queries -> 0..MaxProcs]
      /\ pending \in Seq(Queries) /\ userText \in Nat /\ overlapped \in BOOLEAN
  BY DEF TypeOK, QueryOK, FifoOK, ProcOK
<1>1. event' \subseteq Queries
  <2>1. ToSet(pending) \subseteq Queries
    BY <1>t DEF ToSet
  <2>2. ToSet(Completed) \subseteq Queries
    <3>1. PICK k \in 0..Len(pending) : ToSet(Completed) = {pending[j] : j \in 1..k}
      BY <1>t, CompletedIs
    <3> QED BY <1>t, <3>1
  <2>3. \/ event' \subseteq event \/ \E q \in Queries : event' = event \cup {q}
        \/ event' = Wake(ToSet(pending)) \/ event' = Wake(ToSet(Completed))
    BY DEF Next, Dispatch, RunQuery, TimesOut, Enter, Killed, Spawn, CannotSpawn, Flushed,
       FlushFails, Return, ReaderLoop, Overflow, Claude, Murmur, Dies, Reaped, DrainStep, ReadUser,
       ReadStream, ReadResult, ReadEof, Broadcast, DrainCloses, DrainSeesExit, DrainKills,
       DrainForgets, TakeFrame, Answer, External, queryVars
  <2> QED BY <1>t, <2>1, <2>2, <2>3 DEF Wake
<1>2. overlapped' \in BOOLEAN
  <2>1. ASSUME NEW q \in Queries, Spawn(q) PROVE overlapped' \in BOOLEAN
    BY <2>1 DEF Spawn
  <2>2. UNCHANGED overlapped \/ \E q \in Queries : Spawn(q)
    BY DEF Next, Dispatch, RunQuery, TimesOut, Enter, Killed, CannotSpawn, Flushed,
       FlushFails, Return, ReaderLoop, Overflow, Claude, Murmur, Dies, Reaped, DrainStep, ReadUser,
       ReadStream, ReadResult, ReadEof, Broadcast, DrainCloses, DrainSeesExit, DrainKills,
       DrainForgets, TakeFrame, Answer, External, procVars
  <2> QED BY <1>t, <2>1, <2>2
<1>3. userText' \in Nat
  <2>1. userText' \in {userText, userText + 1, 0}
    BY DEF Next, Dispatch, RunQuery, TimesOut, Enter, Killed, Spawn, CannotSpawn, Flushed,
       FlushFails, Return, ReaderLoop, Overflow, Claude, Murmur, Dies, Reaped, DrainStep, ReadUser,
       ReadStream, ReadResult, ReadEof, Broadcast, DrainCloses, DrainSeesExit, DrainKills,
       DrainForgets, TakeFrame, Answer, External, readerVars, NextWindow
  <2> QED BY <1>t, <2>1
<1>4. pending' \in Seq(Queries)
  <2>1. \A q \in Queries : Append(pending, q) \in Seq(Queries) /\ RemoveFirst(pending, q) \in Seq(Queries)
    BY <1>t, RemoveKeeps
  <2>2. Remaining \in Seq(Queries)
    <3>1. PICK k \in 0..Len(pending) : Remaining = SubSeq(pending, k + 1, Len(pending))
      BY <1>t, CompletedIs
    <3> QED BY <1>t, <3>1
  <2>3. << >> \in Seq(Queries)
    OBVIOUS
  <2> QED
    BY <1>t, <2>1, <2>2, <2>3 DEF Next, Dispatch, RunQuery, TimesOut, Enter, Frame, Killed, Spawn,
       CannotSpawn, Flushed, FlushFails, Return, ReaderLoop, Overflow, Claude, Murmur, Dies, Reaped,
       DrainStep, ReadUser, ReadStream, ReadResult, ReadEof, Broadcast, DrainCloses, DrainSeesExit,
       DrainKills, DrainForgets, TakeFrame, Answer, External, readerVars
<1>5. answer' \in [Queries -> Seq(Told)]
  <2>1. ASSUME NEW q, NEW what \in Told PROVE [answer EXCEPT ![q] = Append(@, what)] \in [Queries -> Seq(Told)]
    <3>1. CASE q \in Queries
      <4>1. Append(answer[q], what) \in Seq(Told)
        BY <1>t, <3>1
      <4> QED BY <1>t, <4>1
    <3>2. CASE q \notin Queries
      BY <1>t, <3>2
    <3> QED BY <3>1, <3>2
  <2>3. ASSUME NEW p \in Procs, ReadResult(p) PROVE answer' \in [Queries -> Seq(Told)]
    <3> DEFINE turn == Head(proc[p].out).turn
               done == ToSet(Completed)
               what(q) == IF q \in turn THEN "answer" ELSE "foreign answer"
    <3>1. answer' = [q \in Queries |-> IF q \in done THEN Append(answer[q], what(q)) ELSE answer[q]]
      BY <2>3 DEF ReadResult
    <3>2. \A q \in Queries : what(q) \in Told
      BY DEF Told
    <3> HIDE DEF what, done
    <3>3. \A q \in Queries : answer[q] \in Seq(Told) /\ Append(answer[q], what(q)) \in Seq(Told)
      BY <1>t, <3>2
    <3> QED BY <3>1, <3>3
  <2>4. ASSUME NEW p \in Procs, Broadcast(p) PROVE answer' \in [Queries -> Seq(Told)]
    <3> DEFINE left == ToSet(pending)
               what(q) == IF wrote[q] = p THEN "eof" ELSE "foreign eof"
    <3>1. answer' = [q \in Queries |-> IF q \in left THEN Append(answer[q], what(q)) ELSE answer[q]]
      BY <2>4 DEF Broadcast
    <3>2. \A q \in Queries : what(q) \in Told
      BY DEF Told
    <3> HIDE DEF what, left
    <3>3. \A q \in Queries : answer[q] \in Seq(Told) /\ Append(answer[q], what(q)) \in Seq(Told)
      BY <1>t, <3>2
    <3> QED BY <3>1, <3>3
  <2>5. \/ UNCHANGED answer \/ \E q, what : what \in {"failed", "timeout"} /\ Tell(q, what)
        \/ \E p \in Procs : ReadResult(p) \/ Broadcast(p)
    BY DEF Next, Dispatch, RunQuery, TimesOut, Enter, Killed, Spawn, CannotSpawn, Flushed,
       FlushFails, Return, ReaderLoop, Overflow, Claude, Murmur, Dies, Reaped, DrainStep, ReadUser,
       ReadStream, ReadEof, DrainCloses, DrainSeesExit, DrainKills,
       DrainForgets, TakeFrame, Answer, External, readerVars
  <2>6. {"failed", "timeout"} \subseteq Told
    BY DEF Told
  <2>7. ASSUME NEW q, NEW what \in {"failed", "timeout"}, Tell(q, what) PROVE answer' \in [Queries -> Seq(Told)]
    <3>1. what \in Told
      BY <2>6
    <3> QED BY <2>1, <2>7, <3>1 DEF Tell
  <2>8. CASE UNCHANGED answer
    BY <1>t, <2>8
  <2> QED BY <2>3, <2>4, <2>5, <2>7, <2>8
<1> QED BY <1>1, <1>2, <1>3, <1>4, <1>5 DEF TypeOK, QueryOK, FifoOK, ProcOK, SessionTypes

-----------------------------------------------------------------------------
(* Readers and the FIFO                                                    *)

Late == {"draining", "waiting", "returned"}

\* A query that has written its frame stays on its way out.
LEMMA LateStays ==
  ASSUME SessionTypes, Next, NEW q \in Queries, pc[q] \in Late
  PROVE  pc'[q] \in Late /\ wrote'[q] = wrote[q]
<1> USE DEF SessionTypes, Goto, Late
<1>1. ASSUME NEW r \in Queries, r # q, Goto(r, "queued") \/ Goto(r, "killing") \/ Goto(r, "spawning")
                                       \/ Goto(r, "draining") \/ Goto(r, "waiting") \/ Goto(r, "returned")
      PROVE  pc'[q] = pc[q]
  BY <1>1
<1>2. ASSUME NEW r \in Queries, Dispatch(r) \/ Enter(r) \/ Killed(r) \/ Spawn(r) \/ CannotSpawn(r)
      PROVE  pc'[q] = pc[q] /\ wrote'[q] = wrote[q]
  BY <1>2 DEF Dispatch, Enter, Frame, Killed, Spawn, CannotSpawn
<1>3. ASSUME NEW r \in Queries, Flushed(r) \/ FlushFails(r) \/ Return(r) \/ TimesOut(r)
      PROVE  pc'[q] \in Late /\ wrote'[q] = wrote[q]
  BY <1>3 DEF Flushed, FlushFails, Return, TimesOut
<1>4. CASE ~ \E r \in Queries : Dispatch(r) \/ RunQuery(r) \/ TimesOut(r)
  BY <1>4 DEF Next, ReaderLoop, Overflow, Claude, Murmur, Dies, Reaped, DrainStep, ReadUser,
     ReadStream, ReadResult, ReadEof, Broadcast, DrainCloses, DrainSeesExit, DrainKills,
     DrainForgets, TakeFrame, Answer, External, queryVars
<1> QED BY <1>2, <1>3, <1>4 DEF RunQuery

\* A query comes to write only through a frame.
LEMMA WritersStep ==
  ASSUME SessionTypes, Next, NEW q \in Queries, pc'[q] = "draining", ~(Enter(q) \/ Spawn(q))
  PROVE  pc[q] = "draining" /\ wrote'[q] = wrote[q]
<1> USE DEF SessionTypes, Goto
<1>1. ASSUME NEW r \in Queries, Dispatch(r) \/ RunQuery(r) \/ TimesOut(r)
      PROVE  pc[q] = "draining" /\ wrote'[q] = wrote[q]
  BY <1>1 DEF RunQuery, Dispatch, Enter, Frame, Killed, Spawn, CannotSpawn, Flushed, FlushFails,
     Return, TimesOut
<1>2. CASE ~ \E r \in Queries : Dispatch(r) \/ RunQuery(r) \/ TimesOut(r)
  BY <1>2 DEF Next, ReaderLoop, Overflow, Claude, Murmur, Dies, Reaped, DrainStep, ReadUser,
     ReadStream, ReadResult, ReadEof, Broadcast, DrainCloses, DrainSeesExit, DrainKills,
     DrainForgets, TakeFrame, Answer, External, queryVars
<1> QED BY <1>1, <1>2

\* What a step that starts no process can do to a reader.
LEMMA ReadersChange ==
  ASSUME SessionTypes, Next, NEW p \in Procs, ~ \E q \in Queries : Spawn(q)
  PROVE  /\ reader'[p] = "none" <=> reader[p] = "none"
         /\ reader'[p] \in Live => reader[p] \in Live
         /\ reader[p] \in Live /\ ~Broadcast(p) => reader'[p] \in Live
         /\ reader'[p] = "reading" => reader[p] = "reading"
<1> USE DEF SessionTypes, Live
<1>1. ASSUME NEW o \in Procs, Overflow(o) \/ ReadEof(o) \/ Broadcast(o)
      PROVE  /\ reader'[p] = "none" <=> reader[p] = "none"
             /\ reader'[p] \in Live => reader[p] \in Live
             /\ reader[p] \in Live /\ ~Broadcast(p) => reader'[p] \in Live
             /\ reader'[p] = "reading" => reader[p] = "reading"
  BY <1>1 DEF Overflow, ReadEof, Broadcast
<1>2. UNCHANGED reader \/ \E o \in Procs : Overflow(o) \/ ReadEof(o) \/ Broadcast(o)
  BY DEF Next, Dispatch, RunQuery, TimesOut, Enter, Killed, Spawn, CannotSpawn,
     Flushed, FlushFails, Return, ReaderLoop, Claude, Murmur, Dies, Reaped, DrainStep,
     ReadUser, ReadStream, ReadResult, DrainCloses, DrainSeesExit, DrainKills,
     DrainForgets, TakeFrame, Answer, External
<1> QED BY <1>1, <1>2

\* Only a start changes a process that has not been started.
LEMMA UnbornStays ==
  ASSUME ProcessInv, StartedHasReader, Next, NEW p \in Procs, reader[p] = "none",
         ~ \E q \in Queries : Spawn(q)
  PROVE  proc'[p] = proc[p]
<1>1. proc[p] = Unborn /\ proc[p].st = "unborn" /\ proc \in [Procs -> Process]
  BY DEF StartedHasReader, Unborn, ProcessInv, SessionTypes
<1>2. ASSUME NEW o \in Procs, o # p, proc' = Dead(o) PROVE proc'[p] = proc[p]
  BY <1>1, <1>2, DeadProcess
<1>3. ASSUME NEW q \in Queries, Dispatch(q) \/ RunQuery(q) \/ TimesOut(q) PROVE proc'[p] = proc[p]
  <2>1. CASE Enter(q)
    <3>1. CASE Closing /\ proc' = Dead(cur)
      <4>1. cur \in Procs /\ cur # p
        BY <1>1, <3>1, DaemonAssumption DEF Closing, Missing, Procs, ProcessInv, SessionTypes,
           StartedHasReader, Live
      <4> QED BY <1>2, <3>1, <4>1
    <3> QED BY <2>1, <3>1 DEF Enter
  <2>2. CASE Flushed(q)
    BY <1>1, <2>2 DEF Flushed, StartedHasReader
  <2> QED
    BY <1>3, <2>1, <2>2 DEF Dispatch, RunQuery, Killed, CannotSpawn, FlushFails, Return, TimesOut, procVars
<1>4. ASSUME NEW o \in Procs, ReaderLoop(o) \/ Overflow(o) PROVE proc'[p] = proc[p]
  <2>1. CASE Overflow(o)
    <3>1. o # p /\ proc' = [Dead(o) EXCEPT ![o].out = << >>]
      BY <2>1 DEF Overflow
    <3>2. Dead(o)[p] = proc[p] /\ Dead(o) \in [Procs -> Process]
      BY <1>1, <3>1, DeadProcess
    <3> QED BY <3>1, <3>2
  <2> QED BY <1>4, <2>1, <1>1 DEF ReaderLoop, ReadUser, ReadStream, ReadResult, NextIs, Consume, ReadEof,
          Broadcast, procVars
<1>5. CASE DrainStep
  <2>1. CASE DrainKills
    BY <1>1, <1>2, <2>1 DEF DrainKills, ProcessInv, DrainsStarted
  <2> QED BY <1>1, <1>5, <2>1 DEF DrainStep, DrainCloses, DrainSeesExit, DrainForgets, ProcessInv,
          DrainsStarted, procVars
<1>6. ASSUME NEW o \in Procs, Claude(o) \/ Murmur(o) \/ Dies(o) \/ Reaped(o) PROVE proc'[p] = proc[p]
  <2>1. CASE Dies(o)
    BY <1>1, <1>2, <2>1 DEF Dies, Up
  <2> QED BY <1>1, <1>6, <2>1 DEF Claude, TakeFrame, Answer, Murmur, Reaped, Changed, Up
<1> QED BY <1>3, <1>4, <1>5, <1>6 DEF Next

\* Every action keeps readers and started processes together.
LEMMA StartedStep ==
  ASSUME ProcessInv, StartedHasReader, Next
  PROVE  StartedHasReader'
<1>t. SessionTypes /\ \A p \in Procs : reader[p] = "none" <=> proc[p].st = "unborn"
  BY DEF ProcessInv, ReadersOfStarted, StartedHasReader, Unborn
<1> USE DEF Live
<1>1. ASSUME NEW q \in Queries, Spawn(q) PROVE StartedHasReader'
  <2>1. PICK p \in Procs : /\ proc[p].st = "unborn" /\ cur' = p /\ reader' = [reader EXCEPT ![p] = "reading"]
                           /\ proc' = [proc EXCEPT ![p].st = "up"] /\ Frame(q, p)
    BY <1>1 DEF Spawn
  <2>2. \A o \in Procs : reader'[o] = "none" => o # p /\ reader[o] = "none" /\ proc'[o] = proc[o]
    BY <1>t, <2>1 DEF SessionTypes
  <2>3. \A r \in Queries : pc'[r] = "draining" => wrote'[r] = p \/ (pc[r] = "draining" /\ wrote'[r] = wrote[r])
    BY <1>t, <2>1 DEF SessionTypes, Frame, Goto
  <2> QED BY <1>t, <2>1, <2>2, <2>3 DEF StartedHasReader, SessionTypes
<1>2. CASE ~ \E q \in Queries : Spawn(q)
  <2>1. \A p \in Procs : reader'[p] = "none" => proc'[p] = Unborn
    BY <1>2, <1>t, ReadersChange, UnbornStays DEF StartedHasReader
  <2>2. cur' # 0 => cur' = cur /\ cur \in Procs /\ ~Broadcast(cur)
    <3>1. cur' = cur \/ cur' = 0
      BY <1>2 DEF Next, Dispatch, RunQuery, TimesOut, Enter, Killed, CannotSpawn,
         Flushed, FlushFails, Return, ReaderLoop, Overflow, Claude, Murmur, Dies, Reaped, DrainStep,
         ReadUser, ReadStream, ReadResult, ReadEof, Broadcast, DrainCloses, DrainSeesExit, DrainKills,
         DrainForgets, TakeFrame, Answer, External, procVars
    <3>2. Broadcast(cur) => cur' = 0
      BY DEF Broadcast
    <3>3. cur # 0 => cur \in Procs
      BY <1>t, DaemonAssumption DEF SessionTypes, Procs
    <3> QED BY <3>1, <3>2, <3>3
  <2>3. cur' # 0 => reader'[cur'] \in Live
    BY <1>2, <1>t, <2>2, ReadersChange DEF StartedHasReader
  <2>4. ASSUME NEW q \in Queries, pc'[q] = "draining" PROVE wrote'[q] \in Procs /\ reader'[wrote'[q]] # "none"
    <3>1. CASE Enter(q)
      <4>1. wrote'[q] = cur /\ cur \in Procs /\ cur # 0
        BY <1>t, <2>4, <3>1, DaemonAssumption DEF Enter, Frame, Goto, Writable, Missing, SessionTypes, Procs
      <4>2. reader[cur] # "none"
        BY <4>1 DEF StartedHasReader
      <4> QED BY <1>2, <1>t, <4>1, <4>2, ReadersChange
    <3>2. CASE ~Enter(q)
      <4>1. pc[q] = "draining" /\ wrote'[q] = wrote[q]
        BY <1>2, <1>t, <2>4, <3>2, WritersStep
      <4> QED BY <1>2, <1>t, <4>1, ReadersChange DEF StartedHasReader
    <3> QED BY <3>1, <3>2
  <2> QED BY <2>1, <2>3, <2>4 DEF StartedHasReader
<1> QED BY <1>1, <1>2

\* A process that is not started beside leftovers finds nothing to read and an empty FIFO.
LEMMA SpawnIsFresh ==
  ASSUME TypeOK, OneReader, NEW q \in Queries, Spawn(q), ~overlapped'
  PROVE  userText = 0 /\ pending = << >> /\ \A p \in Procs : reader[p] \notin Live
<1>1. userText = 0 /\ ~ \E p \in Procs : reader[p] \in {"reading", "reaping"}
  BY DEF Spawn
<1>2. DOMAIN pending = {}
  BY <1>1 DEF OneReader, Live
<1>3. pending = << >>
  BY <1>2 DEF TypeOK, FifoOK
<1> QED BY <1>1, <1>3 DEF Live

\* Nobody writes when a query enters.
LEMMA EnterIsAlone ==
  ASSUME SessionTypes, NEW q \in Queries, Enter(q), Frame(q, cur), Writable
  PROVE  /\ cur \in Procs /\ proc[cur].open /\ pc[q] = "queued" /\ \A r \in Queries : pc[r] # "draining"
         /\ pc' = [pc EXCEPT ![q] = "draining"] /\ wrote' = [wrote EXCEPT ![q] = cur]
         /\ pending' = Append(pending, q)
<1>1. cur \in Procs /\ proc[cur].open
  BY DaemonAssumption DEF Writable, Missing, SessionTypes, Procs
<1>2. pc[q] = "queued" /\ \A r \in Queries : pc[r] # "draining"
  BY DEF Enter, LockHeld, Holding
<1> QED BY <1>1, <1>2 DEF Frame, Goto

\* How the FIFO changes when no frame is written.
LEMMA FifoShrinks ==
  ASSUME TypeOK, Next, ~ \E q \in Queries : Spawn(q) \/ (Enter(q) /\ Writable /\ Frame(q, cur)),
         \A i, j \in DOMAIN pending : pending[i] = pending[j] => i = j
  PROVE  /\ \A i \in DOMAIN pending' : \E j \in DOMAIN pending : pending'[i] = pending[j]
         /\ \A i, j \in DOMAIN pending' : pending'[i] = pending'[j] => i = j
         /\ (\E p \in Procs : Broadcast(p)) => DOMAIN pending' = {}
<1>t. pending \in Seq(Queries) /\ userText \in Nat
  BY DEF TypeOK, FifoOK
<1>2. CASE pending' = << >>
  BY <1>2
<1>3. ASSUME NEW q \in Queries, FlushFails(q)
      PROVE  /\ \A i \in DOMAIN pending' : \E j \in DOMAIN pending : pending'[i] = pending[j]
             /\ \A i, j \in DOMAIN pending' : pending'[i] = pending'[j] => i = j
  <2> DEFINE r == RemoveFirst(pending, q)
  <2>1. pending' = r
    BY <1>3 DEF FlushFails
  <2>2. /\ r \in Seq(Queries)
        /\ \A i \in 1..Len(r) : \E j \in 1..Len(pending) : r[i] = pending[j]
        /\ (\A i, j \in 1..Len(pending) : pending[i] = pending[j] => i = j) =>
              \A i, j \in 1..Len(r) : r[i] = r[j] => i = j
    BY <1>t, RemoveKeeps
  <2> HIDE DEF r
  <2>3. DOMAIN r = 1..Len(r) /\ DOMAIN pending = 1..Len(pending)
    BY <1>t, <2>2
  <2> QED BY <2>1, <2>2, <2>3
<1>4. ASSUME NEW p \in Procs, ReadResult(p)
      PROVE  /\ \A i \in DOMAIN pending' : \E j \in DOMAIN pending : pending'[i] = pending[j]
             /\ \A i, j \in DOMAIN pending' : pending'[i] = pending'[j] => i = j
  <2>1. PICK k \in 0..Len(pending) : pending' = SubSeq(pending, k + 1, Len(pending))
    BY <1>4, <1>t, CompletedIs DEF ReadResult
  <2>2. Len(pending) \in Nat /\ DOMAIN pending = 1..Len(pending)
    BY <1>t
  <2>3. DOMAIN pending' = 1..Len(pending) - k /\ \A i \in 1..Len(pending) - k : pending'[i] = pending[k + i]
    BY <1>t, <2>1, <2>2
  <2>4. \A i \in 1..Len(pending) - k : k + i \in DOMAIN pending
    BY <2>2
  <2>5. \A i, j \in 1..Len(pending) - k : pending[k + i] = pending[k + j] => i = j
    BY <2>2, <2>4
  <2> QED BY <2>3, <2>4, <2>5
<1>6. \/ UNCHANGED pending
      \/ pending' = << >>
      \/ \E q \in Queries : FlushFails(q)
      \/ \E p \in Procs : ReadResult(p)
  BY DEF Next, Dispatch, RunQuery, TimesOut, Enter, Killed, CannotSpawn, Flushed,
     Return, ReaderLoop, Overflow, Claude, Murmur, Dies, Reaped, DrainStep, ReadUser,
     ReadStream, ReadEof, Broadcast, DrainCloses, DrainSeesExit, DrainKills,
     DrainForgets, TakeFrame, Answer, External, readerVars
<1>7. (\E p \in Procs : Broadcast(p)) => DOMAIN pending' = {}
  <2>1. ASSUME NEW p \in Procs, Broadcast(p) PROVE pending' = << >>
    BY <2>1 DEF Broadcast
  <2> QED BY <2>1
<1>8. /\ \A i \in DOMAIN pending' : \E j \in DOMAIN pending : pending'[i] = pending[j]
      /\ \A i, j \in DOMAIN pending' : pending'[i] = pending'[j] => i = j
  <2>1. CASE UNCHANGED pending
    BY <2>1
  <2> QED BY <1>2, <1>3, <1>4, <1>6, <2>1
<1> QED BY <1>7, <1>8

\* Short of an overlap, every action leaves one reader and a FIFO of its own queries.
LEMMA OneReaderStep ==
  ASSUME TypeOK, ProcessInv, StartedHasReader, OneReader, Next, ~overlapped'
  PROVE  OneReader'
<1>t. SessionTypes /\ pending \in Seq(Queries)
  BY DEF ProcessInv, TypeOK, FifoOK
<1>1. ASSUME NEW q \in Queries, Spawn(q) PROVE OneReader'
  <2>1. pending = << >> /\ \A p \in Procs : reader[p] \notin Live
    BY <1>1, SpawnIsFresh
  <2>2. PICK p \in Procs : reader' = [reader EXCEPT ![p] = "reading"] /\ Frame(q, p)
    BY <1>1 DEF Spawn
  <2>3. pending' = <<q>> /\ pc'[q] = "draining" /\ wrote'[q] = p
    BY <1>t, <2>1, <2>2 DEF Frame, Goto, SessionTypes
  <2>4. \A o \in Procs : reader'[o] \in Live => o = p
    BY <1>t, <2>1, <2>2 DEF SessionTypes
  <2>5. reader'[p] \in Live
    BY <1>t, <2>2 DEF SessionTypes, Live
  <2>6. DOMAIN pending' = {1} /\ pending'[1] = q
    BY <2>3
  <2>7. \A i \in DOMAIN pending' : pending'[i] = q
    BY <2>6
  <2> QED BY <2>3, <2>4, <2>5, <2>6, <2>7 DEF OneReader
<1>2. ASSUME NEW q \in Queries, Enter(q), Writable, Frame(q, cur) PROVE OneReader'
  <2>1. /\ cur \in Procs /\ pc[q] = "queued" /\ pc' = [pc EXCEPT ![q] = "draining"]
        /\ wrote' = [wrote EXCEPT ![q] = cur] /\ pending' = Append(pending, q) /\ cur # 0
    BY <1>2, <1>t, EnterIsAlone DEF Procs
  <2>2. reader' = reader /\ reader[cur] \in Live
    BY <1>2, <2>1 DEF Enter, StartedHasReader
  <2>3. \A i \in DOMAIN pending : pending[i] # q
    BY <2>1 DEF OneReader
  <2>4. /\ DOMAIN pending' = 1..Len(pending) + 1 /\ DOMAIN pending = 1..Len(pending) /\ Len(pending) \in Nat
        /\ \A i \in 1..Len(pending) : pending'[i] = pending[i]
        /\ pending'[Len(pending) + 1] = q
    BY <1>t, <2>1
  <2>5. \A i \in DOMAIN pending' : i \in DOMAIN pending \/ i = Len(pending) + 1
    BY <2>4
  <2>6. \A i, j \in DOMAIN pending' : pending'[i] = pending'[j] => i = j
    BY <2>3, <2>4, <2>5 DEF OneReader
  <2>7. \A i \in DOMAIN pending' : /\ pc'[pending'[i]] \in Late /\ wrote'[pending'[i]] \in Procs
                                   /\ reader[wrote'[pending'[i]]] \in Live
    <3>1. pc'[q] \in Late /\ wrote'[q] \in Procs /\ reader[wrote'[q]] \in Live
      BY <1>t, <2>1, <2>2 DEF Late, SessionTypes
    <3>2. ASSUME NEW i \in DOMAIN pending
          PROVE  /\ pc'[pending[i]] \in Late /\ wrote'[pending[i]] \in Procs
                 /\ reader[wrote'[pending[i]]] \in Live
      <4>1. pending[i] \in Queries /\ pending[i] # q
        BY <1>t, <2>3
      <4>2. pc'[pending[i]] = pc[pending[i]] /\ wrote'[pending[i]] = wrote[pending[i]]
        BY <1>t, <2>1, <4>1 DEF SessionTypes
      <4> QED BY <4>2 DEF OneReader, Late
    <3> QED BY <2>4, <2>5, <3>1, <3>2
  <2> QED BY <2>2, <2>6, <2>7 DEF OneReader, Late
<1>3. CASE ~ \E q \in Queries : Spawn(q) \/ (Enter(q) /\ Writable /\ Frame(q, cur))
  <2>1. /\ \A i \in DOMAIN pending' : \E j \in DOMAIN pending : pending'[i] = pending[j]
        /\ \A i, j \in DOMAIN pending' : pending'[i] = pending'[j] => i = j
        /\ (\E p \in Procs : Broadcast(p)) => DOMAIN pending' = {}
    BY <1>3, FifoShrinks DEF OneReader
  <2>2. \A p, o \in Procs : reader'[p] \in Live /\ reader'[o] \in Live => p = o
    BY <1>3, <1>t, ReadersChange DEF OneReader
  <2>3. ASSUME NEW i \in DOMAIN pending'
        PROVE  /\ pc'[pending'[i]] \in Late /\ wrote'[pending'[i]] \in Procs
               /\ reader'[wrote'[pending'[i]]] \in Live
    <3>1. PICK j \in DOMAIN pending : pending'[i] = pending[j]
      BY <2>1
    <3>2. pending[j] \in Queries
      BY <1>t, <3>1
    <3>3. pc[pending[j]] \in Late /\ wrote[pending[j]] \in Procs /\ reader[wrote[pending[j]]] \in Live
      BY <3>1 DEF OneReader, Late
    <3>4. pc'[pending[j]] \in Late /\ wrote'[pending[j]] = wrote[pending[j]]
      BY <1>t, <3>2, <3>3, LateStays
    <3>5. reader'[wrote[pending[j]]] \in Live
      BY <1>3, <1>t, <2>1, <3>3, ReadersChange
    <3> QED BY <3>1, <3>3, <3>4, <3>5
  <2> QED BY <2>1, <2>2, <2>3 DEF OneReader, Late
<1> QED BY <1>1, <1>2, <1>3

-----------------------------------------------------------------------------
(* The output of a process and the FIFO                                    *)

\* What is left of a process that has died.
LEMMA DeadParts ==
  ASSUME proc \in [Procs -> Process], NEW p \in Procs
  PROVE  /\ Dead(p)[p].out = proc[p].out /\ Dead(p)[p].open = proc[p].open /\ Dead(p)[p].st # "up"
         /\ Dead(p)[p].inbox = << >> /\ Dead(p)[p].turn = {}
BY DEF Dead, Changed

\* What stays the same when the queue, the output and the writers do, or the process dies.
LEMMA FlowStays ==
  ASSUME NEW p \in Procs, FlowOf(p), UNCHANGED <<pending, userText>>, proc'[p].out = proc[p].out,
         Up(p)' => Up(p) /\ proc'[p].inbox = proc[p].inbox /\ proc'[p].turn = proc[p].turn,
         \A q \in Queries : Writing(q, p)' <=> Writing(q, p)
  PROVE  FlowOf(p)'
<1>1. PICK start, count : Flows(p, start, count)
  BY DEF FlowOf
<1>2. Marks(p, start, count)'
  BY <1>1 DEF Flows, Marks, Places
<1>3. Rest(p, start[Len(proc[p].out)], count[Len(proc[p].out)])'
  <2>0. PICK s, c : s = start[Len(proc[p].out)] /\ c = count[Len(proc[p].out)]
    OBVIOUS
  <2>1. Rest(p, s, c)
    BY <1>1, <2>0 DEF Flows
  <2> DEFINE w == \E q \in Queries : Writing(q, p)
  <2>2. w' <=> w
    OBVIOUS
  <2>4. (w => c < Len(pending)) /\ \A q \in Queries : Writing(q, p) => pending[Len(pending)] = q
    BY <2>1 DEF Rest
  <2>5. Up(p) => /\ s <= c
                 /\ proc[p].turn = {pending[j] : j \in s + 1 .. c}
                 /\ \A j \in 1..Len(proc[p].inbox) : proc[p].inbox[j] = pending[c + j]
                 /\ Len(pending) = c + Len(proc[p].inbox) + (IF w THEN 1 ELSE 0)
    BY <2>1 DEF Rest
  <2>6. w' => c < Len(pending')
    BY <2>2, <2>4
  <2>7. \A q \in Queries : Writing(q, p)' => pending'[Len(pending')] = q
    BY <2>4
  <2>8. Up(p)' => /\ s <= c
                  /\ proc'[p].turn = {pending'[j] : j \in s + 1 .. c}
                  /\ \A j \in 1..Len(proc'[p].inbox) : proc'[p].inbox[j] = pending'[c + j]
                  /\ Len(pending') = c + Len(proc'[p].inbox) + (IF w' THEN 1 ELSE 0)
    <3> HIDE DEF w
    <3> QED BY <2>2, <2>5
  <2>3. Rest(p, s, c)'
    BY <2>6, <2>7, <2>8 DEF Rest
  <2> QED BY <2>0, <2>3
<1> QED BY <1>2, <1>3 DEF Flows, FlowOf

\* The places of all lines are within the queue.
LEMMA MarkBounds ==
  ASSUME NEW p \in Procs, NEW start, NEW count, Marks(p, start, count), proc[p].out \in Seq(Line)
  PROVE  LET n == Len(proc[p].out)
         IN /\ n \in Nat /\ \A i \in 0..n : start[i] \in Nat /\ count[i] \in Nat /\ count[i] <= count[n]
            /\ count[n] <= Len(pending)
<1> DEFINE n == Len(proc[p].out)
<1>1. n \in Nat
  OBVIOUS
<1>2. start \in [0..n -> Nat] /\ count \in [0..n -> Nat] /\ count[n] <= Len(pending)
  BY DEF Marks, Places
<1>3. \A i, j \in 0..n : i <= j => count[i] <= count[j]
  BY DEF Marks, Places
<1> HIDE DEF n
<1>4. \A i \in 0..n : i <= n /\ n \in 0..n
  BY <1>1
<1>5. \A i \in 0..n : start[i] \in Nat /\ count[i] \in Nat /\ count[i] <= count[n]
  BY <1>2, <1>3, <1>4
<1> QED BY <1>1, <1>2, <1>5 DEF n

\* The queue may change behind the lines' places.
LEMMA MarksKept ==
  ASSUME NEW p \in Procs, NEW start, NEW count, Marks(p, start, count), proc[p].out \in Seq(Line),
         userText' = userText, proc'[p].out = proc[p].out,
         \A i \in 1..count[Len(proc[p].out)] : pending'[i] = pending[i],
         count[Len(proc[p].out)] <= Len(pending')
  PROVE  Marks(p, start, count)'
<1> DEFINE n == Len(proc[p].out)
           out == proc[p].out
<1>1. n \in Nat /\ \A i \in 0..n : start[i] \in Nat /\ count[i] \in Nat /\ count[i] <= count[n]
  BY MarkBounds
<1>2. ASSUME NEW i \in 1..n
      PROVE  LET s == start[i - 1]
                 c == count[i - 1]
             IN \/ /\ out[i].type = "user" /\ start[i] = s /\ count[i] = c + 1
                   /\ out[i].turn = {pending'[c + 1]}
                \/ out[i].type = "stream" /\ start[i] = s /\ count[i] = c
                \/ /\ out[i].type = "result" /\ start[i] = c /\ count[i] = c /\ s < c
                   /\ out[i].turn = {pending'[j] : j \in s + 1 .. c}
  <2> DEFINE s == start[i - 1]
             c == count[i - 1]
  <2>1. i - 1 \in 0..n /\ i \in 0..n
    BY <1>1
  <2>2. s \in Nat /\ c \in Nat /\ c <= count[n] /\ count[n] \in Nat /\ count[i] <= count[n]
    BY <1>1, <2>1
  <2>3. \/ /\ out[i].type = "user" /\ start[i] = s /\ count[i] = c + 1
           /\ out[i].turn = {pending[c + 1]}
        \/ out[i].type = "stream" /\ start[i] = s /\ count[i] = c
        \/ /\ out[i].type = "result" /\ start[i] = c /\ count[i] = c /\ s < c
           /\ out[i].turn = {pending[j] : j \in s + 1 .. c}
    BY DEF Marks, Places
  <2> HIDE DEF s, c, n, out
  <2>4. CASE count[i] = c + 1
    <3>1. pending'[c + 1] = pending[c + 1]
      BY <2>2, <2>4 DEF n
    <3> QED BY <2>2, <2>3, <2>4, <3>1 DEF s, c
  <2>5. \A j \in s + 1 .. c : pending'[j] = pending[j]
    BY <2>2 DEF n
  <2>6. {pending'[j] : j \in s + 1 .. c} = {pending[j] : j \in s + 1 .. c}
    BY <2>5
  <2>7. CASE count[i] # c + 1
    BY <2>3, <2>6, <2>7 DEF s, c
  <2> QED BY <2>4, <2>7
<1>3. /\ start \in [0..n -> Nat] /\ count \in [0..n -> Nat]
      /\ start[0] = 0 /\ count[0] = userText
      /\ \A i, j \in 0..n : i <= j => start[i] <= start[j] /\ count[i] <= count[j]
  BY DEF Marks, Places
<1> QED BY <1>2, <1>3 DEF Marks, Places

\* The places at the end of the output.
Ends(p, s, c) ==
  \E start, count :
    Marks(p, start, count) /\ s = start[Len(proc[p].out)] /\ c = count[Len(proc[p].out)]

\* A line is printed.
LEMMA EndsAppend ==
  ASSUME NEW p \in Procs, NEW s0 \in Nat, NEW c0 \in Nat, Ends(p, s0, c0), proc[p].out \in Seq(Line),
         NEW line, NEW s \in Nat, NEW c \in Nat, Places(line, s0, c0, s, c),
         userText' = userText, pending' = pending, proc'[p].out = Append(proc[p].out, line),
         c <= Len(pending)
  PROVE  Ends(p, s, c)'
<1>p. PICK start, count :
        Marks(p, start, count) /\ s0 = start[Len(proc[p].out)] /\ c0 = count[Len(proc[p].out)]
  BY DEF Ends
<1>q. s0 <= s /\ c0 <= c
  BY DEF Places
<1>n. PICK n \in Nat : n = Len(proc[p].out)
  OBVIOUS
<1> DEFINE out == proc[p].out
           out2 == proc'[p].out
<1>1. \A i \in 0..n : start[i] \in Nat /\ count[i] \in Nat
  BY <1>n, <1>p, MarkBounds
<1>2. /\ start[0] = 0 /\ count[0] = userText
      /\ \A i, j \in 0..n : i <= j => start[i] <= start[j] /\ count[i] <= count[j]
      /\ \A i \in 1..n : Places(out[i], start[i - 1], count[i - 1], start[i], count[i])
  BY <1>n, <1>p DEF Marks
<1>3. Len(out2) = n + 1 /\ out2[n + 1] = line /\ \A i \in 1..n : out2[i] = out[i]
  BY <1>n
<1>r. start[n] = s0 /\ count[n] = c0
  BY <1>n, <1>p
<1> HIDE DEF out, out2
<1>a. PICK start2, count2 : /\ start2 = [i \in 0..n + 1 |-> IF i <= n THEN start[i] ELSE s]
                            /\ count2 = [i \in 0..n + 1 |-> IF i <= n THEN count[i] ELSE c]
  OBVIOUS
<1>b. \A i \in 0..n + 1 : i \in 0..n \/ i = n + 1
  OBVIOUS
<1>c. n + 1 \in 0..n + 1 /\ ~(n + 1 <= n) /\ \A i \in 0..n : i \in 0..n + 1 /\ i <= n /\ n \in 0..n
  OBVIOUS
<1>5. /\ \A i \in 0..n : start2[i] = start[i] /\ count2[i] = count[i]
      /\ start2[n + 1] = s /\ count2[n + 1] = c
  BY <1>a, <1>c
<1>4. start2 \in [0..n + 1 -> Nat] /\ count2 \in [0..n + 1 -> Nat]
  BY <1>1, <1>a
<1>6. \A i, j \in 0..n + 1 : i <= j => start2[i] <= start2[j] /\ count2[i] <= count2[j]
  <2>1. \A i \in 0..n : start[i] <= s /\ count[i] <= c
    <3>1. start[n] <= s /\ count[n] <= c /\ start[n] \in Nat /\ count[n] \in Nat
      BY <1>r, <1>q
    <3> QED BY <1>1, <1>2, <1>c, <3>1
  <2>2. ASSUME NEW i \in 0..n + 1, NEW j \in 0..n + 1, i <= j
        PROVE  start2[i] <= start2[j] /\ count2[i] <= count2[j]
    <3>1. CASE i \in 0..n /\ j \in 0..n
      BY <1>2, <1>5, <2>2, <3>1
    <3>2. CASE i \in 0..n /\ j = n + 1
      BY <1>5, <2>1, <3>2
    <3>3. CASE i = n + 1
      <4>1. j = n + 1
        BY <2>2, <3>3
      <4> QED BY <1>5, <3>3, <4>1
    <3> QED BY <1>b, <3>1, <3>2, <3>3
  <2> QED BY <2>2
<1>7. start2[0] = 0 /\ count2[0] = userText
  BY <1>2, <1>5
<1>8. ASSUME NEW i \in 1..n + 1
      PROVE  Places(out2[i], start2[i - 1], count2[i - 1], start2[i], count2[i])
  <2>1. CASE i \in 1..n
    <3>1. i - 1 \in 0..n /\ i \in 0..n
      BY <2>1
    <3>2. start2[i - 1] = start[i - 1] /\ count2[i - 1] = count[i - 1] /\ start2[i] = start[i] /\ count2[i] = count[i]
      BY <1>5, <3>1
    <3>3. out2[i] = out[i] /\ Places(out[i], start[i - 1], count[i - 1], start[i], count[i])
      BY <1>2, <1>3, <2>1
    <3> QED BY <3>2, <3>3, Zenon
  <2>2. CASE i = n + 1
    <3>0. i - 1 = n
      BY <2>2
    <3>1. start2[i - 1] = s0 /\ count2[i - 1] = c0 /\ start2[i] = s /\ count2[i] = c
      BY <1>5, <1>c, <1>r, <2>2, <3>0
    <3>2. out2[i] = line
      BY <1>3, <2>2
    <3> QED BY <3>1, <3>2, Zenon
  <2>3. i \in 1..n \/ i = n + 1
    OBVIOUS
  <2> QED BY <2>1, <2>2, <2>3
<1>9. Marks(p, start2, count2)'
  <2>1. count2[n + 1] <= Len(pending)
    BY <1>5
  <2>2. 1..Len(out2) = 1..n + 1 /\ 0..Len(out2) = 0..n + 1 /\ Len(out2) = n + 1
    BY <1>3
  <2>3. /\ start2 \in [0..Len(out2) -> Nat] /\ count2 \in [0..Len(out2) -> Nat]
        /\ start2[0] = 0 /\ count2[0] = userText' /\ count2[Len(out2)] <= Len(pending')
        /\ \A i, j \in 0..Len(out2) : i <= j => start2[i] <= start2[j] /\ count2[i] <= count2[j]
    BY <1>4, <1>6, <1>7, <2>1, <2>2
  <2>4. \A i \in 1..Len(out2) :
          \/ out2[i].type = "user" /\ start2[i] = start2[i - 1] /\ count2[i] = count2[i - 1] + 1
             /\ out2[i].turn = {pending'[count2[i - 1] + 1]}
          \/ out2[i].type = "stream" /\ start2[i] = start2[i - 1] /\ count2[i] = count2[i - 1]
          \/ /\ out2[i].type = "result" /\ start2[i] = count2[i - 1] /\ count2[i] = count2[i - 1]
             /\ start2[i - 1] < count2[i - 1]
             /\ out2[i].turn = {pending'[j] : j \in start2[i - 1] + 1 .. count2[i - 1]}
    BY <1>8, <2>2 DEF Places
  <2> QED BY <2>3, <2>4 DEF Marks, Places, out2
<1> QED
  <2>1. Len(proc'[p].out) = n + 1
    BY <1>3 DEF out2
  <2> QED BY <1>5, <1>9, <2>1 DEF Ends


\* The reader takes a line, and u ids leave the queue with it.
LEMMA MarksTail ==
  ASSUME NEW p \in Procs, NEW start, NEW count, Marks(p, start, count),
         proc[p].out \in Seq(Line), proc[p].out # << >>, proc'[p].out = Tail(proc[p].out),
         pending \in Seq(Queries), NEW u \in Nat, start[1] = u, u <= count[1], userText' = count[1] - u,
         Len(pending') = Len(pending) - u,
         \A i \in 1..Len(pending) - u : pending'[i] = pending[i + u]
  PROVE  \E start2, count2 :
           /\ Marks(p, start2, count2)'
           /\ start2[Len(proc'[p].out)] = start[Len(proc[p].out)] - u
           /\ count2[Len(proc'[p].out)] = count[Len(proc[p].out)] - u
           /\ u <= start[Len(proc[p].out)] /\ u <= count[Len(proc[p].out)]
<1>1. PICK n \in Nat : n = Len(proc[p].out) /\ n >= 1
  OBVIOUS
<1>0. n - 1 \in Nat
  BY <1>1
<1>2. PICK m \in Nat : m = n - 1
  BY <1>0
<1> DEFINE out == proc[p].out
           out2 == proc'[p].out
<1>3. Len(out2) = m /\ \A i \in 1..m : out2[i] = out[i + 1]
  <2>1. ASSUME NEW S, NEW x \in Seq(S), x # << >>
        PROVE  Len(Tail(x)) = Len(x) - 1 /\ \A i \in 1..Len(x) - 1 : Tail(x)[i] = x[i + 1]
    <3>1. Len(x) \in Nat /\ Len(x) >= 1
      BY <2>1
    <3>2. Len(Tail(x)) = Len(x) - 1
      BY <2>1
    <3>3. \A i \in 1..Len(x) - 1 : Tail(x)[i] = x[i + 1]
      BY <2>1, <3>1
    <3> QED BY <3>2, <3>3
  <2>2. Len(Tail(out)) = Len(out) - 1 /\ \A i \in 1..Len(out) - 1 : Tail(out)[i] = out[i + 1]
    BY <2>1
  <2> QED BY <1>1, <1>2, <2>2
<1>4. /\ start \in [0..n -> Nat] /\ count \in [0..n -> Nat]
      /\ count[n] <= Len(pending)
      /\ \A i, j \in 0..n : i <= j => start[i] <= start[j] /\ count[i] <= count[j]
  BY <1>1 DEF Marks, Places
<1>5. \A i \in 1..n :
        LET s == start[i - 1]
            c == count[i - 1]
        IN \/ /\ out[i].type = "user" /\ start[i] = s /\ count[i] = c + 1
              /\ out[i].turn = {pending[c + 1]}
           \/ out[i].type = "stream" /\ start[i] = s /\ count[i] = c
           \/ /\ out[i].type = "result" /\ start[i] = c /\ count[i] = c /\ s < c
              /\ out[i].turn = {pending[j] : j \in s + 1 .. c}
  BY <1>1 DEF Marks, Places
<1> HIDE DEF out, out2
<1>6. \A i \in 1..n : /\ start[i] \in Nat /\ count[i] \in Nat /\ u <= start[i] /\ u <= count[i]
                      /\ count[i] <= count[n]
  <2>1. 1 \in 0..n /\ n \in 0..n /\ \A i \in 1..n : i \in 0..n /\ 1 <= i /\ i <= n
    BY <1>1
  <2>2. start[1] \in Nat /\ count[1] \in Nat
    BY <1>4, <2>1
  <2>3. \A i \in 1..n : /\ start[i] \in Nat /\ count[i] \in Nat /\ start[1] <= start[i]
                        /\ count[1] <= count[i] /\ count[i] <= count[n]
    BY <1>4, <2>1
  <2> QED BY <2>2, <2>3
<1>7. PICK start2, count2 : /\ start2 = [i \in 0..m |-> start[i + 1] - u]
                            /\ count2 = [i \in 0..m |-> count[i + 1] - u]
  OBVIOUS
<1>8. \A i \in 0..m : /\ i + 1 \in 1..n /\ start2[i] = start[i + 1] - u /\ count2[i] = count[i + 1] - u
                      /\ start2[i] \in Nat /\ count2[i] \in Nat
  <2>1. \A i \in 0..m : i + 1 \in 1..n
    BY <1>2
  <2>2. \A i \in 0..m : start2[i] = start[i + 1] - u /\ count2[i] = count[i + 1] - u
    BY <1>7
  <2>3. \A i \in 1..n : start[i] - u \in Nat /\ count[i] - u \in Nat
    BY <1>6
  <2> QED BY <2>1, <2>2, <2>3
<1>9. start2 \in [0..m -> Nat] /\ count2 \in [0..m -> Nat]
  BY <1>7, <1>8
<1>10. start2[0] = 0 /\ count2[0] = userText'
  <2>1. 0 \in 0..m /\ 0 + 1 = 1
    BY <1>2
  <2> QED BY <1>8, <2>1
<1>11. start2[m] = start[n] - u /\ count2[m] = count[n] - u
  <2>1. m \in 0..m /\ m + 1 = n
    BY <1>2
  <2> QED BY <1>8, <2>1
<1>12. count2[m] <= Len(pending')
  <2>1. Len(pending) \in Nat
    OBVIOUS
  <2>2. count[n] \in Nat
    BY <1>1, <1>6
  <2> QED BY <1>4, <1>11, <2>1, <2>2
<1>13. \A i, j \in 0..m : i <= j => start2[i] <= start2[j] /\ count2[i] <= count2[j]
  <2>1. SUFFICES ASSUME NEW i \in 0..m, NEW j \in 0..m, i <= j
                 PROVE  start2[i] <= start2[j] /\ count2[i] <= count2[j]
    OBVIOUS
  <2>2. i + 1 \in 0..n /\ j + 1 \in 0..n /\ i + 1 <= j + 1
    <3>1. i \in 0..n - 1 /\ j \in 0..n - 1
      BY <1>2
    <3> QED BY <2>1, <3>1
  <2>3. start[i + 1] <= start[j + 1] /\ count[i + 1] <= count[j + 1]
    BY <1>4, <2>2
  <2>4. /\ start2[i] = start[i + 1] - u /\ count2[i] = count[i + 1] - u
        /\ start2[j] = start[j + 1] - u /\ count2[j] = count[j + 1] - u
        /\ i + 1 \in 1..n /\ j + 1 \in 1..n
    BY <1>8
  <2>5. start[i + 1] \in Nat /\ count[i + 1] \in Nat /\ start[j + 1] \in Nat /\ count[j + 1] \in Nat
    BY <1>6, <2>4
  <2>6. start2[i] <= start2[j]
    BY <2>3, <2>4, <2>5
  <2>7. count2[i] <= count2[j]
    BY <2>3, <2>4, <2>5
  <2> QED BY <2>6, <2>7
<1>14. ASSUME NEW i \in 1..m
       PROVE  LET s == start2[i - 1]
                  c == count2[i - 1]
              IN \/ /\ out2[i].type = "user" /\ start2[i] = s /\ count2[i] = c + 1
                    /\ out2[i].turn = {pending'[c + 1]}
                 \/ out2[i].type = "stream" /\ start2[i] = s /\ count2[i] = c
                 \/ /\ out2[i].type = "result" /\ start2[i] = c /\ count2[i] = c /\ s < c
                    /\ out2[i].turn = {pending'[j] : j \in s + 1 .. c}
  <2>1. PICK s, c : s = start2[i - 1] /\ c = count2[i - 1]
    OBVIOUS
  <2>2. PICK s0, c0 : s0 = start[i] /\ c0 = count[i]
    OBVIOUS
  <2>3. i \in 1..n /\ i + 1 \in 1..n /\ i - 1 \in 0..m /\ i \in 0..m /\ (i - 1) + 1 = i /\ (i + 1) - 1 = i
    BY <1>2
  <2>4. /\ s0 \in Nat /\ c0 \in Nat /\ u <= s0 /\ u <= c0 /\ s = s0 - u /\ c = c0 - u
        /\ start[i + 1] \in Nat /\ count[i + 1] \in Nat
        /\ start2[i] = start[i + 1] - u /\ count2[i] = count[i + 1] - u
        /\ c0 <= Len(pending) /\ count[i + 1] <= Len(pending)
    <3>1. /\ start[i] \in Nat /\ count[i] \in Nat /\ u <= start[i] /\ u <= count[i] /\ count[i] <= count[n]
          /\ count[i + 1] \in Nat /\ start[i + 1] \in Nat /\ count[i + 1] <= count[n]
      BY <1>6, <2>3
    <3>2. /\ start2[i - 1] = start[i] - u /\ count2[i - 1] = count[i] - u
          /\ start2[i] = start[i + 1] - u /\ count2[i] = count[i + 1] - u
      BY <1>8, <2>3
    <3>3. count[n] \in Nat /\ Len(pending) \in Nat
      BY <1>1, <1>6
    <3>4. c0 <= Len(pending) /\ count[i + 1] <= Len(pending)
      <4>1. count[n] <= Len(pending)
        BY <1>4
      <4>2. count[i] <= Len(pending) /\ count[i + 1] <= Len(pending)
        BY <3>1, <3>3, <4>1
      <4> QED BY <2>2, <4>2
    <3>5. s = s0 - u /\ c = c0 - u
      BY <2>1, <2>2, <3>2
    <3> QED BY <2>2, <3>1, <3>2, <3>4, <3>5
  <2>5. \/ /\ out[i + 1].type = "user" /\ start[i + 1] = s0 /\ count[i + 1] = c0 + 1
           /\ out[i + 1].turn = {pending[c0 + 1]}
        \/ out[i + 1].type = "stream" /\ start[i + 1] = s0 /\ count[i + 1] = c0
        \/ /\ out[i + 1].type = "result" /\ start[i + 1] = c0 /\ count[i + 1] = c0 /\ s0 < c0
           /\ out[i + 1].turn = {pending[j] : j \in s0 + 1 .. c0}
    BY <1>5, <2>2, <2>3
  <2>6. out2[i] = out[i + 1] /\ Len(pending) \in Nat
    BY <1>3
  <2>7. CASE /\ out[i + 1].type = "user" /\ start[i + 1] = s0 /\ count[i + 1] = c0 + 1
             /\ out[i + 1].turn = {pending[c0 + 1]}
    <3>1. c + 1 \in 1..Len(pending) - u /\ (c + 1) + u = c0 + 1
      BY <2>4, <2>6, <2>7
    <3>2. pending'[c + 1] = pending[c0 + 1]
      BY <3>1
    <3> QED BY <2>1, <2>4, <2>6, <2>7, <3>2
  <2>8. CASE out[i + 1].type = "stream" /\ start[i + 1] = s0 /\ count[i + 1] = c0
    BY <2>1, <2>4, <2>6, <2>8
  <2>9. CASE /\ out[i + 1].type = "result" /\ start[i + 1] = c0 /\ count[i + 1] = c0 /\ s0 < c0
             /\ out[i + 1].turn = {pending[j] : j \in s0 + 1 .. c0}
    <3>1. \A j \in (s0 - u) + 1 .. c0 - u : pending'[j] = pending[j + u]
      <4>1. \A j \in (s0 - u) + 1 .. c0 - u : j \in 1..Len(pending) - u
        BY <2>4, <2>6
      <4> QED BY <4>1
    <3>2. {pending'[j] : j \in (s0 - u) + 1 .. c0 - u} = {pending[j] : j \in s0 + 1 .. c0}
      <4>1. ASSUME NEW j \in (s0 - u) + 1 .. c0 - u PROVE pending'[j] \in {pending[k] : k \in s0 + 1 .. c0}
        <5>1. j + u \in s0 + 1 .. c0
          BY <2>4
        <5> QED BY <3>1, <5>1
      <4>2. ASSUME NEW j \in s0 + 1 .. c0 PROVE pending[j] \in {pending'[k] : k \in (s0 - u) + 1 .. c0 - u}
        <5>1. j - u \in (s0 - u) + 1 .. c0 - u /\ (j - u) + u = j
          BY <2>4
        <5> QED BY <3>1, <5>1
      <4> QED BY <4>1, <4>2
    <3>3. out2[i].turn = {pending'[j] : j \in s + 1 .. c}
      BY <2>4, <2>6, <2>9, <3>2
    <3>4. s < c /\ start2[i] = c /\ count2[i] = c
      BY <2>4, <2>9
    <3> QED BY <2>1, <2>6, <2>9, <3>3, <3>4
  <2> QED BY <2>5, <2>7, <2>8, <2>9
<1>15. Marks(p, start2, count2)'
  <2>1. Len(out2) = m /\ 1..m = 1..Len(out2)
    BY <1>3
  <2> QED BY <1>9, <1>10, <1>12, <1>13, <1>14, <2>1 DEF Marks, Places, out2
<1> QED
  <2>1. Len(proc'[p].out) = m
    BY <1>3 DEF out2
  <2>2. u <= start[n] /\ u <= count[n]
    BY <1>1, <1>6
  <2> QED BY <1>1, <1>11, <1>15, <2>1, <2>2

\* What the process has not answered moves up with the queue.
LEMMA RestShift ==
  ASSUME NEW p \in Procs, NEW s \in Nat, NEW c \in Nat, Rest(p, s, c),
         pending \in Seq(Queries), pending' \in Seq(Queries), proc[p].inbox \in Seq(Queries),
         NEW u \in Nat, u <= s, u <= c, c <= Len(pending),
         Len(pending') = Len(pending) - u,
         \A i \in 1..Len(pending) - u : pending'[i] = pending[i + u],
         proc'[p].st = proc[p].st, proc'[p].inbox = proc[p].inbox, proc'[p].turn = proc[p].turn,
         \A q \in Queries : Writing(q, p)' <=> Writing(q, p)
  PROVE  Rest(p, s - u, c - u)'
<1> DEFINE w == \E q \in Queries : Writing(q, p)
           inbox == proc[p].inbox
<1>1. w' <=> w
  OBVIOUS
<1>2. PICK N \in Nat : N = Len(pending) /\ Len(pending') = N - u
  <2>1. Len(pending) \in Nat
    OBVIOUS
  <2> QED BY <2>1, Zenon
<1>3. (w => c < N) /\ \A q \in Queries : Writing(q, p) => pending[N] = q
  BY <1>2 DEF Rest
<1>4. Up(p) => /\ s <= c
               /\ proc[p].turn = {pending[j] : j \in s + 1 .. c}
               /\ \A j \in 1..Len(inbox) : inbox[j] = pending[c + j]
               /\ N = c + Len(inbox) + (IF w THEN 1 ELSE 0)
  BY <1>2 DEF Rest
<1>5. w' => c - u < Len(pending')
  BY <1>1, <1>2, <1>3
<1>6. \A q \in Queries : Writing(q, p)' => pending'[Len(pending')] = q
  <2>1. SUFFICES ASSUME NEW q \in Queries, Writing(q, p)' PROVE pending'[Len(pending')] = q
    OBVIOUS
  <2>2. w
    BY <2>1
  <2>3. N - u \in 1..N - u /\ (N - u) + u = N
    BY <1>3, <2>2
  <2> QED BY <1>2, <1>3, <2>1, <2>3
<1>7. ASSUME Up(p)'
      PROVE  /\ s - u <= c - u
             /\ proc'[p].turn = {pending'[j] : j \in (s - u) + 1 .. c - u}
             /\ \A j \in 1..Len(proc'[p].inbox) : proc'[p].inbox[j] = pending'[(c - u) + j]
             /\ Len(pending') = (c - u) + Len(proc'[p].inbox) + (IF w' THEN 1 ELSE 0)
  <2>1. Up(p)
    BY <1>7 DEF Up
  <2>2. Len(inbox) \in Nat /\ c <= N
    BY <1>2
  <2>3. {pending'[j] : j \in (s - u) + 1 .. c - u} = {pending[j] : j \in s + 1 .. c}
    <3>1. \A j \in (s - u) + 1 .. c - u : pending'[j] = pending[j + u]
      <4>1. \A j \in (s - u) + 1 .. c - u : j \in 1..N - u
        BY <2>2
      <4> QED BY <1>2, <4>1
    <3>2. ASSUME NEW j \in (s - u) + 1 .. c - u PROVE pending'[j] \in {pending[k] : k \in s + 1 .. c}
      <4>1. j + u \in s + 1 .. c
        OBVIOUS
      <4> QED BY <3>1, <4>1
    <3>3. ASSUME NEW j \in s + 1 .. c PROVE pending[j] \in {pending'[k] : k \in (s - u) + 1 .. c - u}
      <4>1. j - u \in (s - u) + 1 .. c - u /\ (j - u) + u = j
        OBVIOUS
      <4> QED BY <3>1, <4>1
    <3> QED BY <3>2, <3>3
  <2>4. ASSUME NEW j \in 1..Len(inbox) PROVE inbox[j] = pending'[(c - u) + j]
    <3> HIDE DEF w, inbox
    <3>1. N >= c + Len(inbox)
      BY <1>4, <2>1, <2>2
    <3>2. (c - u) + j \in 1..N - u /\ ((c - u) + j) + u = c + j
      BY <2>2, <3>1
    <3>3. pending'[(c - u) + j] = pending[c + j]
      BY <1>2, <3>2
    <3> QED BY <1>4, <2>1, <3>3
  <2>5. Len(pending') = (c - u) + Len(inbox) + (IF w' THEN 1 ELSE 0)
    <3>1. N = c + Len(inbox) + (IF w' THEN 1 ELSE 0)
      BY <1>1, <1>4, <2>1
    <3> HIDE DEF w, inbox
    <3> QED BY <1>2, <2>2, <3>1
  <2>6. s <= c /\ proc'[p].turn = {pending[j] : j \in s + 1 .. c}
    BY <1>4, <2>1
  <2>7. s - u <= c - u
    BY <2>6
  <2> HIDE DEF w
  <2> QED BY <2>3, <2>4, <2>5, <2>6, <2>7
<1>8. PICK s2, c2 : s2 = s - u /\ c2 = c - u
  OBVIOUS
<1>9. Rest(p, s2, c2)'
  BY <1>5, <1>6, <1>7, <1>8 DEF Rest
<1> QED BY <1>8, <1>9

-----------------------------------------------------------------------------
(* What each action does to the flow of a process                          *)

\* The ranges the steps below need, from the type invariant.
LEMMA Types ==
  ASSUME TypeOK, NEW p \in Procs
  PROVE  /\ proc \in [Procs -> Process] /\ pending \in Seq(Queries) /\ Len(pending) \in Nat /\ userText \in Nat
         /\ proc[p].out \in Seq(Line) /\ proc[p].inbox \in Seq(Queries) /\ proc[p].turn \subseteq Queries
         /\ Len(proc[p].out) \in Nat /\ Len(proc[p].inbox) \in Nat
BY DEF TypeOK, FifoOK, ProcOK, Process

\* The places at the end of the output.
LEMMA FlowEnds ==
  ASSUME TypeOK, NEW p \in Procs, FlowOf(p)
  PROVE  \E start, count : \E n, s, c \in Nat :
           /\ Marks(p, start, count) /\ n = Len(proc[p].out) /\ s = start[n] /\ c = count[n]
           /\ Rest(p, s, c) /\ c <= Len(pending)
           /\ start[0] = 0 /\ count[0] = userText /\ start[n] \in Nat /\ count[n] \in Nat
<1>1. PICK start, count : Flows(p, start, count)
  BY DEF FlowOf
<1>2. Marks(p, start, count) /\ proc[p].out \in Seq(Line)
  BY <1>1, Types DEF Flows
<1> DEFINE n == Len(proc[p].out)
<1>3. n \in Nat /\ (\A i \in 0..n : start[i] \in Nat /\ count[i] \in Nat) /\ count[n] <= Len(pending)
  BY <1>2, MarkBounds
<1>4. start[0] = 0 /\ count[0] = userText
  BY <1>2 DEF Marks
<1>5. Rest(p, start[n], count[n])
  BY <1>1 DEF Flows
<1>6. n \in 0..n
  BY <1>3
<1> HIDE DEF n
<1>7. start[n] \in Nat /\ count[n] \in Nat
  BY <1>3, <1>6
<1> QED BY <1>2, <1>3, <1>4, <1>5, <1>7 DEF n

\* And back.
LEMMA FlowFrom ==
  ASSUME NEW p \in Procs, NEW start, NEW count, NEW s, NEW c, Marks(p, start, count)',
         s = start[Len(proc'[p].out)], c = count[Len(proc'[p].out)], Rest(p, s, c)'
  PROVE  FlowOf(p)'
BY DEF FlowOf, Flows

\* The parts of what is left after the step.
LEMMA RestIs ==
  ASSUME NEW p \in Procs, NEW s, NEW c,
         (\E q \in Queries : Writing(q, p)') => c < Len(pending'),
         \A q \in Queries : Writing(q, p)' => pending'[Len(pending')] = q,
         Up(p)' => /\ s <= c
                   /\ proc'[p].turn = {pending'[j] : j \in s + 1 .. c}
                   /\ \A j \in 1..Len(proc'[p].inbox) : proc'[p].inbox[j] = pending'[c + j]
                   /\ (\E q \in Queries : Writing(q, p)') => Len(pending') = c + Len(proc'[p].inbox) + 1
                   /\ ~(\E q \in Queries : Writing(q, p)') => Len(pending') = c + Len(proc'[p].inbox) + 0
  PROVE  Rest(p, s, c)'
<1>1. Up(p)' => /\ s <= c
                /\ proc'[p].turn = {pending'[j] : j \in s + 1 .. c}
                /\ \A j \in 1..Len(proc'[p].inbox) : proc'[p].inbox[j] = pending'[c + j]
                /\ Len(pending') = c + Len(proc'[p].inbox)
                                     + (IF \E q \in Queries : Writing(q, p)' THEN 1 ELSE 0)
  OBVIOUS
<1> QED BY <1>1 DEF Rest

\* And before it.
LEMMA RestWas ==
  ASSUME NEW p \in Procs, NEW s \in Nat, NEW c \in Nat, Rest(p, s, c),
         Len(proc[p].inbox) \in Nat, Len(pending) \in Nat
  PROVE  /\ (\E q \in Queries : Writing(q, p)) => c < Len(pending)
         /\ \A q \in Queries : Writing(q, p) => pending[Len(pending)] = q
         /\ Up(p) => /\ s <= c
                     /\ proc[p].turn = {pending[j] : j \in s + 1 .. c}
                     /\ \A j \in 1..Len(proc[p].inbox) : proc[p].inbox[j] = pending[c + j]
                     /\ (\E q \in Queries : Writing(q, p)) => Len(pending) = c + Len(proc[p].inbox) + 1
                     /\ ~(\E q \in Queries : Writing(q, p)) => Len(pending) = c + Len(proc[p].inbox)
<1>1. Up(p) => /\ s <= c
               /\ proc[p].turn = {pending[j] : j \in s + 1 .. c}
               /\ \A j \in 1..Len(proc[p].inbox) : proc[p].inbox[j] = pending[c + j]
               /\ Len(pending) = c + Len(proc[p].inbox) + (IF \E q \in Queries : Writing(q, p) THEN 1 ELSE 0)
  BY DEF Rest
<1>2. /\ (\E q \in Queries : Writing(q, p)) => c < Len(pending)
      /\ \A q \in Queries : Writing(q, p) => pending[Len(pending)] = q
  BY DEF Rest
<1> QED BY <1>1, <1>2

\* A frame is written.
LEMMA FlowFrame ==
  ASSUME TypeOK, NEW p \in Procs, FlowOf(p), NEW q \in Queries,
         \A r \in Queries : ~Writing(r, p), \A r \in Queries : Writing(r, p)' <=> r = q,
         pending' = Append(pending, q), userText' = userText, proc'[p] = proc[p]
  PROVE  FlowOf(p)'
<1>1. PICK start, count : \E n, s, c \in Nat :
           /\ Marks(p, start, count) /\ n = Len(proc[p].out) /\ s = start[n] /\ c = count[n]
           /\ Rest(p, s, c) /\ c <= Len(pending)
  BY FlowEnds
<1>2. PICK n, s, c \in Nat :
           /\ Marks(p, start, count) /\ n = Len(proc[p].out) /\ s = start[n] /\ c = count[n]
           /\ Rest(p, s, c) /\ c <= Len(pending)
  BY <1>1
<1>t. Len(pending) \in Nat /\ Len(proc[p].inbox) \in Nat /\ proc[p].out \in Seq(Line) /\ pending \in Seq(Queries)
  BY Types
<1>3. /\ Len(pending') = Len(pending) + 1 /\ pending'[Len(pending) + 1] = q
      /\ \A i \in 1..Len(pending) : pending'[i] = pending[i]
  BY <1>t
<1>4. Marks(p, start, count)'
  <2>1. \A i \in 1..c : pending'[i] = pending[i]
    BY <1>2, <1>3, <1>t
  <2>2. c <= Len(pending')
    BY <1>2, <1>3, <1>t
  <2> QED BY <1>2, <1>t, <2>1, <2>2, MarksKept
<1>5. Rest(p, s, c)'
  <2>1. c < Len(pending') /\ pending'[Len(pending')] = q
    BY <1>2, <1>3, <1>t
  <2>2. ASSUME Up(p)'
        PROVE  /\ s <= c /\ proc'[p].turn = {pending'[j] : j \in s + 1 .. c}
               /\ \A j \in 1..Len(proc'[p].inbox) : proc'[p].inbox[j] = pending'[c + j]
               /\ Len(pending') = c + Len(proc'[p].inbox) + 1
    <3>1. Up(p)
      BY <2>2 DEF Up
    <3>2. /\ s <= c /\ proc[p].turn = {pending[j] : j \in s + 1 .. c}
          /\ \A j \in 1..Len(proc[p].inbox) : proc[p].inbox[j] = pending[c + j]
          /\ Len(pending) = c + Len(proc[p].inbox)
      <4>1. ~ \E r \in Queries : Writing(r, p)
        OBVIOUS
      <4>2. Rest(p, s, c)
        BY <1>2
      <4> QED BY <1>t, <3>1, <4>1, <4>2, RestWas
    <3>3. {pending'[j] : j \in s + 1 .. c} = {pending[j] : j \in s + 1 .. c}
      <4>1. \A j \in s + 1 .. c : pending'[j] = pending[j]
        BY <1>2, <1>3, <1>t
      <4> QED BY <4>1
    <3>4. \A j \in 1..Len(proc[p].inbox) : pending'[c + j] = pending[c + j]
      <4>1. \A j \in 1..Len(proc[p].inbox) : c + j \in 1..Len(pending)
        BY <1>t, <3>2
      <4> QED BY <1>3, <4>1
    <3> QED BY <1>3, <1>t, <3>2, <3>3, <3>4
  <2>3. \E r \in Queries : Writing(r, p)'
    OBVIOUS
  <2>4. \A r \in Queries : Writing(r, p)' => pending'[Len(pending')] = r
    BY <2>1
  <2> QED BY <2>1, <2>2, <2>3, <2>4, RestIs
<1>6. Len(proc'[p].out) = n
  BY <1>2
<1> QED BY <1>2, <1>4, <1>5, <1>6, FlowFrom

\* The frame is flushed.
LEMMA FlowFlushed ==
  ASSUME TypeOK, NEW p \in Procs, FlowOf(p), NEW q \in Queries, Writing(q, p),
         \A r \in Queries : ~Writing(r, p)', pending' = pending, userText' = userText,
         proc'[p].out = proc[p].out, proc'[p].turn = proc[p].turn,
         Up(p)' => Up(p) /\ proc'[p].inbox = Append(proc[p].inbox, q)
  PROVE  FlowOf(p)'
<1>1. PICK start, count : \E n, s, c \in Nat :
           /\ Marks(p, start, count) /\ n = Len(proc[p].out) /\ s = start[n] /\ c = count[n]
           /\ Rest(p, s, c) /\ c <= Len(pending)
  BY FlowEnds
<1>2. PICK n, s, c \in Nat :
           /\ Marks(p, start, count) /\ n = Len(proc[p].out) /\ s = start[n] /\ c = count[n]
           /\ Rest(p, s, c) /\ c <= Len(pending)
  BY <1>1
<1>t. /\ Len(pending) \in Nat /\ Len(proc[p].inbox) \in Nat /\ proc[p].out \in Seq(Line)
      /\ proc[p].inbox \in Seq(Queries)
  BY Types
<1>3. Marks(p, start, count)'
  BY <1>2, <1>t, MarksKept
<1>4. Rest(p, s, c)'
  <2>1. ASSUME Up(p)'
        PROVE  /\ s <= c /\ proc'[p].turn = {pending'[j] : j \in s + 1 .. c}
               /\ \A j \in 1..Len(proc'[p].inbox) : proc'[p].inbox[j] = pending'[c + j]
               /\ Len(pending') = c + Len(proc'[p].inbox) + 0
    <3>1. Up(p) /\ proc'[p].inbox = Append(proc[p].inbox, q)
      BY <2>1
    <3>2. /\ s <= c /\ proc[p].turn = {pending[j] : j \in s + 1 .. c}
          /\ \A j \in 1..Len(proc[p].inbox) : proc[p].inbox[j] = pending[c + j]
          /\ Len(pending) = c + Len(proc[p].inbox) + 1 /\ pending[Len(pending)] = q
      <4>1. \E r \in Queries : Writing(r, p)
        OBVIOUS
      <4>2. Rest(p, s, c)
        BY <1>2
      <4> QED BY <1>t, <3>1, <4>1, <4>2, RestWas
    <3>3. /\ Len(proc'[p].inbox) = Len(proc[p].inbox) + 1
          /\ \A j \in 1..Len(proc[p].inbox) : proc'[p].inbox[j] = proc[p].inbox[j]
          /\ proc'[p].inbox[Len(proc[p].inbox) + 1] = q
      BY <1>t, <3>1
    <3>4. ASSUME NEW j \in 1..Len(proc[p].inbox) + 1 PROVE proc'[p].inbox[j] = pending[c + j]
      <4>1. CASE j = Len(proc[p].inbox) + 1
        <5>1. c + j = Len(pending)
          BY <1>t, <3>2, <4>1
        <5> QED BY <3>2, <3>3, <4>1, <5>1
      <4>2. CASE j # Len(proc[p].inbox) + 1
        <5>1. j \in 1..Len(proc[p].inbox)
          BY <1>t, <4>2
        <5> QED BY <3>2, <3>3, <5>1
      <4> QED BY <4>1, <4>2
    <3>5. Len(pending) = c + Len(proc'[p].inbox) + 0
      BY <1>t, <3>2, <3>3
    <3> QED BY <3>2, <3>3, <3>4, <3>5
  <2>2. ~ \E r \in Queries : Writing(r, p)'
    OBVIOUS
  <2> QED BY <2>1, <2>2, RestIs
<1>5. Len(proc'[p].out) = n
  BY <1>2
<1> QED BY <1>2, <1>3, <1>4, <1>5, FlowFrom

\* Its write fails on a dead process.
LEMMA FlowUnwritten ==
  ASSUME TypeOK, NEW p \in Procs, FlowOf(p), NEW q \in Queries, Writing(q, p),
         \A r \in Queries : ~Writing(r, p)', pending' = SubSeq(pending, 1, Len(pending) - 1),
         userText' = userText, proc'[p].out = proc[p].out, ~Up(p)'
  PROVE  FlowOf(p)'
<1>1. PICK start, count : \E n, s, c \in Nat :
           /\ Marks(p, start, count) /\ n = Len(proc[p].out) /\ s = start[n] /\ c = count[n]
           /\ Rest(p, s, c) /\ c <= Len(pending)
  BY FlowEnds
<1>2. PICK n, s, c \in Nat :
           /\ Marks(p, start, count) /\ n = Len(proc[p].out) /\ s = start[n] /\ c = count[n]
           /\ Rest(p, s, c) /\ c <= Len(pending)
  BY <1>1
<1>t. /\ Len(pending) \in Nat /\ Len(proc[p].inbox) \in Nat /\ proc[p].out \in Seq(Line)
      /\ pending \in Seq(Queries)
  BY Types
<1>3. c < Len(pending)
  BY <1>2, <1>t, RestWas
<1>4. Len(pending') = Len(pending) - 1 /\ \A i \in 1..Len(pending) - 1 : pending'[i] = pending[i]
  <2>1. ASSUME NEW S, NEW x \in Seq(S), NEW k \in Nat, k = Len(x) - 1
        PROVE  Len(SubSeq(x, 1, k)) = k /\ \A i \in 1..k : SubSeq(x, 1, k)[i] = x[i]
    OBVIOUS
  <2>2. Len(pending) - 1 \in Nat
    BY <1>2, <1>t, <1>3
  <2> QED BY <1>t, <2>1, <2>2
<1>5. Marks(p, start, count)'
  <2>1. \A i \in 1..c : pending'[i] = pending[i]
    BY <1>3, <1>4, <1>t
  <2>2. c <= Len(pending')
    BY <1>3, <1>4, <1>t
  <2> QED BY <1>2, <1>t, <2>1, <2>2, MarksKept
<1>6. Rest(p, s, c)'
  BY RestIs
<1>7. Len(proc'[p].out) = n
  BY <1>2
<1> QED BY <1>2, <1>5, <1>6, <1>7, FlowFrom


\* What the next line says about the queue.
LEMMA HeadLine ==
  ASSUME TypeOK, NEW p \in Procs, NEW start, NEW count, Marks(p, start, count), proc[p].out # << >>
  PROVE  /\ userText \in Nat /\ start[1] \in Nat /\ count[1] \in Nat /\ userText <= Len(pending)
         /\ LET line == Head(proc[p].out)
            IN \/ line.type = "user" /\ start[1] = 0 /\ count[1] = userText + 1
               \/ line.type = "stream" /\ start[1] = 0 /\ count[1] = userText
               \/ /\ line.type = "result" /\ start[1] = userText /\ count[1] = userText /\ 0 < userText
                  /\ line.turn = {pending[j] : j \in 1..userText}
<1>1. PICK n \in Nat : n = Len(proc[p].out) /\ n >= 1
  BY Types
<1>2. Head(proc[p].out) = proc[p].out[1]
  BY Types
<1>3. start \in [0..n -> Nat] /\ count \in [0..n -> Nat] /\ start[0] = 0 /\ count[0] = userText
  BY <1>1 DEF Marks, Places
<1>4. \A i \in 0..n : count[i] <= Len(pending) /\ start[i] \in Nat /\ count[i] \in Nat
  <2>1. \A i \in 0..n : start[i] \in Nat /\ count[i] \in Nat /\ count[i] <= count[n]
    BY <1>1, Types, MarkBounds
  <2>2. count[n] <= Len(pending)
    BY <1>1, Types, MarkBounds
  <2>3. Len(pending) \in Nat
    BY Types
  <2>4. n \in 0..n
    BY <1>1
  <2> QED BY <2>1, <2>2, <2>3, <2>4
<1>5. 0 \in 0..n /\ 1 \in 0..n /\ 1 \in 1..n /\ 1 - 1 = 0 /\ 0 + 1 = 1
  BY <1>1
<1>6. LET line == proc[p].out[1]
      IN \/ line.type = "user" /\ start[1] = start[1 - 1] /\ count[1] = count[1 - 1] + 1
         \/ line.type = "stream" /\ start[1] = start[1 - 1] /\ count[1] = count[1 - 1]
         \/ /\ line.type = "result" /\ start[1] = count[1 - 1] /\ count[1] = count[1 - 1]
            /\ start[1 - 1] < count[1 - 1]
            /\ line.turn = {pending[j] : j \in start[1 - 1] + 1 .. count[1 - 1]}
  BY <1>1, <1>5 DEF Marks, Places
<1> QED BY <1>2, <1>3, <1>4, <1>5, <1>6

\* The reader takes a line.
LEMMA FlowRead ==
  ASSUME TypeOK, NEW p \in Procs, FlowOf(p), proc[p].out # << >>,
         pending' \in Seq(Queries), \A q \in Queries : Writing(q, p)' <=> Writing(q, p),
         proc'[p].out = Tail(proc[p].out), proc'[p].st = proc[p].st,
         proc'[p].inbox = proc[p].inbox, proc'[p].turn = proc[p].turn,
         LET type == Head(proc[p].out).type
         IN \/ type = "user" /\ pending' = pending /\ userText' = userText + 1
            \/ type = "stream" /\ pending' = pending /\ userText' = userText
            \/ type = "result" /\ pending' = SubSeq(pending, userText + 1, Len(pending)) /\ userText' = 0
  PROVE  FlowOf(p)'
<1>1. PICK start, count : \E n, s, c \in Nat :
           /\ Marks(p, start, count) /\ n = Len(proc[p].out) /\ s = start[n] /\ c = count[n]
           /\ Rest(p, s, c) /\ c <= Len(pending)
  BY FlowEnds
<1>2. PICK n, s, c \in Nat :
           /\ Marks(p, start, count) /\ n = Len(proc[p].out) /\ s = start[n] /\ c = count[n]
           /\ Rest(p, s, c) /\ c <= Len(pending)
  BY <1>1
<1>t. /\ Len(pending) \in Nat /\ proc[p].inbox \in Seq(Queries) /\ proc[p].out \in Seq(Line)
      /\ pending \in Seq(Queries) /\ userText \in Nat
  BY Types
<1>3. /\ start[1] \in Nat /\ count[1] \in Nat /\ userText <= Len(pending)
      /\ LET line == Head(proc[p].out)
         IN \/ line.type = "user" /\ start[1] = 0 /\ count[1] = userText + 1
            \/ line.type = "stream" /\ start[1] = 0 /\ count[1] = userText
            \/ line.type = "result" /\ start[1] = userText /\ count[1] = userText
  <2>1. Marks(p, start, count)
    BY <1>2
  <2> QED BY <2>1, HeadLine
<1>4. PICK u \in Nat : u = start[1]
  BY <1>3
<1>5. u <= count[1] /\ userText' = count[1] - u
  <2>1. CASE Head(proc[p].out).type = "user"
    <3>1. u = 0 /\ count[1] = userText + 1
      BY <1>3, <1>4, <2>1
    <3>2. userText' = userText + 1
      BY <2>1
    <3> QED BY <1>t, <3>1, <3>2
  <2>2. CASE Head(proc[p].out).type = "stream"
    <3>1. u = 0 /\ count[1] = userText
      BY <1>3, <1>4, <2>2
    <3>2. userText' = userText
      BY <2>2
    <3> QED BY <1>t, <3>1, <3>2
  <2>3. CASE Head(proc[p].out).type = "result"
    <3>1. u = userText /\ count[1] = userText
      BY <1>3, <1>4, <2>3
    <3>2. userText' = 0
      BY <2>3
    <3> QED BY <1>t, <3>1, <3>2
  <2> QED BY <1>3, <2>1, <2>2, <2>3
<1>6. Len(pending') = Len(pending) - u /\ \A i \in 1..Len(pending) - u : pending'[i] = pending[i + u]
  <2>1. CASE u = 0 /\ pending' = pending
    BY <1>t, <2>1
  <2>2. CASE u = userText /\ u <= Len(pending) /\ pending' = SubSeq(pending, u + 1, Len(pending))
    <3>1. ASSUME NEW S, NEW x \in Seq(S), NEW k \in Nat, k <= Len(x)
          PROVE  /\ Len(SubSeq(x, k + 1, Len(x))) = Len(x) - k
                 /\ \A i \in 1..Len(x) - k : SubSeq(x, k + 1, Len(x))[i] = x[k + i]
      <4>1. Len(x) \in Nat
        OBVIOUS
      <4>2. Len(SubSeq(x, k + 1, Len(x))) = Len(x) - k
        BY <3>1, <4>1
      <4>3. \A i \in 1..Len(x) - k : SubSeq(x, k + 1, Len(x))[i] = x[k + i]
        BY <3>1, <4>1
      <4> QED BY <4>2, <4>3
    <3>2. \A i \in 1..Len(pending) - u : i + u = u + i
      BY <1>t
    <3> QED BY <1>t, <2>2, <3>1, <3>2
  <2> QED BY <1>3, <1>4, <2>1, <2>2
<1>7. PICK start2, count2 :
        /\ Marks(p, start2, count2)'
        /\ start2[Len(proc'[p].out)] = start[Len(proc[p].out)] - u
        /\ count2[Len(proc'[p].out)] = count[Len(proc[p].out)] - u
        /\ u <= start[Len(proc[p].out)] /\ u <= count[Len(proc[p].out)]
  <2>1. Marks(p, start, count)
    BY <1>2
  <2> QED BY <1>t, <1>4, <1>5, <1>6, <2>1, MarksTail
<1>8. u <= s /\ u <= c /\ start2[Len(proc'[p].out)] = s - u /\ count2[Len(proc'[p].out)] = c - u
  BY <1>2, <1>7
<1>9. Rest(p, s - u, c - u)'
  <2>1. Rest(p, s, c) /\ c <= Len(pending)
    BY <1>2
  <2> QED BY <1>t, <1>6, <1>8, <2>1, RestShift
<1>10. PICK s2, c2 : s2 = s - u /\ c2 = c - u
  OBVIOUS
<1>11. Rest(p, s2, c2)'
  BY <1>9, <1>10
<1> QED BY <1>7, <1>8, <1>10, <1>11, FlowFrom

\* A result is about the turn of those it completes.
LEMMA ResultIs ==
  ASSUME TypeOK, NEW p \in Procs, FlowOf(p), NextIs(p, "result")
  PROVE  /\ Head(proc[p].out).turn = ToSet(Completed)
         /\ Remaining = SubSeq(pending, userText + 1, Len(pending))
<1>1. PICK start, count : Marks(p, start, count)
  BY FlowEnds
<1>2. proc[p].out # << >> /\ Head(proc[p].out).type = "result"
  BY DEF NextIs
<1>3. /\ userText \in Nat /\ userText <= Len(pending) /\ 0 < userText
      /\ Head(proc[p].out).turn = {pending[j] : j \in 1..userText}
  BY <1>1, <1>2, HeadLine
<1>4. PICK k \in 0..Len(pending) :
        /\ Remaining = SubSeq(pending, k + 1, Len(pending))
        /\ ToSet(Completed) = {pending[j] : j \in 1..k}
        /\ (userText > 0 /\ userText <= Len(pending)) => k = userText
  BY Types, CompletedIs DEF TypeOK, FifoOK
<1>5. k = userText
  BY <1>3, <1>4
<1> QED BY <1>3, <1>4, <1>5

\* From the places at the end.
LEMMA FlowFromEnds ==
  ASSUME NEW p \in Procs, NEW s, NEW c, Ends(p, s, c)', Rest(p, s, c)'
  PROVE  FlowOf(p)'
<1>1. PICK start, count :
        Marks(p, start, count)' /\ s = start[Len(proc'[p].out)] /\ c = count[Len(proc'[p].out)]
  BY DEF Ends
<1> QED BY <1>1, FlowFrom

\* The process takes a frame: it echoes the id and works on it.
LEMMA FlowTaken ==
  ASSUME TypeOK, NEW p \in Procs, FlowOf(p), Up(p), proc[p].inbox # << >>,
         UNCHANGED <<pending, userText>>, \A q \in Queries : Writing(q, p)' <=> Writing(q, p),
         proc'[p].out = Append(proc[p].out, [type |-> "user", turn |-> {Head(proc[p].inbox)}]),
         proc'[p].inbox = Tail(proc[p].inbox), proc'[p].turn = proc[p].turn \cup {Head(proc[p].inbox)}
  PROVE  FlowOf(p)'
<1>1. PICK start, count : \E n, s, c \in Nat :
           /\ Marks(p, start, count) /\ n = Len(proc[p].out) /\ s = start[n] /\ c = count[n]
           /\ Rest(p, s, c) /\ c <= Len(pending)
  BY FlowEnds
<1>2. PICK n, s, c \in Nat :
           /\ Marks(p, start, count) /\ n = Len(proc[p].out) /\ s = start[n] /\ c = count[n]
           /\ Rest(p, s, c) /\ c <= Len(pending)
  BY <1>1
<1>t. /\ Len(pending) \in Nat /\ Len(proc[p].inbox) \in Nat /\ proc[p].out \in Seq(Line)
      /\ proc[p].inbox \in Seq(Queries)
  BY Types
<1> DEFINE inbox == proc[p].inbox
<1>3. /\ s <= c /\ proc[p].turn = {pending[j] : j \in s + 1 .. c}
      /\ \A j \in 1..Len(inbox) : inbox[j] = pending[c + j]
      /\ (\E q \in Queries : Writing(q, p)) => Len(pending) = c + Len(inbox) + 1
      /\ ~(\E q \in Queries : Writing(q, p)) => Len(pending) = c + Len(inbox)
      /\ \A q \in Queries : Writing(q, p) => pending[Len(pending)] = q
  <2>1. Rest(p, s, c)
    BY <1>2
  <2> QED BY <1>t, <2>1, RestWas
<1>4. /\ Len(inbox) >= 1 /\ Head(inbox) = inbox[1]
      /\ Len(Tail(inbox)) = Len(inbox) - 1 /\ \A j \in 1..Len(inbox) - 1 : Tail(inbox)[j] = inbox[j + 1]
  <2>1. ASSUME NEW S, NEW x \in Seq(S), x # << >>
        PROVE  /\ Len(x) >= 1 /\ Head(x) = x[1]
               /\ Len(Tail(x)) = Len(x) - 1 /\ \A i \in 1..Len(x) - 1 : Tail(x)[i] = x[i + 1]
    <3>1. Len(x) \in Nat /\ Len(x) >= 1 /\ Head(x) = x[1]
      BY <2>1
    <3>2. Len(Tail(x)) = Len(x) - 1
      BY <2>1
    <3>3. \A i \in 1..Len(x) - 1 : Tail(x)[i] = x[i + 1]
      BY <2>1, <3>1
    <3> QED BY <3>1, <3>2, <3>3
  <2> QED BY <1>t, <2>1
<1> HIDE DEF inbox
<1>u. inbox = proc[p].inbox
  BY DEF inbox
<1>5. Head(inbox) = pending[c + 1] /\ c + 1 <= Len(pending)
  <2>1. 1 \in 1..Len(inbox)
    BY <1>t, <1>u, <1>4
  <2>2. Len(inbox) \in Nat
    BY <1>t, <1>u
  <2> QED BY <1>t, <1>3, <1>4, <2>1, <2>2
<1>8. PICK c1 \in Nat : c1 = c + 1
  OBVIOUS
<1>6. Ends(p, s, c1)'
  <2>1. PICK line : line = [type |-> "user", turn |-> {Head(inbox)}]
    OBVIOUS
  <2>2. proc'[p].out = Append(proc[p].out, line) /\ line.type = "user" /\ line.turn = {pending[c + 1]}
    BY <1>5, <1>u, <2>1
  <2>3. Places(line, s, c, s, c1)
    BY <1>8, <2>2 DEF Places
  <2>4. Ends(p, s, c) /\ c1 <= Len(pending)
    BY <1>2, <1>5, <1>8 DEF Ends
  <2> QED BY <1>t, <2>2, <2>3, <2>4, EndsAppend
<1>9. Rest(p, s, c1)'
  <2>1. (\E q \in Queries : Writing(q, p)') => c1 < Len(pending')
    <3>1. Len(inbox) \in Nat
      BY <1>t, <1>u
    <3> QED BY <1>3, <1>4, <1>8, <1>t, <3>1
  <2>2. \A q \in Queries : Writing(q, p)' => pending'[Len(pending')] = q
    BY <1>3
  <2>3. proc'[p].turn = {pending'[j] : j \in s + 1 .. c1}
    <3>1. \A j : j \in s + 1 .. c1 <=> j \in s + 1 .. c \/ j = c + 1
      BY <1>3, <1>8
    <3>2. proc'[p].turn = {pending[j] : j \in s + 1 .. c} \cup {pending[c + 1]}
      BY <1>3, <1>5, <1>u
    <3> QED BY <3>1, <3>2
  <2>4. Len(inbox) \in Nat /\ Len(proc'[p].inbox) = Len(inbox) - 1
    BY <1>4, <1>t, <1>u
  <2>5. ASSUME NEW j \in 1..Len(proc'[p].inbox) PROVE proc'[p].inbox[j] = pending'[c1 + j]
    <3>1. j \in 1..Len(inbox) - 1 /\ j + 1 \in 1..Len(inbox) /\ c + (j + 1) = c1 + j
      BY <1>8, <2>4
    <3>2. inbox[j + 1] = pending[c + (j + 1)]
      BY <1>3, <3>1
    <3>3. Tail(inbox)[j] = inbox[j + 1]
      BY <1>4, <3>1
    <3> QED BY <1>u, <3>1, <3>2, <3>3
  <2>6. /\ (\E q \in Queries : Writing(q, p)') => Len(pending') = c1 + Len(proc'[p].inbox) + 1
        /\ ~(\E q \in Queries : Writing(q, p)') => Len(pending') = c1 + Len(proc'[p].inbox) + 0
    <3>1. pending' = pending /\ ((\E q \in Queries : Writing(q, p)') <=> (\E q \in Queries : Writing(q, p)))
      OBVIOUS
    <3>0. c + Len(inbox) = c1 + Len(proc'[p].inbox) /\ c1 + Len(proc'[p].inbox) \in Nat
      <4>1. PICK k : k = Len(inbox)
        OBVIOUS
      <4>2. k \in Nat /\ k >= 1 /\ Len(proc'[p].inbox) = k - 1
        BY <1>4, <2>4, <4>1
      <4>3. c + k = c1 + (k - 1) /\ c1 + (k - 1) \in Nat
        BY <1>8, <4>2
      <4> QED BY <4>1, <4>2, <4>3, Zenon
    <3>2. (\E q \in Queries : Writing(q, p)) => Len(pending) = c1 + Len(proc'[p].inbox) + 1
      BY <1>3, <3>0, Zenon
    <3>3. ~(\E q \in Queries : Writing(q, p)) => Len(pending) = c1 + Len(proc'[p].inbox) + 0
      <4>1. ~(\E q \in Queries : Writing(q, p)) => Len(pending) = c1 + Len(proc'[p].inbox)
        BY <1>3, <3>0, Zenon
      <4> QED BY <3>0, <4>1
    <3> QED BY <3>1, <3>2, <3>3
  <2>7. s <= c1
    BY <1>3, <1>8
  <2> QED BY <2>1, <2>2, <2>3, <2>5, <2>6, <2>7, RestIs
<1> QED BY <1>6, <1>9, FlowFromEnds

\* The process answers the turn it works on.
LEMMA FlowAnswered ==
  ASSUME TypeOK, NEW p \in Procs, FlowOf(p), Up(p), proc[p].turn # {},
         UNCHANGED <<pending, userText>>, \A q \in Queries : Writing(q, p)' <=> Writing(q, p),
         proc'[p].out = Append(proc[p].out, [type |-> "result", turn |-> proc[p].turn]),
         proc'[p].inbox = proc[p].inbox, proc'[p].turn = {}
  PROVE  FlowOf(p)'
<1>1. PICK start, count : \E n, s, c \in Nat :
           /\ Marks(p, start, count) /\ n = Len(proc[p].out) /\ s = start[n] /\ c = count[n]
           /\ Rest(p, s, c) /\ c <= Len(pending)
  BY FlowEnds
<1>2. PICK n, s, c \in Nat :
           /\ Marks(p, start, count) /\ n = Len(proc[p].out) /\ s = start[n] /\ c = count[n]
           /\ Rest(p, s, c) /\ c <= Len(pending)
  BY <1>1
<1>t. Len(pending) \in Nat /\ Len(proc[p].inbox) \in Nat /\ proc[p].out \in Seq(Line)
  BY Types
<1>3. /\ s <= c /\ proc[p].turn = {pending[j] : j \in s + 1 .. c}
      /\ \A j \in 1..Len(proc[p].inbox) : proc[p].inbox[j] = pending[c + j]
      /\ (\E q \in Queries : Writing(q, p)) => c < Len(pending) /\ Len(pending) = c + Len(proc[p].inbox) + 1
      /\ ~(\E q \in Queries : Writing(q, p)) => Len(pending) = c + Len(proc[p].inbox)
      /\ \A q \in Queries : Writing(q, p) => pending[Len(pending)] = q
  <2>1. Rest(p, s, c)
    BY <1>2
  <2> QED BY <1>t, <2>1, RestWas
<1>4. s < c
  <2>1. s = c => s + 1 .. c = {}
    OBVIOUS
  <2>2. \E j : j \in s + 1 .. c
    BY <1>3
  <2> QED BY <1>3, <2>1, <2>2
<1>5. Ends(p, c, c)'
  <2>1. PICK line : line = [type |-> "result", turn |-> proc[p].turn]
    OBVIOUS
  <2>2. /\ proc'[p].out = Append(proc[p].out, line) /\ line.type = "result"
        /\ line.turn = {pending[j] : j \in s + 1 .. c}
    BY <1>3, <2>1
  <2>3. Places(line, s, c, c, c)
    BY <1>4, <2>2 DEF Places
  <2>4. Ends(p, s, c) /\ c <= Len(pending)
    BY <1>2 DEF Ends
  <2> QED BY <1>t, <2>2, <2>3, <2>4, EndsAppend
<1>7. Rest(p, c, c)'
  <2>1. {pending'[j] : j \in c + 1 .. c} = {}
    <3>1. c + 1 .. c = {}
      OBVIOUS
    <3> QED BY <3>1
  <2>2. (\E q \in Queries : Writing(q, p)') <=> (\E q \in Queries : Writing(q, p))
    OBVIOUS
  <2>3. /\ (\E q \in Queries : Writing(q, p)') => c < Len(pending')
        /\ \A q \in Queries : Writing(q, p)' => pending'[Len(pending')] = q
    BY <1>3
  <2>4. /\ (\E q \in Queries : Writing(q, p)') => Len(pending') = c + Len(proc'[p].inbox) + 1
        /\ ~(\E q \in Queries : Writing(q, p)') => Len(pending') = c + Len(proc'[p].inbox) + 0
    BY <1>3, <1>t, <2>2
  <2>5. \A j \in 1..Len(proc'[p].inbox) : proc'[p].inbox[j] = pending'[c + j]
    BY <1>3
  <2>6. c <= c /\ proc'[p].turn = {pending'[j] : j \in c + 1 .. c}
    BY <2>1
  <2> QED BY <2>3, <2>4, <2>5, <2>6, RestIs
<1> QED BY <1>5, <1>7, FlowFromEnds

\* The process prints between turns.
LEMMA FlowMurmurs ==
  ASSUME TypeOK, NEW p \in Procs, FlowOf(p), UNCHANGED <<pending, userText>>,
         \A q \in Queries : Writing(q, p)' <=> Writing(q, p), proc[p].out = << >>,
         proc'[p].out = <<[type |-> "stream", turn |-> {}]>>, proc'[p].st = proc[p].st,
         proc'[p].inbox = proc[p].inbox, proc'[p].turn = proc[p].turn
  PROVE  FlowOf(p)'
<1>1. PICK start, count : \E n, s, c \in Nat :
           /\ Marks(p, start, count) /\ n = Len(proc[p].out) /\ s = start[n] /\ c = count[n]
           /\ Rest(p, s, c) /\ c <= Len(pending)
  BY FlowEnds
<1>2. PICK n, s, c \in Nat :
           /\ Marks(p, start, count) /\ n = Len(proc[p].out) /\ s = start[n] /\ c = count[n]
           /\ Rest(p, s, c) /\ c <= Len(pending)
  BY <1>1
<1>t. /\ Len(pending) \in Nat /\ proc[p].inbox \in Seq(Queries) /\ proc[p].out \in Seq(Line)
      /\ pending \in Seq(Queries)
  BY Types
<1>3. Ends(p, s, c)'
  <2>1. PICK line : line = [type |-> "stream", turn |-> {}]
    OBVIOUS
  <2>2. proc'[p].out = Append(proc[p].out, line) /\ line.type = "stream"
    BY <2>1
  <2>3. Places(line, s, c, s, c)
    BY <2>2 DEF Places
  <2>4. Ends(p, s, c) /\ c <= Len(pending)
    BY <1>2 DEF Ends
  <2> QED BY <1>t, <2>2, <2>3, <2>4, EndsAppend
<1>4. Rest(p, s - 0, c - 0)'
  <2>1. Rest(p, s, c) /\ 0 <= s /\ 0 <= c /\ c <= Len(pending)
    BY <1>2
  <2>2. Len(pending') = Len(pending) - 0 /\ \A i \in 1..Len(pending) - 0 : pending'[i] = pending[i + 0]
    BY <1>t
  <2>3. pending' \in Seq(Queries)
    BY <1>t
  <2> QED BY <1>t, <2>1, <2>2, <2>3, RestShift
<1>5. s - 0 = s /\ c - 0 = c
  OBVIOUS
<1>6. Rest(p, s, c)'
  BY <1>4, <1>5
<1> QED BY <1>3, <1>6, FlowFromEnds

-----------------------------------------------------------------------------
(* The flow is kept                                                        *)

\* A process dies.
LEMMA FlowDies ==
  ASSUME TypeOK, NEW p \in Procs, FlowOf(p), NEW o \in Procs, proc' = Dead(o),
         UNCHANGED <<pending, userText>>, \A q \in Queries : Writing(q, p)' <=> Writing(q, p)
  PROVE  FlowOf(p)'
<1>t. proc \in [Procs -> Process]
  BY Types
<1>1. CASE o = p
  <2>1. proc'[p].out = proc[p].out /\ ~Up(p)'
    BY <1>t, <1>1, DeadParts DEF Up
  <2> QED BY <2>1, FlowStays
<1>2. CASE o # p
  <2>1. proc'[p] = proc[p]
    BY <1>t, <1>2, DeadProcess
  <2> QED BY <2>1, FlowStays DEF Up
<1> QED BY <1>1, <1>2

\* A new process has one frame to come and nothing else.
LEMMA FlowSpawned ==
  ASSUME TypeOK, ProcessInv, StartedHasReader, OneReader, NEW q \in Queries, Spawn(q), ~overlapped',
         NEW p \in Procs, reader'[p] = "reading"
  PROVE  FlowOf(p)'
<1>t. SessionTypes
  BY DEF ProcessInv
<1>1. userText = 0 /\ pending = << >> /\ \A o \in Procs : reader[o] \notin Live
  BY SpawnIsFresh
<1>2. PICK o \in Procs : /\ reader' = [reader EXCEPT ![o] = "reading"] /\ Frame(q, o)
                         /\ proc[o].st = "unborn" /\ proc' = [proc EXCEPT ![o].st = "up"]
  BY DEF Spawn
<1>3. o = p
  BY <1>t, <1>1, <1>2 DEF SessionTypes, Live
<1>4. proc[p] = Unborn
  BY <1>t, <1>2, <1>3 DEF ProcessInv, ReadersOfStarted, StartedHasReader
<1>5. proc'[p].out = << >> /\ proc'[p].inbox = << >> /\ proc'[p].turn = {}
  BY <1>t, <1>2, <1>3, <1>4 DEF SessionTypes, Process, Unborn
<1>6. pending' = <<q>> /\ userText' = 0 /\ pc' = [pc EXCEPT ![q] = "draining"] /\ wrote' = [wrote EXCEPT ![q] = p]
  <2>1. pending' = Append(pending, q) /\ wrote' = [wrote EXCEPT ![q] = o] /\ pc' = [pc EXCEPT ![q] = "draining"]
    BY <1>2 DEF Frame, Goto
  <2>2. userText' = 0
    BY <1>1 DEF Spawn
  <2>3. Append(<< >>, q) = <<q>>
    OBVIOUS
  <2> QED BY <1>1, <1>3, <2>1, <2>2, <2>3
<1>7. \A r \in Queries : Writing(r, p)' <=> r = q
  <2>1. \A r \in Queries : pc[r] # "draining"
    <3>1. pc[q] = "spawning"
      BY DEF Spawn
    <3> QED BY <3>1 DEF ProcessInv, OneHolder, Holding
  <2> QED BY <1>t, <1>6, <2>1 DEF Writing, SessionTypes
<1>8. PICK zero : zero = [i \in 0..0 |-> 0]
  OBVIOUS
<1>9. zero \in [0..0 -> Nat] /\ zero[0] = 0 /\ \A i \in 0..0 : zero[i] = 0
  BY <1>8
<1>10. Marks(p, zero, zero)'
  <2>1. Len(proc'[p].out) = 0 /\ Len(pending') = 1
    BY <1>5, <1>6
  <2>2. \A i, j \in 0..0 : zero[i] <= zero[j]
    BY <1>9
  <2>3. 1..0 = {}
    OBVIOUS
  <2> QED BY <1>6, <1>9, <2>1, <2>2, <2>3 DEF Marks
<1>11. Rest(p, 0, 0)'
  <2>1. Len(pending') = 1 /\ pending'[1] = q /\ Len(proc'[p].inbox) = 0
    BY <1>5, <1>6
  <2>2. {pending'[j] : j \in 0 + 1 .. 0} = {} /\ 1..0 = {}
    <3>1. 0 + 1 .. 0 = {} /\ 1..0 = {}
      OBVIOUS
    <3> QED BY <3>1
  <2>3. \E r \in Queries : Writing(r, p)'
    BY <1>7
  <2>4. \A r \in Queries : Writing(r, p)' => pending'[Len(pending')] = r
    BY <1>7, <2>1
  <2>5. /\ 0 <= 0 /\ proc'[p].turn = {pending'[j] : j \in 0 + 1 .. 0}
        /\ \A j \in 1..Len(proc'[p].inbox) : proc'[p].inbox[j] = pending'[0 + j]
    BY <1>5, <2>1, <2>2
  <2> QED BY <2>1, <2>3, <2>4, <2>5, RestIs
<1>12. 0 = zero[Len(proc'[p].out)]
  BY <1>5, <1>9
<1> QED BY <1>10, <1>11, <1>12, FlowFrom

\* What the coroutine of a query does.
LEMMA FlowOfQueries ==
  ASSUME TypeOK, ProcessInv, StartedHasReader, OneReader, Next,
         NEW p \in Procs, reader[p] = "reading", FlowOf(p),
         NEW q \in Queries, Dispatch(q) \/ RunQuery(q) \/ TimesOut(q), ~ \E r \in Queries : Spawn(r)
  PROVE  FlowOf(p)'
<1>t. SessionTypes /\ pending \in Seq(Queries)
  BY DEF ProcessInv, TypeOK, FifoOK
<1>1. CASE Enter(q) /\ Writable /\ Frame(q, cur)
  <2>2. /\ cur \in Procs /\ cur # 0 /\ \A r \in Queries : pc[r] # "draining"
        /\ pc' = [pc EXCEPT ![q] = "draining"] /\ wrote' = [wrote EXCEPT ![q] = cur]
        /\ pending' = Append(pending, q)
    BY <1>1, <1>t, EnterIsAlone DEF Procs
  <2>3. cur = p
    BY <2>2 DEF StartedHasReader, OneReader, Live
  <2>4. userText' = userText /\ proc' = proc
    <3>1. ~Goto(q, "killing")
      BY <1>t, <2>2 DEF Goto, SessionTypes
    <3> QED BY <1>1, <3>1 DEF Enter
  <2>5. \A r \in Queries : ~Writing(r, p) /\ (Writing(r, p)' <=> r = q)
    BY <1>t, <2>2, <2>3 DEF Writing, SessionTypes
  <2> QED BY <2>2, <2>4, <2>5, FlowFrame
<1>2. CASE Flushed(q)
  <2>1. pc[q] = "draining" /\ wrote[q] \in Procs
    BY <1>2 DEF Flushed, StartedHasReader
  <2>2. \A r \in Queries : pc'[r] # "draining"
    <3>1. \A r \in Queries : pc[r] = "draining" => r = q
      BY <2>1 DEF ProcessInv, OneHolder, Holding
    <3> QED BY <1>2, <1>t, <3>1 DEF Flushed, Goto, SessionTypes
  <2>3. CASE wrote[q] = p
    <3>1. Writing(q, p) /\ \A r \in Queries : ~Writing(r, p)'
      BY <2>1, <2>2, <2>3 DEF Writing
    <3>2. /\ proc'[p].out = proc[p].out /\ proc'[p].turn = proc[p].turn
          /\ Up(p)' => Up(p) /\ proc'[p].inbox = Append(proc[p].inbox, q)
      BY <1>2, <1>t, <2>3 DEF Flushed, SessionTypes, Process, Up
    <3> QED BY <1>2, <3>1, <3>2, FlowFlushed DEF Flushed, readerVars
  <2>4. CASE wrote[q] # p
    <3>1. \A r \in Queries : Writing(r, p)' <=> Writing(r, p)
      <4>1. \A r \in Queries : pc[r] = "draining" => r = q
        BY <2>1 DEF ProcessInv, OneHolder, Holding
      <4> QED BY <2>2, <2>4, <4>1 DEF Writing
    <3>2. proc'[p] = proc[p]
      BY <1>2, <1>t, <2>4 DEF Flushed, SessionTypes
    <3>3. UNCHANGED <<pending, userText>>
      BY <1>2 DEF Flushed, readerVars
    <3> QED BY <3>1, <3>2, <3>3, FlowStays DEF Up
  <2> QED BY <2>3, <2>4
<1>3. CASE FlushFails(q)
  <2>1. pc[q] = "draining" /\ wrote[q] \in Procs /\ ~Up(wrote[q]) /\ pending' = RemoveFirst(pending, q)
    BY <1>3 DEF FlushFails, StartedHasReader, Up
  <2>2. \A r \in Queries : pc'[r] # "draining" /\ (pc[r] = "draining" => r = q)
    <3>1. \A r \in Queries : pc[r] = "draining" => r = q
      BY <2>1 DEF ProcessInv, OneHolder, Holding
    <3> QED BY <1>3, <1>t, <3>1 DEF FlushFails, Goto, SessionTypes
  <2>3. userText' = userText /\ proc' = proc
    BY <1>3 DEF FlushFails, procVars
  <2>4. CASE wrote[q] = p
    <3>1. Writing(q, p) /\ \A r \in Queries : ~Writing(r, p)'
      BY <2>1, <2>2, <2>4 DEF Writing
    <3>2. ~Up(p)' /\ proc'[p].out = proc[p].out
      BY <2>1, <2>3, <2>4 DEF Up
    <3>3. pending # << >> /\ pending[Len(pending)] = q
      <4>1. \E s, c \in Nat : Rest(p, s, c)
        BY FlowEnds
      <4>2. PICK s, c \in Nat : Rest(p, s, c)
        BY <4>1
      <4>3. c < Len(pending) /\ pending[Len(pending)] = q
        BY <3>1, <4>2, Types, RestWas
      <4>4. Len(<< >>) = 0
        OBVIOUS
      <4> QED BY <4>2, <4>3, <4>4
    <3>4. \A i, j \in 1..Len(pending) : pending[i] = pending[j] => i = j
      BY <1>t DEF OneReader
    <3>5. pending' = SubSeq(pending, 1, Len(pending) - 1)
      BY <1>t, <2>1, <3>3, <3>4, RemoveLast
    <3> QED BY <2>3, <3>1, <3>2, <3>5, FlowUnwritten
  <2>5. CASE wrote[q] # p
    <3>1. \A i \in DOMAIN pending : pending[i] # q
      BY <2>5 DEF OneReader, Live
    <3>2. pending' = pending
      <4>1. \A i \in 1..Len(pending) : pending[i] # q
        BY <1>t, <3>1
      <4>2. RemoveFirst(pending, q) = pending
        BY <1>t, <4>1, RemoveOne
      <4> QED BY <2>1, <4>2
    <3>3. \A r \in Queries : Writing(r, p)' <=> Writing(r, p)
      BY <2>2, <2>5 DEF Writing
    <3> QED BY <2>3, <3>2, <3>3, FlowStays DEF Up
  <2> QED BY <2>4, <2>5
<1>4. CASE ~((Enter(q) /\ Writable /\ Frame(q, cur)) \/ Flushed(q) \/ FlushFails(q))
  <2>1. \A r \in Queries : Writing(r, p)' <=> Writing(r, p)
    <3>1. wrote' = wrote /\ \A r \in Queries : pc'[r] = "draining" <=> pc[r] = "draining"
      <4>1. CASE Enter(q)
        BY <1>4, <1>t, <4>1 DEF Enter, Goto, SessionTypes
      <4> QED
        BY <1>4, <1>t, <4>1 DEF RunQuery, Dispatch, Killed, CannotSpawn, Return, TimesOut, Goto, SessionTypes
    <3> QED BY <3>1 DEF Writing
  <2>2. CASE Enter(q) /\ Closing /\ proc' = Dead(cur)
    <3>1. cur \in Procs
      BY <1>t, <2>2, DaemonAssumption DEF Closing, Missing, SessionTypes, Procs
    <3>2. proc' = Dead(cur) /\ UNCHANGED <<pending, userText>>
      BY <1>4, <2>2 DEF Enter
    <3> QED BY <2>1, <3>1, <3>2, FlowDies
  <2>3. CASE ~(Enter(q) /\ Closing /\ proc' = Dead(cur))
    <3>1. proc' = proc /\ UNCHANGED <<pending, userText>>
      BY <1>4, <2>3 DEF RunQuery, Enter, Dispatch, Killed, CannotSpawn, Return, TimesOut, readerVars, procVars
    <3> QED BY <2>1, <3>1, FlowStays DEF Up
  <2> QED BY <2>2, <2>3
<1> QED BY <1>1, <1>2, <1>3, <1>4

\* What the readers do.
LEMMA FlowOfReaders ==
  ASSUME TypeOK, TypeOK', ProcessInv, OneReader, Next,
         NEW p \in Procs, reader[p] = "reading", reader'[p] = "reading", FlowOf(p),
         NEW o \in Procs, ReaderLoop(o) \/ Overflow(o)
  PROVE  FlowOf(p)'
<1>t. SessionTypes /\ pending \in Seq(Queries) /\ pending' \in Seq(Queries)
  BY DEF ProcessInv, TypeOK, FifoOK
<1>1. o = p
  BY DEF ReaderLoop, Overflow, ReadUser, ReadStream, ReadResult, ReadEof, Broadcast, NextIs, OneReader, Live
<1>2. ReadUser(p) \/ ReadStream(p) \/ ReadResult(p)
  BY <1>t, <1>1 DEF ReaderLoop, Overflow, ReadEof, Broadcast, SessionTypes
<1>3. proc[p].out # << >> /\ proc' = [proc EXCEPT ![p].out = Tail(@)]
  BY <1>2 DEF ReadUser, ReadStream, ReadResult, NextIs, Consume
<1>4. /\ proc'[p].out = Tail(proc[p].out) /\ proc'[p].st = proc[p].st
      /\ proc'[p].inbox = proc[p].inbox /\ proc'[p].turn = proc[p].turn
  BY <1>t, <1>3 DEF SessionTypes, Process
<1>5. \A r \in Queries : Writing(r, p)' <=> Writing(r, p)
  BY <1>2 DEF ReadUser, ReadStream, ReadResult, queryVars, Writing
<1>6. LET type == Head(proc[p].out).type
      IN \/ type = "user" /\ pending' = pending /\ userText' = userText + 1
         \/ type = "stream" /\ pending' = pending /\ userText' = userText
         \/ type = "result" /\ pending' = SubSeq(pending, userText + 1, Len(pending)) /\ userText' = 0
  <2>1. CASE ReadUser(p)
    BY <2>1 DEF ReadUser, NextIs
  <2>2. CASE ReadStream(p)
    BY <2>2 DEF ReadStream, NextIs, readerVars
  <2>3. CASE ReadResult(p)
    <3>1. NextIs(p, "result") /\ pending' = Remaining /\ userText' = 0
      BY <2>3 DEF ReadResult, NextWindow
    <3>2. Remaining = SubSeq(pending, userText + 1, Len(pending))
      BY <3>1, ResultIs
    <3> QED BY <3>1, <3>2 DEF NextIs
  <2> QED BY <1>2, <2>1, <2>2, <2>3
<1> QED BY <1>t, <1>3, <1>4, <1>5, <1>6, FlowRead

\* What the processes and the drain do.
LEMMA FlowOfProcesses ==
  ASSUME TypeOK, ProcessInv, NEW p \in Procs, FlowOf(p),
         DrainStep \/ \E o \in Procs : Claude(o) \/ Murmur(o) \/ Dies(o) \/ Reaped(o)
  PROVE  FlowOf(p)'
<1>t. SessionTypes
  BY DEF ProcessInv
<1>1. UNCHANGED <<pc, wrote, pending, userText>>
  BY DEF Claude, Murmur, Dies, Reaped, DrainStep, DrainCloses, DrainSeesExit, DrainKills,
     DrainForgets, TakeFrame, Answer, External, queryVars, readerVars
<1>2. \A r \in Queries : Writing(r, p)' <=> Writing(r, p)
  BY <1>1 DEF Writing
<1>3. ASSUME proc'[p] = proc[p] PROVE FlowOf(p)'
  BY <1>1, <1>2, <1>3, FlowStays DEF Up
<1>4. CASE DrainStep
  <2>1. CASE DrainKills
    <3>1. drain.proc \in Procs /\ proc' = Dead(drain.proc)
      BY <2>1 DEF DrainKills, ProcessInv, DrainsStarted
    <3> QED BY <1>1, <1>2, <3>1, FlowDies
  <2>2. CASE DrainCloses
    <3>1. drain.proc \in Procs
      BY <2>2 DEF DrainCloses, ProcessInv, DrainsStarted
    <3>2. /\ proc'[p].out = proc[p].out /\ proc'[p].st = proc[p].st
          /\ proc'[p].inbox = proc[p].inbox /\ proc'[p].turn = proc[p].turn
      <4>1. proc' = proc \/ proc' = [proc EXCEPT ![drain.proc].open = FALSE]
        BY <2>2 DEF DrainCloses
      <4>2. CASE proc' = [proc EXCEPT ![drain.proc].open = FALSE]
        <5>1. CASE drain.proc = p
          BY <1>t, <4>2, <5>1 DEF SessionTypes, Process
        <5>2. CASE drain.proc # p
          BY <1>t, <3>1, <4>2, <5>2 DEF SessionTypes
        <5> QED BY <5>1, <5>2
      <4> QED BY <4>1, <4>2
    <3> QED BY <1>1, <1>2, <3>2, FlowStays DEF Up
  <2>3. CASE DrainSeesExit \/ DrainForgets
    BY <1>3, <2>3 DEF DrainSeesExit, DrainForgets, procVars
  <2> QED BY <1>4, <2>1, <2>2, <2>3 DEF DrainStep
<1>5. ASSUME NEW o \in Procs, Claude(o) \/ Murmur(o) \/ Dies(o) \/ Reaped(o) PROVE FlowOf(p)'
  <2>1. CASE Dies(o)
    BY <1>1, <1>2, <2>1, FlowDies DEF Dies
  <2>2. CASE o # p /\ ~Dies(o)
    <3>1. proc'[p] = proc[p]
      BY <1>5, <1>t, <2>2 DEF Claude, TakeFrame, Answer, Murmur, Reaped, Changed, SessionTypes
    <3> QED BY <1>3, <3>1
  <2>3. CASE o = p /\ TakeFrame(p)
    <3>1. /\ proc'[p].out = Append(proc[p].out, [type |-> "user", turn |-> {Head(proc[p].inbox)}])
          /\ proc'[p].inbox = Tail(proc[p].inbox) /\ proc'[p].turn = proc[p].turn \cup {Head(proc[p].inbox)}
      BY <1>t, <2>3 DEF TakeFrame, Changed, SessionTypes
    <3>2. Up(p) /\ proc[p].inbox # << >>
      BY <2>3 DEF TakeFrame
    <3> QED BY <1>1, <1>2, <3>1, <3>2, FlowTaken
  <2>4. CASE o = p /\ Answer(p)
    <3>1. /\ proc'[p].out = Append(proc[p].out, [type |-> "result", turn |-> proc[p].turn])
          /\ proc'[p].inbox = proc[p].inbox /\ proc'[p].turn = {}
      BY <1>t, <2>4 DEF Answer, Changed, SessionTypes
    <3>2. Up(p) /\ proc[p].turn # {}
      BY <2>4 DEF Answer
    <3> QED BY <1>1, <1>2, <3>1, <3>2, FlowAnswered
  <2>5. CASE o = p /\ Murmur(p)
    <3>1. /\ proc'[p].out = <<[type |-> "stream", turn |-> {}]>> /\ proc'[p].st = proc[p].st
          /\ proc'[p].inbox = proc[p].inbox /\ proc'[p].turn = proc[p].turn /\ proc[p].out = << >>
      BY <1>t, <2>5 DEF Murmur, SessionTypes, Process
    <3> QED BY <1>1, <1>2, <3>1, FlowMurmurs
  <2>6. CASE o = p /\ Reaped(p)
    <3>1. proc'[p].out = proc[p].out /\ proc'[p].st = "reaped"
      BY <1>t, <2>6 DEF Reaped, SessionTypes, Process
    <3> QED BY <1>1, <1>2, <3>1, FlowStays DEF Up
  <2> QED BY <1>5, <2>1, <2>2, <2>3, <2>4, <2>5, <2>6 DEF Claude
<1> QED BY <1>4, <1>5

\* Every action keeps the tie between FIFO, frames, turns and output lines.
LEMMA FlowStep ==
  ASSUME TypeOK, TypeOK', ProcessInv, StartedHasReader, OneReader, Flow, Next, ~overlapped'
  PROVE  Flow'
<1> SUFFICES ASSUME NEW p \in Procs, reader'[p] = "reading" PROVE FlowOf(p)'
  BY DEF Flow
<1>1. CASE \E q \in Queries : Spawn(q)
  BY <1>1, FlowSpawned
<1>2. CASE ~ \E q \in Queries : Spawn(q)
  <2>1. reader[p] = "reading" /\ FlowOf(p)
    BY <1>2, ReadersChange DEF ProcessInv, Flow
  <2>2. CASE \E q \in Queries : Dispatch(q) \/ RunQuery(q) \/ TimesOut(q)
    BY <1>2, <2>1, <2>2, FlowOfQueries
  <2>3. CASE \E o \in Procs : ReaderLoop(o) \/ Overflow(o)
    BY <2>1, <2>3, FlowOfReaders
  <2>4. CASE DrainStep \/ \E o \in Procs : Claude(o) \/ Murmur(o) \/ Dies(o) \/ Reaped(o)
    BY <2>1, <2>4, FlowOfProcesses
  <2> QED BY <2>2, <2>3, <2>4 DEF Next
<1> QED BY <1>1, <1>2

-----------------------------------------------------------------------------
(* Closing stdin                                                           *)

\* Every action keeps what a closed stdin promises.
LEMMA ClosedStep ==
  ASSUME TypeOK, ProcessInv, StartedHasReader, Flow, Closed, Next
  PROVE  Closed'
<1>t. SessionTypes /\ proc' \in [Procs -> Process]
  BY TypesStep DEF ProcessInv, SessionTypes
<1> SUFFICES ASSUME NEW p \in Procs, Up(p)', ~proc'[p].open
             PROVE  proc'[p].inbox = << >> /\ proc'[p].turn = {} /\ \A q \in Queries : ~Writing(q, p)'
  BY DEF Closed
<1>0. ASSUME proc'[p] = proc[p], \A q \in Queries : Writing(q, p)' => Writing(q, p)
      PROVE  proc'[p].inbox = << >> /\ proc'[p].turn = {} /\ \A q \in Queries : ~Writing(q, p)'
  BY <1>0 DEF Closed, Up
<1>1. ASSUME NEW q \in Queries, Spawn(q)
      PROVE  proc'[p].inbox = << >> /\ proc'[p].turn = {} /\ \A r \in Queries : ~Writing(r, p)'
  <2>1. PICK o \in Procs : /\ Frame(q, o) /\ proc[o].st = "unborn" /\ proc' = [proc EXCEPT ![o].st = "up"]
    BY <1>1 DEF Spawn
  <2>2. proc[o] = Unborn
    BY <1>t, <2>1 DEF ProcessInv, ReadersOfStarted, StartedHasReader
  <2>3. o # p
    BY <1>t, <2>1, <2>2 DEF SessionTypes, Process, Unborn
  <2>4. proc'[p] = proc[p]
    BY <1>t, <2>1, <2>3 DEF SessionTypes
  <2>5. \A r \in Queries : Writing(r, p)' => Writing(r, p)
    BY <1>t, <2>1, <2>3 DEF Frame, Goto, Writing, SessionTypes
  <2> QED BY <1>0, <2>4, <2>5
<1>2. ASSUME NEW q \in Queries, Dispatch(q) \/ RunQuery(q) \/ TimesOut(q)
      PROVE  proc'[p].inbox = << >> /\ proc'[p].turn = {} /\ \A r \in Queries : ~Writing(r, p)'
  <2>1. CASE Enter(q) /\ Writable /\ Frame(q, cur)
    <3>1. proc' = proc /\ cur # p
      <4>1. /\ cur \in Procs /\ proc[cur].open /\ pc[q] = "queued" /\ pc' = [pc EXCEPT ![q] = "draining"]
        BY <2>1, <1>t, EnterIsAlone
      <4>2. ~Goto(q, "killing")
        BY <1>t, <4>1 DEF Goto, SessionTypes
      <4> QED BY <2>1, <4>1, <4>2 DEF Enter
    <3>2. \A r \in Queries : Writing(r, p)' => Writing(r, p)
      BY <1>t, <2>1, <3>1 DEF Frame, Goto, Writing, SessionTypes
    <3> QED BY <1>0, <3>1, <3>2
  <2>2. CASE Enter(q) /\ Closing /\ proc' = Dead(cur) /\ Goto(q, "killing") /\ wrote' = wrote
    <3>1. cur \in Procs
      BY <1>t, <2>2, DaemonAssumption DEF Closing, Missing, SessionTypes, Procs
    <3>2. cur # p /\ proc'[p] = proc[p]
      BY <1>t, <2>2, <3>1, DeadProcess DEF SessionTypes, Up
    <3>3. \A r \in Queries : Writing(r, p)' => Writing(r, p)
      <4>1. wrote' = wrote /\ \A r \in Queries : pc'[r] = "draining" => pc[r] = "draining"
        BY <1>t, <2>2 DEF Goto, SessionTypes
      <4> QED BY <4>1 DEF Writing
    <3> QED BY <1>0, <3>2, <3>3
  <2>3. CASE Flushed(q)
    <3>1. CASE wrote[q] = p
      <4>1. Writing(q, p) /\ Up(p) /\ proc[p].open = proc'[p].open
        BY <1>t, <2>3, <3>1 DEF Flushed, Writing, SessionTypes, Process, Up
      <4> QED BY <4>1 DEF Closed
    <3>2. CASE wrote[q] # p
      <4>1. proc'[p] = proc[p]
        BY <1>t, <2>3, <3>2 DEF Flushed, SessionTypes
      <4>2. \A r \in Queries : Writing(r, p)' => Writing(r, p)
        BY <1>t, <2>3 DEF Flushed, Goto, Writing, SessionTypes
      <4> QED BY <1>0, <4>1, <4>2
    <3> QED BY <3>1, <3>2
  <2>4. CASE ~(Enter(q) \/ Flushed(q) \/ Spawn(q))
    <3>1. proc' = proc
      BY <1>2, <2>4 DEF RunQuery, Dispatch, Killed, CannotSpawn, FlushFails, Return, TimesOut, procVars
    <3>2. \A r \in Queries : Writing(r, p)' => Writing(r, p)
      BY <1>t, <1>2, <2>4 DEF RunQuery, Dispatch, Killed, CannotSpawn, FlushFails, Return, TimesOut, Goto,
         Writing, SessionTypes
    <3> QED BY <1>0, <3>1, <3>2
  <2>5. CASE Enter(q) /\ Missing
    <3>1. proc' = proc /\ wrote' = wrote /\ Goto(q, "spawning")
      BY <2>5 DEF Enter, Writable, Closing, Frame
    <3>2. \A r \in Queries : Writing(r, p)' => Writing(r, p)
      BY <1>t, <3>1 DEF Goto, Writing, SessionTypes
    <3> QED BY <1>0, <3>1, <3>2
  <2> QED BY <1>1, <2>1, <2>2, <2>3, <2>4, <2>5 DEF Enter
<1>3. ASSUME ~ \E q \in Queries : Dispatch(q) \/ RunQuery(q) \/ TimesOut(q)
      PROVE  \A r \in Queries : Writing(r, p)' => Writing(r, p)
  <2>1. UNCHANGED <<pc, wrote>>
    BY <1>3 DEF Next, ReaderLoop, Overflow, Claude, Murmur, Dies, Reaped, DrainStep, ReadUser,
       ReadStream, ReadResult, ReadEof, Broadcast, DrainCloses, DrainSeesExit, DrainKills,
       DrainForgets, TakeFrame, Answer, External, queryVars
  <2> QED BY <2>1 DEF Writing
<1>4. ASSUME Up(p), ~proc[p].open, proc'[p].inbox = proc[p].inbox, proc'[p].turn = proc[p].turn,
             ~ \E q \in Queries : Dispatch(q) \/ RunQuery(q) \/ TimesOut(q)
      PROVE  proc'[p].inbox = << >> /\ proc'[p].turn = {} /\ \A q \in Queries : ~Writing(q, p)'
  BY <1>3, <1>4 DEF Closed
<1>5. ASSUME NEW o \in Procs, ReaderLoop(o) \/ Overflow(o),
             ~ \E q \in Queries : Dispatch(q) \/ RunQuery(q) \/ TimesOut(q)
      PROVE  proc'[p].inbox = << >> /\ proc'[p].turn = {} /\ \A q \in Queries : ~Writing(q, p)'
  <2>1. CASE Overflow(o)
    <3>1. proc' = [Dead(o) EXCEPT ![o].out = << >>]
      BY <2>1 DEF Overflow
    <3>2. o # p
      <4>1. Dead(o) \in [Procs -> Process] /\ Dead(o)[o].st # "up"
        BY <1>t, DeadProcess DEF SessionTypes
      <4> QED BY <1>t, <3>1, <4>1 DEF Up, SessionTypes, Process
    <3>3. proc'[p] = proc[p]
      BY <1>t, <3>1, <3>2, DeadProcess DEF SessionTypes
    <3> QED BY <1>0, <1>3, <1>5, <3>3
  <2>2. CASE Consume(o)
    <3>1. /\ proc'[p].inbox = proc[p].inbox /\ proc'[p].turn = proc[p].turn /\ proc'[p].st = proc[p].st
          /\ proc'[p].open = proc[p].open
      BY <1>t, <2>2 DEF Consume, SessionTypes, Process
    <3> QED BY <1>4, <1>5, <3>1 DEF Up
  <2>3. CASE ~Overflow(o) /\ ~Consume(o)
    <3>1. proc' = proc
      BY <1>5, <2>3 DEF ReaderLoop, ReadUser, ReadStream, ReadResult, ReadEof, Broadcast, procVars
    <3> QED BY <1>0, <1>3, <1>5, <3>1
  <2> QED BY <2>1, <2>2, <2>3
<1>6. ASSUME DrainStep, ~ \E q \in Queries : Dispatch(q) \/ RunQuery(q) \/ TimesOut(q)
      PROVE  proc'[p].inbox = << >> /\ proc'[p].turn = {} /\ \A q \in Queries : ~Writing(q, p)'
  <2>1. CASE DrainKills
    <3>1. drain.proc \in Procs /\ proc' = Dead(drain.proc)
      BY <2>1 DEF DrainKills, ProcessInv, DrainsStarted
    <3>2. drain.proc # p /\ proc'[p] = proc[p]
      BY <1>t, <3>1, DeadProcess DEF SessionTypes, Up
    <3> QED BY <1>0, <1>3, <1>6, <3>2
  <2>2. CASE DrainCloses
    <3>1. CASE proc' = proc
      BY <1>0, <1>3, <1>6, <3>1
    <3>2. CASE pending = << >> /\ ~LockHeld /\ proc' = [proc EXCEPT ![drain.proc].open = FALSE]
      <4>1. proc'[p].inbox = proc[p].inbox /\ proc'[p].turn = proc[p].turn /\ proc'[p].st = proc[p].st
        <5>1. CASE drain.proc = p
          BY <1>t, <3>2, <5>1 DEF SessionTypes, Process
        <5>2. CASE drain.proc # p
          BY <1>t, <3>2, <5>2 DEF SessionTypes
        <5> QED BY <5>1, <5>2
      <4>2. Up(p) /\ proc[p].st = "up"
        BY <4>1 DEF Up
      <4>3. reader[p] = "reading"
        BY <1>t, <4>2 DEF StartedHasReader, Unborn, ProcessInv, EndedIsDead, SessionTypes, ReaderPc
      <4>4. FlowOf(p)
        BY <4>3 DEF Flow
      <4>5. \E s, c \in Nat : Rest(p, s, c) /\ c <= Len(pending)
        BY <4>4, FlowEnds
      <4>6. PICK s, c \in Nat : Rest(p, s, c) /\ c <= Len(pending)
        BY <4>5
      <4>7. ~ \E q \in Queries : Writing(q, p)
        BY <3>2 DEF LockHeld, Holding, Writing
      <4>8. Len(pending) = 0
        BY <3>2
      <4>9. /\ s <= c /\ proc[p].turn = {pending[j] : j \in s + 1 .. c}
            /\ Len(pending) = c + Len(proc[p].inbox) /\ Len(proc[p].inbox) \in Nat
        BY <4>2, <4>6, <4>7, Types, RestWas
      <4>10. c = 0 /\ Len(proc[p].inbox) = 0
        <5>1. \A a, b \in Nat : 0 = a + b => a = 0 /\ b = 0
          OBVIOUS
        <5>2. 0 = c + Len(proc[p].inbox) /\ Len(proc[p].inbox) \in Nat
          BY <4>8, <4>9
        <5> QED BY <5>1, <5>2, Zenon
      <4>11. proc[p].inbox = << >>
        BY <4>10, Types
      <4>12. proc[p].turn = {}
        <5>1. s + 1 .. c = {}
          BY <4>10
        <5> QED BY <4>9, <5>1
      <4>13. \A q \in Queries : ~Writing(q, p)'
        BY <1>3, <1>6, <4>7
      <4> QED BY <4>1, <4>11, <4>12, <4>13
    <3> QED BY <2>2, <3>1, <3>2 DEF DrainCloses
  <2>3. CASE DrainSeesExit \/ DrainForgets
    BY <1>0, <1>3, <1>6, <2>3 DEF DrainSeesExit, DrainForgets, procVars
  <2> QED BY <1>6, <2>1, <2>2, <2>3 DEF DrainStep
<1>7. ASSUME NEW o \in Procs, Claude(o) \/ Murmur(o) \/ Dies(o) \/ Reaped(o),
             ~ \E q \in Queries : Dispatch(q) \/ RunQuery(q) \/ TimesOut(q)
      PROVE  proc'[p].inbox = << >> /\ proc'[p].turn = {} /\ \A q \in Queries : ~Writing(q, p)'
  <2>1. CASE Dies(o)
    <3>1. o # p /\ proc'[p] = proc[p]
      BY <1>t, <2>1, DeadProcess DEF Dies, SessionTypes, Up
    <3> QED BY <1>0, <1>3, <1>7, <3>1
  <2>2. CASE o # p /\ ~Dies(o)
    <3>1. proc'[p] = proc[p]
      BY <1>7, <1>t, <2>2 DEF Claude, TakeFrame, Answer, Murmur, Reaped, Changed, SessionTypes
    <3> QED BY <1>0, <1>3, <1>7, <3>1
  <2>3. CASE o = p /\ (TakeFrame(p) \/ Answer(p))
    <3>1. Up(p) /\ proc'[p].open = proc[p].open /\ (proc[p].inbox # << >> \/ proc[p].turn # {})
      BY <1>t, <2>3 DEF TakeFrame, Answer, Changed, SessionTypes
    <3> QED BY <3>1 DEF Closed
  <2>4. CASE o = p /\ Murmur(p)
    <3>1. /\ Up(p) /\ proc'[p].open = proc[p].open
          /\ proc'[p].inbox = proc[p].inbox /\ proc'[p].turn = proc[p].turn
      BY <1>t, <2>4 DEF Murmur, SessionTypes, Process
    <3> QED BY <1>4, <1>7, <3>1
  <2>5. CASE o = p /\ Reaped(p)
    BY <1>t, <2>5 DEF Reaped, SessionTypes, Process, Up
  <2> QED BY <1>7, <2>1, <2>2, <2>3, <2>4, <2>5 DEF Claude
<1> QED
  <2>1. CASE \E q \in Queries : Dispatch(q) \/ RunQuery(q) \/ TimesOut(q)
    BY <1>2, <2>1
  <2>2. CASE ~ \E q \in Queries : Dispatch(q) \/ RunQuery(q) \/ TimesOut(q)
    BY <1>5, <1>6, <1>7, <2>2 DEF Next
  <2> QED BY <2>1, <2>2

-----------------------------------------------------------------------------
(* What the queries are told                                               *)

\* A query whose frame is not echoed yet is not among those a result completes.
LEMMA DoneHaveWritten ==
  ASSUME TypeOK, StartedHasReader, OneReader, NEW p \in Procs, FlowOf(p), NextIs(p, "result"),
         NEW q \in ToSet(Completed)
  PROVE  /\ q \in Queries /\ (\E j \in DOMAIN pending : pending[j] = q)
         /\ pc[q] \in {"waiting", "returned"}
         /\ \A i \in DOMAIN Remaining : Remaining[i] # q
<1>1. PICK start, count : \E n, s, c \in Nat :
           /\ Marks(p, start, count) /\ n = Len(proc[p].out) /\ s = start[n] /\ c = count[n]
           /\ Rest(p, s, c) /\ c <= Len(pending) /\ count[0] = userText
  BY FlowEnds
<1>2. PICK n, s, c \in Nat :
           /\ Marks(p, start, count) /\ n = Len(proc[p].out) /\ s = start[n] /\ c = count[n]
           /\ Rest(p, s, c) /\ c <= Len(pending) /\ count[0] = userText
  BY <1>1
<1>t. pending \in Seq(Queries) /\ userText \in Nat /\ Len(pending) \in Nat /\ proc[p].out \in Seq(Line)
  BY Types
<1>3. userText <= c /\ c <= Len(pending)
  <2>1. \A i \in 0..n : count[i] <= count[n]
    BY <1>2, <1>t, MarkBounds
  <2>2. 0 \in 0..n
    OBVIOUS
  <2> QED BY <1>2, <2>1, <2>2
<1>4. userText > 0
  <2>1. proc[p].out # << >> /\ Head(proc[p].out).type = "result"
    BY DEF NextIs
  <2> QED BY <1>2, <1>t, <2>1, HeadLine
<1>5. PICK k \in 0..Len(pending) :
        /\ Remaining = SubSeq(pending, k + 1, Len(pending))
        /\ ToSet(Completed) = {pending[j] : j \in 1..k}
        /\ (userText > 0 /\ userText <= Len(pending)) => k = userText
  BY <1>t, CompletedIs
<1>6. k = userText /\ k <= c
  BY <1>3, <1>4, <1>5, <1>t
<1>7. PICK j \in 1..k : pending[j] = q
  BY <1>5
<1>8. j \in DOMAIN pending /\ q \in Queries /\ j <= c /\ j <= k
  BY <1>3, <1>6, <1>7, <1>t
<1>9. pc[q] # "draining"
  <2>1. SUFFICES ASSUME pc[q] = "draining" PROVE FALSE
    OBVIOUS
  <2>2. wrote[q] = p
    BY <1>7, <1>8 DEF OneReader, NextIs, Live
  <2>3. Writing(q, p)
    BY <2>1, <2>2 DEF Writing
  <2>4. c < Len(pending) /\ pending[Len(pending)] = q
    BY <1>2, <1>8, <1>t, <2>3, Types, RestWas
  <2>5. Len(pending) \in DOMAIN pending
    BY <1>t, <2>4
  <2> QED BY <1>7, <1>8, <1>t, <2>4, <2>5 DEF OneReader
<1>10. ASSUME NEW i \in DOMAIN Remaining PROVE Remaining[i] # q
  <2>1. Len(Remaining) = Len(pending) - k /\ \A m \in 1..Len(pending) - k : Remaining[m] = pending[k + m]
    BY <1>t, <1>5
  <2>2. i \in 1..Len(pending) - k
    BY <1>10, <1>5, <1>t, <2>1
  <2>3. k + i \in DOMAIN pending /\ k + i # j
    BY <1>8, <1>t, <2>2
  <2> QED BY <1>7, <1>8, <2>1, <2>2, <2>3 DEF OneReader
<1> QED BY <1>7, <1>8, <1>9, <1>10 DEF OneReader

Own == Told \ {"foreign answer", "foreign eof"}

\* Each step tells a query at most one thing, about its own frame, and only if it has no
\* answer yet; the answer comes with the result that completes it.
LEMMA TellsOwn ==
  ASSUME TypeOK, ProcessInv, StartedHasReader, OneReader, Flow, Final, Next, NEW q \in Queries
  PROVE  \/ answer'[q] = answer[q]
         \/ \E what \in Own :
              /\ answer'[q] = Append(answer[q], what) /\ ~Answered(q)
              /\ what = "answer" => \E p \in Procs : ReadResult(p) /\ q \in ToSet(Completed)
<1>t. answer \in [Queries -> Seq(Told)] /\ pending \in Seq(Queries)
  BY DEF TypeOK, QueryOK, FifoOK
<1>0. ASSUME NEW r, NEW what, Tell(r, what)
      PROVE  answer'[q] = IF r = q THEN Append(answer[q], what) ELSE answer[q]
  BY <1>t, <1>0 DEF Tell
<1>w. "failed" \in Own /\ "timeout" \in Own /\ "answer" \in Own /\ "eof" \in Own
  BY DEF Own, Told
<1>1. ASSUME NEW r \in Queries, Dispatch(r) \/ RunQuery(r) \/ TimesOut(r)
      PROVE  answer'[q] = answer[q]
             \/ \E what \in Own : answer'[q] = Append(answer[q], what) /\ ~Answered(q) /\ what # "answer"
  <2>1. CASE CannotSpawn(r) \/ FlushFails(r)
    <3>1. Tell(r, "failed") /\ ~Answered(r)
      BY <2>1 DEF CannotSpawn, FlushFails, Final
    <3>2. answer'[q] = IF r = q THEN Append(answer[q], "failed") ELSE answer[q]
      BY <1>0, <3>1
    <3>3. "failed" \in Own /\ "failed" # "answer"
      BY <1>w
    <3>4. CASE r = q
      BY <3>1, <3>2, <3>3, <3>4
    <3> QED BY <3>2, <3>4
  <2>2. CASE TimesOut(r)
    <3>1. Tell(r, "timeout") /\ ~Answered(r)
      BY <2>2 DEF TimesOut, Final
    <3>2. answer'[q] = IF r = q THEN Append(answer[q], "timeout") ELSE answer[q]
      BY <1>0, <3>1
    <3>3. "timeout" \in Own /\ "timeout" # "answer"
      BY <1>w
    <3>4. CASE r = q
      BY <3>1, <3>2, <3>3, <3>4
    <3> QED BY <3>2, <3>4
  <2>3. CASE ~(CannotSpawn(r) \/ FlushFails(r) \/ TimesOut(r))
    BY <1>1, <2>3 DEF RunQuery, Dispatch, Enter, Killed, Spawn, Flushed, Return, readerVars
  <2> QED BY <2>1, <2>2, <2>3
<1>2. ASSUME NEW p \in Procs, ReadResult(p)
      PROVE  answer'[q] = answer[q]
             \/ (answer'[q] = Append(answer[q], "answer") /\ ~Answered(q) /\ q \in ToSet(Completed))
  <2>1. NextIs(p, "result") /\ FlowOf(p)
    BY <1>2 DEF ReadResult, NextIs, Flow
  <2>2. Head(proc[p].out).turn = ToSet(Completed)
    BY <2>1, ResultIs
  <2>3. answer' = [r \in Queries |-> IF r \in ToSet(Completed)
          THEN Append(answer[r], IF r \in Head(proc[p].out).turn THEN "answer" ELSE "foreign answer") ELSE answer[r]]
    BY <1>2 DEF ReadResult
  <2>4. CASE q \in ToSet(Completed)
    <3>1. answer'[q] = Append(answer[q], "answer")
      BY <2>2, <2>3, <2>4
    <3>2. \E j \in DOMAIN pending : pending[j] = q
      BY <2>1, <2>4, DoneHaveWritten
    <3> QED BY <2>4, <3>1, <3>2 DEF Final
  <2>5. CASE q \notin ToSet(Completed)
    BY <2>3, <2>5
  <2> QED BY <2>4, <2>5
<1>3. ASSUME NEW p \in Procs, Broadcast(p)
      PROVE  answer'[q] = answer[q] \/ (answer'[q] = Append(answer[q], "eof") /\ ~Answered(q))
  <2>1. answer' = [r \in Queries |-> IF r \in ToSet(pending)
          THEN Append(answer[r], IF wrote[r] = p THEN "eof" ELSE "foreign eof") ELSE answer[r]]
    BY <1>3 DEF Broadcast
  <2>2. CASE q \in ToSet(pending)
    <3>1. PICK j \in DOMAIN pending : pending[j] = q
      BY <1>t, <2>2 DEF ToSet
    <3>2. wrote[q] = p
      BY <1>3, <3>1 DEF Broadcast, OneReader, Live
    <3>3. ~Answered(q)
      BY <3>1 DEF Final
    <3> QED BY <2>1, <2>2, <3>2, <3>3
  <2>3. CASE q \notin ToSet(pending)
    BY <2>1, <2>3
  <2> QED BY <2>2, <2>3
<1>4. ASSUME NEW p \in Procs, Overflow(p)
      PROVE  answer'[q] = answer[q] \/ (answer'[q] = Append(answer[q], "failed") /\ ~Answered(q))
  <2>1. CASE pending = << >>
    BY <1>4, <2>1 DEF Overflow
  <2>2. CASE pending # << >>
    <3>1. Tell(Head(pending), "failed")
      BY <1>4, <2>2 DEF Overflow
    <3>2. 1 \in DOMAIN pending /\ Head(pending) = pending[1]
      BY <1>t, <2>2
    <3>3. ~Answered(q) \/ Head(pending) # q
      BY <3>2 DEF Final
    <3> QED BY <1>0, <3>1, <3>3
  <2> QED BY <2>1, <2>2
<1>5. CASE ~ \/ \E r \in Queries : Dispatch(r) \/ RunQuery(r) \/ TimesOut(r)
             \/ \E p \in Procs : ReadResult(p) \/ Broadcast(p) \/ Overflow(p)
  <2>1. UNCHANGED answer
    BY <1>5 DEF Next, ReaderLoop, Claude, Murmur, Dies, Reaped, DrainStep, ReadUser,
       ReadStream, ReadEof, DrainCloses, DrainSeesExit, DrainKills,
       DrainForgets, TakeFrame, Answer, External, readerVars
  <2> QED BY <2>1
<1>6. "eof" # "answer" /\ "failed" # "answer"
  OBVIOUS
<1> QED BY <1>w, <1>1, <1>2, <1>3, <1>4, <1>5, <1>6

\* The answers after a new one are the new one and those before.
LEMMA Appended ==
  ASSUME NEW q \in Queries, answer[q] \in Seq(Told), NEW what, answer'[q] = Append(answer[q], what)
  PROVE  \A i \in DOMAIN answer'[q] :
           (i = Len(answer'[q]) /\ answer'[q][i] = what) \/ (i \in DOMAIN answer[q] /\ answer'[q][i] = answer[q][i])
<1>1. \A i \in DOMAIN answer'[q] : i = Len(answer'[q]) \/ (i \in DOMAIN answer[q] /\ answer'[q][i] = answer[q][i])
  OBVIOUS
<1>2. answer'[q][Len(answer'[q])] = what
  OBVIOUS
<1> QED BY <1>1, <1>2

\* Every action leaves each answered query with its own answer.
LEMMA OwnStep ==
  ASSUME TypeOK, ProcessInv, StartedHasReader, OneReader, Flow, Final, Next,
         \A q \in Queries : \A i \in DOMAIN answer[q] : answer[q][i] \notin {"foreign answer", "foreign eof"}
  PROVE  \A q \in Queries : \A i \in DOMAIN answer'[q] : answer'[q][i] \notin {"foreign answer", "foreign eof"}
<1> SUFFICES ASSUME NEW q \in Queries, NEW i \in DOMAIN answer'[q]
             PROVE  answer'[q][i] \notin {"foreign answer", "foreign eof"}
  OBVIOUS
<1>1. CASE answer'[q] = answer[q]
  BY <1>1
<1>2. ASSUME NEW what \in Own, answer'[q] = Append(answer[q], what)
      PROVE  answer'[q][i] \notin {"foreign answer", "foreign eof"}
  <2>1. answer[q] \in Seq(Told)
    BY DEF TypeOK, QueryOK
  <2>2. answer'[q][i] = what \/ (i \in DOMAIN answer[q] /\ answer'[q][i] = answer[q][i])
    BY <1>2, <2>1, Appended
  <2> QED BY <2>2 DEF Own
<1> QED BY <1>1, <1>2, TellsOwn

\* Every action leaves each answered query with its last answer.
LEMMA FinalStep ==
  ASSUME TypeOK, ProcessInv, StartedHasReader, OneReader, Flow, Final, Next
  PROVE  Final'
<1>t. /\ answer \in [Queries -> Seq(Told)] /\ pending \in Seq(Queries) /\ pc \in [Queries -> QueryPc]
      /\ SessionTypes
  BY DEF TypeOK, QueryOK, FifoOK, ProcessInv
<1> SUFFICES ASSUME NEW q \in Queries
    PROVE  /\ Answered(q)' =>
                /\ pc'[q] \in {"waiting", "returned"} /\ (pc'[q] = "waiting" => q \in event')
                /\ \A i \in DOMAIN pending' : pending'[i] # q
           /\ \A i \in DOMAIN answer'[q] : answer'[q][i] = "answer" => i = Len(answer'[q])
  BY DEF Final
<1>1. \A i \in DOMAIN answer'[q] : answer'[q][i] = "answer" => i = Len(answer'[q])
  <2>1. CASE answer'[q] = answer[q]
    BY <2>1 DEF Final
  <2>2. ASSUME NEW what, answer'[q] = Append(answer[q], what), ~Answered(q)
        PROVE  \A i \in DOMAIN answer'[q] : answer'[q][i] = "answer" => i = Len(answer'[q])
    <3>1. answer[q] \in Seq(Told)
      BY <1>t
    <3>2. \A i \in DOMAIN answer'[q] : i = Len(answer'[q]) \/ (i \in DOMAIN answer[q] /\ answer'[q][i] = answer[q][i])
      BY <2>2, <3>1, Appended
    <3> QED BY <2>2, <3>2 DEF Answered
  <2> QED BY <2>1, <2>2, TellsOwn
<1>2. Answered(q)' => Answered(q) \/ \E p \in Procs : ReadResult(p) /\ q \in ToSet(Completed)
  <2>1. CASE answer'[q] = answer[q]
    BY <2>1 DEF Answered
  <2>2. ASSUME NEW what \in Own, answer'[q] = Append(answer[q], what), what # "answer"
        PROVE  Answered(q)' => Answered(q)
    <3>1. answer[q] \in Seq(Told)
      BY <1>t
    <3>2. \A i \in DOMAIN answer'[q] : answer'[q][i] = what \/ (i \in DOMAIN answer[q] /\ answer'[q][i] = answer[q][i])
      BY <2>2, <3>1, Appended
    <3> QED BY <2>2, <3>2 DEF Answered
  <2> QED BY <2>1, <2>2, TellsOwn
<1>3. ASSUME NEW p \in Procs, ReadResult(p), q \in ToSet(Completed)
      PROVE  /\ pc'[q] \in {"waiting", "returned"} /\ (pc'[q] = "waiting" => q \in event')
             /\ \A i \in DOMAIN pending' : pending'[i] # q
  <2>1. NextIs(p, "result") /\ FlowOf(p)
    BY <1>3 DEF ReadResult, NextIs, Flow
  <2>2. pc' = pc /\ pending' = Remaining /\ event' = Wake(ToSet(Completed))
    BY <1>3 DEF ReadResult
  <2>3. pc[q] \in {"waiting", "returned"} /\ \A i \in DOMAIN Remaining : Remaining[i] # q
    BY <1>3, <2>1, DoneHaveWritten
  <2> QED BY <1>3, <2>2, <2>3 DEF Wake
<1>4. ASSUME Answered(q)
      PROVE  /\ pc'[q] \in {"waiting", "returned"} /\ (pc'[q] = "waiting" => q \in event')
             /\ \A i \in DOMAIN pending' : pending'[i] # q
  <2>1. /\ pc[q] \in {"waiting", "returned"} /\ (pc[q] = "waiting" => q \in event)
        /\ \A i \in DOMAIN pending : pending[i] # q
    BY <1>4 DEF Final
  <2>2. pc'[q] \in {"waiting", "returned"} /\ (pc'[q] = "waiting" => q \in event')
    <3>1. ASSUME NEW r \in Queries, Dispatch(r) \/ RunQuery(r) \/ TimesOut(r)
          PROVE  pc'[q] \in {"waiting", "returned"} /\ (pc'[q] = "waiting" => q \in event')
      <4>1. CASE Return(r)
        BY <1>t, <2>1, <4>1 DEF Return, Goto
      <4>2. CASE ~Return(r)
        <5>1. event \subseteq event' /\ r # q
          BY <2>1, <3>1, <4>2 DEF RunQuery, Dispatch, Enter, Killed, Spawn, CannotSpawn, Flushed, FlushFails,
             TimesOut
        <5>2. \E where : Goto(r, where)
          BY <3>1, <4>2 DEF RunQuery, Dispatch, Enter, Frame, Killed, Spawn, CannotSpawn, Flushed, FlushFails,
             TimesOut
        <5>3. pc'[q] = pc[q]
          BY <1>t, <5>1, <5>2 DEF Goto
        <5> QED BY <2>1, <5>1, <5>3
      <4> QED BY <4>1, <4>2
    <3>2. CASE ~ \E r \in Queries : Dispatch(r) \/ RunQuery(r) \/ TimesOut(r)
      <4>1. UNCHANGED pc /\ event \subseteq event'
        BY <3>2 DEF Next, ReaderLoop, Overflow, Claude, Murmur, Dies, Reaped, DrainStep, ReadUser,
           ReadStream, ReadResult, ReadEof, Broadcast, DrainCloses, DrainSeesExit, DrainKills,
           DrainForgets, TakeFrame, Answer, External, queryVars, Wake
      <4> QED BY <2>1, <4>1
    <3> QED BY <3>1, <3>2
  <2>3. \A i \in DOMAIN pending' : pending'[i] # q
    <3>1. ASSUME NEW r \in Queries, Spawn(r) \/ (Enter(r) /\ Writable /\ Frame(r, cur))
          PROVE  \A i \in DOMAIN pending' : pending'[i] # q
      <4>1. pending' = Append(pending, r) /\ r # q
        BY <2>1, <3>1 DEF Spawn, Enter, Frame
      <4> QED BY <1>t, <2>1, <4>1
    <3>2. CASE ~ \E r \in Queries : Spawn(r) \/ (Enter(r) /\ Writable /\ Frame(r, cur))
      <4>1. \A i, j \in DOMAIN pending : pending[i] = pending[j] => i = j
        BY DEF OneReader
      <4>2. \A i \in DOMAIN pending' : \E j \in DOMAIN pending : pending'[i] = pending[j]
        BY <3>2, <4>1, FifoShrinks
      <4> QED BY <2>1, <4>2
    <3> QED BY <3>1, <3>2
  <2> QED BY <2>2, <2>3
<1> QED BY <1>1, <1>2, <1>3, <1>4

-----------------------------------------------------------------------------
(* The theorems                                                            *)

\* The invariant holds when the daemon starts.
LEMMA AnswerInit == Init => AnswerInv
<1> SUFFICES ASSUME Init PROVE AnswerInv
  OBVIOUS
<1>1. ProcessInv
  BY InvInit
<1>2. /\ pc = [q \in Queries |-> "new"] /\ event = {} /\ wrote = [q \in Queries |-> 0] /\ pending = << >>
      /\ userText = 0 /\ answer = [q \in Queries |-> << >>] /\ cur = 0 /\ proc = [p \in Procs |-> Unborn]
      /\ overlapped = FALSE /\ drain = NoDrain /\ reader = [p \in Procs |-> "none"]
  BY DEF Init
<1>3. TypeOK
  <2>1. << >> \in Seq(Told) /\ << >> \in Seq(Queries)
    OBVIOUS
  <2>2. answer \in [Queries -> Seq(Told)] /\ pending \in Seq(Queries) /\ userText \in Nat
    BY <1>2, <2>1
  <2>3. event \subseteq Queries /\ overlapped \in BOOLEAN
    BY <1>2
  <2> QED BY <1>1, <2>2, <2>3 DEF ProcessInv, SessionTypes, TypeOK, QueryOK, FifoOK, ProcOK
<1>4. StartedHasReader
  BY <1>2 DEF StartedHasReader
<1>5. DOMAIN pending = {} /\ \A q \in Queries : DOMAIN answer[q] = {}
  BY <1>2
<1>6. OneReader
  BY <1>2, <1>5 DEF OneReader, Live
<1>7. Flow /\ Closed
  BY <1>2 DEF Flow, Closed, Up, Unborn
<1>8. Final /\ AnswersOwnQuery
  BY <1>5 DEF Final, Answered, AnswersOwnQuery
<1> QED BY <1>1, <1>3, <1>4, <1>6, <1>7, <1>8 DEF AnswerInv

\* Every action keeps the invariant.
LEMMA AnswerStep == AnswerInv /\ [Next]_vars => AnswerInv'
<1>1. ASSUME AnswerInv, Next PROVE AnswerInv'
  <2>1. TypeOK /\ ProcessInv /\ StartedHasReader
    BY <1>1 DEF AnswerInv
  <2>2. ProcessInv' /\ SessionTypes'
    BY <1>1, <2>1, InvStep DEF ProcessInv
  <2>3. TypeOK'
    BY <1>1, <2>1, <2>2, TypeStep
  <2>4. StartedHasReader'
    BY <1>1, <2>1, StartedStep
  <2>5. ASSUME ~overlapped' PROVE OneReader' /\ Flow' /\ Closed' /\ Final' /\ AnswersOwnQuery'
    <3>1. ~overlapped
      <4>1. ASSUME NEW q \in Queries, Spawn(q) PROVE ~overlapped
        BY <2>5, <4>1 DEF Spawn
      <4>2. UNCHANGED overlapped \/ \E q \in Queries : Spawn(q)
        BY <1>1 DEF Next, Dispatch, RunQuery, TimesOut, Enter, Killed, CannotSpawn, Flushed,
           FlushFails, Return, ReaderLoop, Overflow, Claude, Murmur, Dies, Reaped, DrainStep, ReadUser,
           ReadStream, ReadResult, ReadEof, Broadcast, DrainCloses, DrainSeesExit, DrainKills,
           DrainForgets, TakeFrame, Answer, External, procVars
      <4> QED BY <2>5, <4>1, <4>2
    <3>2. OneReader /\ Flow /\ Closed /\ Final /\ AnswersOwnQuery
      BY <1>1, <3>1 DEF AnswerInv
    <3>3. OneReader'
      BY <1>1, <2>1, <2>5, <3>2, OneReaderStep
    <3>4. Flow'
      BY <1>1, <2>1, <2>3, <2>5, <3>2, FlowStep
    <3>5. Closed'
      BY <1>1, <2>1, <3>2, ClosedStep
    <3>6. Final'
      BY <1>1, <2>1, <3>2, FinalStep
    <3>7. AnswersOwnQuery'
      <4>1. \A q \in Queries : \A i \in DOMAIN answer[q] : answer[q][i] \notin {"foreign answer", "foreign eof"}
        BY <3>1, <3>2 DEF AnswersOwnQuery
      <4>2. \A q \in Queries : \A i \in DOMAIN answer'[q] : answer'[q][i] \notin {"foreign answer", "foreign eof"}
        BY <1>1, <2>1, <3>2, <4>1, OwnStep
      <4> QED BY <4>2 DEF AnswersOwnQuery
    <3> QED BY <3>3, <3>4, <3>5, <3>6, <3>7
  <2> QED BY <2>2, <2>3, <2>4, <2>5 DEF AnswerInv
<1>2. ASSUME AnswerInv, UNCHANGED vars PROVE AnswerInv'
  <2>1. /\ UNCHANGED <<pc, event, wrote, pending, userText, answer, cur, proc, overlapped>>
        /\ UNCHANGED <<drain, reader>>
    BY <1>2 DEF vars
  <2>2. ProcessInv'
    BY <1>2, InvStep DEF AnswerInv
  <2>3. TypeOK' /\ StartedHasReader'
    BY <1>2, <2>1 DEF AnswerInv, TypeOK, QueryOK, FifoOK, ProcOK, StartedHasReader
  <2>4. CASE overlapped
    BY <2>1, <2>2, <2>3, <2>4 DEF AnswerInv
  <2>5. CASE OneReader /\ Flow /\ Closed /\ Final /\ AnswersOwnQuery
    <3>1. OneReader' /\ Closed' /\ Final' /\ AnswersOwnQuery'
      BY <2>1, <2>5 DEF OneReader, Closed, Final, AnswersOwnQuery, Answered, Writing, Up
    <3>2. ASSUME NEW p \in Procs, reader'[p] = "reading" PROVE FlowOf(p)'
      <4>1. FlowOf(p)
        BY <2>1, <2>5, <3>2 DEF Flow
      <4>2. \A q \in Queries : Writing(q, p)' <=> Writing(q, p)
        BY <2>1 DEF Writing
      <4> QED BY <2>1, <4>1, <4>2, FlowStays DEF Up
    <3>3. Flow'
      BY <3>2 DEF Flow
    <3> QED BY <2>2, <2>3, <3>1, <3>3 DEF AnswerInv
  <2> QED BY <1>2, <2>4, <2>5 DEF AnswerInv
<1> QED BY <1>1, <1>2

\* The invariant implies the four properties.
LEMMA AnswerSuffices ==
  AnswerInv => TypeOK /\ AnswersOwnQuery /\ AnswerIsFinal /\ CloseCutsNothing
BY DEF AnswerInv, AnswersOwnQuery, AnswerIsFinal, CloseCutsNothing, Final, Closed

\* Every attribute of the session keeps the shape its code gives it.
THEOREM TypeCorrect == Spec => []TypeOK
<1> QED BY AnswerInit, AnswerStep, AnswerSuffices, PTL DEF Spec

\* _reader_loop puts every result on the queries whose frames the answered turn took, and
\* every end of file on queries of that process: the FIFO and the count of user entries
\* stay in step with what claude has echoed, through merged turns, failed writes, deaths,
\* idle drains and kills, as long as no process is spawned beside leftovers of another.
THEOREM AnswersAreOwn == Spec => []AnswersOwnQuery
<1> QED BY AnswerInit, AnswerStep, AnswerSuffices, PTL DEF Spec

\* Once a result has gone to a query, neither the end of its process, nor an overflow, nor
\* a failed write, nor the cap of three hours reports anything more about it.
THEOREM AnswersAreFinal == Spec => []AnswerIsFinal
<1> QED BY AnswerInit, AnswerStep, AnswerSuffices, PTL DEF Spec

\* When _drain_and_close closes stdin on an empty FIFO, claude has no frame to take and no
\* turn at work, and run_query writes nothing more to that process.
THEOREM ClosesCutNothing == Spec => []CloseCutsNothing
<1> QED BY AnswerInit, AnswerStep, AnswerSuffices, PTL DEF Spec
=============================================================================
