------------------------------ MODULE PmStore ------------------------------
(***************************************************************************)
(* The project-management store (src/bot/pm/store.py) as the tools of      *)
(* src/bot/pm/tools.py use it: tickets and sprints in one SQLite file,     *)
(* behind ONE aiosqlite connection that every coroutine shares             *)
(* (src/bot/pm/db.py). Each awaited statement is a step, so the statements *)
(* of concurrent calls interleave inside one another's transactions:       *)
(*   - a transition is BEGIN IMMEDIATE, SELECT, UPDATE, INSERT, COMMIT,    *)
(*     with ROLLBACK on an exception;                                      *)
(*   - any other write opens a transaction only if none is open, and its   *)
(*     commit() ends whatever transaction is open, whoever began it.       *)
(* A call is the list of statements it has left, `todo`; one action        *)
(* executes one kind of statement. One project is modelled; its tickets    *)
(* and sprints are numbered by AUTOINCREMENT, so they are sequences.       *)
(***************************************************************************)
EXTENDS Naturals, Sequences, FiniteSets
LOCAL INSTANCE FiniteSetsExt

CONSTANTS
  Calls,        \* tool calls, each made at most once
  NoCall,
  Requests,     \* call -> the requests it may carry
  MaxTickets,   \* MAX_TICKETS_PER_SPRINT
  StartStatus,  \* statuses the ticket of the initial database may have
  MaxCrash      \* bound: restarts of the process

VARIABLES
  view,     \* the database as the connection sees it
  disk,     \* the database as last committed
  open,     \* the connection is in a transaction
  lock,     \* holder of the project's _sprint_locks entry
  todo,     \* call -> the statements left
  res,      \* call -> how it ended
  owner,    \* ghost: the call whose BEGIN opened the transaction
  hit,      \* ghost: some BEGIN's transaction was ended by another call
  crashes

vars == <<view, disk, open, lock, todo, res, owner, hit, crashes>>
txn == <<open, owner, hit>>

TicketTransitions ==
  [backlog |-> {"ready", "dropped"},
   ready |-> {"in_progress", "backlog", "dropped"},
   in_progress |-> {"review", "ready", "dropped"},
   review |-> {"done", "in_progress", "ready", "dropped"},
   done |-> {}, dropped |-> {}]

SprintTransitions ==
  [draft |-> {"approved", "aborted"}, approved |-> {"running", "aborted"},
   running |-> {"completed", "aborted"}, completed |-> {}, aborted |-> {}]

Terminal == {"done", "dropped"}
Closed == {"completed", "aborted"}

\* What the tools accept: ids are integers, a status the tables do not name is
\* refused before anything is written.
Request ==
  {<<"update">>, <<"auto">>} \cup ({"reset", "cancel"} \X Nat)
    \cup ({"create", "reassign"} \X Nat \X Nat)
    \cup ({"move"} \X Nat \X DOMAIN TicketTransitions)
    \cup ({"sprint"} \X Nat \X DOMAIN SprintTransitions)

ASSUME PmAssumption ==
  /\ NoCall \notin Calls /\ MaxTickets \in Nat \ {0} /\ MaxCrash \in Nat
  /\ StartStatus \subseteq DOMAIN TicketTransitions
  /\ \A c \in Calls : Requests[c] \subseteq Request

Ticket == [sprint : Nat, status : DOMAIN TicketTransitions, number : Nat]
Sprint == [rolling : BOOLEAN, status : DOMAIN SprintTransitions]

TicketsOf(db, k) == {t \in DOMAIN db.tickets : db.tickets[t].sprint = k}
Rolling(db) ==
  {k \in DOMAIN db.sprints :
     db.sprints[k].rolling /\ db.sprints[k].status \notin Closed}

----------------------------------------------------------------------------
(* The calls, as the statements they await. A refused check (ValueError)   *)
(* resumes after the next "catch", a handler for ValueError in the caller. *)

Transition(check, write) == << <<"begin">>, check, write, <<"commit">> >>
Move(t, s) ==
  << <<"begin">>, <<"can_move", t, s>>, <<"set_status", t, s>>,
     <<"log", t>>, <<"commit">> >>
TransitionSprint(k, s) ==
  Transition(<<"can_transition", k, s>>, <<"set_sprint", k, s>>)
Create(k, parent) ==
  << <<"cap", k>>, <<"insert", k, parent>> >>
Update == << <<"touch">>, <<"save">> >>
Reassign(t, k) ==
  << <<"cap", k>>, <<"begin">>, <<"set_sprint_of", t, k>>, <<"commit">> >>
     \o Update \o Update \o Update       \* the three budget resyncs
AutoTicket == << <<"lock">>, <<"find">> >>
NewRolling(k) ==
  << <<"save">>, <<"read_sprint", k>> >>
     \o TransitionSprint(k, "approved") \o TransitionSprint(k, "running")
     \o << <<"catch">>, <<"unlock">> >> \o Create(k, 0)
CancelSprint(k) == << <<"list", k>> >>
DropAll(left, k) ==
  IF left = {} THEN TransitionSprint(k, "aborted")
  ELSE Move(Min(left), "dropped")
         \o << <<"catch">>, <<"drop_rest", left \ {Min(left)}, k>> >>

Program(r) ==
  CASE r[1] = "move"     -> Move(r[2], r[3])
    [] r[1] = "create"   -> Create(r[2], r[3])
    [] r[1] = "update"   -> Update
    [] r[1] = "reset"    -> Update \o Update \o Move(r[2], "ready")
    [] r[1] = "reassign" -> Reassign(r[2], r[3])
    [] r[1] = "auto"     -> AutoTicket
    [] r[1] = "cancel"   -> CancelSprint(r[2])
    [] r[1] = "sprint"   -> TransitionSprint(r[2], r[3])

Init ==
  /\ \E s \in StartStatus :
       view = [tickets |-> << [sprint |-> 1, status |-> s, number |-> 1] >>,
               sprints |-> << [rolling |-> FALSE, status |-> "running"] >>]
  /\ disk = view /\ open = FALSE /\ lock = NoCall
  /\ todo = [c \in Calls |-> <<>>]
  /\ res = [c \in Calls |-> "none"]
  /\ owner = NoCall /\ hit = FALSE /\ crashes = 0

----------------------------------------------------------------------------
(* Moving through a call. *)

Doing(c, op) == todo[c] # <<>> /\ Head(todo[c])[1] = op
Arg(c, i) == Head(todo[c])[i]

Continue(c, rest) ==
  /\ todo' = [todo EXCEPT ![c] = rest]
  /\ res' = [res EXCEPT ![c] = IF rest = <<>> THEN "ok" ELSE @]
Advance(c) == Continue(c, Tail(todo[c]))

\* An exception that leaves the call: `async with` gives the lock back.
Leave(c, r) ==
  /\ todo' = [todo EXCEPT ![c] = <<>>]
  /\ res' = [res EXCEPT ![c] = r]
  /\ lock' = IF lock = c THEN NoCall ELSE lock

\* What follows a ValueError: the rest after the handler, or the way out.
AfterCatch(rest) ==
  LET at == {i \in DOMAIN rest : rest[i][1] = "catch"}
  IN  IF at = {} THEN << <<"raise">> >>
      ELSE SubSeq(rest, Min(at) + 1, Len(rest))
\* Mutant of Refuse: a refused transition re-raises without ROLLBACK.
RefuseInPlace(c) == Continue(c, AfterCatch(Tail(todo[c])))
Refuse(c) ==
  Continue(c, << <<"rollback">> >> \o AfterCatch(Tail(todo[c])))

(* The connection. A write begins a transaction when none is open. *)
Write(db) ==
  /\ view' = db
  /\ open' = TRUE
  /\ UNCHANGED <<disk, owner, hit, crashes>>

Stolen(c) == owner \notin {c, NoCall} /\ todo[owner] # <<>>
EndTransaction(c) ==
  /\ open' = FALSE /\ owner' = NoCall
  /\ hit' = (hit \/ Stolen(c))
  /\ UNCHANGED crashes

Reads == UNCHANGED <<view, disk, crashes, txn>>

----------------------------------------------------------------------------
Call(c) ==
  /\ todo[c] = <<>> /\ res[c] = "none"
  /\ \E r \in Requests[c] : todo' = [todo EXCEPT ![c] = Program(r)]
  /\ UNCHANGED <<lock, res>> /\ Reads

\* Mutant of Begin: BEGIN only `if not db.in_transaction`.
BeginOrJoin(c) ==
  /\ Doing(c, "begin") /\ Advance(c)
  /\ open' = TRUE /\ owner' = IF open THEN owner ELSE c
  /\ UNCHANGED <<view, disk, lock, hit, crashes>>

\* BEGIN IMMEDIATE is awaited outside the try: inside a transaction it
\* raises OperationalError and nothing is rolled back.
Begin(c) ==
  /\ Doing(c, "begin")
  /\ IF open
     THEN Leave(c, "error") /\ UNCHANGED <<open, owner>>
     ELSE Advance(c) /\ open' = TRUE /\ owner' = c /\ UNCHANGED lock
  /\ UNCHANGED <<view, disk, hit, crashes>>

CanMove(c) ==
  /\ Doing(c, "can_move")
  /\ LET t == Arg(c, 2)
     IN IF /\ t \in DOMAIN view.tickets
           /\ Arg(c, 3) \in TicketTransitions[view.tickets[t].status]
        THEN Advance(c) ELSE Refuse(c)
  /\ UNCHANGED lock /\ Reads

CanTransition(c) ==
  /\ Doing(c, "can_transition")
  /\ LET k == Arg(c, 2)
     IN IF /\ k \in DOMAIN view.sprints
           /\ Arg(c, 3) \in SprintTransitions[view.sprints[k].status]
           /\ Arg(c, 3) = "completed" =>
                \A t \in TicketsOf(view, k) : view.tickets[t].status \in Terminal
        THEN Advance(c) ELSE Refuse(c)
  /\ UNCHANGED lock /\ Reads

\* An UPDATE of a row that is not there changes nothing.
SetStatus(c) ==
  /\ Doing(c, "set_status")
  /\ Write(IF Arg(c, 2) \in DOMAIN view.tickets
              THEN [view EXCEPT !.tickets[Arg(c, 2)].status = Arg(c, 3)]
              ELSE view)
  /\ Advance(c) /\ UNCHANGED lock

SetSprint(c) ==
  /\ Doing(c, "set_sprint")
  /\ Write(IF Arg(c, 2) \in DOMAIN view.sprints
              THEN [view EXCEPT !.sprints[Arg(c, 2)].status = Arg(c, 3)]
              ELSE view)
  /\ Advance(c) /\ UNCHANGED lock

\* The row of pm_transitions; its foreign key fails if the ticket is gone.
Log(c) ==
  /\ Doing(c, "log")
  /\ Write(view)
  /\ IF Arg(c, 2) \in DOMAIN view.tickets
     THEN Advance(c)
     ELSE Continue(c, << <<"rollback">>, <<"raise">> >>)
  /\ UNCHANGED lock

Commit(c) ==
  /\ Doing(c, "commit")
  /\ IF open
     THEN Advance(c) /\ disk' = view /\ EndTransaction(c)
     ELSE /\ Continue(c, << <<"rollback">>, <<"raise">> >>)
          /\ UNCHANGED <<disk, crashes, txn>>
  /\ UNCHANGED <<view, lock>>

\* ROLLBACK, and its own failure swallowed.
Rollback(c) ==
  /\ Doing(c, "rollback")
  /\ IF open THEN view' = disk /\ EndTransaction(c)
             ELSE UNCHANGED <<view, crashes, txn>>
  /\ Advance(c) /\ UNCHANGED <<disk, lock>>

Raise(c) == Doing(c, "raise") /\ Leave(c, "error") /\ Reads

Catch(c) == Doing(c, "catch") /\ Advance(c) /\ UNCHANGED lock /\ Reads

\* commit(): nothing to do outside a transaction.
Save(c) ==
  /\ Doing(c, "save")
  /\ IF open THEN disk' = view /\ EndTransaction(c)
             ELSE UNCHANGED <<disk, crashes, txn>>
  /\ Advance(c) /\ UNCHANGED <<view, lock>>

\* An UPDATE of columns the properties do not tell apart.
Touch(c) == Doing(c, "touch") /\ Write(view) /\ Advance(c) /\ UNCHANGED lock

Cap(c) ==
  /\ Doing(c, "cap")
  /\ IF Cardinality(TicketsOf(view, Arg(c, 2))) < MaxTickets
     THEN Advance(c) /\ UNCHANGED lock ELSE Leave(c, "error")
  /\ Reads

\* Mutant of Insert: the number counts the sprint's tickets.
InsertPerSprint(c) ==
  /\ Doing(c, "insert")
  /\ Arg(c, 2) \in DOMAIN view.sprints
  /\ LET number == 1 + Cardinality(TicketsOf(view, Arg(c, 2)))
     IN Write([view EXCEPT !.tickets =
          Append(@, [sprint |-> Arg(c, 2), status |-> "backlog", number |-> number])])
  /\ Continue(c, << <<"save">>, <<"read_back", Len(view.tickets) + 1>> >>)
  /\ UNCHANGED lock

\* The number is computed by the INSERT's own subquery. A foreign key that
\* fails leaves the transaction python began for the INSERT open.
Insert(c) ==
  /\ Doing(c, "insert")
  /\ LET k == Arg(c, 2)
         number == 1 + Max({0} \cup {view.tickets[t].number : t \in DOMAIN view.tickets})
         row == [sprint |-> k, status |-> "backlog", number |-> number]
     IN IF k \in DOMAIN view.sprints /\ Arg(c, 3) \in DOMAIN view.tickets \cup {0}
        THEN /\ Write([view EXCEPT !.tickets = Append(@, row)])
             /\ Continue(c, << <<"save">>, <<"read_back", Len(view.tickets) + 1>> >>)
             /\ UNCHANGED lock
        ELSE /\ open' = TRUE
             /\ Leave(c, "stuck")
             /\ UNCHANGED <<view, disk, owner, hit, crashes>>

\* The tool reads its row's id: an error when a rollback took the row.
ReadBack(c) ==
  /\ Doing(c, "read_back")
  /\ IF Arg(c, 2) \in DOMAIN view.tickets
     THEN Advance(c) /\ UNCHANGED lock ELSE Leave(c, "error")
  /\ Reads

SetSprintOf(c) ==
  /\ Doing(c, "set_sprint_of")
  /\ Write(IF Arg(c, 2) \in DOMAIN view.tickets
              THEN [view EXCEPT !.tickets[Arg(c, 2)].sprint = Arg(c, 3)]
              ELSE view)
  /\ Advance(c) /\ UNCHANGED lock

\* Mutant of Lock: no _sprint_locks.
LockFree(c) == Doing(c, "lock") /\ Advance(c) /\ UNCHANGED lock /\ Reads
Lock(c) == Doing(c, "lock") /\ lock = NoCall /\ lock' = c /\ Advance(c) /\ Reads
\* Mutant of Unlock: acquire() without release() on the path that finds a
\* sprint.
UnlockForgotten(c) == Doing(c, "unlock") /\ Advance(c) /\ UNCHANGED lock /\ Reads
Unlock(c) == Doing(c, "unlock") /\ lock' = NoCall /\ Advance(c) /\ Reads

\* The month's open rolling sprint, or a new one.
Find(c) ==
  /\ Doing(c, "find")
  /\ Continue(c, IF Rolling(view) # {}
                 THEN << <<"unlock">> >> \o Create(Min(Rolling(view)), 0)
                 ELSE << <<"new_sprint">> >>)
  /\ UNCHANGED lock /\ Reads

NewSprint(c) ==
  /\ Doing(c, "new_sprint")
  /\ Write([view EXCEPT !.sprints = Append(@, [rolling |-> TRUE, status |-> "draft"])])
  /\ Continue(c, NewRolling(Len(view.sprints) + 1))
  /\ UNCHANGED lock

ReadSprint(c) ==
  /\ Doing(c, "read_sprint")
  /\ IF Arg(c, 2) \in DOMAIN view.sprints
     THEN Advance(c) /\ UNCHANGED lock ELSE Leave(c, "error")
  /\ Reads

\* The tickets to drop are those of one SELECT; the loop over them follows.
List(c) ==
  /\ Doing(c, "list")
  /\ LET k == Arg(c, 2)
         left == {t \in TicketsOf(view, k) : view.tickets[t].status \notin Terminal}
     IN  Continue(c, DropAll(left, k))
  /\ UNCHANGED lock /\ Reads

DropRest(c) ==
  /\ Doing(c, "drop_rest") /\ Continue(c, DropAll(Arg(c, 2), Arg(c, 3)))
  /\ UNCHANGED lock /\ Reads

\* The session's client goes and the call with it: CancelledError is no
\* Exception, so nothing is rolled back.
Cancel(c) == todo[c] # <<>> /\ Leave(c, "cut") /\ Reads

Crash ==
  /\ crashes < MaxCrash
  /\ crashes' = crashes + 1
  /\ view' = disk
  /\ open' = FALSE /\ owner' = NoCall /\ lock' = NoCall
  /\ todo' = [c \in Calls |-> <<>>]
  /\ res' = [c \in Calls |-> IF todo[c] = <<>> THEN res[c] ELSE "cut"]
  /\ UNCHANGED <<disk, hit>>

Step(c) ==
  \/ Begin(c) \/ CanMove(c) \/ CanTransition(c) \/ SetStatus(c) \/ SetSprint(c)
  \/ Log(c) \/ Commit(c) \/ Rollback(c) \/ Raise(c) \/ Catch(c) \/ Save(c)
  \/ Touch(c) \/ Cap(c) \/ Insert(c) \/ ReadBack(c) \/ SetSprintOf(c)
  \/ Lock(c) \/ Unlock(c) \/ Find(c) \/ NewSprint(c) \/ ReadSprint(c) \/ List(c)
  \/ DropRest(c)

Next ==
  \/ \E c \in Calls : Call(c) \/ Step(c) \/ Cancel(c)
  \/ Crash

Spec == Init /\ [][Next]_vars

\* Every statement returns, and a tool call runs to its end unless it is
\* cancelled: no fairness for Call, Cancel and Crash.
FairSpec == Spec /\ \A c \in Calls : WF_vars(Step(c))

----------------------------------------------------------------------------
(* The rows have their columns' types and the ghosts their ranges.         *)
TypeOK ==
  /\ {view, disk} \subseteq [tickets : Seq(Ticket), sprints : Seq(Sprint)]
  /\ open \in BOOLEAN /\ hit \in BOOLEAN
  /\ lock \in Calls \cup {NoCall} /\ owner \in Calls \cup {NoCall}
  /\ \A c \in Calls : res[c] \in {"none", "ok", "error", "stuck", "cut"}
  /\ crashes \in 0..MaxCrash

(* No two tickets of the project share a number (the "KEY-n" people and    *)
(* commits cite), however creations, rollbacks of other calls'             *)
(* transactions and restarts interleave (create_ticket, store.py:461).     *)
NumbersUnique ==
  \A db \in {view, disk} : \A t, u \in DOMAIN db.tickets :
    db.tickets[t].number = db.tickets[u].number => t = u

(* A project has at most one open rolling sprint: parallel sessions that   *)
(* call pm_auto_ticket share it (get_or_create_rolling_sprint). Short of a *)
(* transaction that another call ended: the ROLLBACK of a call whose own   *)
(* transaction was ended before takes back the uncommitted abort of a      *)
(* sprint that pm_auto_ticket has already found closed.                    *)
OneRollingSprint ==
  ~hit => \A db \in {view, disk} : Cardinality(Rolling(db)) <= 1

(* When no call's transaction was ended by another call's commit or        *)
(* rollback, the statuses on disk only move along TICKET_TRANSITIONS:      *)
(* what is done or dropped stays so, and no move is made from a status     *)
(* another call has left meanwhile.                                        *)
MovesFollowTable ==
  [][~hit' =>
       \A t \in DOMAIN disk.tickets :
         LET was == disk.tickets[t].status
             now == disk'.tickets[t].status
         IN  now = was \/ now \in TicketTransitions[was]]_vars

(* With no call running the connection is outside a transaction, except    *)
(* after a cancelled call or an INSERT whose foreign key failed: in every  *)
(* other case the next transition's BEGIN finds the connection free.       *)
IdleMeansClosed ==
  (\A c \in Calls : todo[c] = <<>>) /\ open =>
    \E c \in Calls : res[c] \in {"stuck", "cut"}

(* Every call ends, those waiting for the rolling-sprint lock included     *)
(* when its holder fails or is cancelled.                                  *)
EveryCallEnds == \A c \in Calls : todo[c] # <<>> ~> todo[c] = <<>>

(* What get_or_create_rolling_sprint says of its lock: "to prevent         *)
(* duplicate sprints when parallel sessions call this simultaneously".     *)
NeverTwoRolling ==
  \A db \in {view, disk} : Cardinality(Rolling(db)) <= 1

(* What transition_sprint and move_ticket say of BEGIN IMMEDIATE: no two   *)
(* transitions act on the same from_status, so a terminal status is final. *)
TerminalIsFinal ==
  [][\A t \in DOMAIN disk.tickets :
       disk.tickets[t].status \in Terminal =>
         disk'.tickets[t].status = disk.tickets[t].status]_vars
=============================================================================
