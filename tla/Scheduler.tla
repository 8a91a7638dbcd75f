------------------------------ MODULE Scheduler ------------------------------
(***************************************************************************)
(* The scheduler: the loop of main.py that fires the due tasks, the task    *)
(* table of bot/scheduler.py in its JsonConfigStore, the calls that change   *)
(* the table from chats and onboarding, and restarts.                       *)
(*                                                                         *)
(* Time goes by the hour (now), a day has DayLen hours.  An hour stands for *)
(* the part of it after the minute of the tasks.  The loop wakes every 30    *)
(* seconds, so a sleeping loop checks at least once an hour (Tick); a run is *)
(* an agent's turn and may take any time, and the loop waits for it.        *)
(*                                                                         *)
(* A definition that directly precedes another one and is used nowhere is  *)
(* a mutant of it: the same code with a plausible mistake.                 *)
(***************************************************************************)
EXTENDS ConfigStore

CONSTANTS
  Never,      \* last_run of a task that has not run
  None,       \* no task
  Fixed,      \* the tasks with a time of day; the others have an interval
  At,         \* hour of a fixed task
  Interval,   \* hours between two runs of another one
  Defaults,   \* DEFAULT_TASKS, created at every start when they are missing
  DayLen, MaxTime, MaxOps, MaxCrashes

ASSUME SchedulerAssumption ==
  /\ Fixed \subseteq Keys /\ Defaults \subseteq Keys /\ None \notin Keys /\ Never \notin Nat
  /\ DayLen \in Nat \ {0} /\ {MaxTime, MaxOps, MaxCrashes} \subseteq Nat
  /\ At \in [Fixed -> 0 .. DayLen - 1] /\ Interval \in [Keys \ Fixed -> Nat \ {0}]

VARIABLES
  now,
  pc,        \* the loop: sleep, run (a task), busy (the rest of its body), down
  cur,       \* the running task
  batch,     \* the due tasks still to be run
  checked,   \* the loop has looked for due tasks in this hour and since the last start
  ops, crashes,
  since,     \* history: when the run began
  runs,      \* history: the runs of each task begun today
  touched,   \* history: the tasks changed or out of sight in this hour
  again,     \* history: the tasks that may rightly run once more today
  overran    \* history: the tasks whose run of an earlier day was marked today

loopVars == <<pc, cur, batch, checked, since, runs, overran>>
bounds == <<ops, crashes>>
vars == <<storeVars, now, loopVars, bounds, touched, again>>

-----------------------------------------------------------------------------
Hour == now % DayLen
Day(t) == t \div DayLen
Fresh == [on |-> TRUE, last |-> Never]

\* get_due_tasks: by the date for a fixed task, by the hours since the last run for others.
RanToday(last) == last # Never /\ Day(last) = Day(now)
DueInADay(t, row) ==
  /\ row # Absent /\ row.on
  /\ IF t \in Fixed THEN At[t] = Hour /\ ~(row.last # Never /\ now - row.last < DayLen)
     ELSE row.last # Never => now - row.last >= Interval[t]
Due(t, row) ==
  /\ row # Absent /\ row.on
  /\ IF t \in Fixed THEN At[t] = Hour /\ ~RanToday(row.last)
     ELSE row.last # Never => now - row.last >= Interval[t]

\* The next task of the batch is started, whatever has become of its row since.
Start(t, rest) ==
  /\ pc' = "run" /\ cur' = t /\ batch' = rest /\ since' = now
  /\ runs' = [runs EXCEPT ![t] = @ + 1]
Rested(rest) ==
  IF rest = {}
  THEN pc' = "busy" /\ cur' = None /\ batch' = {} /\ UNCHANGED <<since, runs>>
  ELSE \E t \in rest : Start(t, rest \ {t})

\* check_custom_tasks: the due tasks are chosen at once and run one after the other.
Check ==
  /\ pc = "sleep"
  /\ JustRead
  /\ Rested({t \in Keys : Due(t, store'[t])})
  /\ checked' = TRUE
  /\ UNCHANGED <<now, bounds, touched, again, overran>>

\* A row edited outside, and a write into which such an edit may fall.
Toggled(row) == IF row = Absent THEN Absent ELSE [row EXCEPT !.on = ~@]
EditedRows(row) == IF row = Absent THEN {Fresh} ELSE {Absent, Toggled(row)}
Put(t, row, meant, looked) ==
  \/ Write(t, row, meant, looked)
  \/ \E k \in Keys : \E new \in EditedRows(file.rows[k]) : WriteRaced(t, row, meant, looked, k, new)

\* mark_task_run, when the run has ended and also when it has failed: the row is read again
\* and written with the time, or left alone when it has gone.
Marked(row) == IF row = Absent THEN Absent ELSE [row EXCEPT !.last = now]
Mark(t) ==
  IF Read[t] = Absent THEN JustRead ELSE Put(t, Marked(Read[t]), Marked(want[t]), TRUE)

NotFound == IF Read[cur] = Absent THEN {cur} ELSE {}
Finished ==
  /\ pc = "run" /\ Rested(batch)
  /\ overran' = IF Day(since) # Day(now) THEN overran \cup {cur} ELSE overran
  /\ again' = again \cup NotFound
  /\ UNCHANGED <<now, checked, bounds, touched>>
FinishUnmarked == Finished /\ (Mark(cur) \/ JustRead)
Finish == Finished /\ Mark(cur)

\* The rest of the loop's body: clean-ups, watchdogs, token refreshes.
Rest ==
  /\ pc = "busy" /\ pc' = "sleep"
  /\ UNCHANGED <<storeVars, now, cur, batch, checked, since, runs, overran, bounds, touched, again>>

\* An hour passes.
Tick ==
  /\ now < MaxTime /\ (pc = "sleep" => checked)
  /\ now' = now + 1 /\ checked' = FALSE /\ recent' = FALSE
  /\ touched' = (IF file.torn THEN Keys ELSE {})
  /\ IF Day(now + 1) = Day(now) THEN UNCHANGED <<runs, again, overran>>
     ELSE runs' = [t \in Keys |-> 0] /\ again' = {} /\ overran' = {}
  /\ UNCHANGED <<store, file, mtime, edits, fails, want, mishaps, pc, cur, batch, since, bounds>>

-----------------------------------------------------------------------------
(* Calls on the table, from a chat or the running task itself               *)

Call(t) ==
  /\ pc # "down" /\ ops > 0 /\ ops' = ops - 1
  /\ touched' = touched \cup {t}
  /\ UNCHANGED <<now, loopVars, crashes>>

\* add_task: create_employee_tasks looks for the id first, a chat's task gets a new one.
Add(t) ==
  /\ Call(t) /\ \E looked \in BOOLEAN :
       /\ (IF looked THEN Read ELSE store)[t] = Absent
       /\ Put(t, Fresh, Fresh, looked)
  /\ again' = again \cup {t}

\* toggle_task, and update_task for what it changes of the same row.
Toggle(t) ==
  /\ Call(t) /\ Read[t] # Absent
  /\ Put(t, Toggled(Read[t]), Toggled(want[t]), TRUE)
  /\ UNCHANGED again

\* delete_task: only a user who is not an admin has his task looked up before.
Delete(t) ==
  /\ Call(t) /\ \E looked \in BOOLEAN :
       /\ (IF looked THEN Read ELSE store)[t] # Absent
       /\ Put(t, Absent, Absent, looked)
  /\ UNCHANGED again

\* list_tasks and get_task.
List ==
  /\ pc # "down" /\ ~recent /\ JustRead
  /\ UNCHANGED <<now, loopVars, bounds, touched, again>>
ListRaced(t, row) ==
  /\ pc # "down" /\ ReadRaced(t, row)
  /\ touched' = touched \cup {t} /\ again' = again \cup {t}
  /\ UNCHANGED <<now, loopVars, bounds>>

-----------------------------------------------------------------------------
(* The outside world and restarts                                          *)

Outside ==
  /\ \/ \E t \in Keys : \E row \in EditedRows(file.rows[t]) :
          Edit(t, row) /\ again' = again \cup {t}
            /\ touched' = (IF file'.torn THEN Keys ELSE touched \cup {t})
     \/ EditDone /\ touched' = Keys /\ UNCHANGED again
     \/ Second /\ UNCHANGED <<touched, again>>
  /\ UNCHANGED <<now, loopVars, bounds>>

Crash ==
  /\ pc # "down" /\ crashes > 0 /\ crashes' = crashes - 1
  /\ pc' = "down" /\ cur' = None /\ batch' = {} /\ checked' = FALSE
  /\ again' = again \cup ({cur} \ {None})
  /\ UNCHANGED <<storeVars, now, since, runs, overran, ops, touched>>

\* A start: the file is loaded and init_default_tasks adds the defaults it does not find.
Boot ==
  LET missing == {t \in Defaults : Loaded[t] = Absent}
      rows == [t \in Keys |-> IF t \in missing THEN Fresh ELSE Loaded[t]]
      meant == [t \in Keys |-> IF t \in missing THEN Fresh ELSE want[t]]
      loaded == IF file.torn THEN mtime ELSE "same"
      harm == IF file.torn THEN {"torn"} ELSE {}
      Raced(k, new) == IF missing = {} THEN ~file.torn /\ Hidden(rows, meant, k, new, harm)
                       ELSE SaveRaced(rows, meant, k, new, harm)
  IN /\ pc = "down" /\ pc' = "sleep"
     /\ store' = rows /\ recent' = TRUE
     /\ \/ /\ IF missing = {} THEN mtime' = loaded /\ UNCHANGED <<file, mishaps, fails>>
             ELSE Saved(rows, harm) \/ SaveFails(loaded, harm)
           /\ want' = meant /\ UNCHANGED edits
        \/ \E k \in Keys : \E new \in EditedRows(file.rows[k]) : Raced(k, new)
     /\ touched' = touched \cup missing /\ again' = again \cup missing
     /\ UNCHANGED <<now, cur, batch, checked, since, runs, overran, bounds>>

-----------------------------------------------------------------------------
Init ==
  /\ StoreInit([t \in Keys |-> IF t \in Defaults THEN Fresh ELSE Absent])
  /\ now = 0 /\ pc = "sleep" /\ cur = None /\ batch = {} /\ checked = FALSE
  /\ ops = MaxOps /\ crashes = MaxCrashes
  /\ since = 0 /\ runs = [t \in Keys |-> 0]
  /\ touched = {} /\ again = {} /\ overran = {}

Next ==
  \/ Check \/ Finish \/ Rest \/ Tick \/ List \/ Outside \/ Crash \/ Boot
  \/ \E t \in Keys : Add(t) \/ Toggle(t) \/ Delete(t)
  \/ \E t \in Keys : \E row \in EditedRows(file.rows[t]) : ListRaced(t, row)

Spec == Init /\ [][Next]_vars

-----------------------------------------------------------------------------
(* Properties                                                              *)

\* A task with a time of day that is enabled and left alone through its hour is run, or about
\* to be, when the hour is over: short of the store's mishaps, and of a loop that was down or
\* busy with other runs through the hour, only its own run of the day before, ended after
\* midnight and marked with today's date, makes it skip a day.
MissHasCause ==
  [][now' # now =>
       \A t \in Fixed :
         \/ At[t] # Hour \/ want[t] = Absent \/ (want[t] # Absent /\ ~want[t].on)
         \/ mishaps # {} \/ t \in touched \/ ~checked
         \/ runs[t] > 0 \/ t \in batch \/ t \in overran]_vars

\* A task with a time of day is started once a day, whatever runs, changes and restarts come
\* in between; again only after a restart in the middle of its run, when its row is
\* created anew or was out of sight at its end, or when the file was edited.
RunsOncePerDay == mishaps = {} => \A t \in Fixed : runs[t] <= 1 \/ t \in again
=============================================================================
