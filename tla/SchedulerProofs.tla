--------------------------- MODULE SchedulerProofs ---------------------------
(* What the configuration store and the scheduler promise, for all values   *)
(* of their constants.                                                      *)
EXTENDS Scheduler, TLAPS

-----------------------------------------------------------------------------
(* Types                                                                   *)

Task == [on : BOOLEAN, last : Nat \cup {Never}]
Row == {Absent} \cup Task
Table == [Keys -> Row]

StoreType ==
  /\ store \in Table /\ want \in Table /\ file \in [rows : Table, torn : BOOLEAN]
  /\ mtime \in {"same", "newer", "older"} /\ recent \in BOOLEAN
  /\ edits \in Nat /\ fails \in Nat /\ mishaps \subseteq {"raced", "torn", "blind", "unsaved"}

LoopType ==
  /\ now \in Nat /\ since \in 0 .. now
  /\ pc \in {"sleep", "run", "busy", "down"} /\ checked \in BOOLEAN
  /\ batch \subseteq Keys /\ cur \in Keys \cup {None}
  /\ IF pc = "run" THEN cur \in Keys \ batch ELSE cur = None /\ batch = {}
  /\ runs \in [Keys -> Nat] /\ ops \in Nat /\ crashes \in Nat
  /\ touched \subseteq Keys /\ again \subseteq Keys /\ overran \subseteq Keys

TypeOK == StoreType /\ LoopType

-----------------------------------------------------------------------------
(* The store                                                               *)

\* Short of a mishap the file is as it is wanted to be, even while it is being written,
\* and a store that sees no other mtime has it in memory.
StoreInv ==
  /\ file.torn => mtime # "same"
  /\ mishaps = {} => file.rows = want
  /\ mishaps = {} /\ mtime = "same" => store = want

\* What the store has in memory of a key that was not edited today is gone or right, and
\* of one that was left alone in this hour is right; or the next read looks at the file.
SightInv ==
  mishaps = {} =>
    \A t \in Keys :
      \/ mtime # "same" /\ ~recent
      \/ /\ t \in again \/ store[t] \in {Absent, want[t]}
         /\ t \in touched \/ store[t] = want[t]

-----------------------------------------------------------------------------
(* The loop                                                                *)

\* A task that waits for its turn has not run today; one that has run is still running,
\* or is marked.
OnceInv ==
  mishaps = {} =>
    \A t \in Fixed \ again :
      /\ t \in batch => runs[t] = 0
      /\ runs[t] <= 1
      /\ runs[t] = 1 => t = cur \/ want[t] = Absent \/ RanToday(want[t].last)

\* A task marked today has run today, or was running at midnight.
MarkInv ==
  /\ pc = "run" /\ Day(since) = Day(now) => runs[cur] > 0
  /\ mishaps = {} =>
       /\ \A t \in Keys : want[t] # Absent /\ want[t].last # Never => want[t].last <= now
       /\ \A t \in Fixed : want[t] # Absent /\ RanToday(want[t].last) => runs[t] > 0 \/ t \in overran

\* What MissHasCause says of the end of an hour holds from the check on.
Missed(t) ==
  /\ At[t] = Hour /\ want[t] # Absent /\ want[t].on /\ t \notin touched
  /\ runs[t] = 0 /\ t \notin batch /\ t \notin overran
MissInv ==
  /\ file.torn => touched = Keys
  /\ mishaps = {} /\ checked => \A t \in Fixed : ~ Missed(t)

Inv == TypeOK /\ StoreInv /\ SightInv /\ OnceInv /\ MarkInv /\ MissInv

-----------------------------------------------------------------------------
(* Calls on the store                                                      *)

LEMMA ReadType == ASSUME StoreType PROVE Read \in Table /\ Loaded \in Table /\ Nothing \in Table
BY DEF StoreType, Read, Loaded, Nothing, Table, Row

\* A read changes what is remembered, never what is wanted or in the file.
LEMMA JustReadStore ==
  ASSUME StoreType, StoreInv, JustRead
  PROVE  /\ StoreType' /\ StoreInv' /\ store' = Read /\ recent' = TRUE
         /\ UNCHANGED <<file, want, mishaps>>
BY ReadType DEF JustRead, StoreType, StoreInv, Read, MtimeRead, Loaded

\* What a read finds of a key that is in sight is right.
LEMMA ReadSight ==
  ASSUME StoreType, StoreInv, SightInv, MissInv, mishaps = {}, NEW t \in Keys
  PROVE  /\ t \in again \/ Read[t] \in {Absent, want[t]}
         /\ t \in touched \/ Read[t] = want[t]
<1>1. CASE Reloads /\ file.torn
  BY <1>1 DEF Read, Loaded, Nothing, MissInv
<1>2. CASE Reloads /\ ~ file.torn
  BY <1>2 DEF Read, Loaded, StoreInv
<1>3. CASE ~ Reloads
  BY <1>3 DEF Read, Reloads, Looks, SightInv, StoreInv
<1> QED BY <1>1, <1>2, <1>3

\* A write that is no mishap has seen all there is to see.
LEMMA WriteStore ==
  ASSUME StoreType, StoreInv, NEW k \in Keys, NEW row \in Row, NEW meant \in Row,
         NEW looked \in BOOLEAN, Write(k, row, meant, looked)
  PROVE  /\ StoreType' /\ edits' = edits
         /\ want' = [want EXCEPT ![k] = meant]
         /\ file'.torn => file.torn /\ mtime' # "same"
         /\ mishaps' = {} =>
              /\ mishaps = {} /\ (IF looked THEN Read ELSE store) = want
              /\ store' = [want EXCEPT ![k] = row] /\ file'.rows = store' /\ mtime' = "same"
              /\ ~ file'.torn
<1> DEFINE rows == [(IF looked THEN Read ELSE store) EXCEPT ![k] = row]
<1>1. rows \in Table /\ [want EXCEPT ![k] = meant] \in Table
  BY ReadType DEF StoreType, Table
<1>2. /\ store' = rows /\ want' = [want EXCEPT ![k] = meant] /\ recent' = (recent \/ looked)
      /\ edits' = edits
      /\ Saved(rows, Harm(looked)) \/ SaveFails(IF looked THEN MtimeRead ELSE mtime, Harm(looked))
  BY DEF Write
<1>3. Harm(looked) \subseteq {"torn", "blind"}
  BY DEF Harm
<1> HIDE DEF rows
<1>4. CASE Saved(rows, Harm(looked))
  <2>1. /\ file' = [rows |-> rows, torn |-> FALSE] /\ mtime' = "same" /\ fails' = fails
        /\ mishaps' = mishaps \cup Harm(looked)
    BY <1>4 DEF Saved
  <2>2. StoreType'
    BY <1>1, <1>2, <1>3, <2>1 DEF StoreType
  <2>3. ASSUME mishaps' = {} PROVE mishaps = {} /\ (IF looked THEN Read ELSE store) = want
    <3>1. mishaps = {} /\ Harm(looked) = {}
      BY <2>1, <2>3
    <3>2. ~ file.torn /\ (mtime = "same" \/ (~ recent /\ looked))
      BY <3>1 DEF Harm
    <3>3. CASE mtime = "same"
      BY <3>1, <3>3 DEF StoreInv, Read, Reloads
    <3>4. CASE mtime # "same"
      BY <3>1, <3>2, <3>4 DEF StoreInv, Read, Reloads, Looks, Loaded
    <3> QED BY <3>1, <3>3, <3>4
  <2> QED BY <1>2, <2>1, <2>2, <2>3 DEF rows
<1>5. CASE SaveFails(IF looked THEN MtimeRead ELSE mtime, Harm(looked))
  <2>1. /\ file' = file /\ fails \in Nat /\ fails > 0 /\ fails' = fails - 1
        /\ mishaps' = mishaps \cup Harm(looked) \cup {"unsaved"}
        /\ mtime' \in {mtime, "same"}
    BY <1>5 DEF SaveFails, MtimeRead, StoreType
  <2>2. fails' \in Nat /\ mtime' \in {"same", "newer", "older"}
    BY <2>1 DEF StoreType
  <2>3. mishaps' \subseteq {"raced", "torn", "blind", "unsaved"}
    BY <1>3, <2>1 DEF StoreType
  <2>4. StoreType'
    BY <1>1, <1>2, <2>1, <2>2, <2>3 DEF StoreType
  <2>5. file.torn => mtime' # "same"
    BY <1>5 DEF SaveFails, StoreInv, MtimeRead
  <2> QED BY <1>2, <2>1, <2>4, <2>5
<1> QED BY <1>2, <1>4, <1>5

\* Where the call means to leave the key as it writes it, nothing is lost.
LEMMA WriteRight ==
  ASSUME StoreType, StoreInv, NEW k \in Keys, NEW row \in Row, NEW meant \in Row,
         NEW looked \in BOOLEAN, Write(k, row, meant, looked),
         mishaps = {} /\ (IF looked THEN Read ELSE store) = want => row = meant
  PROVE  /\ StoreType' /\ StoreInv' /\ SightInv'
         /\ want' = [want EXCEPT ![k] = meant]
         /\ mishaps' = {} => mishaps = {}
         /\ file'.torn => file.torn
<1>1. mishaps' = {} => store' = want' /\ file'.rows = want' /\ mishaps = {}
  BY WriteStore
<1> QED BY <1>1, WriteStore DEF StoreInv, SightInv

LEMMA FreshRow == Fresh \in Row /\ Fresh.last = Never /\ Fresh.on = TRUE
BY DEF Fresh, Row, Task

LEMMA ToggledRow ==
  ASSUME NEW row \in Row
  PROVE  /\ Toggled(row) \in Row /\ (row = Absent => Toggled(row) = Absent)
         /\ row # Absent => Toggled(row).last = row.last
BY DEF Toggled, Row, Task

\* A write into which an edit falls is a mishap.
LEMMA RacedWrite ==
  ASSUME StoreType, NEW k \in Keys, NEW row \in Row, NEW meant \in Row, NEW looked \in BOOLEAN,
         NEW edited \in Keys, NEW new \in Row, WriteRaced(k, row, meant, looked, edited, new)
  PROVE  StoreType' /\ mishaps' # {} /\ ~ file'.torn
<1> DEFINE rows == [(IF looked THEN Read ELSE store) EXCEPT ![k] = row]
           wanted == [want EXCEPT ![k] = meant]
<1>1. rows \in Table /\ wanted \in Table
  BY ReadType DEF StoreType, Table
<1>2. /\ store' = rows /\ recent' = (recent \/ looked)
      /\ SaveRaced(rows, wanted, edited, new, Harm(looked))
  BY DEF WriteRaced
<1>3. Harm(looked) \subseteq {"torn", "blind"}
  BY DEF Harm
<1> HIDE DEF rows, wanted
<1>4. /\ edits > 0 /\ edits' = edits - 1 /\ fails' = fails /\ mtime' = "same"
      /\ mishaps' = mishaps \cup Harm(looked) \cup {"raced"}
      /\ file' = [rows |-> rows, torn |-> FALSE]
           \/ file' = [rows |-> [rows EXCEPT ![edited] = new], torn |-> FALSE]
      /\ want' = [wanted EXCEPT ![edited] = new]
  BY <1>2 DEF SaveRaced, Overwritten, Hidden
<1>5. [rows EXCEPT ![edited] = new] \in Table /\ [wanted EXCEPT ![edited] = new] \in Table
  BY <1>1 DEF Table
<1>6. edits' \in Nat /\ fails' \in Nat /\ file' \in [rows : Table, torn : BOOLEAN] /\ ~ file'.torn
  <2>1. PICK left \in Table : file' = [rows |-> left, torn |-> FALSE]
    BY <1>1, <1>4, <1>5
  <2>2. file' \in [rows : Table, torn : BOOLEAN] /\ ~ file'.torn
    BY <2>1
  <2> QED BY <1>4, <2>2 DEF StoreType
<1>7. recent' \in BOOLEAN
  BY <1>2 DEF StoreType
<1> QED BY <1>1, <1>2, <1>3, <1>4, <1>5, <1>6, <1>7 DEF StoreType

\* An edit of the file leaves a row, marked as before or not at all.
LEMMA EditRows ==
  ASSUME NEW row \in Row, NEW new \in EditedRows(row)
  PROVE  /\ new \in Row
         /\ new = Absent \/ new.last = Never \/ (row # Absent /\ new.last = row.last)
BY FreshRow, ToggledRow DEF EditedRows, Row

LEMMA PutRight ==
  ASSUME StoreType, StoreInv, NEW k \in Keys, NEW row \in Row, NEW meant \in Row,
         NEW looked \in BOOLEAN, Put(k, row, meant, looked),
         mishaps = {} /\ (IF looked THEN Read ELSE store) = want => row = meant
  PROVE  /\ StoreType' /\ StoreInv' /\ SightInv'
         /\ mishaps' = {} => mishaps = {} /\ want' = [want EXCEPT ![k] = meant]
         /\ file'.torn => file.torn
<1>1. CASE Write(k, row, meant, looked)
  BY <1>1, WriteRight
<1>2. ASSUME NEW edited \in Keys, NEW new \in EditedRows(file.rows[edited]),
             WriteRaced(k, row, meant, looked, edited, new)
      PROVE  StoreType' /\ mishaps' # {} /\ ~ file'.torn
  <2>1. new \in Row
    BY <1>2, EditRows DEF StoreType, Table
  <2> QED BY <1>2, <2>1, RacedWrite
<1>3. CASE StoreType' /\ mishaps' # {} /\ ~ file'.torn
  BY <1>3 DEF StoreInv, SightInv
<1> QED BY <1>1, <1>2, <1>3 DEF Put

LEMMA ReadRight ==
  ASSUME StoreType, StoreInv, SightInv, MissInv, JustRead,
         again \subseteq again', touched \subseteq touched'
  PROVE  /\ StoreType' /\ StoreInv' /\ SightInv' /\ UNCHANGED <<file, want, mishaps>>
         /\ store' = Read
<1>1. /\ StoreType' /\ StoreInv' /\ store' = Read
      /\ file' = file /\ want' = want /\ mishaps' = mishaps
  BY JustReadStore
<1>2. ASSUME mishaps = {}, NEW t \in Keys
      PROVE  /\ t \in again' \/ Read[t] \in {Absent, want[t]}
             /\ t \in touched' \/ Read[t] = want[t]
  BY <1>2, ReadSight
<1>3. SightInv'
  BY <1>1, <1>2 DEF SightInv
<1> QED BY <1>1, <1>3

-----------------------------------------------------------------------------
(* Steps that leave the loop where it is                                   *)

\* The row of a task is as it was, or gone, or new; or changed and marked as before.
Changed(t) ==
  \/ want'[t] = want[t]
  \/ /\ t \in touched'
     /\ \/ want'[t] = Absent
        \/ want[t] # Absent /\ want'[t].last = want[t].last
        \/ t \in again' /\ want'[t].last = Never
Calm ==
  /\ now' = now /\ UNCHANGED <<cur, batch, checked, since, runs, overran>>
  /\ pc' = "run" => pc = "run"
  /\ again \subseteq again' /\ touched \subseteq touched'
  /\ mishaps' = {} => mishaps = {} /\ \A t \in Keys : Changed(t)
  /\ file'.torn => touched' = Keys

LEMMA CalmStep ==
  ASSUME TypeOK, OnceInv, MarkInv, MissInv, Calm, want' \in Table
  PROVE  OnceInv' /\ MarkInv' /\ MissInv'
<1>f. Fixed \subseteq Keys
  BY SchedulerAssumption DEF SchedulerAssumption
<1>1. OnceInv'
  BY <1>f DEF Calm, Changed, OnceInv, RanToday
<1>2. MarkInv'
  BY <1>f DEF Calm, Changed, MarkInv, RanToday
<1>3. MissInv'
  BY <1>f DEF Calm, Changed, MissInv, Missed, Hour
<1> QED BY <1>1, <1>2, <1>3

\* Types of what such a step may change.
LEMMA CalmType ==
  ASSUME TypeOK, StoreType', now' = now, UNCHANGED <<cur, batch, checked, since, runs, overran>>,
         pc' = pc \/ (pc # "run" /\ pc' \in {"sleep", "busy", "down"}),
         ops' \in Nat, crashes' \in Nat, touched' \subseteq Keys, again' \subseteq Keys
  PROVE  TypeOK'
BY DEF TypeOK, LoopType

LEMMA CallsStep ==
  ASSUME Inv, NEW t \in Keys, Add(t) \/ Toggle(t) \/ Delete(t)
  PROVE  Inv'
<1>t. /\ TypeOK /\ StoreType /\ StoreInv /\ SightInv /\ want \in Table /\ want[t] \in Row /\ Read[t] \in Row
      /\ MissInv /\ OnceInv /\ MarkInv
  BY ReadType DEF Inv, TypeOK, StoreType, Table
<1>c. /\ now' = now /\ UNCHANGED loopVars /\ touched' = touched \cup {t} /\ crashes' = crashes
      /\ ops' = ops - 1 /\ ops > 0
  BY DEF Add, Toggle, Delete, Call
<1>o. /\ UNCHANGED <<cur, batch, checked, since, runs, overran>> /\ pc' = pc
      /\ ops' \in Nat /\ crashes' \in Nat /\ touched' \subseteq Keys
  BY <1>t, <1>c DEF loopVars, TypeOK, LoopType
<1>a. Absent \in Row
  BY DEF Row
<1>1. ASSUME NEW row \in Row, NEW meant \in Row, NEW looked \in BOOLEAN,
             Put(t, row, meant, looked),
             mishaps = {} /\ (IF looked THEN Read ELSE store) = want => row = meant,
             again \subseteq again', again' \subseteq Keys,
             \/ meant = Absent
             \/ want[t] # Absent /\ meant.last = want[t].last
             \/ t \in again' /\ meant.last = Never
      PROVE  Inv'
  <2>1. /\ StoreType' /\ StoreInv' /\ SightInv'
        /\ mishaps' = {} => mishaps = {} /\ want' = [want EXCEPT ![t] = meant]
        /\ file'.torn => file.torn
    BY <1>t, <1>1, PutRight
  <2>2. TypeOK'
    BY <1>t, <1>c, <1>o, <1>1, <2>1, CalmType
  <2>3. mishaps' = {} => \A s \in Keys : Changed(s)
    BY <1>t, <1>c, <1>1, <2>1 DEF Changed, Table
  <2>4. want' \in Table /\ (file'.torn => touched' = Keys)
    BY <1>t, <1>c, <2>1 DEF StoreType, MissInv
  <2>5. Calm
    BY <1>c, <1>o, <1>1, <2>1, <2>3, <2>4 DEF Calm
  <2> QED BY <1>t, <2>1, <2>2, <2>4, <2>5, CalmStep DEF Inv
<1>k. again \subseteq Keys
  BY <1>t DEF TypeOK, LoopType
<1>2. CASE Add(t)
  <2>1. PICK looked \in BOOLEAN : Put(t, Fresh, Fresh, looked)
    BY <1>2 DEF Add
  <2>2. again' = again \cup {t}
    BY <1>2 DEF Add
  <2> QED BY <1>1, <1>k, <2>1, <2>2, FreshRow
<1>3. CASE Toggle(t)
  <2>1. /\ Put(t, Toggled(Read[t]), Toggled(want[t]), TRUE) /\ again' = again
        /\ Toggled(Read[t]) \in Row /\ Toggled(want[t]) \in Row
        /\ Toggled(want[t]) = Absent \/ (want[t] # Absent /\ Toggled(want[t]).last = want[t].last)
    BY <1>t, <1>3, ToggledRow DEF Toggle
  <2> QED BY <1>1, <1>k, <2>1
<1>4. CASE Delete(t)
  <2>1. (\E looked \in BOOLEAN : Put(t, Absent, Absent, looked)) /\ again' = again
    BY <1>4 DEF Delete
  <2> QED BY <1>1, <1>a, <1>k, <2>1
<1> QED BY <1>2, <1>3, <1>4

LEMMA ReadsStep ==
  ASSUME Inv, List \/ Rest
  PROVE  Inv'
<1>t. /\ TypeOK /\ StoreType /\ StoreInv /\ SightInv /\ MissInv /\ OnceInv /\ MarkInv
  BY DEF Inv, TypeOK
<1>1. /\ now' = now /\ UNCHANGED <<cur, batch, checked, since, runs, overran>>
      /\ pc' = pc \/ (pc = "busy" /\ pc' = "sleep")
      /\ UNCHANGED <<again, touched, ops, crashes>>
  BY DEF List, Rest, loopVars, bounds
<1>2. StoreType' /\ StoreInv' /\ SightInv' /\ UNCHANGED <<file, want, mishaps>>
  <2>1. CASE List
    BY <1>t, <1>1, <2>1, ReadRight DEF List
  <2>2. CASE Rest
    <3>1. UNCHANGED <<store, file, mtime, recent, edits, fails, want, mishaps>>
      BY <2>2 DEF Rest, storeVars
    <3> QED BY <1>t, <1>1, <3>1 DEF StoreType, StoreInv, SightInv
  <2> QED BY <2>1, <2>2
<1>3. TypeOK'
  BY <1>t, <1>1, <1>2, CalmType DEF TypeOK, LoopType
<1>4. Calm
  BY <1>t, <1>1, <1>2 DEF Calm, Changed, MissInv
<1>5. want' \in Table
  BY <1>2 DEF StoreType
<1> QED BY <1>t, <1>2, <1>3, <1>4, <1>5, CalmStep DEF Inv

LEMMA OutsideStep ==
  ASSUME Inv, Outside \/ \E t \in Keys : \E row \in EditedRows(file.rows[t]) : ListRaced(t, row)
  PROVE  Inv'
<1>t. /\ TypeOK /\ StoreType /\ StoreInv /\ SightInv /\ MissInv /\ OnceInv /\ MarkInv
      /\ want \in Table /\ file.rows \in Table /\ touched \subseteq Keys /\ again \subseteq Keys
  BY DEF Inv, TypeOK, StoreType, LoopType
<1>o. /\ now' = now /\ UNCHANGED <<cur, batch, checked, since, runs, overran>> /\ pc' = pc
      /\ UNCHANGED <<ops, crashes>>
  BY DEF Outside, ListRaced, loopVars, bounds
<1>q. ASSUME StoreType', StoreInv', SightInv', Calm, touched' \subseteq Keys, again' \subseteq Keys
      PROVE  Inv'
  <2>1. TypeOK'
    BY <1>t, <1>o, <1>q, CalmType DEF TypeOK, LoopType
  <2>2. want' \in Table
    BY <1>q DEF StoreType
  <2> QED BY <1>t, <1>q, <2>1, <2>2, CalmStep DEF Inv
<1>1. ASSUME NEW t \in Keys, NEW row \in EditedRows(file.rows[t]), Edit(t, row),
             again' = again \cup {t},
             touched' = IF file'.torn THEN Keys ELSE touched \cup {t}
      PROVE  Inv'
  <2>1. PICK torn \in BOOLEAN, age \in {"newer", "older"} :
          /\ file' = [rows |-> [file.rows EXCEPT ![t] = row], torn |-> torn] /\ mtime' = age
    BY <1>1 DEF Edit
  <2>2. /\ want' = [want EXCEPT ![t] = row] /\ UNCHANGED <<store, recent, fails, mishaps>>
        /\ edits' = edits - 1 /\ edits > 0
    BY <1>1 DEF Edit
  <2>3. /\ row \in Row
        /\ row = Absent \/ row.last = Never \/ (file.rows[t] # Absent /\ row.last = file.rows[t].last)
    BY <1>t, <1>1, EditRows DEF Table
  <2>4. StoreType'
    BY <1>t, <2>1, <2>2, <2>3 DEF StoreType, Table
  <2>5. StoreInv'
    BY <1>t, <2>1, <2>2 DEF StoreInv
  <2>6. SightInv'
    BY <1>t, <1>1, <2>1, <2>2 DEF SightInv, StoreInv, Table
  <2>7. mishaps = {} => \A s \in Keys : Changed(s)
    BY <1>t, <1>1, <2>2, <2>3 DEF Changed, StoreInv, Table
  <2>8. Calm
    BY <1>t, <1>o, <1>1, <2>2, <2>7 DEF Calm
  <2> QED BY <1>t, <1>q, <1>1, <2>4, <2>5, <2>6, <2>8
<1>2. CASE EditDone /\ touched' = Keys /\ UNCHANGED again
  <2>1. /\ file' = [file EXCEPT !.torn = FALSE] /\ mtime' = "newer"
        /\ UNCHANGED <<store, recent, edits, fails, want, mishaps>>
    BY <1>2 DEF EditDone
  <2>2. StoreType' /\ StoreInv'
    BY <1>t, <2>1 DEF StoreType, StoreInv
  <2>3. SightInv'
    BY <1>t, <1>2, <2>1 DEF SightInv, StoreInv, Table
  <2>4. Calm
    BY <1>t, <1>o, <1>2, <2>1 DEF Calm, Changed
  <2> QED BY <1>t, <1>q, <1>2, <2>2, <2>3, <2>4
<1>3. CASE Second /\ UNCHANGED <<touched, again>>
  <2>1. recent' = FALSE /\ UNCHANGED <<store, file, mtime, edits, fails, want, mishaps>>
    BY <1>3 DEF Second
  <2>2. StoreType' /\ StoreInv' /\ SightInv'
    BY <1>t, <2>1 DEF StoreType, StoreInv, SightInv
  <2>3. Calm
    BY <1>t, <1>o, <1>3, <2>1 DEF Calm, Changed, MissInv
  <2> QED BY <1>t, <1>q, <1>3, <2>2, <2>3
<1>4. ASSUME NEW t \in Keys, NEW row \in EditedRows(file.rows[t]), ListRaced(t, row)
      PROVE  Inv'
  <2>1. /\ store' = file.rows /\ mtime' = "same" /\ recent' = TRUE
        /\ file' = [rows |-> [file.rows EXCEPT ![t] = row], torn |-> FALSE]
        /\ want' = [want EXCEPT ![t] = row] /\ mishaps' = mishaps \cup {"raced"}
        /\ fails' = fails /\ edits > 0 /\ edits' = edits - 1
        /\ touched' = touched \cup {t} /\ again' = again \cup {t}
    BY <1>4 DEF ListRaced, ReadRaced, Hidden
  <2>2. row \in Row
    BY <1>t, <1>4, EditRows DEF Table
  <2>3. StoreType' /\ StoreInv' /\ SightInv'
    BY <1>t, <2>1, <2>2 DEF StoreType, StoreInv, SightInv, Table
  <2>4. Calm
    BY <1>t, <1>o, <2>1 DEF Calm
  <2> QED BY <1>t, <1>q, <2>1, <2>3, <2>4
<1> QED BY <1>1, <1>2, <1>3, <1>4 DEF Outside

\* A start puts the missing defaults back; of a file that is being written it sees none.
LEMMA BootStep ==
  ASSUME Inv, Boot
  PROVE  Inv'
<1> DEFINE missing == {t \in Defaults : Loaded[t] = Absent}
           rows == [t \in Keys |-> IF t \in missing THEN Fresh ELSE Loaded[t]]
           meant == [t \in Keys |-> IF t \in missing THEN Fresh ELSE want[t]]
           loaded == IF file.torn THEN mtime ELSE "same"
           harm == IF file.torn THEN {"torn"} ELSE {}
<1>t. /\ TypeOK /\ StoreType /\ StoreInv /\ SightInv /\ MissInv /\ OnceInv /\ MarkInv
      /\ want \in Table /\ file.rows \in Table /\ touched \subseteq Keys /\ again \subseteq Keys
      /\ Loaded \in Table
  BY ReadType DEF Inv, TypeOK, StoreType, LoopType
<1>o. /\ now' = now /\ UNCHANGED <<cur, batch, checked, since, runs, overran>>
      /\ pc = "down" /\ pc' = "sleep"
      /\ UNCHANGED <<ops, crashes>>
  BY DEF Boot, bounds
<1>1. /\ store' = rows /\ recent' = TRUE
      /\ touched' = touched \cup missing /\ again' = again \cup missing
      /\ \/ /\ IF missing = {} THEN mtime' = loaded /\ UNCHANGED <<file, mishaps, fails>>
              ELSE Saved(rows, harm) \/ SaveFails(loaded, harm)
            /\ want' = meant /\ edits' = edits
         \/ \E k \in Keys : \E new \in EditedRows(file.rows[k]) :
               Overwritten(rows, meant, k, new, harm) \/ Hidden(rows, meant, k, new, harm)
  BY DEF Boot, SaveRaced
<1>2. missing \subseteq Keys /\ harm \subseteq {"torn"} /\ loaded \in {"same", "newer", "older"}
      /\ (file.torn => loaded # "same")
  BY <1>t, SchedulerAssumption DEF SchedulerAssumption, StoreType, StoreInv
<1>3. rows \in Table /\ meant \in Table
  BY <1>t, FreshRow DEF Table
<1>4. ~ file.torn /\ mishaps = {} => rows = meant
  BY <1>t DEF StoreInv, Loaded, Table
<1>5. missing = {} => meant = want
  BY <1>t DEF Table
<1>6. file.torn => touched = Keys /\ \A t \in Keys : Loaded[t] = Absent
  BY <1>t DEF Loaded, Nothing, MissInv
<1>7. \A t \in Keys : /\ rows[t] = (IF t \in missing THEN Fresh ELSE Loaded[t])
                     /\ meant[t] = (IF t \in missing THEN Fresh ELSE want[t])
  OBVIOUS
<1> HIDE DEF missing, rows, meant, loaded, harm
<1>8. /\ mishaps \subseteq mishaps'
      /\ mishaps' \subseteq {"raced", "torn", "blind", "unsaved"}
      /\ fails' \in Nat /\ mtime' \in {"same", "newer", "older"}
      /\ edits' \in Nat /\ want' \in Table /\ file' \in [rows : Table, torn : BOOLEAN]
      /\ file'.torn => file.torn /\ mtime' # "same"
      /\ mishaps' = {} => /\ want' = meant /\ file'.rows = want'
                          /\ mtime' = "same" => store' = want'
  <2> DEFINE Plain == want' = meant /\ edits' = edits
  <2>1. CASE Plain /\ missing = {} /\ mtime' = loaded /\ UNCHANGED <<file, mishaps, fails>>
    <3>1. mishaps = {} /\ mtime' = "same" => ~ file.torn
      BY <1>1, <1>2, <2>1
    <3> QED BY <1>t, <1>1, <1>2, <1>3, <1>4, <1>5, <2>1, <3>1 DEF StoreType, StoreInv
  <2>2. CASE Plain /\ Saved(rows, harm)
    <3>1. /\ file' = [rows |-> rows, torn |-> FALSE] /\ mtime' = "same" /\ fails' = fails
          /\ mishaps' = mishaps \cup harm
      BY <2>2 DEF Saved
    <3>2. mishaps' = {} => mishaps = {} /\ ~ file.torn
      BY <3>1 DEF harm
    <3> QED BY <1>t, <1>1, <1>2, <1>3, <1>4, <2>2, <3>1, <3>2 DEF StoreType
  <2>3. CASE Plain /\ SaveFails(loaded, harm)
    <3>1. /\ file' = file /\ mtime' = loaded /\ fails > 0 /\ fails' = fails - 1
          /\ mishaps' = mishaps \cup harm \cup {"unsaved"}
      BY <2>3 DEF SaveFails
    <3>2. mishaps' # {} /\ mishaps \subseteq mishaps' /\ mishaps' \subseteq {"raced", "torn", "blind", "unsaved"}
      BY <1>t, <1>2, <3>1 DEF StoreType
    <3> QED BY <1>t, <1>2, <1>3, <2>3, <3>1, <3>2 DEF StoreType
  <2>4. ASSUME NEW k \in Keys, NEW new \in EditedRows(file.rows[k]),
               Overwritten(rows, meant, k, new, harm) \/ Hidden(rows, meant, k, new, harm)
        PROVE  <1>8!:
    <3>1. /\ edits > 0 /\ edits' = edits - 1 /\ fails' = fails /\ mtime' = "same"
          /\ mishaps' = mishaps \cup harm \cup {"raced"}
          /\ file' = [rows |-> rows, torn |-> FALSE]
               \/ file' = [rows |-> [rows EXCEPT ![k] = new], torn |-> FALSE]
          /\ want' = [meant EXCEPT ![k] = new]
      BY <2>4 DEF Overwritten, Hidden
    <3>2. new \in Row
      BY <1>t, <2>4, EditRows DEF Table
    <3>3. [rows EXCEPT ![k] = new] \in Table /\ want' \in Table
      BY <1>3, <3>1, <3>2 DEF Table
    <3>4. edits' \in Nat /\ fails' \in Nat /\ file' \in [rows : Table, torn : BOOLEAN] /\ ~ file'.torn
      <4>1. PICK left \in Table : file' = [rows |-> left, torn |-> FALSE]
        BY <1>3, <3>1, <3>3
      <4>2. file' \in [rows : Table, torn : BOOLEAN] /\ ~ file'.torn
        BY <4>1
      <4> QED BY <1>t, <3>1, <4>2 DEF StoreType
    <3>5. mishaps' # {} /\ mishaps \subseteq mishaps' /\ mishaps' \subseteq {"raced", "torn", "blind", "unsaved"}
      BY <1>t, <1>2, <3>1 DEF StoreType
    <3> QED BY <3>1, <3>3, <3>4, <3>5
  <2> QED BY <1>1, <2>1, <2>2, <2>3, <2>4
<1>9. StoreType' /\ StoreInv'
  BY <1>1, <1>3, <1>8 DEF StoreType, StoreInv
<1>10. SightInv'
  <2> SUFFICES ASSUME mishaps' = {}, NEW t \in Keys
               PROVE  /\ t \in again' \/ store'[t] \in {Absent, want'[t]}
                      /\ t \in touched' \/ store'[t] = want'[t]
    BY DEF SightInv
  <2>1. CASE file.torn
    BY <1>1, <1>6, <1>7, <1>8, <2>1
  <2>2. CASE ~ file.torn
    BY <1>1, <1>4, <1>8, <2>2
  <2> QED BY <2>1, <2>2
<1>11. mishaps' = {} => \A t \in Keys : Changed(t)
  BY <1>1, <1>7, <1>8, FreshRow DEF Changed
<1>12. Calm
  <2>1. mishaps' = {} => mishaps = {}
    BY <1>8
  <2>2. file'.torn => touched' = Keys
    BY <1>1, <1>2, <1>6, <1>8
  <2>3. again \subseteq again' /\ touched \subseteq touched'
    BY <1>1
  <2> QED BY <1>o, <1>11, <2>1, <2>2, <2>3 DEF Calm
<1>13. TypeOK'
  <2>1. touched' \subseteq Keys /\ again' \subseteq Keys
    BY <1>t, <1>1, <1>2
  <2> QED BY <1>t, <1>o, <1>9, <2>1, CalmType DEF TypeOK, LoopType
<1> QED BY <1>t, <1>8, <1>9, <1>10, <1>12, <1>13, CalmStep DEF Inv

-----------------------------------------------------------------------------
(* Crashes and the hours                                                   *)

LEMMA CrashStep ==
  ASSUME Inv, Crash
  PROVE  Inv'
<1>t. /\ TypeOK /\ StoreType /\ StoreInv /\ SightInv /\ MissInv /\ OnceInv /\ MarkInv
  BY DEF Inv, TypeOK
<1>1. /\ UNCHANGED <<store, file, mtime, recent, edits, fails, want, mishaps>>
      /\ UNCHANGED <<now, since, runs, overran, ops, touched>>
      /\ pc' = "down" /\ cur' = None /\ batch' = {} /\ checked' = FALSE
      /\ again' = again \cup ({cur} \ {None}) /\ crashes > 0 /\ crashes' = crashes - 1
  BY DEF Crash, storeVars
<1>2. StoreType' /\ StoreInv' /\ SightInv' /\ MissInv'
  BY <1>t, <1>1 DEF StoreType, StoreInv, SightInv, MissInv
<1>3. TypeOK'
  <2>1. again' \subseteq Keys /\ crashes' \in Nat
    BY <1>t, <1>1 DEF TypeOK, LoopType
  <2> QED BY <1>t, <1>1, <1>2, <2>1 DEF TypeOK, LoopType
<1>4. OnceInv'
  <2>1. \A t \in Fixed \ again' : t \in Fixed \ again /\ (t = cur => cur = None)
    BY <1>1
  <2>2. \A t \in Fixed : t # None
    BY SchedulerAssumption DEF SchedulerAssumption
  <2>3. \A t \in Fixed \ again' : t # cur
    BY <2>1, <2>2
  <2> QED BY <1>t, <1>1, <2>1, <2>3 DEF OnceInv, RanToday
<1>5. MarkInv'
  BY <1>t, <1>1 DEF MarkInv, RanToday
<1> QED BY <1>2, <1>3, <1>4, <1>5 DEF Inv

LEMMA Division ==
  ASSUME NEW d \in Nat \ {0}, NEW x \in Nat
  PROVE  /\ x \div d \in Nat /\ x % d \in 0 .. d - 1
         /\ x = d * (x \div d) + (x % d)
<1>1. x \div d \in Int /\ x % d \in 0 .. d - 1
  OBVIOUS
<1>2. x = d * (x \div d) + (x % d)
  OBVIOUS
<1>3. ASSUME NEW q \in Int, NEW r \in 0 .. d - 1, x = d * q + r
      PROVE  q \in Nat
  <2>1. SUFFICES ASSUME q <= -1 PROVE FALSE
    OBVIOUS
  <2>2. PICK c \in Nat : q = -1 - c
    <3>1. -1 - q \in Nat /\ q = -1 - (-1 - q)
      BY <2>1
    <3> QED BY <3>1
  <2>3. d * q = 0 - d - d * c
    BY <2>2
  <2>4. d * c \in Nat
    OBVIOUS
  <2> QED BY <1>3, <2>3, <2>4
<1> QED BY <1>1, <1>2, <1>3

\* The quotient grows with the dividend.
LEMMA DivisionOrder ==
  ASSUME NEW d \in Nat \ {0}, NEW a \in Nat, NEW b \in Nat,
         NEW r \in 0 .. d - 1, NEW s \in 0 .. d - 1, d * a + r <= d * b + s
  PROVE  a <= b
<1>1. SUFFICES ASSUME a >= b + 1 PROVE FALSE
  OBVIOUS
<1>2. PICK c \in Nat : a = b + 1 + c
  <2>1. a - b - 1 \in Nat /\ a = b + 1 + (a - b - 1)
    BY <1>1
  <2> QED BY <2>1
<1>3. d * a = d * b + d + d * c
  BY <1>2
<1>4. d * c \in Nat /\ d * b \in Nat
  OBVIOUS
<1> QED BY <1>3, <1>4

\* Days follow each other.
LEMMA DaysPass ==
  ASSUME NEW s \in Nat, NEW t \in Nat, s <= t
  PROVE  Day(s) \in Nat /\ Day(t) \in Nat /\ Day(s) <= Day(t)
<1>1. DayLen \in Nat \ {0}
  BY SchedulerAssumption DEF SchedulerAssumption
<1>2. /\ Day(s) \in Nat /\ s % DayLen \in 0 .. DayLen - 1 /\ s = DayLen * Day(s) + (s % DayLen)
      /\ Day(t) \in Nat /\ t % DayLen \in 0 .. DayLen - 1 /\ t = DayLen * Day(t) + (t % DayLen)
  BY <1>1, Division DEF Day
<1>3. \A x, y \in 0 .. DayLen - 1 :
        s = DayLen * Day(s) + x /\ t = DayLen * Day(t) + y => Day(s) <= Day(t)
  BY <1>1, <1>2, DivisionOrder
<1> QED BY <1>2, <1>3

LEMMA TickStep ==
  ASSUME Inv, Tick
  PROVE  Inv'
<1>t. /\ TypeOK /\ StoreType /\ LoopType /\ StoreInv /\ SightInv /\ MissInv /\ OnceInv /\ MarkInv
      /\ now \in Nat /\ since \in 0 .. now /\ Fixed \subseteq Keys
  BY SchedulerAssumption DEF Inv, TypeOK, LoopType, SchedulerAssumption
<1>1. /\ UNCHANGED <<store, file, mtime, edits, fails, want, mishaps>>
      /\ UNCHANGED <<pc, cur, batch, since, ops, crashes>>
      /\ now' = now + 1 /\ checked' = FALSE /\ recent' = FALSE
      /\ touched' = (IF file.torn THEN Keys ELSE {})
      /\ IF Day(now + 1) = Day(now) THEN UNCHANGED <<runs, again, overran>>
         ELSE runs' = [t \in Keys |-> 0] /\ again' = {} /\ overran' = {}
  BY DEF Tick, bounds
<1>2. StoreType' /\ StoreInv'
  BY <1>t, <1>1 DEF StoreType, StoreInv
<1>3. SightInv'
  BY <1>t, <1>1 DEF SightInv, StoreInv
<1>4. MissInv'
  BY <1>1 DEF MissInv
<1>5. TypeOK'
  <2>1. now' \in Nat /\ since' \in 0 .. now' /\ runs' \in [Keys -> Nat]
    BY <1>t, <1>1 DEF LoopType
  <2>2. touched' \subseteq Keys /\ again' \subseteq Keys /\ overran' \subseteq Keys
    BY <1>t, <1>1 DEF LoopType
  <2> QED BY <1>t, <1>1, <1>2, <2>1, <2>2 DEF TypeOK, LoopType
<1>6. CASE Day(now + 1) = Day(now)
  <2>2. UNCHANGED <<runs, again, overran>> /\ Day(now') = Day(now)
    BY <1>1, <1>6
  <2>3. OnceInv'
    BY <1>t, <1>1, <2>2 DEF OnceInv, RanToday
  <2>4. MarkInv'
    <3>1. pc' = "run" /\ Day(since') = Day(now') => runs'[cur'] > 0
      BY <1>t, <1>1, <2>2 DEF MarkInv
    <3>2. ASSUME mishaps' = {}, NEW t \in Keys, want'[t] # Absent, want'[t].last # Never
          PROVE  want'[t].last <= now'
      <4>1. want[t].last \in Nat /\ want[t].last <= now
        BY <1>t, <1>1, <3>2 DEF MarkInv, StoreType, Table, Row, Task
      <4> QED BY <1>t, <1>1, <4>1
    <3>3. ASSUME mishaps' = {}, NEW t \in Fixed, want'[t] # Absent,
                 want'[t].last # Never /\ Day(want'[t].last) = Day(now')
          PROVE  runs'[t] > 0 \/ t \in overran'
      BY <1>t, <1>1, <2>2, <3>3 DEF MarkInv, RanToday
    <3> QED BY <3>1, <3>2, <3>3 DEF MarkInv, RanToday
  <2> QED BY <1>2, <1>3, <1>4, <1>5, <2>3, <2>4 DEF Inv
<1>7. CASE Day(now + 1) # Day(now)
  <2>1. runs' = [t \in Keys |-> 0]
    BY <1>1, <1>7
  <2>2. \A x \in 0 .. now : Day(x) # Day(now')
    <3> TAKE x \in 0 .. now
    <3>1. /\ Day(x) \in Nat /\ Day(now) \in Nat /\ Day(now + 1) \in Nat
          /\ Day(x) <= Day(now) /\ Day(now) <= Day(now + 1)
      BY <1>t, DaysPass
    <3> QED BY <1>1, <1>7, <3>1
  <2>3. OnceInv'
    BY <1>t, <2>1 DEF OnceInv
  <2>4. MarkInv'
    <3>1. ~ (pc' = "run" /\ Day(since') = Day(now'))
      BY <1>t, <1>1, <2>2
    <3>2. ASSUME mishaps' = {}, NEW t \in Keys, want'[t] # Absent, want'[t].last # Never
          PROVE  want'[t].last <= now' /\ Day(want'[t].last) # Day(now')
      <4>1. want[t].last \in Nat /\ want[t].last <= now
        BY <1>t, <1>1, <3>2 DEF MarkInv, StoreType, Table, Row, Task
      <4>2. want'[t].last \in 0 .. now
        BY <1>1, <1>t, <4>1
      <4> QED BY <1>t, <1>1, <2>2, <4>2
    <3> QED BY <1>t, <3>1, <3>2 DEF MarkInv, RanToday
  <2> QED BY <1>2, <1>3, <1>4, <1>5, <2>3, <2>4 DEF Inv
<1> QED BY <1>6, <1>7

-----------------------------------------------------------------------------
(* The loop's own steps                                                    *)

\* The next run of those that are due.
LEMMA RestedRuns ==
  ASSUME LoopType, NEW rest \in SUBSET Keys, Rested(rest)
  PROVE  /\ pc' \in {"run", "busy"} /\ batch' \subseteq rest /\ rest \subseteq batch' \cup {cur'}
         /\ IF pc' = "run" THEN cur' \in rest \ batch' ELSE cur' = None /\ batch' = {}
         /\ pc' = "run" => since' = now
         /\ since' \in 0 .. now /\ runs' \in [Keys -> Nat]
         /\ \A t \in Keys : runs'[t] = IF t = cur' THEN runs[t] + 1 ELSE runs[t]
<1>1. CASE rest = {}
  <2>1. pc' = "busy" /\ cur' = None /\ batch' = {} /\ UNCHANGED <<since, runs>>
    BY <1>1 DEF Rested
  <2>2. None \notin Keys
    BY SchedulerAssumption DEF SchedulerAssumption
  <2> QED BY <1>1, <2>1, <2>2 DEF LoopType
<1>2. CASE rest # {}
  <2>1. PICK t \in rest : Start(t, rest \ {t})
    BY <1>2 DEF Rested
  <2> QED BY <2>1 DEF Start, LoopType
<1> QED BY <1>1, <1>2

LEMMA CheckStep ==
  ASSUME Inv, Check
  PROVE  Inv'
<1> DEFINE due == {t \in Keys : Due(t, store'[t])}
<1>t. /\ TypeOK /\ StoreType /\ LoopType /\ StoreInv /\ SightInv /\ MissInv /\ OnceInv /\ MarkInv
      /\ Fixed \subseteq Keys /\ None \notin Keys
  BY SchedulerAssumption DEF Inv, TypeOK, SchedulerAssumption
<1>1. /\ pc = "sleep" /\ JustRead /\ Rested(due) /\ checked' = TRUE
      /\ UNCHANGED <<now, ops, crashes, touched, again, overran>>
  BY DEF Check, bounds
<1>2. /\ StoreType' /\ StoreInv' /\ SightInv' /\ UNCHANGED <<file, want, mishaps>>
      /\ store' = Read
  BY <1>t, <1>1, ReadRight
<1>3. cur = None /\ batch = {}
  BY <1>t, <1>1 DEF LoopType
<1>4. \A t \in Keys : t \in due <=> Due(t, store'[t])
  OBVIOUS
<1>5. due \subseteq Keys
  OBVIOUS
<1> HIDE DEF due
<1>6. /\ pc' \in {"run", "busy"} /\ batch' \subseteq due /\ due \subseteq batch' \cup {cur'}
      /\ IF pc' = "run" THEN cur' \in due \ batch' ELSE cur' = None /\ batch' = {}
      /\ pc' = "run" => since' = now
      /\ since' \in 0 .. now /\ runs' \in [Keys -> Nat]
      /\ \A t \in Keys : runs'[t] = IF t = cur' THEN runs[t] + 1 ELSE runs[t]
  BY <1>t, <1>1, <1>5, RestedRuns
<1>7. TypeOK'
  BY <1>t, <1>1, <1>2, <1>5, <1>6 DEF TypeOK, LoopType
<1>8. \A t \in Keys : runs[t] \in Nat
  BY <1>t DEF LoopType
<1>9. OnceInv'
  <2> SUFFICES ASSUME mishaps = {}, NEW t \in Fixed \ again
               PROVE  /\ t \in batch' => runs'[t] = 0
                      /\ runs'[t] <= 1
                      /\ runs'[t] = 1 => t = cur' \/ want[t] = Absent \/ RanToday(want[t].last)
    BY <1>1, <1>2 DEF OnceInv, RanToday
  <2>1. t \in Keys /\ t # None
    BY <1>t
  <2>2. runs[t] \in Nat /\ runs[t] <= 1
        /\ (runs[t] = 1 => want[t] = Absent \/ RanToday(want[t].last))
    BY <1>t, <1>3, <1>8, <2>1 DEF OnceInv
  <2>3. Read[t] \in {Absent, want[t]}
    BY <1>t, <2>1, ReadSight
  <2>4. ASSUME t \in due PROVE runs[t] = 0
    <3>1. store'[t] # Absent /\ ~ RanToday(store'[t].last)
      BY <1>4, <2>1, <2>4 DEF Due
    <3>2. want[t] # Absent /\ ~ RanToday(want[t].last)
      BY <1>2, <2>3, <3>1
    <3> QED BY <2>2, <3>2
  <2>5. CASE t = cur'
    BY <1>6, <2>1, <2>4, <2>5
  <2>6. CASE t # cur'
    BY <1>6, <2>1, <2>2, <2>4, <2>6
  <2> QED BY <2>5, <2>6
<1>10. MarkInv'
  BY <1>t, <1>1, <1>2, <1>5, <1>6, <1>8 DEF MarkInv, RanToday
<1>11. MissInv'
  <2> SUFFICES ASSUME mishaps = {}, NEW t \in Fixed, At[t] = Hour, want[t] # Absent, want[t].on,
                      t \notin touched, runs'[t] = 0, t \notin batch', t \notin overran
               PROVE  FALSE
    BY <1>t, <1>1, <1>2 DEF MissInv, Missed, Hour
  <2>1. t \in Keys /\ t # None
    BY <1>t
  <2>2. runs[t] = 0 /\ t # cur'
    BY <1>6, <1>8, <2>1
  <2>3. ~ RanToday(want[t].last)
    BY <1>t, <2>2 DEF MarkInv
  <2>4. store'[t] = want[t]
    BY <1>t, <1>2, <2>1, ReadSight
  <2>5. t \in due
    BY <1>4, <2>1, <2>3, <2>4 DEF Due
  <2> QED BY <1>6, <2>2, <2>5
<1> QED BY <1>2, <1>7, <1>9, <1>10, <1>11 DEF Inv

\* A mark changes a row's time only.
LEMMA MarkedRow ==
  ASSUME TypeOK, NEW row \in Row
  PROVE  /\ Marked(row) \in Row /\ (row = Absent => Marked(row) = Absent)
         /\ row # Absent => Marked(row).last = now /\ (Marked(row).on <=> row.on)
BY DEF TypeOK, LoopType, Marked, Row, Task

LEMMA FinishStep ==
  ASSUME Inv, Finish
  PROVE  Inv'
<1>t. /\ TypeOK /\ StoreType /\ LoopType /\ StoreInv /\ SightInv /\ MissInv /\ OnceInv /\ MarkInv
      /\ Fixed \subseteq Keys /\ None \notin Keys /\ Read \in Table /\ want \in Table
  BY SchedulerAssumption, ReadType DEF Inv, TypeOK, StoreType, SchedulerAssumption
<1>1. /\ pc = "run" /\ Rested(batch) /\ Mark(cur)
      /\ overran' = (IF Day(since) # Day(now) THEN overran \cup {cur} ELSE overran)
      /\ again' = again \cup (IF Read[cur] = Absent THEN {cur} ELSE {})
      /\ UNCHANGED <<now, checked, ops, crashes, touched>>
  BY DEF Finish, Finished, NotFound, bounds
<1>2. cur \in Keys \ batch /\ batch \subseteq Keys /\ again \subseteq again'
  BY <1>t, <1>1 DEF LoopType
<1>3. /\ pc' \in {"run", "busy"} /\ batch' \subseteq batch /\ batch \subseteq batch' \cup {cur'}
      /\ IF pc' = "run" THEN cur' \in batch \ batch' ELSE cur' = None /\ batch' = {}
      /\ pc' = "run" => since' = now
      /\ since' \in 0 .. now /\ runs' \in [Keys -> Nat]
      /\ \A t \in Keys : runs'[t] = IF t = cur' THEN runs[t] + 1 ELSE runs[t]
  BY <1>t, <1>1, <1>2, RestedRuns
<1>4. /\ StoreType' /\ StoreInv' /\ SightInv' /\ want' \in Table
      /\ mishaps' = {} => mishaps = {}
      /\ file'.torn => file.torn
      /\ mishaps' = {} =>
           /\ \A t \in Keys \ {cur} : want'[t] = want[t]
           /\ \/ want'[cur] = want[cur] /\ cur \in again'
              \/ /\ want'[cur] = Absent \/ want'[cur].last = now
                 /\ want'[cur] # Absent => want[cur] # Absent /\ (want'[cur].on <=> want[cur].on)
  <2>1. CASE Read[cur] = Absent
    <3>1. JustRead /\ cur \in again'
      BY <1>1, <2>1 DEF Mark
    <3>2. /\ StoreType' /\ StoreInv' /\ SightInv' /\ file' = file /\ want' = want
          /\ mishaps' = mishaps
      BY <1>t, <1>1, <1>2, <3>1, ReadRight
    <3> QED BY <1>t, <3>1, <3>2
  <2>2. CASE Read[cur] # Absent
    <3>1. Read[cur] \in Row /\ want[cur] \in Row
      BY <1>t, <1>2 DEF Table
    <3>2. Put(cur, Marked(Read[cur]), Marked(want[cur]), TRUE)
      BY <1>1, <2>2 DEF Mark
    <3>3. Marked(Read[cur]) \in Row /\ Marked(want[cur]) \in Row
      BY <1>t, <3>1, MarkedRow
    <3>4. /\ StoreType' /\ StoreInv' /\ SightInv'
          /\ mishaps' = {} => mishaps = {} /\ want' = [want EXCEPT ![cur] = Marked(want[cur])]
          /\ file'.torn => file.torn
      BY <1>t, <1>2, <3>2, <3>3, PutRight
    <3>5. mishaps' = {} => want'[cur] = Marked(want[cur]) /\ \A t \in Keys \ {cur} : want'[t] = want[t]
      BY <1>t, <1>2, <3>4 DEF Table
    <3>6. want' \in Table
      BY <3>4 DEF StoreType
    <3> QED BY <1>t, <3>1, <3>4, <3>5, <3>6, MarkedRow
  <2> QED BY <2>1, <2>2
<1>5. TypeOK'
  <2>1. again' \subseteq Keys /\ overran' \subseteq Keys /\ overran \subseteq overran'
    BY <1>t, <1>1, <1>2 DEF LoopType
  <2> QED BY <1>t, <1>1, <1>2, <1>3, <1>4, <2>1 DEF TypeOK, LoopType
<1>6. \A t \in Keys : runs[t] \in Nat
  BY <1>t DEF LoopType
<1>7. OnceInv'
  <2> SUFFICES ASSUME mishaps' = {}, NEW t \in Fixed \ again'
               PROVE  /\ t \in batch' => runs'[t] = 0
                      /\ runs'[t] <= 1
                      /\ runs'[t] = 1 =>
                           t = cur' \/ want'[t] = Absent
                             \/ (want'[t].last # Never /\ Day(want'[t].last) = Day(now))
    BY <1>1 DEF OnceInv, RanToday
  <2>1. t \in Keys /\ t \in Fixed \ again /\ mishaps = {} /\ runs[t] \in Nat
    BY <1>t, <1>2, <1>4, <1>6
  <2>2. /\ t \in batch => runs[t] = 0
        /\ runs[t] <= 1
        /\ runs[t] = 1 => t = cur \/ want[t] = Absent \/ RanToday(want[t].last)
    BY <1>t, <2>1 DEF OnceInv
  <2>3. now \in Nat /\ now # Never
    BY <1>t, SchedulerAssumption DEF LoopType, SchedulerAssumption
  <2>4. CASE t = cur'
    BY <1>3, <2>1, <2>2, <2>4, <1>t
  <2>5. CASE t # cur' /\ t = cur
    <3>1. want'[t] = Absent \/ want'[t].last = now
      BY <1>4, <2>5
    <3> QED BY <1>2, <1>3, <2>1, <2>2, <2>3, <2>5, <3>1
  <2>6. CASE t # cur' /\ t # cur
    <3>1. want'[t] = want[t] /\ runs'[t] = runs[t]
      BY <1>3, <1>4, <2>1, <2>6
    <3> QED BY <1>3, <2>1, <2>2, <2>6, <3>1 DEF RanToday
  <2> QED BY <2>4, <2>5, <2>6
<1>8. MarkInv'
  <2>1. pc' = "run" => runs'[cur'] > 0
    BY <1>2, <1>3, <1>6
  <2>2. ASSUME mishaps' = {}, NEW t \in Keys, want'[t] # Absent, want'[t].last # Never
        PROVE  want'[t].last <= now
    <3>1. CASE want'[t] = want[t]
      BY <1>t, <1>4, <2>2, <3>1 DEF MarkInv
    <3>2. CASE want'[t] # want[t]
      BY <1>t, <1>4, <2>2, <3>2 DEF LoopType
    <3> QED BY <3>1, <3>2
  <2>3. ASSUME mishaps' = {}, NEW t \in Fixed, want'[t] # Absent,
               want'[t].last # Never, Day(want'[t].last) = Day(now)
        PROVE  runs'[t] > 0 \/ t \in overran'
    <3>1. t \in Keys /\ runs'[t] >= runs[t] /\ runs[t] \in Nat /\ runs'[t] \in Nat
      BY <1>t, <1>3, <1>6
    <3>2. CASE want'[t] = want[t]
      BY <1>t, <1>1, <1>4, <2>3, <3>1, <3>2 DEF MarkInv, RanToday
    <3>3. CASE want'[t] # want[t]
      <4>1. t = cur
        BY <1>4, <2>3, <3>1, <3>3
      <4> QED BY <1>t, <1>1, <1>4, <2>3, <3>1, <4>1 DEF MarkInv
    <3> QED BY <3>2, <3>3
  <2> QED BY <1>1, <2>1, <2>2, <2>3 DEF MarkInv, RanToday
<1>9. MissInv'
  <2> SUFFICES ASSUME mishaps' = {}, checked, NEW t \in Fixed, At[t] = Hour, want'[t] # Absent,
                      want'[t].on, t \notin touched, runs'[t] = 0, t \notin batch', t \notin overran'
               PROVE  FALSE
    BY <1>t, <1>1, <1>4 DEF MissInv, Missed, Hour
  <2>1. t \in Keys /\ runs[t] \in Nat
    BY <1>t, <1>6
  <2>2. runs[t] = 0 /\ t # cur'
    BY <1>3, <2>1
  <2>3. t \notin batch /\ t \notin overran
    BY <1>1, <1>3, <2>2
  <2>4. want[t] # Absent /\ want[t].on
    BY <1>4, <2>1
  <2> QED BY <1>t, <1>4, <2>2, <2>3, <2>4 DEF MissInv, Missed
<1> QED BY <1>4, <1>5, <1>7, <1>8, <1>9 DEF Inv

LEMMA InitInv == Init => Inv
<1> SUFFICES ASSUME Init PROVE Inv
  OBVIOUS
<1>1. /\ store = [t \in Keys |-> IF t \in Defaults THEN Fresh ELSE Absent] /\ want = store
      /\ file = [rows |-> store, torn |-> FALSE] /\ mtime = "same" /\ recent = FALSE
      /\ edits = MaxEdits /\ fails = MaxFails /\ mishaps = {}
  BY DEF Init, StoreInit
<1>2. /\ now = 0 /\ pc = "sleep" /\ cur = None /\ batch = {} /\ checked = FALSE
      /\ ops = MaxOps /\ crashes = MaxCrashes
      /\ since = 0 /\ runs = [t \in Keys |-> 0]
      /\ touched = {} /\ again = {} /\ overran = {}
  BY DEF Init
<1>3. StoreType
  <2>1. store \in Table
    BY <1>1, FreshRow DEF Table, Row
  <2> QED BY <1>1, <2>1, StoreAssumption DEF StoreType, StoreAssumption
<1>4. LoopType
  <2>1. MaxOps \in Nat /\ MaxCrashes \in Nat
    BY SchedulerAssumption DEF SchedulerAssumption
  <2>2. ops \in Nat /\ crashes \in Nat /\ since \in 0 .. now /\ runs \in [Keys -> Nat]
    BY <1>2, <2>1
  <2> QED BY <1>2, <2>2 DEF LoopType
<1>5. \A t \in Keys : want[t] # Absent => want[t].last = Never
  BY <1>1, FreshRow
<1>6. Fixed \subseteq Keys
  BY SchedulerAssumption DEF SchedulerAssumption
<1> QED BY <1>1, <1>2, <1>3, <1>4, <1>5, <1>6
        DEF Inv, TypeOK, StoreInv, SightInv, OnceInv, MarkInv, MissInv, RanToday

\* The inductive invariant: the types, the store against its file, the loop's sight of it, and
\* what the day's runs and marks say of each other.
THEOREM InvHolds == Spec => []Inv
<1>1. Inv /\ [Next]_vars => Inv'
  <2> SUFFICES ASSUME Inv, [Next]_vars PROVE Inv'
    OBVIOUS
  <2>1. CASE UNCHANGED vars
    <3>1. /\ UNCHANGED <<store, file, mtime, recent, edits, fails, want, mishaps>>
          /\ UNCHANGED <<now, pc, cur, batch, checked, since, runs, overran>>
          /\ UNCHANGED <<ops, crashes, touched, again>>
      BY <2>1 DEF vars, storeVars, loopVars, bounds
    <3> QED BY <3>1 DEF Inv, TypeOK, StoreType, LoopType, StoreInv, SightInv, OnceInv, MarkInv,
                        MissInv, Missed, RanToday, Hour
  <2> QED BY <2>1, CheckStep, FinishStep, ReadsStep, TickStep, OutsideStep, CrashStep, BootStep,
             CallsStep DEF Next
<1> QED BY <1>1, InitInv, PTL DEF Spec

-----------------------------------------------------------------------------
(* The theorems                                                            *)

\* Rows, clock, loop and store keep their types through every interleaving.
THEOREM TypeCorrect == Spec => []TypeOK
<1>1. Inv => TypeOK
  BY DEF Inv
<1> QED BY <1>1, InvHolds, PTL

\* The file is as it is wanted to be: no edit and no call is lost without one of the mishaps
\* NoLostUpdate names, an edit in the middle of a save among them.
THEOREM UpdatesAreKept == Spec => []NoLostUpdate
<1>1. Inv => NoLostUpdate
  BY DEF Inv, StoreInv, NoLostUpdate
<1> QED BY <1>1, InvHolds, PTL

\* What the store believes to have loaded is what the file says, short of the same mishaps.
THEOREM MemoryIsRight == Spec => []MemoryIsFile
<1>1. Inv => MemoryIsFile
  BY DEF Inv, StoreInv, MemoryIsFile
<1> QED BY <1>1, InvHolds, PTL

\* A task with a time of day is started once a day, through calls, edits and restarts.
THEOREM OnceADay == Spec => []RunsOncePerDay
<1>1. Inv => RunsOncePerDay
  BY DEF Inv, OnceInv, RunsOncePerDay
<1> QED BY <1>1, InvHolds, PTL

\* A task that was due and did not run in its hour has one of the known causes.
THEOREM MissesAreExplained == Spec => MissHasCause
<1> DEFINE Caused ==
      now' # now =>
        \A t \in Fixed :
          \/ At[t] # Hour \/ want[t] = Absent \/ (want[t] # Absent /\ ~want[t].on)
          \/ mishaps # {} \/ t \in touched \/ ~checked
          \/ runs[t] > 0 \/ t \in batch \/ t \in overran
<1>1. Inv /\ [Next]_vars => [Caused]_vars
  <2> SUFFICES ASSUME Inv, NEW t \in Fixed, mishaps = {}, checked, ~ Missed(t)
               PROVE  \/ At[t] # Hour \/ want[t] = Absent \/ (want[t] # Absent /\ ~want[t].on)
                      \/ t \in touched \/ runs[t] > 0 \/ t \in batch \/ t \in overran
    BY DEF Inv, MissInv
  <2>1. runs[t] \in Nat
    BY SchedulerAssumption DEF Inv, TypeOK, LoopType, SchedulerAssumption
  <2> QED BY <2>1 DEF Missed
<1> QED BY <1>1, InvHolds, PTL DEF Spec, MissHasCause
=============================================================================
