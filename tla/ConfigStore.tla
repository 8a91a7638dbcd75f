----------------------------- MODULE ConfigStore -----------------------------
(***************************************************************************)
(* JsonConfigStore (bot/config_store.py): a dictionary in memory and the    *)
(* JSON file behind it, which an editor, a restore or a git checkout may     *)
(* change at any time.  A read looks at the file's mtime at most once a     *)
(* second and loads the file when it is another one; a write puts the whole *)
(* dictionary on disk and looks at nothing.                                *)
(*                                                                         *)
(* Of the mtimes only the comparison of the file's with the one the store  *)
(* remembers is kept.  Of the process only its event loop calls the store,  *)
(* so calls do not overlap; an edit from outside may fall into the middle   *)
(* of one.                                                                 *)
(*                                                                         *)
(* A definition that directly precedes another one and is used nowhere is  *)
(* a mutant of it: the same code with a plausible mistake.                 *)
(***************************************************************************)
EXTENDS Integers, FiniteSets

CONSTANTS
  Keys,       \* the keys of the dictionary
  Absent,     \* the value of a key that is not in it
  MaxEdits,   \* bound on the edits made outside
  MaxFails    \* bound on the saves that fail with an OSError

ASSUME StoreAssumption == {MaxEdits, MaxFails} \subseteq Nat

VARIABLES
  store,    \* _data
  file,     \* rows: what the file says; torn: an editor has not finished writing it
  mtime,    \* the file's mtime beside _mtime: "same", "newer" or "older"
  recent,   \* a stat succeeded within the last second (_last_stat_time)
  edits,    \* edits left
  fails,    \* failing saves left
  want,     \* history: every key as its last edit or call left it
  mishaps   \* history: the ways in which the two have come apart

storeVars == <<store, file, mtime, recent, edits, fails, want, mishaps>>

-----------------------------------------------------------------------------
Nothing == [k \in Keys |-> Absent]

\* The file cannot be parsed: the dictionary is empty and the old mtime is kept.
Loaded == IF file.torn THEN Nothing ELSE file.rows

\* _maybe_reload, in front of every read.
Looks == ~recent
ReloadsNewer == Looks /\ mtime = "newer"
Reloads == Looks /\ mtime # "same"
ReadMerges == [k \in Keys |-> IF Reloads /\ Loaded[k] # Absent THEN Loaded[k] ELSE store[k]]
Read == IF Reloads THEN Loaded ELSE store
MtimeRead == IF Reloads /\ ~file.torn THEN "same" ELSE mtime

\* A caller that reads and writes nothing.
JustRead ==
  /\ store' = Read /\ mtime' = MtimeRead /\ recent' = TRUE
  /\ UNCHANGED <<file, edits, fails, want, mishaps>>

\* Key k of the file is edited between a call's read or rename of these rows and the stat
\* that follows: the store takes the mtime of the edit for its own, and never loads it.
\* meant is what the keys are to be but for the edit.
Hidden(rows, meant, k, row, harm) ==
  /\ edits > 0 /\ edits' = edits - 1 /\ row # rows[k]
  /\ file' = [rows |-> [rows EXCEPT ![k] = row], torn |-> FALSE] /\ mtime' = "same"
  /\ want' = [meant EXCEPT ![k] = row] /\ mishaps' = mishaps \cup harm \cup {"raced"}
  /\ UNCHANGED fails

\* _load reads, the edit comes, and then the stat.
ReadRaced(k, row) ==
  /\ Reloads /\ ~file.torn /\ store' = file.rows /\ recent' = TRUE
  /\ Hidden(file.rows, want, k, row, {})

\* A write goes over an edit that was not loaded: it does not look, or the second has not
\* passed since the last look; or the file was not whole when it was loaded.
Harm(looked) ==
  IF file.torn THEN {"torn"}
  ELSE IF mtime # "same" /\ (recent \/ ~looked) THEN {"blind"} ELSE {}

\* _save: the whole dictionary, by tmp and rename.  When that fails the dictionary keeps
\* what the file never got, and the mtime stays the one last loaded.
Saved(rows, harm) ==
  /\ file' = [rows |-> rows, torn |-> FALSE] /\ mtime' = "same"
  /\ mishaps' = mishaps \cup harm /\ UNCHANGED fails
SaveFails(loaded, harm) ==
  /\ fails > 0 /\ fails' = fails - 1 /\ mishaps' = mishaps \cup harm \cup {"unsaved"}
  /\ mtime' = loaded /\ UNCHANGED file

\* An edit in the middle of a call that writes: after its read and before the rename, which
\* puts the whole dictionary over it, or after the rename and before the stat.
Overwritten(rows, meant, k, row, harm) ==
  /\ edits > 0 /\ edits' = edits - 1 /\ ~file.torn /\ row # file.rows[k]
  /\ file' = [rows |-> rows, torn |-> FALSE] /\ mtime' = "same"
  /\ want' = [meant EXCEPT ![k] = row] /\ mishaps' = mishaps \cup harm \cup {"raced"}
  /\ UNCHANGED fails
SaveRaced(rows, meant, k, row, harm) ==
  Overwritten(rows, meant, k, row, harm) \/ Hidden(rows, meant, k, row, harm)

\* set and delete of one key, after a read of the same call (looked) or without one; meant
\* is the row the call is to leave.
Write(k, row, meant, looked) ==
  LET rows == [(IF looked THEN Read ELSE store) EXCEPT ![k] = row]
  IN /\ store' = rows /\ want' = [want EXCEPT ![k] = meant]
     /\ recent' = (recent \/ looked)
     /\ \/ Saved(rows, Harm(looked))
        \/ SaveFails(IF looked THEN MtimeRead ELSE mtime, Harm(looked))
     /\ UNCHANGED edits
WriteRaced(k, row, meant, looked, edited, new) ==
  LET rows == [(IF looked THEN Read ELSE store) EXCEPT ![k] = row]
  IN /\ store' = rows /\ recent' = (recent \/ looked)
     /\ SaveRaced(rows, [want EXCEPT ![k] = meant], edited, new, Harm(looked))

-----------------------------------------------------------------------------
(* The outside world                                                       *)

\* A key is edited: by an editor that writes in place and is half done for a moment, by one
\* that replaces the file, or by a restore that keeps an older mtime.
Edit(k, row) ==
  /\ edits > 0 /\ edits' = edits - 1 /\ ~file.torn /\ row # file.rows[k]
  /\ \E torn \in BOOLEAN, age \in {"newer", "older"} :
       /\ torn => age = "newer"
       /\ file' = [rows |-> [file.rows EXCEPT ![k] = row], torn |-> torn] /\ mtime' = age
  /\ want' = [want EXCEPT ![k] = row]
  /\ UNCHANGED <<store, recent, fails, mishaps>>
EditDone ==
  /\ file.torn /\ file' = [file EXCEPT !.torn = FALSE] /\ mtime' = "newer"
  /\ UNCHANGED <<store, recent, edits, fails, want, mishaps>>

\* A second passes.
Second ==
  /\ recent /\ recent' = FALSE
  /\ UNCHANGED <<store, file, mtime, edits, fails, want, mishaps>>

StoreInit(rows) ==
  /\ store = rows /\ file = [rows |-> rows, torn |-> FALSE] /\ mtime = "same"
  /\ recent = FALSE /\ edits = MaxEdits /\ fails = MaxFails /\ want = rows /\ mishaps = {}

-----------------------------------------------------------------------------
(* Properties                                                              *)

\* Every key in the file is as its last edit or its last call left it: no update is lost,
\* whatever order edits, reads and writes come in, but for the named mishaps: a write that
\* does not look at the file, or within a second of the last look (blind); a file loaded while
\* it was being written (torn); a save that failed (unsaved); an edit in the middle of a load
\* or of a save, which the rename overwrites or the stat hides (raced).
NoLostUpdate == mishaps = {} /\ ~file.torn => file.rows = want

\* A store that thinks it has what the file has is right, short of the same mishaps.
MemoryIsFile == mishaps = {} /\ mtime = "same" /\ ~file.torn => store = file.rows
=============================================================================
