------------------------------ MODULE MCDeploy ------------------------------
(***************************************************************************)
(* One commit by a session or a developer, an edit or a new file that      *)
(* counts as infrastructure, and the commits /rollback, merges and reverts *)
(* make; two triggers, one crash of the bot and one of the watcher, or     *)
(* commands that fail unseen. Two tasks share the marker in histories      *)
(* without edits; with edits one task does all the work (the constraints). *)
(***************************************************************************)
EXTENDS Deploy

CONSTANTS t1, t2

MCTasks == {t1, t2}
MCSensitive == {2}
SecondTaskWithoutEdits ==
  row[t2] # "pending" => n = 1 /\ row[t1] # "pending"
SlipsWithoutCrashes == slips # {} => crashes + wcrashes = 0
=============================================================================
