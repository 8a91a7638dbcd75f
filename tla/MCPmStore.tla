----------------------------- MODULE MCPmStore -----------------------------
(***************************************************************************)
(* Three calls over a database of one running sprint with one ticket in    *)
(* review: one that resets, reassigns, cancels or closes, one that         *)
(* finishes or creates, one that edits or files a ticket; one restart.     *)
(***************************************************************************)
EXTENDS PmStore, TLC

CONSTANTS c1, c2, c3, c4

MCCalls == {c1, c2, c3}
MCStart == {"review"}
MCRequests ==
  (c1 :> { <<"reset", 1>>, <<"reassign", 1, 2>>,
           <<"cancel", 1>>, <<"sprint", 1, "completed">> }) @@
  (c2 :> { <<"move", 1, "done">>, <<"create", 1, 9>>,
           <<"auto">> }) @@
  (c3 :> { <<"update">>, <<"auto">> })

\* Four sessions: two file a ticket, one aborts the rolling sprint, one is refused a move.
MCFour == {c1, c2, c3, c4}
MCFourRequests ==
  (c1 :> { <<"auto">> }) @@ (c2 :> { <<"auto">> }) @@
  (c3 :> { <<"sprint", 2, "aborted">> }) @@ (c4 :> { <<"move", 1, "backlog">> })
=============================================================================
