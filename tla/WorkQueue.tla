------------------------------ MODULE WorkQueue ------------------------------
(***************************************************************************)
(* What the persistent queue promises, without rows, SQL or signals: a     *)
(* job, once accepted, is waiting, claimed, at work, or closed for good;   *)
(* only a crash makes a job at work wait again, and only a job nobody has  *)
(* been told about can disappear.                                          *)
(***************************************************************************)
EXTENDS Naturals

CONSTANT Jobs

VARIABLES job, accepted, crashes

JobState == {"none", "waiting", "claimed", "working", "closed"}

\* Jobs of an earlier life may be waiting.
Init == /\ job \in [Jobs -> {"none", "waiting"}]
        /\ accepted = {j \in Jobs : job[j] = "waiting"}
        /\ crashes = 0

\* The life of a job.  It may be cancelled while it waits, and a claim may be
\* let go, but what is at work only closes.
Moves == {<<"none", "waiting">>, <<"waiting", "claimed">>, <<"claimed", "working">>,
          <<"working", "closed">>, <<"waiting", "closed">>, <<"claimed", "closed">>,
          <<"claimed", "waiting">>}

\* A crash lets go of every claim, makes all work start over or close, and may forget
\* a job that was not accepted; what is accepted and closed stays closed.
CrashMoves(j) ==
  {<<"claimed", "waiting">>, <<"claimed", "closed">>, <<"waiting", "closed">>,
   <<"working", "waiting">>, <<"working", "closed">>}
    \cup (IF j \in accepted THEN {} ELSE {<<s, "none">> : s \in JobState})

\* Every job stays or makes an allowed move.
Moved(before, after, Allowed(_)) ==
  LET old == before
      new == after
  IN /\ new \in [Jobs -> JobState]
     /\ \A j \in Jobs : old[j] = new[j] \/ <<old[j], new[j]>> \in Allowed(j)

\* One statement of the queue moves one job, or a batch of them.
Operate ==
  /\ crashes' = crashes
  /\ accepted \subseteq accepted' /\ accepted' \subseteq {j \in Jobs : job'[j] # "none"}
  /\ Moved(job, job', LAMBDA j : Moves)

\* Nothing is claimed or at work after a crash.
Crash ==
  /\ crashes' = crashes + 1 /\ accepted' = accepted
  /\ Moved(job, job', CrashMoves)
  /\ \A j \in Jobs : job'[j] \notin {"claimed", "working"}

Next == Operate \/ Crash

Spec == Init /\ [][Next]_<<job, accepted, crashes>>
=============================================================================
