------------------------------- MODULE Deploy -------------------------------
(***************************************************************************)
(* Self-deployment: the bot's deploy_bot tool and /rollback command, the   *)
(* host watcher (a bash loop on the host), the operator's approval script, *)
(* and the recovery of interrupted tasks when the bot starts again.        *)
(*                                                                         *)
(* The bot container and the watcher share two directories and no lock:    *)
(* the trigger and result files, and the git worktree, which the bot sees  *)
(* as /host-repo and the watcher merges, reverts and builds from.          *)
(* A commit's tree is the set of changes it contains.                      *)
(*                                                                         *)
(* The watcher's script stops at no error: where it looks at no exit       *)
(* status, the command may fail here and the script goes on.               *)
(*                                                                         *)
(* One step here for several commands of the code: writing an approval     *)
(* request, its result and clearing old verdicts; saving the healthy       *)
(* commit and reporting it; the whole of /rollback, which never yields;    *)
(* a session's edit and its commit.                                        *)
(*                                                                         *)
(* A definition that precedes another one and is called a mutant of it is  *)
(* the same code with a plausible mistake, used nowhere in the model.      *)
(***************************************************************************)
EXTENDS Integers, FiniteSets

CONSTANTS Tasks,            \* rows of the persistent queue
          MaxEdits,         \* bound on the commits people and sessions make
          MaxCommit,        \* and on all: /rollback and a deploy add some of their own
          Sensitive,        \* commits that touch an infrastructure file
          MaxPosts,         \* bound on the triggers written
          MaxCrash          \* bound on crashes of the bot and of the watcher

ASSUME DeployAssumption ==
  /\ MaxEdits \in Nat \ {0} /\ MaxPosts \in Nat /\ MaxCrash \in Nat
  /\ MaxCommit = MaxEdits + 1 + 2 * MaxPosts
  /\ Sensitive \subseteq 2..MaxCommit

Commits == 1..MaxCommit
Actions == {"rebuild", "restart", "rebuild-all"}
Terminal == {"success", "rejected", "superseded", "build_failed", "unhealthy",
             "rolled_back", "rollback_unhealthy", "rollback_build_failed"}

VARIABLES
  \* ---- the bot container ----
  bot,        \* "starting", "recovering" or "up"
  row,        \* [Tasks -> status in the task_queue table]
  at,         \* [Tasks -> where the task's deploy_bot call is]
  want,       \* [Tasks -> action its call was given]
  marker,     \* /app/data/deploy_pending exists
  boot,       \* what startup_recovery took this start for
  \* ---- the shared directory ----
  trigger,    \* deploy_trigger.json: an action, or "none"
  result,     \* deploy_result.json
  request,    \* approval_request.json: its approval id, or <<>>
  verdict,    \* approved.json and rejected.json: the id each holds, or <<>>
  healthy,    \* last_healthy_commit
  \* ---- git ----
  n,          \* commits made so far
  tree, anc,  \* [Commits -> changes, resp. ancestors with itself]
  merges,     \* commits with two parents
  adds,       \* commits that add a file (the others edit one)
  head,       \* HEAD of the shared worktree
  work,       \* the changes its files and its index hold
  origin,     \* its refs/remotes/origin/main
  remote,     \* main on the git server
  \* ---- docker and the watcher ----
  image,      \* the newest image: the commit its label names and its changes
  served,     \* the image the container runs
  w,          \* the watcher: its program counter and shell variables
  \* ---- history, read by properties only ----
  posts, crashes, wcrashes,
  deployed,   \* tasks that wrote a trigger
  death,      \* what ended the last run of the bot
  cut,        \* a start died between reading the marker and settling rows
  dropped,    \* tasks settled as done by the start after a crash
  fellBack,   \* the last rollback restored files instead of reverting
  slips       \* commands of this deploy that failed and the script went on:
              \* "up", "upAgain", "restore"; once some restored files
              \* stayed uncommitted, "uncommitted" for good

app == <<bot, row, at, want, marker, boot>>
files == <<trigger, result, request, verdict>>
git == <<n, tree, anc, merges, adds, head, work, origin, remote>>
docker == <<image, served>>
counts == <<posts, crashes, wcrashes>>
history == <<deployed, death, cut, dropped>>
unsaid == <<fellBack, slips>>
vars == <<app, files, healthy, git, docker, w, counts, history, unsaid>>

Built(c, changes) == [commit |-> c, tree |-> changes]
Report(s, c, f) == [status |-> s, commit |-> c, failed |-> f]
Idle == [pc |-> "idle", action |-> "none", new |-> 0, target |-> 0, id |-> <<>>]

Init ==
  /\ bot = "up" /\ marker = FALSE /\ boot = "none"
  /\ row = [t \in Tasks |-> "pending"]
  /\ at = [t \in Tasks |-> "idle"]
  /\ want = [t \in Tasks |-> "none"]
  /\ trigger = "none" /\ request = <<>>
  /\ result = Report("none", 0, 0)
  /\ verdict = [v \in {"approved", "rejected"} |-> <<>>]
  /\ n = 1 /\ merges = {} /\ adds = {}
  /\ tree = [c \in Commits |-> IF c = 1 THEN {1} ELSE {}]
  /\ anc = [c \in Commits |-> IF c = 1 THEN {1} ELSE {}]
  /\ head = 1 /\ work = {1} /\ origin = 1 /\ remote = 1
  /\ healthy = 1 /\ image = Built(1, {1}) /\ served = image
  /\ w = Idle
  /\ posts = 0 /\ crashes = 0 /\ wcrashes = 0
  /\ deployed = {} /\ death = "none" /\ cut = FALSE /\ dropped = {}
  /\ fellBack = FALSE /\ slips = {}

-----------------------------------------------------------------------------
(* git *)

\* Record commit n+1 with the given tree on top of the given parents.
Recorded(t, parents) ==
  /\ n' = n + 1
  /\ tree' = [tree EXCEPT ![n + 1] = t]
  /\ anc' = [anc EXCEPT ![n + 1] = {n + 1} \cup UNION {anc[p] : p \in parents}]
  /\ merges' = IF Cardinality(parents) > 1 THEN merges \cup {n + 1} ELSE merges

NewCommit(t, parents) == Recorded(t, parents) /\ UNCHANGED adds

\* Somebody's own work, an edit or a new file, committed with the rest of a worktree.
Work(changes, parent) ==
  /\ n < MaxEdits
  /\ Recorded(changes \cup {n + 1}, {parent})
  /\ adds' \in {adds, adds \cup {n + 1}}

NoCommit == UNCHANGED <<n, tree, anc, merges, adds>>

MergeBase(a, b) ==
  CHOOSE c \in anc[a] \cap anc[b] : \A d \in anc[a] \cap anc[b] : d <= c

\* The tree a three-way merge of two commits gives.
MergedTree(a, b) ==
  LET base == tree[MergeBase(a, b)]
  IN (tree[a] \cap tree[b]) \cup (tree[a] \ base) \cup (tree[b] \ base)

\* git checkout <c> -- . brings back every file of c and deletes nothing.
CheckedOut(c) == tree[c] \cup (work \cap adds)

\* git status --porcelain prints nothing.
NothingToCommit == work = tree[head]

\* A session of the bot commits its work in /host-repo; the other commits
\* come from a developer's clone, straight to the git server.
BotCommits ==
  /\ bot = "up" /\ \E t \in Tasks : row[t] = "processing"
  /\ Work(work, head)
  /\ head' = n + 1 /\ work' = work \cup {n + 1}
  /\ UNCHANGED <<app, files, healthy, origin, remote, docker, w, counts,
                 history, unsaid>>

BotPushes ==
  /\ bot = "up" /\ \E t \in Tasks : row[t] = "processing"
  /\ remote \in anc[head] /\ remote # head
  /\ remote' = head /\ origin' = head
  /\ NoCommit
  /\ UNCHANGED <<app, files, healthy, head, work, docker, w, counts, history,
                 unsaid>>

DeveloperPushes ==
  /\ Work(tree[remote], remote)
  /\ remote' = n + 1
  /\ UNCHANGED <<app, files, healthy, head, work, origin, docker, w, counts,
                 history, unsaid>>

-----------------------------------------------------------------------------
(* The bot: tasks, the deploy_bot tool, /rollback, start and crash *)

Claim(t) ==
  /\ bot = "up" /\ row[t] = "pending"
  /\ row' = [row EXCEPT ![t] = "processing"]
  /\ UNCHANGED <<bot, at, want, marker, boot, files, healthy, git, docker, w,
                 counts, history, unsaid>>

\* A task ends, by itself or cancelled wherever its tool call is.
Finish(t) ==
  /\ bot = "up" /\ row[t] = "processing"
  /\ row' = [row EXCEPT ![t] = "done"]
  /\ at' = [at EXCEPT ![t] = "idle"]
  /\ UNCHANGED <<bot, want, marker, boot, files, healthy, git, docker, w, counts,
                 history, unsaid>>

\* deploy_bot refuses while a trigger waits or a deploy is reported running.
DeployBot(t) ==
  /\ bot = "up" /\ row[t] = "processing" /\ at[t] = "idle"
  /\ trigger = "none" /\ result.status # "in_progress"
  /\ \E a \in Actions : want' = [want EXCEPT ![t] = a]
  /\ at' = [at EXCEPT ![t] = "gates"]
  /\ UNCHANGED <<bot, row, marker, boot, files, healthy, git, docker, w, counts,
                 history, unsaid>>

\* Nothing is left to commit, and all of HEAD is on some remote branch.
Pushed == NothingToCommit /\ head \in anc[origin]

\* Mutant: The marker is left for rebuilds only.
WriteMarkerForRebuilds(t) ==
  /\ bot = "up" /\ at[t] = "gates"
  /\ want[t] = "restart" \/ Pushed
  /\ marker' = (marker \/ want[t] # "restart")
  /\ at' = [at EXCEPT ![t] = "marked"]
  /\ UNCHANGED <<bot, row, want, boot, files, healthy, git, docker, w, counts,
                 history, unsaid>>

\* The gates ran for minutes since the check above; then the marker is left.
WriteMarker(t) ==
  /\ bot = "up" /\ at[t] = "gates"
  /\ want[t] = "restart" \/ Pushed
  /\ marker' = TRUE
  /\ at' = [at EXCEPT ![t] = "marked"]
  /\ UNCHANGED <<bot, row, want, boot, files, healthy, git, docker, w, counts,
                 history, unsaid>>

GatesBlock(t) ==
  /\ bot = "up" /\ at[t] = "gates" /\ want[t] # "restart"
  /\ at' = [at EXCEPT ![t] = "idle"]
  /\ UNCHANGED <<bot, row, want, marker, boot, files, healthy, git, docker, w,
                 counts, history, unsaid>>

\* The PM record is written between; the rename replaces a trigger that is there.
WriteTrigger(t) ==
  /\ bot = "up" /\ at[t] = "marked" /\ posts < MaxPosts
  /\ trigger' = want[t]
  /\ at' = [at EXCEPT ![t] = "idle"]
  /\ posts' = posts + 1
  /\ deployed' = deployed \cup {t}
  /\ UNCHANGED <<bot, row, want, marker, boot, result, request, verdict, healthy,
                 git, docker, w, crashes, wcrashes, death, cut, dropped, unsaid>>

\* /rollback confirm: a commit with the healthy files, pushed, then a rebuild.
\* When the push is refused the commit stays, and nothing is triggered.
RollbackCommand ==
  /\ bot = "up" /\ trigger = "none" /\ head # healthy /\ posts < MaxPosts
  /\ NothingToCommit /\ CheckedOut(healthy) # tree[head]
  /\ n <= MaxEdits /\ NewCommit(CheckedOut(healthy), {head})
  /\ head' = n + 1 /\ work' = CheckedOut(healthy)
  /\ \/ /\ remote \in anc[head]
        /\ remote' = n + 1 /\ origin' = n + 1
        /\ trigger' = "rebuild" /\ marker' = TRUE
        /\ posts' = posts + 1
     \/ /\ remote \notin anc[head]
        /\ UNCHANGED <<remote, origin, trigger, marker, posts>>
  /\ UNCHANGED <<bot, row, at, want, boot, result, request, verdict, healthy,
                 docker, w, crashes, wcrashes, history, unsaid>>

\* The container's process ends: what the tool calls were doing is lost.
Dies(cause) ==
  /\ bot' = "starting"
  /\ at' = [t \in Tasks |-> "idle"]
  /\ death' = cause
  /\ cut' = (cut \/ (bot = "recovering" /\ boot = "deploy"))
  /\ UNCHANGED <<row, want, marker, boot>>

BotCrashes ==
  /\ crashes < MaxCrash
  /\ crashes' = crashes + 1
  /\ Dies("crash")
  /\ UNCHANGED <<files, healthy, git, docker, w, posts, wcrashes, deployed,
                 dropped, unsaid>>

\* startup_recovery first looks for the marker and unlinks it ...
ReadMarker ==
  /\ bot = "starting"
  /\ bot' = "recovering"
  /\ boot' = IF marker THEN "deploy" ELSE "crash"
  /\ marker' = FALSE
  /\ UNCHANGED <<row, at, want, files, healthy, git, docker, w, counts, history,
                 unsaid>>

\* ... then settles the interrupted rows in one transaction.
Recover ==
  /\ bot = "recovering"
  /\ bot' = "up"
  /\ LET interrupted == {t \in Tasks : row[t] = "processing"}
     IN /\ row' = [t \in Tasks |->
                     IF t \notin interrupted THEN row[t]
                     ELSE IF boot = "deploy" THEN "done" ELSE "pending"]
        /\ dropped' = IF boot = "deploy" /\ death = "crash"
                      THEN dropped \cup interrupted ELSE dropped
  /\ UNCHANGED <<at, want, marker, boot, files, healthy, git, docker, w, counts,
                 deployed, death, cut, unsaid>>

-----------------------------------------------------------------------------
(* The host watcher *)

Goto(pc) == w' = [w EXCEPT !.pc = pc]
Ends(r) == result' = r /\ w' = Idle

\* The trigger is removed before the result says in_progress.
Take ==
  /\ w.pc = "idle" /\ trigger # "none"
  /\ w' = [Idle EXCEPT !.pc = "taken", !.action = trigger]
  /\ trigger' = "none"
  /\ UNCHANGED <<app, result, request, verdict, healthy, git, docker, counts,
                 history, unsaid>>

Begin ==
  /\ w.pc = "taken"
  /\ result' = Report("in_progress", 0, 0)
  /\ slips' = slips \cap {"uncommitted"}
  /\ Goto(IF w.action = "restart" THEN "restart" ELSE "fetch")
  /\ UNCHANGED <<app, trigger, request, verdict, healthy, git, docker, counts,
                 history, fellBack>>

\* A fetch that fails is ignored: the old origin/main is used.
Fetch ==
  /\ w.pc = "fetch"
  /\ origin' \in {origin, remote}
  /\ Goto("gate")
  /\ NoCommit /\ UNCHANGED <<app, files, healthy, head, work, remote, docker,
                 counts, history, unsaid>>

\* Infrastructure files that differ between the baseline and what was fetched.
SensitiveFiles ==
  ((tree[healthy] \ tree[origin]) \cup (tree[origin] \ tree[healthy]))
    \cap Sensitive

GateOpen ==
  /\ w.pc = "gate" /\ SensitiveFiles = {}
  /\ Goto("merge")
  /\ UNCHANGED <<app, files, healthy, git, docker, counts, history, unsaid>>

\* Ask, and discard the verdicts of earlier requests.
AskApproval ==
  /\ w.pc = "gate" /\ SensitiveFiles # {}
  /\ request' = <<healthy, origin>>
  /\ result' = Report("pending_approval", 0, 0)
  /\ verdict' = [v \in DOMAIN verdict |-> <<>>]
  /\ w' = [w EXCEPT !.pc = "wait", !.id = <<healthy, origin>>]
  /\ UNCHANGED <<app, trigger, healthy, git, docker, counts, history, unsaid>>

\* The operator's script names the id the request file holds when it is answered.
OperatorAnswers ==
  /\ request # <<>>
  /\ \E v \in DOMAIN verdict : verdict' = [verdict EXCEPT ![v] = request]
  /\ UNCHANGED <<app, trigger, result, request, healthy, git, docker, w, counts,
                 history, unsaid>>

Superseded ==
  /\ w.pc = "wait" /\ trigger # "none"
  /\ request' = <<>>
  /\ Ends(Report("superseded", 0, 0))
  /\ UNCHANGED <<app, trigger, verdict, healthy, git, docker, counts, history,
                 unsaid>>

Approved ==
  /\ w.pc = "wait" /\ trigger = "none" /\ verdict["approved"] = w.id
  /\ verdict' = [verdict EXCEPT !["approved"] = <<>>]
  /\ request' = <<>>
  /\ Goto("merge")
  /\ UNCHANGED <<app, trigger, result, healthy, git, docker, counts, history,
                 unsaid>>

Rejected ==
  /\ w.pc = "wait" /\ trigger = "none"
  /\ verdict["approved"] # w.id /\ verdict["rejected"] = w.id
  /\ verdict' = [verdict EXCEPT !["rejected"] = <<>>]
  /\ request' = <<>>
  /\ Ends(Report("rejected", 0, 0))
  /\ UNCHANGED <<app, trigger, healthy, git, docker, counts, history, unsaid>>

\* git merge origin/main, or reset --hard when it fails; then NEW_COMMIT. Both may
\* fail; a fast-forward keeps what is not committed, a merge refuses to.
Merge ==
  /\ w.pc = "merge"
  /\ \/ head' = head /\ work' = work /\ NoCommit
     \/ /\ origin \notin anc[head] /\ NoCommit
        /\ head' = origin /\ work' = tree[origin]
     \/ /\ origin # head /\ head \in anc[origin] /\ NoCommit
        /\ head' = origin
        /\ work' = (work \ (tree[head] \ tree[origin])) \cup (tree[origin] \ tree[head])
     \/ /\ origin \notin anc[head] /\ head \notin anc[origin] /\ NothingToCommit
        /\ NewCommit(MergedTree(head, origin), {head, origin})
        /\ head' = n + 1 /\ work' = MergedTree(head, origin)
  /\ w' = [w EXCEPT !.pc = w.action, !.new = head']
  /\ UNCHANGED <<app, files, healthy, origin, remote, docker, counts, history,
                 unsaid>>

\* Mutant: The image is built from the last healthy commit.
BuildStale ==
  /\ w.pc \in {"rebuild", "rebuild-all", "again"}
  /\ image' = Built(healthy, tree[healthy])
  /\ w' = [w EXCEPT !.pc = CASE w.pc = "rebuild" -> "up"
                             [] w.pc = "rebuild-all" -> "upAll"
                             [] w.pc = "again" -> "upAgain"]
  /\ UNCHANGED <<app, files, healthy, git, served, counts, history, unsaid>>

\* docker compose build takes the worktree as it is now.
Build ==
  /\ w.pc \in {"rebuild", "rebuild-all", "again"}
  /\ image' = Built(head, work)
  /\ w' = [w EXCEPT !.pc = CASE w.pc = "rebuild" -> "up"
                             [] w.pc = "rebuild-all" -> "upAll"
                             [] w.pc = "again" -> "upAgain"]
  /\ UNCHANGED <<app, files, healthy, git, served, counts, history, unsaid>>

\* docker compose up replaces the container by one of the new image, or fails and
\* leaves the old one running; the script goes on in the same way.
Up ==
  /\ w.pc \in {"up", "upAll", "upAgain"}
  /\ \/ served' = image /\ Dies("deploy") /\ slips' = slips
     \/ served' = served /\ slips' = slips \cup ({w.pc} \ {"upAll"}) /\ UNCHANGED <<app, death, cut>>
  /\ w' = [w EXCEPT !.pc = CASE w.pc = "up" -> "health"
                             [] w.pc = "upAll" -> "report"
                             [] w.pc = "upAgain" -> "healthAgain"]
  /\ UNCHANGED <<files, healthy, git, image, counts, deployed, dropped, fellBack>>

\* docker compose restart keeps the container's image; it may fail as well.
Restart ==
  /\ w.pc = "restart"
  /\ Goto("report")
  /\ Dies("deploy") \/ UNCHANGED <<app, death, cut>>
  /\ UNCHANGED <<files, healthy, git, docker, counts, deployed, dropped, unsaid>>

\* Mutant: A restart ends without a report.
ReportNothing ==
  /\ w.pc = "report"
  /\ w' = Idle
  /\ UNCHANGED <<app, files, healthy, git, docker, counts, history, unsaid>>

\* A restart and a rebuild-all report success without a health check.
ReportDone ==
  /\ w.pc = "report"
  /\ Ends(Report("success", 0, 0))
  /\ UNCHANGED <<app, trigger, request, verdict, healthy, git, docker, counts,
                 history, unsaid>>

Healthy ==
  /\ w.pc = "health" /\ bot = "up"
  /\ healthy' = w.new
  /\ Ends(Report("success", w.new, 0))
  /\ UNCHANGED <<app, trigger, request, verdict, git, docker, counts, history,
                 unsaid>>

\* The index takes the given changes, and a commit of them is made if that works.
Restored(kept) ==
  /\ work' = kept
  /\ \/ kept # tree[head] /\ NewCommit(kept, {head}) /\ head' = n + 1
     \/ NoCommit /\ head' = head

\* Mutant: Only the newest commit is reverted.
RevertLast(target) ==
  LET range == anc[head] \ anc[target]
      previous == CHOOSE c \in anc[head] \ {head} : \A d \in anc[head] \ {head} : d <= c
  IN /\ NothingToCommit /\ range # {} /\ range \cap merges = {}
     /\ NewCommit(tree[previous], {head})
     /\ head' = n + 1 /\ work' = tree[previous]
     /\ fellBack' = FALSE /\ slips' = slips

\* git revert target..HEAD in one go; a worktree with changes of its own or a merge
\* in the range makes it fail, and so does a conflict.
Reverts(target) ==
  LET range == anc[head] \ anc[target]
      base == tree[MergeBase(head, target)]
  IN /\ NothingToCommit /\ range # {} /\ range \cap merges = {}
     /\ NewCommit(base, {head})
     /\ head' = n + 1 /\ work' = base
     /\ fellBack' = FALSE /\ slips' = slips

\* Check the target's files out instead, and commit; both go unchecked.
Restores(target) ==
  /\ fellBack' = TRUE
  /\ \E kept \in {CheckedOut(target), work} :
       /\ Restored(kept)
       /\ slips' = slips \cup (IF kept # CheckedOut(target) THEN {"restore"} ELSE {})
                       \cup (IF head' = head /\ kept # tree[head] THEN {"uncommitted"} ELSE {})

RollbackTo(target) ==
  \/ head = target /\ NoCommit /\ UNCHANGED <<head, work, unsaid>>
  \/ head # target /\ (Reverts(target) \/ Restores(target))

\* The health check timed out: roll back to the last healthy commit.
Unhealthy ==
  /\ w.pc = "health" /\ healthy # w.new
  /\ RollbackTo(healthy)
  /\ w' = [w EXCEPT !.pc = "again", !.target = healthy]
  /\ UNCHANGED <<app, files, healthy, origin, remote, docker, counts, history>>

UnhealthyNoTarget ==
  /\ w.pc = "health" /\ healthy = w.new
  /\ Ends(Report("unhealthy", w.new, 0))
  /\ UNCHANGED <<app, trigger, request, verdict, healthy, git, docker, counts,
                 history, unsaid>>

\* A first build, or the Go pre-check, failed: roll the worktree back only.
BuildFails ==
  /\ w.pc \in {"rebuild", "rebuild-all"}
  /\ \/ healthy # w.new /\ RollbackTo(healthy)
     \/ healthy = w.new /\ NoCommit /\ UNCHANGED <<head, work, unsaid>>
  /\ Ends(Report("build_failed", healthy, w.new))
  /\ UNCHANGED <<app, trigger, request, verdict, healthy, origin, remote, docker,
                 counts, history>>

\* The image build of rebuild-all fails: nothing is rolled back.
BuildAllFails ==
  /\ w.pc = "rebuild-all"
  /\ Ends(Report("build_failed", 0, 0))
  /\ UNCHANGED <<app, trigger, request, verdict, healthy, git, docker, counts,
                 history, unsaid>>

RollbackBuildFails ==
  /\ w.pc = "again"
  /\ Ends(Report("rollback_build_failed", 0, w.new))
  /\ UNCHANGED <<app, trigger, request, verdict, healthy, git, docker, counts,
                 history, unsaid>>

RolledBack ==
  /\ w.pc = "healthAgain" /\ bot = "up"
  /\ healthy' = w.target
  /\ Ends(Report("rolled_back", w.target, w.new))
  /\ UNCHANGED <<app, trigger, request, verdict, git, docker, counts, history,
                 unsaid>>

RollbackUnhealthy ==
  /\ w.pc = "healthAgain"
  /\ Ends(Report("rollback_unhealthy", w.target, w.new))
  /\ UNCHANGED <<app, trigger, request, verdict, healthy, git, docker, counts,
                 history, unsaid>>

\* systemd restarts a watcher that died; its files stay as they are.
WatcherDies ==
  /\ w.pc # "idle" /\ wcrashes < MaxCrash
  /\ wcrashes' = wcrashes + 1
  /\ w' = Idle
  /\ UNCHANGED <<app, files, healthy, git, docker, posts, crashes, history,
                 unsaid>>

-----------------------------------------------------------------------------
Watcher ==
  \/ Take \/ Begin \/ Fetch \/ GateOpen \/ AskApproval
  \/ Superseded \/ Approved \/ Rejected \/ Merge
  \/ Build \/ BuildFails \/ BuildAllFails \/ Up \/ Restart \/ ReportDone
  \/ Healthy \/ Unhealthy \/ UnhealthyNoTarget
  \/ RollbackBuildFails \/ RolledBack \/ RollbackUnhealthy

Bot ==
  \/ \E t \in Tasks : Claim(t) \/ Finish(t) \/ DeployBot(t) \/ WriteMarker(t)
                        \/ GatesBlock(t) \/ WriteTrigger(t)
  \/ RollbackCommand \/ ReadMarker \/ Recover
  \/ BotCommits \/ BotPushes

Next == Watcher \/ Bot \/ BotCrashes \/ WatcherDies \/ OperatorAnswers
          \/ DeveloperPushes

Spec == Init /\ [][Next]_vars
FairSpec == Spec /\ WF_vars(Watcher)

-----------------------------------------------------------------------------
(* Properties *)

\* Every variable holds a value the code can give it.
TypeOK ==
  /\ bot \in {"starting", "recovering", "up"}
  /\ row \in [Tasks -> {"pending", "processing", "done"}]
  /\ at \in [Tasks -> {"idle", "gates", "marked"}]
  /\ want \in [Tasks -> Actions \cup {"none"}]
  /\ marker \in BOOLEAN /\ boot \in {"none", "deploy", "crash"}
  /\ trigger \in Actions \cup {"none"}
  /\ result.status \in Terminal \cup {"none", "in_progress", "pending_approval"}
  /\ n \in Commits /\ tree \in [Commits -> SUBSET Commits]
  /\ {head, origin, remote, healthy} \subseteq 1..n /\ work \subseteq 1..n
  /\ {image, served} \subseteq [commit : 1..n, tree : SUBSET (1..n)]
  /\ slips \subseteq {"up", "upAgain", "restore", "uncommitted"}

\* Comment "prevents deploy loop" of deploy_bot: a task that wrote its trigger
\* does not run again when the bot comes back, whatever restarted it, unless a
\* start itself was cut between unlinking the marker and settling the rows.
NoDeployLoop ==
  \A t \in deployed : row[t] = "pending" => cut

\* A rollback reported as done left nothing of the failed commit in the running
\* container when the target is one of its ancestors; if the revert conflicted,
\* the files it added may remain (git checkout of the target deletes none). The
\* script sees neither a checkout nor a container start that failed: then all of
\* the failed commit may still be served.
RollbackDropsFailed ==
  /\ result.status = "rolled_back" /\ result.commit \in anc[result.failed]
  /\ slips \cap {"upAgain", "restore"} = {}
  => LET kept == served.tree \cap (tree[result.failed] \ tree[result.commit])
     IN kept \subseteq IF fellBack THEN adds ELSE {}

\* A successful rebuild reports the next rollback target; unless the start of the
\* container failed unseen, the container runs a commit above it, and exactly the
\* files of that commit unless a restore once stayed uncommitted: although sessions
\* commit to the worktree while it is merged and built.
SuccessServesCommit ==
  result.status = "success" /\ result.commit # 0 =>
    /\ healthy = result.commit
    /\ "up" \notin slips => result.commit \in anc[served.commit]
    /\ "uncommitted" \notin slips => served.tree = tree[served.commit]

\* While the watcher runs, every trigger is taken and every deploy ends in a
\* final report or in a request to the operator. (A watcher that died leaves
\* "in_progress" behind, and deploy_bot then refuses every later deploy.)
EveryTriggerAnswered ==
  /\ (trigger # "none") ~> (w.pc = "taken")
  /\ (w.pc = "taken") ~> \/ wcrashes > 0
                         \/ w.pc = "idle" /\ result.status \in Terminal
                         \/ w.pc = "wait" /\ result.status = "pending_approval"

\* Comment of startup_recovery ("Otherwise, reset them to 'pending' for retry
\* (crash recovery)"): a task a crash interrupted is settled as done only when
\* it triggered the deploy itself. It fails: the marker of a deploy that never
\* restarted the bot (rejected, failed to build, cancelled) waits for the crash.
CrashRetries == dropped \subseteq deployed

\* docs/SETUP_GUIDE.md:609 ("On failure: captures logs -> auto-rolls back to last healthy
\* commit"): what is reported as deployed or as rolled back is what runs. It fails twice:
\* `docker compose up -d` may leave the old container to answer the health check, and the
\* checkout of a rollback may leave the failed files to be built again.
DeployIsServed ==
  result.status = "success" /\ result.commit # 0 =>
    result.commit \in anc[served.commit]

RollbackIsServed ==
  result.status = "rolled_back" /\ result.commit \in anc[result.failed] =>
    served.tree \cap (tree[result.failed] \ tree[result.commit]) \subseteq adds
=============================================================================
