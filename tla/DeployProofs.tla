----------------------------- MODULE DeployProofs -----------------------------
(* What a deploy promises whatever sessions, developers, the operator and   *)
(* crashes do in between, for any number of tasks, commits and deploys.     *)
EXTENDS Deploy, TLAPS, WellFoundedInduction

-----------------------------------------------------------------------------
(* Git                                                                     *)

\* A commit's ancestors are older commits and their ancestors; its changes are known ones.
GitInv ==
  /\ n \in Commits /\ tree \in [Commits -> SUBSET Commits] /\ anc \in [Commits -> SUBSET Commits]
  /\ \A c \in 1..n : /\ {1, c} \subseteq anc[c] /\ anc[c] \subseteq 1..c /\ tree[c] \subseteq 1..n
                     /\ \A d \in anc[c] : anc[d] \subseteq anc[c]

\* A deploy makes at most two commits of its own: its merge, then a revert.
Pending == IF trigger # "none" THEN 2 ELSE 0
Early == {"taken", "fetch", "gate", "wait", "merge"}
Late == {"rebuild", "rebuild-all", "restart", "up", "upAll", "health"}
Coming == IF w.pc \in Early THEN 2 ELSE IF w.pc \in Late THEN 1 ELSE 0
Bounded ==
  /\ posts \in Nat /\ posts <= MaxPosts
  /\ Pending + Coming <= 2 * posts /\ n + Pending + Coming <= MaxEdits + 1 + 2 * posts

-----------------------------------------------------------------------------
(* Types                                                                   *)

PCs == {"idle", "taken", "fetch", "gate", "wait", "merge", "rebuild", "rebuild-all", "restart",
        "up", "upAll", "health", "report", "again", "upAgain", "healthAgain"}
Statuses == Terminal \cup {"none", "in_progress", "pending_approval"}
Watchers(m) ==
  [pc : PCs, action : Actions \cup {"none"}, new : 0..m, target : 0..m,
   id : {<<>>} \cup (Commits \X Commits)]
Reports(m) == [status : Statuses, commit : 0..m, failed : 0..m]
TypeInv ==
  /\ TypeOK /\ w \in Watchers(n) /\ result \in Reports(n)
  /\ w.pc # "idle" => w.action \in Actions
  /\ deployed \subseteq Tasks /\ cut \in BOOLEAN /\ fellBack \in BOOLEAN

\* The worktree and the images are the commits they name, until a restore stays uncommitted.
Whole ==
  "uncommitted" \notin slips =>
    /\ work = tree[head] /\ image.tree = tree[image.commit]
    /\ served.tree = tree[served.commit]

-----------------------------------------------------------------------------
(* The bot                                                                 *)

\* Until the marker of a task's deploy has done its work it is there, or is being used.
LoopInv ==
  /\ \A t \in Tasks : at[t] # "idle" => bot = "up" /\ row[t] = "processing"
  /\ \A t \in Tasks : at[t] = "marked" => marker
  /\ cut \/ \A t \in deployed :
              /\ row[t] # "pending"
              /\ row[t] = "processing" => IF bot = "recovering" THEN boot = "deploy" ELSE marker

-----------------------------------------------------------------------------
(* The watcher                                                             *)

\* What is left in some files of a commit that failed, after a rollback from it.
Clean(kept, failed, target) ==
  target \in anc[failed] =>
    kept \cap (tree[failed] \ tree[target]) \subseteq IF fellBack THEN adds ELSE {}

\* What was merged is below the worktree's head, then in the image, then in the container;
\* what was rolled back is out of them: but for what slipped.
WatchInv ==
  /\ w.pc \in {"rebuild", "rebuild-all", "up", "upAll", "health"} => w.new \in 1..n /\ w.new \in anc[head]
  /\ w.pc \in {"up", "upAll"} => w.new \in anc[image.commit]
  /\ w.pc = "health" /\ "up" \notin slips => w.new \in anc[served.commit]
  /\ w.pc \in {"again", "upAgain", "healthAgain"} => w.new \in 1..n /\ w.target = healthy
  /\ w.pc = "again" /\ "restore" \notin slips => Clean(work, w.new, w.target)
  /\ w.pc = "upAgain" /\ "restore" \notin slips => Clean(image.tree, w.new, w.target)
  /\ w.pc = "healthAgain" /\ slips \cap {"upAgain", "restore"} = {} => Clean(served.tree, w.new, w.target)

\* A report stands until the next deploy begins.
ResultInv ==
  /\ result.status \in {"success", "rolled_back"} => w.pc \in {"idle", "taken"}
  /\ result.status = "success" /\ result.commit # 0 =>
       /\ healthy = result.commit
       /\ "up" \notin slips => result.commit \in anc[served.commit]
  /\ result.status = "rolled_back" =>
       /\ result.commit \in 1..n /\ result.failed \in 1..n
       /\ slips \cap {"upAgain", "restore"} = {} => Clean(served.tree, result.failed, result.commit)

Inv == GitInv /\ Bounded /\ TypeInv /\ LoopInv /\ WatchInv /\ ResultInv /\ Whole

-----------------------------------------------------------------------------
(* Commits are only ever added                                             *)

Grows ==
  /\ GitInv' /\ n' \in Nat /\ n <= n' /\ adds \subseteq adds'
  /\ \A c \in 1..n : tree'[c] = tree[c] /\ anc'[c] = anc[c]

LEMMA CommitBound ==
  ASSUME Bounded, n \in Commits, w.pc \in PCs
  PROVE  /\ n \in Nat /\ 1 <= n /\ n + Pending + Coming <= MaxCommit
         /\ MaxCommit \in Nat /\ MaxEdits + 1 <= MaxCommit
<1>1. /\ MaxEdits \in Nat /\ MaxPosts \in Nat /\ MaxCommit = MaxEdits + 1 + 2 * MaxPosts
  BY DeployAssumption DEF DeployAssumption
<1>2. posts \in Nat /\ 2 * posts <= 2 * MaxPosts
  BY <1>1 DEF Bounded
<1>3. Pending \in Nat /\ Coming \in Nat
  BY DEF Pending, Coming, PCs
<1> QED BY <1>1, <1>2, <1>3 DEF Bounded, Commits

LEMMA RecordedGrows ==
  ASSUME GitInv, MaxCommit \in Nat, n < MaxCommit, adds \subseteq adds',
         NEW t \in SUBSET (1 .. n + 1), NEW parents \in SUBSET (1..n), parents # {},
         Recorded(t, parents)
  PROVE  /\ Grows /\ n' = n + 1 /\ n + 1 \in 1..n' /\ tree'[n + 1] = t
         /\ n + 1 \in anc'[n + 1] /\ \A p \in parents : anc[p] \subseteq anc'[n + 1]
<1> DEFINE as == {n + 1} \cup UNION {anc[p] : p \in parents}
<1>1. n \in Nat /\ 1 <= n /\ n + 1 \in Commits /\ 1 .. n + 1 \subseteq Commits
  BY DEF GitInv, Commits
<1>2. n' = n + 1 /\ tree' = [tree EXCEPT ![n + 1] = t] /\ anc' = [anc EXCEPT ![n + 1] = as]
  BY DEF Recorded
<1>3. as \subseteq 1 .. n + 1
  <2>1. ASSUME NEW p \in parents PROVE anc[p] \subseteq 1 .. n + 1
    <3>1. p \in 1..n /\ anc[p] \subseteq 1..p
      BY DEF GitInv
    <3>2. 1..p \subseteq 1 .. n + 1
      BY <1>1, <3>1
    <3> QED BY <3>1, <3>2
  <2>2. n + 1 \in 1 .. n + 1
    BY <1>1
  <2> QED BY <2>1, <2>2
<1>4. \A x : x \in as <=> x = n + 1 \/ \E p \in parents : x \in anc[p]
  OBVIOUS
<1> HIDE DEF as
<1>5. tree' \in [Commits -> SUBSET Commits] /\ anc' \in [Commits -> SUBSET Commits]
  BY <1>1, <1>2, <1>3 DEF GitInv
<1>6. /\ tree'[n + 1] = t /\ anc'[n + 1] = as
      /\ \A c \in 1..n : tree'[c] = tree[c] /\ anc'[c] = anc[c]
  <2>1. tree \in [Commits -> SUBSET Commits] /\ anc \in [Commits -> SUBSET Commits]
    BY DEF GitInv
  <2>2. \A c \in 1..n : c \in Commits /\ c # n + 1
    BY <1>1
  <2> QED BY <1>1, <1>2, <2>1, <2>2
<1>7. ASSUME NEW c \in 1 .. n + 1
      PROVE  /\ {1, c} \subseteq anc'[c] /\ anc'[c] \subseteq 1..c /\ tree'[c] \subseteq 1 .. n + 1
             /\ \A d \in anc'[c] : anc'[d] \subseteq anc'[c]
  <2>1. CASE c = n + 1
    <3>1. ASSUME NEW d \in as PROVE anc'[d] \subseteq as
      <4>1. CASE d = n + 1
        BY <1>6, <4>1
      <4>2. CASE d # n + 1
        <5>1. PICK p \in parents : d \in anc[p]
          BY <1>4, <4>2
        <5>2. d \in 1..n /\ anc[d] \subseteq anc[p]
          BY <1>1, <5>1 DEF GitInv
        <5> QED BY <1>4, <1>6, <5>1, <5>2
      <4> QED BY <4>1, <4>2
    <3>2. n + 1 \in as /\ 1 \in as
      <4>1. PICK p \in parents : 1 \in anc[p]
        BY DEF GitInv
      <4> QED BY <1>4, <4>1
    <3> QED BY <1>3, <1>6, <2>1, <3>1, <3>2
  <2>2. CASE c \in 1..n
    <3>1. /\ {1, c} \subseteq anc[c] /\ anc[c] \subseteq 1..c /\ tree[c] \subseteq 1..n
          /\ \A d \in anc[c] : anc[d] \subseteq anc[c]
      BY <2>2 DEF GitInv
    <3>2. anc[c] \subseteq 1..n /\ 1..n \subseteq 1 .. n + 1
      BY <1>1, <2>2, <3>1
    <3>3. tree'[c] = tree[c] /\ anc'[c] = anc[c] /\ \A d \in anc[c] : anc'[d] = anc[d]
      BY <1>6, <2>2, <3>2
    <3> QED BY <3>1, <3>2, <3>3
  <2> QED BY <1>1, <2>1, <2>2
<1>8. GitInv'
  BY <1>1, <1>2, <1>5, <1>7 DEF GitInv
<1>9. n' \in Nat /\ n <= n' /\ n + 1 \in 1..n'
  BY <1>1, <1>2
<1>10. Grows
  BY <1>6, <1>8, <1>9 DEF Grows
<1>11. n + 1 \in as /\ \A p \in parents : anc[p] \subseteq as
  BY <1>4
<1> QED BY <1>2, <1>6, <1>9, <1>10, <1>11

LEMMA NoCommitGrows ==
  ASSUME GitInv, NoCommit
  PROVE  Grows /\ n' = n
BY DEF GitInv, NoCommit, Grows, Commits

\* The latest common ancestor of a commit and one of its ancestors is the latter.
LEMMA BaseOfAncestor ==
  ASSUME GitInv, NEW a \in 1..n, NEW b \in anc[a]
  PROVE  MergeBase(a, b) = b
<1>1. b \in 1..n /\ b \in anc[b] /\ anc[b] \subseteq 1..b
  BY DEF GitInv, Commits
<1>2. b \in anc[a] \cap anc[b] /\ \A d \in anc[a] \cap anc[b] : d <= b
  BY <1>1
<1>3. ASSUME NEW c \in anc[a] \cap anc[b], \A d \in anc[a] \cap anc[b] : d <= c
      PROVE  c = b
  <2>1. b <= c /\ c <= b /\ c \in 1..b
    BY <1>1, <1>2, <1>3
  <2> QED BY <1>1, <2>1
<1> QED BY <1>2, <1>3 DEF MergeBase

\* The least-number principle, for a set.
LEMMA LeastOf ==
  ASSUME NEW S \in SUBSET Nat, S # {}
  PROVE  \E x \in S : \A y \in S : x <= y
<1> DEFINE less == {ss \in Nat \X Nat : ss[1] < ss[2]}
<1>1. IsWellFoundedOn(less, Nat)
  BY NatLessThanWellFounded DEF OpToRel
<1> HIDE DEF less
<1>2. \E x \in S : \A y \in S : ~ (<<y, x>> \in less)
  BY <1>1, WFMin
<1>3. \A x, y \in Nat : ~ (<<y, x>> \in less) => x <= y
  BY DEF less
<1> QED BY <1>2, <1>3

\* All commits have the first one in common, so two have a latest common one.
LEMMA BaseIsCommit ==
  ASSUME GitInv, NEW a \in 1..n, NEW b \in 1..n
  PROVE  MergeBase(a, b) \in 1..n
<1> DEFINE common == anc[a] \cap anc[b]
           below == {m \in Nat : \E c \in common : c + m = n}
<1>1. n \in Nat /\ common \subseteq 1..n /\ 1 \in common
  <2>1. n \in Nat /\ anc[a] \subseteq 1..a /\ 1 \in anc[a] /\ 1 \in anc[b]
    BY DEF GitInv, Commits
  <2>2. 1..a \subseteq 1..n
    BY <2>1
  <2> QED BY <2>1, <2>2
<1>2. \A m \in Nat : m \in below <=> \E c \in common : c + m = n
  OBVIOUS
<1>3. below \in SUBSET Nat
  OBVIOUS
<1>4. \A c, d : c \in anc[a] \cap anc[b] <=> c \in common
  OBVIOUS
<1> HIDE DEF common, below
<1>5. n - 1 \in below
  <2>1. n - 1 \in Nat /\ 1 + (n - 1) = n
    BY <1>1
  <2> QED BY <1>1, <1>2, <2>1
<1>6. PICK m \in below : \A k \in below : m <= k
  BY <1>3, <1>5, LeastOf
<1>7. PICK c \in common : c + m = n
  BY <1>2, <1>3, <1>6
<1>8. ASSUME NEW d \in common PROVE d <= c
  <2>1. n - d \in Nat /\ d + (n - d) = n
    BY <1>1
  <2>2. n - d \in below
    BY <1>2, <2>1
  <2>3. m <= n - d /\ m \in Nat
    BY <1>3, <1>6, <2>2
  <2> QED BY <1>1, <1>7, <2>3
<1>9. MergeBase(a, b) \in common
  BY <1>4, <1>7, <1>8 DEF MergeBase
<1> QED BY <1>1, <1>9

LEMMA CleanGrows ==
  ASSUME GitInv, Grows, fellBack' = fellBack, NEW kept \in SUBSET (1..n), NEW f \in 1..n,
         NEW t \in 1..n, Clean(kept, f, t)
  PROVE  t \in anc'[f] => kept \cap (tree'[f] \ tree'[t]) \subseteq IF fellBack THEN adds' ELSE {}
BY DEF Grows, Clean

-----------------------------------------------------------------------------
(* Steps the watcher takes no part in                                      *)

\* What was cleaned from some files stays out of others.
StaysClean(from, to) ==
  \A f \in 1..n : Clean(from, f, healthy) =>
    (healthy \in anc'[f] =>
       to \cap (tree'[f] \ tree'[healthy]) \subseteq IF fellBack THEN adds' ELSE {})

\* The worktree may move on; what was cleaned from it stays out.
LEMMA WatchKept ==
  ASSUME Inv, Grows, UNCHANGED <<w, result, healthy, image, served, fellBack, slips>>,
         anc[head] \subseteq anc'[head'], StaysClean(work, work'),
         work = tree[head] => work' = tree'[head']
  PROVE  WatchInv' /\ ResultInv' /\ Whole'
<1>t. /\ GitInv /\ WatchInv /\ ResultInv /\ Whole /\ n \in Nat /\ healthy \in 1..n
      /\ image.commit \in 1..n /\ served.commit \in 1..n
      /\ image.tree \in SUBSET (1..n) /\ served.tree \in SUBSET (1..n)
  BY DEF Inv, GitInv, TypeInv, TypeOK, Commits
<1>1. \A kept \in SUBSET (1..n), f, t \in 1..n : Clean(kept, f, t) =>
        (t \in anc'[f] => kept \cap (tree'[f] \ tree'[t]) \subseteq IF fellBack THEN adds' ELSE {})
  BY <1>t, CleanGrows
<1>2. /\ anc'[image.commit] = anc[image.commit] /\ anc'[served.commit] = anc[served.commit]
      /\ tree'[image.commit] = tree[image.commit] /\ tree'[served.commit] = tree[served.commit]
      /\ \A c \in 1..n : c \in 1..n'
  BY <1>t DEF Grows
<1>3. WatchInv'
  <2>1. w.pc = "again" /\ "restore" \notin slips => Clean(work, w.new, w.target)'
    BY <1>t DEF WatchInv, Clean, StaysClean
  <2>2. w.pc \in {"again", "upAgain", "healthAgain"} => w.new \in 1..n /\ w.target \in 1..n
    BY <1>t DEF WatchInv
  <2>3. w.pc = "upAgain" /\ "restore" \notin slips => Clean(image.tree, w.new, w.target)'
    <3> SUFFICES ASSUME w.pc = "upAgain", "restore" \notin slips
                 PROVE  Clean(image.tree, w.new, w.target)'
      OBVIOUS
    <3>1. Clean(image.tree, w.new, w.target)
      BY <1>t DEF WatchInv
    <3> QED BY <1>1, <1>t, <2>2, <3>1 DEF Clean
  <2>4. w.pc = "healthAgain" /\ slips \cap {"upAgain", "restore"} = {} =>
          Clean(served.tree, w.new, w.target)'
    <3> SUFFICES ASSUME w.pc = "healthAgain", slips \cap {"upAgain", "restore"} = {}
                 PROVE  Clean(served.tree, w.new, w.target)'
      OBVIOUS
    <3>1. Clean(served.tree, w.new, w.target)
      BY <1>t DEF WatchInv
    <3> QED BY <1>1, <1>t, <2>2, <3>1 DEF Clean
  <2> QED BY <1>t, <1>2, <2>1, <2>3, <2>4 DEF WatchInv
<1>4. ResultInv'
  <2>1. ASSUME result.status = "rolled_back", slips \cap {"upAgain", "restore"} = {}
        PROVE  Clean(served.tree, result.failed, result.commit)'
    <3>1. /\ result.commit \in 1..n /\ result.failed \in 1..n
          /\ Clean(served.tree, result.failed, result.commit)
      BY <1>t, <2>1 DEF ResultInv
    <3> QED BY <1>1, <1>t, <3>1 DEF Clean
  <2> QED BY <1>t, <1>2, <2>1 DEF ResultInv
<1>5. Whole'
  BY <1>t, <1>2 DEF Whole
<1> QED BY <1>3, <1>4, <1>5

\* The bot's own part of the invariant.
BotType ==
  /\ bot \in {"starting", "recovering", "up"} /\ row \in [Tasks -> {"pending", "processing", "done"}]
  /\ at \in [Tasks -> {"idle", "gates", "marked"}] /\ want \in [Tasks -> Actions \cup {"none"}]
  /\ marker \in BOOLEAN /\ boot \in {"none", "deploy", "crash"}
  /\ trigger \in Actions \cup {"none"} /\ deployed \subseteq Tasks /\ cut \in BOOLEAN

LEMMA TypeKept ==
  ASSUME TypeInv, Grows, n \in Nat, UNCHANGED <<w, result, healthy, image, served, fellBack, slips>>,
         BotType', {head', origin', remote'} \subseteq 1..n', work' \subseteq 1..n'
  PROVE  TypeInv'
<1>1. 1..n \subseteq 1..n' /\ 0..n \subseteq 0..n' /\ n' \in Commits
      /\ tree' \in [Commits -> SUBSET Commits]
  BY DEF Grows, GitInv
<1>2. TypeOK'
  <2>1. {image', served'} \subseteq [commit : 1..n', tree : SUBSET (1..n')]
    BY <1>1 DEF TypeInv, TypeOK
  <2> QED BY <1>1, <2>1 DEF TypeInv, TypeOK, BotType
<1>3. w' \in Watchers(n') /\ result' \in Reports(n')
  BY <1>1 DEF TypeInv, Watchers, Reports
<1> QED BY <1>2, <1>3 DEF TypeInv, BotType

\* A container that dies forgets its tool calls and nothing else.
LEMMA DiesLoop ==
  ASSUME BotType, LoopInv, NEW cause, Dies(cause), UNCHANGED <<trigger, deployed>>
  PROVE  BotType' /\ LoopInv'
<1>1. /\ bot' = "starting" /\ at' = [t \in Tasks |-> "idle"]
      /\ cut' = (cut \/ (bot = "recovering" /\ boot = "deploy"))
      /\ UNCHANGED <<row, want, marker, boot>>
  BY DEF Dies
<1>2. BotType'
  BY <1>1 DEF BotType
<1>3. LoopInv'
  <2>1. \A t \in Tasks : at'[t] = "idle"
    BY <1>1
  <2>2. ASSUME ~ cut', NEW t \in deployed
        PROVE  row[t] # "pending" /\ (row[t] = "processing" => marker)
    <3>1. ~ cut /\ ~ (bot = "recovering" /\ boot = "deploy")
      BY <1>1, <2>2
    <3> QED BY <2>2, <3>1 DEF LoopInv
  <2> QED BY <1>1, <2>1, <2>2 DEF LoopInv
<1> QED BY <1>2, <1>3

\* What the bot does by itself.
BotMoves ==
  \/ \E t \in Tasks : Claim(t) \/ Finish(t) \/ DeployBot(t) \/ WriteMarker(t)
                        \/ GatesBlock(t) \/ WriteTrigger(t)
  \/ ReadMarker \/ Recover \/ BotCrashes

LEMMA BotLoop ==
  ASSUME BotType, LoopInv, BotMoves
  PROVE  BotType' /\ LoopInv'
<1>1. ASSUME NEW t \in Tasks, Claim(t) PROVE BotType' /\ LoopInv'
  <2>1. /\ bot = "up" /\ row[t] = "pending" /\ row' = [row EXCEPT ![t] = "processing"]
        /\ UNCHANGED <<bot, at, want, marker, boot, trigger, deployed, cut>>
    BY <1>1 DEF Claim, files, history
  <2> QED BY <2>1 DEF BotType, LoopInv
<1>2. ASSUME NEW t \in Tasks, Finish(t) PROVE BotType' /\ LoopInv'
  <2>1. /\ bot = "up" /\ row' = [row EXCEPT ![t] = "done"] /\ at' = [at EXCEPT ![t] = "idle"]
        /\ UNCHANGED <<bot, want, marker, boot, trigger, deployed, cut>>
    BY <1>2 DEF Finish, files, history
  <2> QED BY <2>1 DEF BotType, LoopInv
<1>3. ASSUME NEW t \in Tasks, DeployBot(t) PROVE BotType' /\ LoopInv'
  <2>1. PICK a \in Actions : want' = [want EXCEPT ![t] = a]
    BY <1>3 DEF DeployBot
  <2>2. /\ bot = "up" /\ row[t] = "processing" /\ at' = [at EXCEPT ![t] = "gates"]
        /\ UNCHANGED <<bot, row, marker, boot, trigger, deployed, cut>>
    BY <1>3 DEF DeployBot, files, history
  <2> QED BY <2>1, <2>2 DEF BotType, LoopInv
<1>4. ASSUME NEW t \in Tasks, WriteMarker(t) PROVE BotType' /\ LoopInv'
  <2>1. /\ bot = "up" /\ at[t] = "gates" /\ at' = [at EXCEPT ![t] = "marked"] /\ marker' = TRUE
        /\ UNCHANGED <<bot, row, want, boot, trigger, deployed, cut>>
    BY <1>4 DEF WriteMarker, files, history
  <2> QED BY <2>1 DEF BotType, LoopInv
<1>5. ASSUME NEW t \in Tasks, GatesBlock(t) PROVE BotType' /\ LoopInv'
  <2>1. /\ at' = [at EXCEPT ![t] = "idle"]
        /\ UNCHANGED <<bot, row, want, marker, boot, trigger, deployed, cut>>
    BY <1>5 DEF GatesBlock, files, history
  <2> QED BY <2>1 DEF BotType, LoopInv
<1>6. ASSUME NEW t \in Tasks, WriteTrigger(t) PROVE BotType' /\ LoopInv'
  <2>1. /\ bot = "up" /\ at[t] = "marked" /\ at' = [at EXCEPT ![t] = "idle"] /\ trigger' = want[t]
        /\ deployed' = deployed \cup {t} /\ UNCHANGED <<bot, row, want, marker, boot, cut>>
    BY <1>6 DEF WriteTrigger
  <2> QED BY <2>1 DEF BotType, LoopInv
<1>7. CASE ReadMarker
  <2>1. /\ bot = "starting" /\ bot' = "recovering" /\ marker' = FALSE
        /\ boot' = (IF marker THEN "deploy" ELSE "crash")
        /\ UNCHANGED <<row, at, want, trigger, deployed, cut>>
    BY <1>7 DEF ReadMarker, files, history
  <2> QED BY <2>1 DEF BotType, LoopInv
<1>8. CASE Recover
  <2>1. /\ bot = "recovering" /\ bot' = "up"
        /\ row' = [t \in Tasks |-> IF row[t] # "processing" THEN row[t]
                                   ELSE IF boot = "deploy" THEN "done" ELSE "pending"]
        /\ UNCHANGED <<at, want, marker, boot, trigger, deployed, cut>>
    BY <1>8 DEF Recover, files
  <2> QED BY <2>1 DEF BotType, LoopInv
<1>9. CASE BotCrashes
  BY <1>9, DiesLoop DEF BotCrashes, files
<1> QED BY <1>1, <1>2, <1>3, <1>4, <1>5, <1>6, <1>7, <1>8, <1>9 DEF BotMoves

LEMMA BotStep ==
  ASSUME Inv, BotMoves
  PROVE  Inv'
<1>t. /\ GitInv /\ Bounded /\ TypeInv /\ LoopInv /\ TypeOK /\ n \in Nat /\ BotType
  BY DEF Inv, TypeInv, TypeOK, GitInv, Commits, BotType
<1>1. /\ NoCommit
      /\ UNCHANGED <<head, work, origin, remote, w, result, healthy, image, served, fellBack, slips>>
  BY DEF BotMoves, Claim, Finish, DeployBot, WriteMarker, GatesBlock, WriteTrigger, ReadMarker,
         Recover, BotCrashes, files, git, docker, unsaid, NoCommit
<1>2. Grows /\ n' = n
  BY <1>t, <1>1, NoCommitGrows
<1>3. WatchInv' /\ ResultInv' /\ Whole'
  <2>1. anc' = anc /\ tree' = tree /\ adds' = adds
    BY <1>1 DEF NoCommit
  <2>2. StaysClean(work, work')
    BY <1>1, <2>1 DEF Clean, StaysClean
  <2> QED BY <1>1, <1>2, <2>1, <2>2, WatchKept
<1>4. BotType' /\ LoopInv'
  BY <1>t, BotLoop
<1>5. TypeInv'
  BY <1>t, <1>1, <1>2, <1>4, TypeKept DEF TypeOK
<1>6. Bounded'
  <2>1. CASE \E t \in Tasks : WriteTrigger(t)
    <3>1. posts < MaxPosts /\ posts' = posts + 1
      BY <1>t, <2>1 DEF WriteTrigger
    <3>2. PICK p \in {0, 2}, q \in {0, 2}, c \in {0, 1, 2} :
            Pending = p /\ Pending' = q /\ Coming = c /\ Coming' = c
      BY <1>1 DEF Pending, Coming
    <3>3. MaxPosts \in Nat /\ MaxEdits \in Nat
      BY DeployAssumption DEF DeployAssumption
    <3>4. posts \in Nat /\ p + c <= 2 * posts /\ n + p + c <= MaxEdits + 1 + 2 * posts
      BY <1>t, <3>2 DEF Bounded
    <3>5. /\ posts' \in Nat /\ posts' <= MaxPosts /\ q + c <= 2 * posts'
          /\ n' + q + c <= MaxEdits + 1 + 2 * posts'
      BY <1>t, <1>2, <3>1, <3>3, <3>4
    <3> QED BY <3>2, <3>5 DEF Bounded
  <2>2. CASE UNCHANGED <<trigger, posts>>
    BY <1>t, <1>1, <1>2, <2>2 DEF Bounded, Pending, Coming
  <2> QED BY <2>1, <2>2 DEF BotMoves, Claim, Finish, DeployBot, WriteMarker, GatesBlock, ReadMarker,
                            Recover, BotCrashes, files, counts
<1> QED BY <1>2, <1>3, <1>4, <1>5, <1>6 DEF Inv, Grows
-----------------------------------------------------------------------------
(* Commits of sessions, developers and the /rollback command               *)

\* The bounds after a commit, and with or without a trigger.
LEMMA WorkBound ==
  ASSUME Bounded, n \in Nat, w' = w,
         \/ /\ n' = n \/ (n < MaxEdits /\ n' = n + 1)
            /\ UNCHANGED <<trigger, posts>>
         \/ /\ n <= MaxEdits /\ n' = n + 1 /\ trigger = "none" /\ posts < MaxPosts
            /\ posts' = posts + 1 \/ UNCHANGED <<trigger, posts>>
  PROVE  Bounded'
<1>1. PICK p \in {0, 2}, q \in {0, 2}, c \in {0, 1, 2} :
        /\ Pending = p /\ Pending' = q /\ Coming = c /\ Coming' = c
        /\ trigger' = trigger => q = p
        /\ trigger = "none" => p = 0
  BY DEF Pending, Coming
<1>2. MaxPosts \in Nat /\ MaxEdits \in Nat
  BY DeployAssumption DEF DeployAssumption
<1>3. /\ posts \in Nat /\ posts <= MaxPosts /\ p + c <= 2 * posts
      /\ n + p + c <= MaxEdits + 1 + 2 * posts
  BY <1>1 DEF Bounded
<1>4. /\ posts' \in Nat /\ posts' <= MaxPosts /\ q + c <= 2 * posts'
      /\ n' + q + c <= MaxEdits + 1 + 2 * posts'
  <2>1. CASE (n' = n \/ (n < MaxEdits /\ n' = n + 1)) /\ UNCHANGED <<trigger, posts>>
    BY <1>1, <1>2, <1>3, <2>1
  <2>2. CASE /\ n <= MaxEdits /\ n' = n + 1 /\ trigger = "none" /\ posts < MaxPosts
             /\ posts' = posts + 1 \/ UNCHANGED <<trigger, posts>>
    BY <1>1, <1>2, <1>3, <2>2
  <2> QED BY <2>1, <2>2
<1> QED BY <1>1, <1>4 DEF Bounded

LEMMA WorkStep ==
  ASSUME Inv, BotCommits \/ BotPushes \/ DeveloperPushes \/ RollbackCommand
  PROVE  Inv'
<1>t. /\ GitInv /\ Bounded /\ TypeInv /\ LoopInv /\ n \in Nat /\ 1 <= n /\ BotType
      /\ head \in 1..n /\ origin \in 1..n /\ remote \in 1..n /\ healthy \in 1..n /\ w.pc \in PCs
      /\ work \subseteq 1..n /\ (adds' \in {adds, adds \cup {n + 1}} => adds \subseteq adds')
  BY DEF Inv, TypeInv, TypeOK, GitInv, Commits, BotType, Watchers
<1>1. /\ UNCHANGED <<w, result, healthy, image, served, fellBack, slips>>
      /\ UNCHANGED <<bot, row, at, want, boot, deployed, cut>> /\ marker' \in {marker, TRUE}
      /\ trigger' \in {trigger, "rebuild"}
  BY DEF BotCommits, BotPushes, DeveloperPushes, RollbackCommand, files, docker, app, history, unsaid
<1>2. n \in Nat /\ MaxCommit \in Nat /\ MaxEdits \in Nat /\ (n <= MaxEdits => n < MaxCommit)
  BY <1>t, CommitBound, DeployAssumption DEF DeployAssumption
<1>3. /\ 1..n \subseteq 1 .. n + 1 /\ n + 1 \in 1 .. n + 1 /\ n + 1 \notin 1..n
      /\ \A c \in 1..n : tree[c] \subseteq 1..n /\ n + 1 \notin tree[c]
  BY <1>t DEF GitInv
<1>4. BotType' /\ LoopInv'
  <2>1. BotType'
    BY <1>t, <1>1 DEF BotType, Actions
  <2>2. marker => marker'
    BY <1>1
  <2> QED BY <1>t, <1>1, <2>1, <2>2 DEF LoopInv
<1>5. ASSUME Grows, {head', origin', remote'} \subseteq 1..n', Bounded', anc[head] \subseteq anc'[head'],
             work' \subseteq 1..n', StaysClean(work, work'), work = tree[head] => work' = tree'[head']
      PROVE  Inv'
  <2>1. WatchInv' /\ ResultInv' /\ Whole'
    BY <1>1, <1>5, WatchKept
  <2>2. TypeInv'
    BY <1>t, <1>1, <1>4, <1>5, TypeKept
  <2> QED BY <1>4, <1>5, <2>1, <2>2 DEF Inv, Grows
<1>6. ASSUME Grows, head' = head, work' = work
      PROVE  /\ anc[head] \subseteq anc'[head'] /\ StaysClean(work, work') /\ work' \subseteq 1..n'
             /\ work = tree[head] => work' = tree'[head']
  BY <1>t, <1>6 DEF Clean, Grows, StaysClean
<1>7. CASE BotCommits
  <2>1. /\ n < MaxEdits /\ Recorded(work \cup {n + 1}, {head}) /\ adds \subseteq adds'
        /\ head' = n + 1 /\ work' = work \cup {n + 1} /\ UNCHANGED <<origin, remote, trigger, posts>>
    BY <1>t, <1>7 DEF BotCommits, Work, files, counts
  <2>2. work \cup {n + 1} \in SUBSET (1 .. n + 1)
    BY <1>t, <1>3
  <2>p. GitInv /\ n < MaxCommit /\ MaxCommit \in Nat /\ {head} \in SUBSET (1..n)
    BY <1>t, <1>2, <2>1
  <2>3. /\ Grows /\ n' = n + 1 /\ n + 1 \in 1..n' /\ tree'[n + 1] = work \cup {n + 1}
        /\ anc[head] \subseteq anc'[n + 1]
    BY <2>p, <2>1, <2>2, RecordedGrows
  <2>4. Bounded'
    BY <1>t, <1>1, <2>1, <2>3, WorkBound
  <2>5. StaysClean(work, work')
    BY <1>t, <1>3, <2>1, <2>3 DEF Clean, Grows, StaysClean
  <2>6. {head', origin', remote'} \subseteq 1..n' /\ work' \subseteq 1..n'
    BY <1>t, <1>3, <2>1, <2>3
  <2> QED BY <1>5, <2>1, <2>3, <2>4, <2>5, <2>6
<1>8. CASE BotPushes
  <2>1. /\ NoCommit /\ head' = head /\ work' = work /\ remote' = head /\ origin' = head
        /\ UNCHANGED <<trigger, posts>>
    BY <1>8 DEF BotPushes, files, counts
  <2>2. Grows /\ n' = n
    BY <1>t, <2>1, NoCommitGrows
  <2>3. Bounded'
    BY <1>t, <1>1, <2>1, <2>2, WorkBound
  <2> QED BY <1>t, <1>5, <1>6, <2>1, <2>2, <2>3
<1>9. CASE DeveloperPushes
  <2>1. /\ n < MaxEdits /\ Recorded(tree[remote] \cup {n + 1}, {remote}) /\ adds \subseteq adds'
        /\ remote' = n + 1 /\ UNCHANGED <<origin, head, work, trigger, posts>>
    BY <1>t, <1>9 DEF DeveloperPushes, Work, files, counts
  <2>2. tree[remote] \cup {n + 1} \in SUBSET (1 .. n + 1)
    BY <1>t, <1>3
  <2>p. GitInv /\ n < MaxCommit /\ MaxCommit \in Nat /\ {remote} \in SUBSET (1..n)
    BY <1>t, <1>2, <2>1
  <2>3. Grows /\ n' = n + 1 /\ n + 1 \in 1..n'
    BY <2>p, <2>1, <2>2, RecordedGrows
  <2>4. Bounded'
    BY <1>t, <1>1, <2>1, <2>3, WorkBound
  <2>6. {head', origin', remote'} \subseteq 1..n'
    BY <1>t, <2>1, <2>3
  <2> QED BY <1>5, <1>6, <2>1, <2>3, <2>4, <2>6
<1>10. CASE RollbackCommand
  <2>1. /\ trigger = "none" /\ posts < MaxPosts /\ n <= MaxEdits
        /\ Recorded(CheckedOut(healthy), {head}) /\ adds' = adds
        /\ head' = n + 1 /\ work' = CheckedOut(healthy)
        /\ origin' \in {origin, n + 1} /\ remote' \in {remote, n + 1}
        /\ posts' = posts + 1 \/ UNCHANGED <<trigger, posts>>
    BY <1>10 DEF RollbackCommand, NewCommit
  <2>2. CheckedOut(healthy) \in SUBSET (1 .. n + 1)
    BY <1>t, <1>3 DEF CheckedOut
  <2>p. GitInv /\ n < MaxCommit /\ MaxCommit \in Nat /\ {head} \in SUBSET (1..n)
    BY <1>t, <1>2, <2>1
  <2>3. /\ Grows /\ n' = n + 1 /\ n + 1 \in 1..n' /\ tree'[n + 1] = CheckedOut(healthy)
        /\ anc[head] \subseteq anc'[n + 1]
    BY <2>p, <2>1, <2>2, RecordedGrows
  <2>4. Bounded'
    BY <1>t, <1>1, <2>1, <2>3, WorkBound
  <2>5. StaysClean(work, work')
    BY <1>t, <1>3, <2>1, <2>3 DEF Clean, Grows, CheckedOut, StaysClean
  <2>6. {head', origin', remote'} \subseteq 1..n' /\ work' \subseteq 1..n'
    BY <1>t, <2>1, <2>2, <2>3
  <2> QED BY <1>5, <2>1, <2>3, <2>4, <2>5, <2>6
<1> QED BY <1>7, <1>8, <1>9, <1>10
-----------------------------------------------------------------------------
(* The watcher's steps                                                     *)

\* Every commit of its own uses up what its trigger allows.
LEMMA SpentBound ==
  ASSUME Bounded, n \in Nat, n' \in {n, n + 1}, posts' = posts,
         \/ /\ n' = n /\ trigger' = trigger
            /\ w'.pc \in Early => w.pc \in Early
            /\ w'.pc \in Late => w.pc \in Early \cup Late
         \/ n' = n /\ trigger # "none" /\ trigger' = "none" /\ w.pc \notin Early \cup Late
         \/ trigger' = trigger /\ w.pc \in Early /\ w'.pc \notin Early
         \/ trigger' = trigger /\ w.pc \in Late /\ w'.pc \notin Early \cup Late
  PROVE  Bounded'
<1>1. PICK p \in {0, 2}, q \in {0, 2}, c \in {0, 1, 2}, d \in {0, 1, 2} :
        /\ Pending = p /\ Pending' = q /\ Coming = c /\ Coming' = d
        /\ trigger' = trigger => q = p
        /\ trigger # "none" /\ trigger' = "none" => p = 2 /\ q = 0
        /\ c = IF w.pc \in Early THEN 2 ELSE IF w.pc \in Late THEN 1 ELSE 0
        /\ d = IF w'.pc \in Early THEN 2 ELSE IF w'.pc \in Late THEN 1 ELSE 0
  BY DEF Pending, Coming
<1>2. (n' = n /\ q + d <= p + c) \/ (q = p /\ d + 1 <= c)
  <2>1. CASE /\ n' = n /\ trigger' = trigger
             /\ w'.pc \in Early => w.pc \in Early
             /\ w'.pc \in Late => w.pc \in Early \cup Late
    <3>1. q = p /\ d <= c
      BY <1>1, <2>1
    <3> QED BY <2>1, <3>1
  <2>2. CASE n' = n /\ trigger # "none" /\ trigger' = "none" /\ w.pc \notin Early \cup Late
    BY <1>1, <2>2
  <2>3. CASE trigger' = trigger /\ w.pc \in Early /\ w'.pc \notin Early
    BY <1>1, <2>3
  <2>4. CASE trigger' = trigger /\ w.pc \in Late /\ w'.pc \notin Early \cup Late
    <3>1. w.pc \notin Early
      BY <2>4 DEF Early, Late
    <3> QED BY <1>1, <2>4, <3>1
  <2> QED BY <2>1, <2>2, <2>3, <2>4
<1>3. MaxPosts \in Nat /\ MaxEdits \in Nat
  BY DeployAssumption DEF DeployAssumption
<1>4. /\ posts \in Nat /\ posts <= MaxPosts /\ p + c <= 2 * posts
      /\ n + p + c <= MaxEdits + 1 + 2 * posts
  BY <1>1 DEF Bounded
<1>5. PICK m \in Nat : n' = m /\ (m = n \/ m = n + 1)
  OBVIOUS
<1>6. m + q + d <= n + p + c /\ q + d <= p + c
  BY <1>2, <1>5
<1>7. /\ posts' \in Nat /\ posts' <= MaxPosts /\ q + d <= 2 * posts'
      /\ m + q + d <= MaxEdits + 1 + 2 * posts'
  BY <1>3, <1>4, <1>6
<1> QED BY <1>1, <1>5, <1>7 DEF Bounded

\* A step that moves nothing but the watcher, a report and the requests to the operator.
Quiet ==
  /\ NoCommit /\ UNCHANGED <<app, deployed, cut, posts, head, work, remote, image, served, healthy, fellBack>>
  /\ origin' \in {origin, remote} /\ trigger' \in {trigger, "none"}
  /\ w' \in Watchers(n) /\ (w'.pc # "idle" => w'.action \in Actions)
  /\ w'.pc \in {"idle", "taken", "restart", "fetch", "gate", "wait", "merge"}
  /\ \/ result' = result /\ slips' = slips /\ (w'.pc \in {"idle", "taken"} \/ result.status \notin {"success", "rolled_back"})
     \/ /\ slips' \in {slips, slips \cap {"uncommitted"}}
        /\ result' \in Reports(n) /\ result'.status # "rolled_back"
        /\ result'.status = "success" => result'.commit = 0 /\ w'.pc = "idle"
  /\ \/ /\ trigger' = trigger
        /\ w'.pc \in Early => w.pc \in Early
        /\ w'.pc \in Late => w.pc \in Early \cup Late
     \/ trigger # "none" /\ trigger' = "none" /\ w.pc \notin Early \cup Late

LEMMA QuietKeeps ==
  ASSUME Inv, Quiet
  PROVE  Inv'
<1>t. /\ GitInv /\ Bounded /\ TypeInv /\ LoopInv /\ WatchInv /\ ResultInv /\ Whole /\ n \in Nat
  BY DEF Inv, GitInv, Commits
<1>1. /\ GitInv' /\ UNCHANGED <<n, tree, anc, adds>>
  BY <1>t DEF Quiet, NoCommit, GitInv
<1>2. Bounded'
  BY <1>t, <1>1, SpentBound DEF Quiet
<1>3. TypeInv'
  <2>1. TypeOK'
    <3>1. result'.status \in Statuses
      BY <1>t DEF Quiet, TypeInv, Reports
    <3>2. /\ {head', origin', remote', healthy'} \subseteq 1..n' /\ work' \subseteq 1..n'
          /\ {image', served'} \subseteq [commit : 1..n', tree : SUBSET (1..n')]
      BY <1>t, <1>1 DEF Quiet, TypeInv, TypeOK
    <3>5. slips' \subseteq {"up", "upAgain", "restore", "uncommitted"}
      BY <1>t DEF Quiet, TypeInv, TypeOK
    <3>3. n' \in Commits /\ tree' \in [Commits -> SUBSET Commits]
      BY <1>1 DEF GitInv
    <3>4. trigger' \in Actions \cup {"none"}
      BY <1>t DEF Quiet, TypeInv, TypeOK
    <3> QED BY <1>t, <3>1, <3>2, <3>3, <3>4, <3>5 DEF Quiet, TypeInv, TypeOK, app, Statuses
  <2>2. w' \in Watchers(n') /\ result' \in Reports(n')
    BY <1>t, <1>1 DEF Quiet, TypeInv
  <2> QED BY <1>t, <2>1, <2>2 DEF Quiet, TypeInv
<1>4. LoopInv'
  BY <1>t DEF Quiet, LoopInv, app
<1>5. WatchInv'
  BY DEF Quiet, WatchInv
<1>6. ResultInv'
  BY <1>t, <1>1 DEF Quiet, ResultInv, Clean
<1>7. Whole'
  <2>1. "uncommitted" \in slips => "uncommitted" \in slips'
    BY DEF Quiet
  <2> QED BY <1>t, <1>1, <2>1 DEF Quiet, Whole
<1> QED BY <1>1, <1>2, <1>3, <1>4, <1>5, <1>6, <1>7 DEF Inv

LEMMA QuietSteps ==
  ASSUME Inv,
         \/ Take \/ Begin \/ Fetch \/ GateOpen \/ AskApproval \/ Superseded \/ Approved \/ Rejected
         \/ ReportDone \/ UnhealthyNoTarget \/ BuildAllFails \/ RollbackBuildFails
         \/ RollbackUnhealthy \/ WatcherDies
  PROVE  Inv'
<1>t. /\ TypeInv /\ ResultInv /\ w \in Watchers(n) /\ n \in Nat /\ trigger \in Actions \cup {"none"}
      /\ healthy \in Commits /\ origin \in Commits /\ result \in Reports(n)
  <2>1. TypeInv /\ ResultInv /\ n \in Commits /\ TypeOK
    BY DEF Inv, TypeInv, GitInv
  <2>2. MaxCommit \in Nat
    BY DeployAssumption DEF DeployAssumption
  <2>3. n \in Nat /\ 1..n \subseteq Commits
    BY <2>1, <2>2 DEF Commits
  <2> QED BY <2>1, <2>3 DEF TypeInv, TypeOK
<1>w. /\ w.pc \in PCs /\ w.action \in Actions \cup {"none"} /\ w.new \in 0..n /\ w.target \in 0..n
      /\ w.id \in {<<>>} \cup (Commits \X Commits) /\ (w.pc # "idle" => w.action \in Actions)
  BY <1>t DEF TypeInv, Watchers
<1>i. Idle \in Watchers(n) /\ Idle.pc = "idle"
  BY <1>t DEF Idle, Watchers, PCs
<1>r. \A st \in Statuses, c, f \in 0..n :
        Report(st, c, f) \in Reports(n) /\ Report(st, c, f).status = st /\ Report(st, c, f).commit = c
  BY DEF Report, Reports
<1>g. \A pc \in PCs :
        /\ [w EXCEPT !.pc = pc] \in Watchers(n) /\ [w EXCEPT !.pc = pc].pc = pc
        /\ [w EXCEPT !.pc = pc].action = w.action
  BY <1>t DEF Watchers
<1>s. Terminal \cup {"none", "in_progress", "pending_approval"} = Statuses /\ 0 \in 0..n
  BY <1>t DEF Statuses
<1>q. ASSUME Quiet PROVE Inv'
  BY <1>q, QuietKeeps
<1>1. CASE Take
  <2>1. w' = [Idle EXCEPT !.pc = "taken", !.action = trigger] /\ trigger \in Actions
    BY <1>t, <1>1 DEF Take
  <2>2. w' \in Watchers(n) /\ w'.pc = "taken" /\ w'.action = trigger
    <3>1. w' = [pc |-> "taken", action |-> trigger, new |-> 0, target |-> 0, id |-> <<>>]
      BY <2>1 DEF Idle
    <3> QED BY <1>t, <1>s, <2>1, <3>1 DEF Watchers, PCs
  <2>3. Quiet
    BY <1>1, <2>1, <2>2 DEF Quiet, Take, NoCommit, git, docker, counts, history, unsaid, Early, Late
  <2> QED BY <1>q, <2>3
<1>2. CASE Begin
  <2>1. w'.pc \in {"restart", "fetch"} /\ w' \in Watchers(n) /\ w'.action = w.action
    BY <1>g, <1>2 DEF Begin, Goto, PCs
  <2>2. result' \in Reports(n) /\ result'.status = "in_progress"
    BY <1>r, <1>s, <1>2 DEF Begin
  <2>3. Quiet
    BY <1>w, <1>2, <2>1, <2>2 DEF Quiet, Begin, NoCommit, git, docker, counts, history, Early, Late
  <2> QED BY <1>q, <2>3
<1>3. CASE Fetch
  <2>1. w'.pc = "gate" /\ w' \in Watchers(n) /\ w'.action = w.action
    BY <1>g, <1>3 DEF Fetch, Goto, PCs
  <2>2. Quiet
    BY <1>t, <1>w, <1>3, <2>1 DEF Quiet, Fetch, docker, files, counts, history, unsaid, ResultInv, Early, Late
  <2> QED BY <1>q, <2>2
<1>4. CASE GateOpen
  <2>1. w'.pc = "merge" /\ w' \in Watchers(n) /\ w'.action = w.action
    BY <1>g, <1>4 DEF GateOpen, Goto, PCs
  <2>2. Quiet
    BY <1>t, <1>w, <1>4, <2>1
       DEF Quiet, GateOpen, NoCommit, git, docker, files, counts, history, unsaid, ResultInv, Early, Late
  <2> QED BY <1>q, <2>2
<1>5. CASE AskApproval
  <2>1. w' = [w EXCEPT !.pc = "wait", !.id = <<healthy, origin>>]
    BY <1>5 DEF AskApproval
  <2>2. w'.pc = "wait" /\ w' \in Watchers(n) /\ w'.action = w.action
    BY <1>t, <2>1 DEF Watchers, PCs
  <2>3. result' \in Reports(n) /\ result'.status = "pending_approval"
    BY <1>r, <1>s, <1>5 DEF AskApproval
  <2>4. Quiet
    BY <1>w, <1>5, <2>2, <2>3 DEF Quiet, AskApproval, NoCommit, git, docker, counts, history, unsaid, Early, Late
  <2> QED BY <1>q, <2>4
<1>6. CASE Approved
  <2>1. w'.pc = "merge" /\ w' \in Watchers(n) /\ w'.action = w.action
    BY <1>g, <1>6 DEF Approved, Goto, PCs
  <2>2. Quiet
    BY <1>t, <1>w, <1>6, <2>1
       DEF Quiet, Approved, NoCommit, git, docker, counts, history, unsaid, ResultInv, Early, Late
  <2> QED BY <1>q, <2>2
<1>7. CASE WatcherDies
  <2>1. Quiet
    BY <1>i, <1>7 DEF Quiet, WatcherDies, NoCommit, git, docker, files, counts, history, unsaid, Early, Late
  <2> QED BY <1>q, <2>1
<1>8. ASSUME NEW st \in Terminal \ {"rolled_back"}, NEW c \in 0..n, NEW f \in 0..n,
             Ends(Report(st, c, f)), st = "success" => c = 0,
             UNCHANGED <<app, trigger, healthy, git, docker, posts, history, unsaid>>
      PROVE  Inv'
  <2>1. result' = Report(st, c, f) /\ w' = Idle
    BY <1>8 DEF Ends
  <2>2. result' \in Reports(n) /\ result'.status = st /\ result'.commit = c
    BY <1>r, <1>s, <2>1, <1>8
  <2>3. Quiet
    BY <1>i, <1>8, <2>1, <2>2 DEF Quiet, NoCommit, git, docker, history, unsaid, Early, Late
  <2> QED BY <1>q, <2>3
<1>9. CASE Superseded \/ Rejected \/ ReportDone \/ UnhealthyNoTarget \/ BuildAllFails
           \/ RollbackBuildFails \/ RollbackUnhealthy
  <2>1. \E st \in Terminal \ {"rolled_back"}, c \in 0..n, f \in 0..n :
          Ends(Report(st, c, f)) /\ (st = "success" => c = 0)
    <3>1. {"success", "rejected", "superseded", "build_failed", "unhealthy", "rollback_unhealthy",
           "rollback_build_failed"} \subseteq Terminal \ {"rolled_back"}
      BY DEF Terminal
    <3> QED BY <1>w, <1>s, <1>9, <3>1
            DEF Superseded, Rejected, ReportDone, UnhealthyNoTarget, BuildAllFails,
                RollbackBuildFails, RollbackUnhealthy
  <2>2. UNCHANGED <<app, trigger, healthy, git, docker, posts, history, unsaid>>
    BY <1>9 DEF Superseded, Rejected, ReportDone, UnhealthyNoTarget, BuildAllFails,
                RollbackBuildFails, RollbackUnhealthy, counts, unsaid
  <2> QED BY <1>8, <2>1, <2>2
<1> QED BY <1>1, <1>2, <1>3, <1>4, <1>5, <1>6, <1>7, <1>9
\* Where git, docker and the target point.
Placed ==
  /\ {head, origin, remote, healthy} \subseteq 1..n /\ work \subseteq 1..n
  /\ {image, served} \subseteq [commit : 1..n, tree : SUBSET (1..n)]
  /\ slips \subseteq {"up", "upAgain", "restore", "uncommitted"}

LEMMA PlacedGrows ==
  ASSUME Placed, 1..n \subseteq 1..n', UNCHANGED <<healthy, origin, remote, image, served>>,
         head' \in 1..n', work' \subseteq 1..n',
         slips' \subseteq slips \cup {"restore", "uncommitted"}
  PROVE  Placed'
<1>1. {image, served} \subseteq [commit : 1..n', tree : SUBSET (1..n')]
  BY DEF Placed
<1> QED BY <1>1 DEF Placed

LEMMA WatchType ==
  ASSUME GitInv', BotType', Placed',
         w' \in Watchers(n'), w'.pc # "idle" => w'.action \in Actions, result' \in Reports(n'),
         fellBack' \in BOOLEAN
  PROVE  TypeInv'
<1>1. result'.status \in Terminal \cup {"none", "in_progress", "pending_approval"}
  BY DEF Reports, Statuses
<1>2. n' \in Commits /\ tree' \in [Commits -> SUBSET Commits]
  BY DEF GitInv
<1>3. TypeOK'
  BY <1>1, <1>2 DEF TypeOK, BotType, Placed
<1> QED BY <1>3 DEF TypeInv, BotType

\* The watcher's variables after an assignment.
LEMMA Moved ==
  ASSUME w \in Watchers(n), NEW pc \in PCs
  PROVE  /\ [w EXCEPT !.pc = pc] \in Watchers(n) /\ [w EXCEPT !.pc = pc].pc = pc
         /\ [w EXCEPT !.pc = pc].action = w.action /\ [w EXCEPT !.pc = pc].new = w.new
         /\ [w EXCEPT !.pc = pc].target = w.target
BY DEF Watchers

\* What a step of the watcher starts from.
LEMMA WatchFacts ==
  ASSUME Inv
  PROVE  /\ GitInv /\ Bounded /\ LoopInv /\ WatchInv /\ ResultInv /\ Whole /\ BotType /\ n \in Nat /\ 1 <= n
         /\ Placed
         /\ w \in Watchers(n) /\ result \in Reports(n) /\ w.pc \in PCs /\ w.action \in Actions \cup {"none"}
         /\ (w.pc # "idle" => w.action \in Actions) /\ w.new \in 0..n /\ w.target \in 0..n
         /\ fellBack \in BOOLEAN /\ Idle \in Watchers(n) /\ Idle.pc = "idle"
<1>1. /\ GitInv /\ Bounded /\ LoopInv /\ WatchInv /\ ResultInv /\ Whole /\ TypeInv /\ TypeOK
  BY DEF Inv, TypeInv
<1>2. /\ w \in Watchers(n) /\ result \in Reports(n) /\ (w.pc # "idle" => w.action \in Actions)
      /\ fellBack \in BOOLEAN /\ Placed
      /\ BotType /\ n \in Nat /\ 1 <= n
  BY <1>1 DEF TypeInv, TypeOK, BotType, GitInv, Commits, Placed
<1>3. w.pc \in PCs /\ w.action \in Actions \cup {"none"} /\ w.new \in 0..n /\ w.target \in 0..n
  BY <1>2 DEF Watchers
<1>4. Idle \in Watchers(n) /\ Idle.pc = "idle"
  BY <1>2 DEF Idle, Watchers, PCs
<1> QED BY <1>1, <1>2, <1>3, <1>4

\* Images are built and containers replaced.
LEMMA BuildStep ==
  ASSUME Inv, Build
  PROVE  Inv'
<1>t. /\ GitInv /\ Bounded /\ LoopInv /\ WatchInv /\ ResultInv /\ Whole /\ BotType /\ n \in Nat
      /\ Placed
      /\ result \in Reports(n) /\ w.action \in Actions \cup {"none"} /\ fellBack \in BOOLEAN
      /\ (w.pc # "idle" => w.action \in Actions)
  BY WatchFacts
<1>1. /\ image' = Built(head, work) /\ NoCommit
      /\ UNCHANGED <<bot, row, at, want, marker, boot, trigger, result, healthy, head, work, origin,
                     remote, served, posts, deployed, cut, fellBack, slips>>
      /\ w.pc \in {"rebuild", "rebuild-all", "again"}
  BY DEF Build, app, files, git, counts, history, unsaid, NoCommit
<1>i. image'.commit = head /\ image'.tree = work /\ Placed'
  <2>1. image'.commit = head /\ image'.tree = work
    BY <1>1 DEF Built
  <2>2. head \in 1..n /\ work \in SUBSET (1..n)
    BY <1>t DEF Placed
  <2>3. image' \in [commit : 1..n, tree : SUBSET (1..n)]
    BY <1>1, <2>2 DEF Built
  <2> QED BY <1>t, <1>1, <2>1, <2>3 DEF Placed, NoCommit
<1>2. PICK pc \in {"up", "upAll", "upAgain"} :
        /\ w' = [w EXCEPT !.pc = pc]
        /\ w.pc = "again" => pc = "upAgain"
        /\ w.pc \in {"rebuild", "rebuild-all"} => pc \in {"up", "upAll"}
  BY <1>1 DEF Build
<1>3. /\ w' \in Watchers(n) /\ w'.pc = pc /\ w'.action = w.action /\ w'.new = w.new
      /\ w'.target = w.target
  BY <1>2, WatchFacts, Moved DEF PCs
<1>4. GitInv' /\ UNCHANGED <<n, tree, anc, adds>>
  BY <1>t, <1>1 DEF NoCommit, GitInv
<1>5. Bounded'
  BY <1>t, <1>1, <1>2, <1>3, <1>4, SpentBound DEF Early, Late
<1>6. TypeInv'
  <2>1. BotType'
    BY <1>t, <1>1 DEF BotType
  <2> QED BY <1>t, <1>1, <1>i, <1>2, <1>3, <1>4, <2>1, WatchType
<1>7. LoopInv'
  BY <1>t, <1>1 DEF LoopInv
<1>8. WatchInv'
  BY <1>t, <1>1, <1>i, <1>2, <1>3, <1>4 DEF WatchInv, Clean
<1>9. ResultInv'
  BY <1>t, <1>1, <1>4 DEF ResultInv
<1>10. Whole'
  BY <1>t, <1>1, <1>i, <1>4 DEF Whole
<1> QED BY <1>4, <1>5, <1>6, <1>7, <1>8, <1>9, <1>10 DEF Inv

LEMMA UpStep ==
  ASSUME Inv, Up \/ Restart
  PROVE  Inv'
<1>t. /\ GitInv /\ Bounded /\ LoopInv /\ WatchInv /\ ResultInv /\ Whole /\ BotType /\ n \in Nat
      /\ Placed
      /\ result \in Reports(n) /\ w.action \in Actions \cup {"none"} /\ fellBack \in BOOLEAN
      /\ (w.pc # "idle" => w.action \in Actions)
  BY WatchFacts
<1>1. /\ NoCommit /\ (Dies("deploy") \/ UNCHANGED <<app, death, cut>>)
      /\ UNCHANGED <<trigger, result, healthy, head, work, origin, remote, image, posts, deployed, fellBack>>
  BY DEF Up, Restart, files, git, docker, counts, unsaid, NoCommit
<1>2. PICK pc \in {"health", "report", "healthAgain"} :
        /\ w' = [w EXCEPT !.pc = pc]
        /\ \/ w.pc = "restart" /\ pc = "report" /\ served' = served /\ slips' = slips
           \/ /\ (w.pc = "up" /\ pc = "health") \/ (w.pc = "upAll" /\ pc = "report")
                   \/ (w.pc = "upAgain" /\ pc = "healthAgain")
              /\ \/ served' = image /\ slips' = slips
                 \/ served' = served /\ slips' = slips \cup ({w.pc} \ {"upAll"})
  <2>1. CASE Up
    BY <2>1 DEF Up
  <2>2. CASE Restart
    BY <2>2 DEF Restart, Goto, docker, unsaid
  <2> QED BY <2>1, <2>2
<1>3. /\ w' \in Watchers(n) /\ w'.pc = pc /\ w'.action = w.action /\ w'.new = w.new
      /\ w'.target = w.target
  BY <1>2, WatchFacts, Moved DEF PCs
<1>4. GitInv' /\ UNCHANGED <<n, tree, anc, adds>>
  BY <1>t, <1>1 DEF NoCommit, GitInv
<1>5. Bounded'
  BY <1>t, <1>1, <1>2, <1>3, <1>4, SpentBound DEF Early, Late
<1>6. BotType' /\ LoopInv'
  <2>1. CASE Dies("deploy")
    BY <1>t, <1>1, <2>1, DiesLoop
  <2>2. CASE UNCHANGED <<app, death, cut>>
    BY <1>t, <1>1, <2>2 DEF app, BotType, LoopInv
  <2> QED BY <1>1, <2>1, <2>2
<1>7. TypeInv'
  <2>1. slips' \subseteq {"up", "upAgain", "restore", "uncommitted"}
    BY <1>t, <1>2 DEF Placed
  <2>2. Placed'
    BY <1>t, <1>1, <1>2, <1>4, <2>1 DEF Placed
  <2> QED BY <1>t, <1>1, <1>2, <1>3, <1>4, <1>6, <2>2, WatchType
<1>8. WatchInv'
  BY <1>t, <1>1, <1>2, <1>3, <1>4 DEF WatchInv, Clean
<1>9. ResultInv'
  BY <1>t, <1>1, <1>2, <1>4 DEF ResultInv
<1>10. Whole'
  BY <1>t, <1>1, <1>2, <1>4 DEF Whole
<1> QED BY <1>4, <1>5, <1>6, <1>7, <1>8, <1>9, <1>10 DEF Inv

\* A deploy, or a rollback, that ends well.
LEMMA HealthyStep ==
  ASSUME Inv, Healthy \/ RolledBack
  PROVE  Inv'
<1>t. /\ GitInv /\ Bounded /\ LoopInv /\ WatchInv /\ ResultInv /\ Whole /\ BotType /\ n \in Nat
      /\ Placed
      /\ fellBack \in BOOLEAN /\ Idle \in Watchers(n) /\ Idle.pc = "idle"
      /\ w.new \in 0..n /\ w.target \in 0..n
  BY WatchFacts
<1>1. /\ NoCommit /\ w' = Idle
      /\ UNCHANGED <<bot, row, at, want, marker, boot, trigger, head, work, origin, remote,
                     image, served, posts, deployed, cut, fellBack, slips>>
  BY DEF Healthy, RolledBack, Ends, app, git, docker, counts, history, unsaid, NoCommit
<1>2. \/ w.pc = "health" /\ healthy' = w.new /\ result' = Report("success", w.new, 0)
      \/ w.pc = "healthAgain" /\ healthy' = w.target /\ result' = Report("rolled_back", w.target, w.new)
  BY DEF Healthy, RolledBack, Ends
<1>3. healthy' \in 1..n /\ result' \in Reports(n)
  BY <1>t, <1>2 DEF WatchInv, Report, Reports, Statuses, Terminal, Placed
<1>4. GitInv' /\ UNCHANGED <<n, tree, anc, adds>>
  BY <1>t, <1>1 DEF NoCommit, GitInv
<1>5. Bounded'
  BY <1>t, <1>1, <1>4, SpentBound DEF Early, Late
<1>6. BotType' /\ LoopInv'
  BY <1>t, <1>1 DEF BotType, LoopInv
<1>7. TypeInv'
  <2>1. Placed'
    BY <1>t, <1>1, <1>3, <1>4 DEF Placed
  <2> QED BY <1>t, <1>1, <1>3, <1>4, <1>6, <2>1, WatchType
<1>8. WatchInv'
  BY <1>t, <1>1 DEF WatchInv
<1>9. ResultInv'
  <2>1. CASE w.pc = "health" /\ healthy' = w.new /\ result' = Report("success", w.new, 0)
    BY <1>t, <1>1, <1>4, <2>1 DEF ResultInv, WatchInv, Report
  <2>2. CASE w.pc = "healthAgain" /\ healthy' = w.target /\ result' = Report("rolled_back", w.target, w.new)
    <3>1. /\ w.target = healthy /\ w.new \in 1..n
          /\ slips \cap {"upAgain", "restore"} = {} => Clean(served.tree, w.new, w.target)
      BY <1>t, <2>2 DEF WatchInv
    <3>2. result'.status = "rolled_back" /\ result'.commit = w.target /\ result'.failed = w.new
      BY <2>2 DEF Report
    <3> QED BY <1>t, <1>1, <1>4, <3>1, <3>2 DEF ResultInv, Clean, Placed
  <2> QED BY <1>2, <2>1, <2>2
<1>10. Whole'
  BY <1>t, <1>1, <1>4 DEF Whole
<1> QED BY <1>4, <1>5, <1>6, <1>7, <1>8, <1>9, <1>10 DEF Inv
-----------------------------------------------------------------------------
(* The merge and the rollbacks                                             *)

LEMMA Room ==
  ASSUME Bounded, n \in Nat, w.pc \in Early \cup Late
  PROVE  n < MaxCommit /\ MaxCommit \in Nat
<1>1. PICK p \in {0, 2}, c \in {1, 2} : Pending = p /\ Coming = c
  BY DEF Pending, Coming
<1>2. MaxPosts \in Nat /\ MaxEdits \in Nat /\ MaxCommit = MaxEdits + 1 + 2 * MaxPosts
  BY DeployAssumption DEF DeployAssumption
<1>3. posts \in Nat /\ posts <= MaxPosts /\ n + p + c <= MaxEdits + 1 + 2 * posts
  BY <1>1 DEF Bounded
<1> QED BY <1>2, <1>3

LEMMA MergeStep ==
  ASSUME Inv, Merge
  PROVE  Inv'
<1>t. /\ GitInv /\ Bounded /\ LoopInv /\ WatchInv /\ ResultInv /\ Whole /\ BotType /\ n \in Nat
      /\ Placed
      /\ w \in Watchers(n) /\ result \in Reports(n) /\ fellBack \in BOOLEAN
      /\ (w.pc # "idle" => w.action \in Actions)
  BY WatchFacts
<1>1. /\ w.pc = "merge" /\ w' = [w EXCEPT !.pc = w.action, !.new = head']
      /\ UNCHANGED <<bot, row, at, want, marker, boot, trigger, result, healthy, origin, remote,
                     image, served, posts, deployed, cut, fellBack, slips>>
  BY DEF Merge, app, files, docker, counts, history, unsaid
<1>2. w.action \in {"rebuild", "restart", "rebuild-all"}
  BY <1>t, <1>1 DEF Actions
<1>p. head \in 1..n /\ origin \in 1..n /\ work \subseteq 1..n
  BY <1>t DEF Placed
<1>g. tree[head] \subseteq 1..n /\ tree[origin] \subseteq 1..n
  BY <1>t, <1>p DEF GitInv
<1>3. /\ Grows /\ n' \in {n, n + 1} /\ head' \in 1..n' /\ work' \subseteq 1..n'
      /\ work = tree[head] => work' = tree'[head']
  <2>1. CASE NoCommit /\ \/ head' = head /\ work' = work
                         \/ head' = origin /\ work' = tree[origin]
                         \/ /\ head' = origin
                            /\ work' = (work \ (tree[head] \ tree[origin])) \cup (tree[origin] \ tree[head])
    <3>1. Grows /\ n' = n /\ tree' = tree
      BY <1>t, <2>1, NoCommitGrows DEF NoCommit
    <3>2. work = tree[head] =>
            (work \ (tree[head] \ tree[origin])) \cup (tree[origin] \ tree[head]) = tree[origin]
      OBVIOUS
    <3> QED BY <1>p, <1>g, <2>1, <3>1, <3>2
  <2>2. CASE /\ NewCommit(MergedTree(head, origin), {head, origin})
             /\ head' = n + 1 /\ work' = MergedTree(head, origin)
    <3>1. n < MaxCommit /\ MaxCommit \in Nat
      BY <1>t, <1>1, Room DEF Early
    <3>2. MergedTree(head, origin) \in SUBSET (1 .. n + 1)
      <4>1. 1..n \subseteq 1 .. n + 1
        BY <1>t
      <4> QED BY <1>g, <4>1 DEF MergedTree
    <3>3. /\ Recorded(MergedTree(head, origin), {head, origin}) /\ adds \subseteq adds'
          /\ {head, origin} \in SUBSET (1..n) /\ {head, origin} # {}
      BY <1>p, <2>2 DEF NewCommit
    <3>4. Grows /\ n' = n + 1 /\ n + 1 \in 1..n' /\ tree'[n + 1] = MergedTree(head, origin)
      BY <1>t, <3>1, <3>2, <3>3, RecordedGrows
    <3> QED BY <2>2, <3>2, <3>4
  <2> QED BY <2>1, <2>2 DEF Merge
<1>4. GitInv' /\ n' \in Nat /\ n <= n' /\ 1..n \subseteq 1..n' /\ 0..n \subseteq 0..n' /\ head' \in 0..n'
  BY <1>t, <1>3 DEF Grows
<1>5. w' \in Watchers(n') /\ w'.pc = w.action /\ w'.new = head' /\ w'.action = w.action
  <2>1. w \in Watchers(n') /\ w.action \in PCs
    BY <1>t, <1>2, <1>4 DEF Watchers, PCs
  <2>2. w' = [w EXCEPT !.pc = w.action, !.new = head'] /\ head' \in 0..n'
    BY <1>1, <1>4
  <2> QED BY <2>1, <2>2 DEF Watchers
<1>6. Bounded'
  BY <1>t, <1>1, <1>2, <1>3, <1>5, SpentBound DEF Early, Late
<1>7. BotType' /\ LoopInv'
  BY <1>t, <1>1 DEF BotType, LoopInv
<1>8. TypeInv'
  <2>1. Placed'
    BY <1>t, <1>1, <1>3, <1>4, PlacedGrows
  <2>2. result' \in Reports(n')
    BY <1>t, <1>1, <1>4 DEF Reports
  <2> QED BY <1>t, <1>1, <1>2, <1>4, <1>5, <1>7, <2>1, <2>2, WatchType
<1>9. WatchInv'
  <2>1. head' \in anc'[head']
    BY <1>3, <1>4 DEF GitInv
  <2> QED BY <1>2, <1>3, <1>5, <2>1 DEF WatchInv
<1>10. ResultInv'
  BY <1>t, <1>1 DEF ResultInv
<1>11. Whole'
  BY <1>t, <1>1, <1>3 DEF Whole, Grows, Placed
<1> QED BY <1>4, <1>6, <1>7, <1>8, <1>9, <1>10, <1>11 DEF Inv

\* Restored files are those that were asked for unless the restore slipped, and committed
\* unless that slipped.
LEMMA RestoresKeeps ==
  ASSUME GitInv, n \in Nat, head \in 1..n, healthy \in 1..n, work \in SUBSET (1..n),
         n < MaxCommit, MaxCommit \in Nat, Restores(healthy)
  PROVE  /\ Grows /\ n' \in {n, n + 1} /\ head' \in 1..n' /\ work' \subseteq 1..n' /\ adds' = adds
         /\ slips \subseteq slips' /\ slips' \subseteq slips \cup {"restore", "uncommitted"}
         /\ "restore" \notin slips' => work' = CheckedOut(healthy)
         /\ "uncommitted" \notin slips' => work' = tree'[head']
<1>1. PICK kept \in {CheckedOut(healthy), work} :
        /\ Restored(kept)
        /\ slips' = slips \cup (IF kept # CheckedOut(healthy) THEN {"restore"} ELSE {})
                         \cup (IF head' = head /\ kept # tree[head] THEN {"uncommitted"} ELSE {})
  BY DEF Restores
<1>2. 1..n \subseteq 1 .. n + 1 /\ n + 1 \notin 1..n /\ kept \in SUBSET (1..n) /\ tree[head] \subseteq 1..n
  BY <1>1 DEF GitInv, CheckedOut
<1>3. work' = kept
  BY <1>1 DEF Restored
<1>4. CASE NewCommit(kept, {head}) /\ head' = n + 1
  <2>1. Recorded(kept, {head}) /\ adds' = adds /\ adds \subseteq adds'
    BY <1>4 DEF NewCommit
  <2>2. kept \in SUBSET (1 .. n + 1) /\ {head} \in SUBSET (1..n) /\ {head} # {}
    BY <1>2
  <2>3. Grows /\ n' = n + 1 /\ n + 1 \in 1..n' /\ tree'[n + 1] = kept
    BY <2>1, <2>2, RecordedGrows
  <2> QED BY <1>1, <1>2, <1>3, <1>4, <2>1, <2>3
<1>5. CASE NoCommit /\ head' = head
  <2>1. Grows /\ n' = n /\ tree' = tree /\ adds' = adds
    BY <1>5, NoCommitGrows DEF NoCommit
  <2> QED BY <1>1, <1>2, <1>3, <1>5, <2>1
<1> QED BY <1>1, <1>4, <1>5 DEF Restored

\* A rollback leaves the changes of what it rolls back out of the worktree, but for added
\* files when it could not revert, and unless the restore slipped.
LEMMA RollbackClean ==
  ASSUME GitInv, Whole, n \in Nat, head \in 1..n, healthy \in 1..n, work \in SUBSET (1..n),
         fellBack \in BOOLEAN, n < MaxCommit, MaxCommit \in Nat, RollbackTo(healthy)
  PROVE  /\ Grows /\ n' \in {n, n + 1} /\ head' \in 1..n' /\ work' \subseteq 1..n' /\ fellBack' \in BOOLEAN
         /\ slips \subseteq slips' /\ slips' \subseteq slips \cup {"restore", "uncommitted"}
         /\ "uncommitted" \notin slips' => work' = tree'[head']
         /\ "restore" \notin slips' => \A f \in 1..n :
              f \in anc[head] /\ f # healthy /\ healthy \in anc'[f] =>
                work' \cap (tree'[f] \ tree'[healthy]) \subseteq IF fellBack' THEN adds' ELSE {}
<1> DEFINE range == anc[head] \ anc[healthy]
           base == tree[MergeBase(head, healthy)]
<1>t. /\ \A c \in 1..n : tree[c] \subseteq 1..n /\ c \in anc[c] /\ anc[c] \subseteq 1..c
      /\ 1..n \subseteq 1 .. n + 1 /\ {head} \in SUBSET (1..n) /\ {head} # {}
  BY DEF GitInv
<1>1. CASE head = healthy /\ NoCommit /\ UNCHANGED <<head, work, unsaid>>
  <2>1. Grows /\ n' = n /\ tree' = tree /\ anc' = anc
    BY <1>1, NoCommitGrows DEF NoCommit
  <2>2. ASSUME NEW f \in 1..n, f \in anc[head], healthy \in anc[f]
        PROVE  f = healthy
    <3>1. f \in 1..healthy /\ healthy \in 1..f
      BY <1>t, <1>1, <2>2
    <3> QED BY <3>1
  <2>3. "uncommitted" \notin slips => work = tree[head]
    BY DEF Whole
  <2> QED BY <1>1, <2>1, <2>2, <2>3 DEF unsaid
<1>2. CASE Reverts(healthy)
  <2>0. /\ NewCommit(base, {head}) /\ head' = n + 1 /\ work' = base
        /\ fellBack' = FALSE /\ slips' = slips
    BY <1>2 DEF Reverts
  <2>1. MergeBase(head, healthy) \in 1..n
    BY BaseIsCommit
  <2>2. base \in SUBSET (1 .. n + 1)
    BY <1>t, <2>1
  <2>3. Recorded(base, {head}) /\ adds \subseteq adds'
    BY <2>0 DEF NewCommit
  <2>4. Grows /\ n' = n + 1 /\ n + 1 \in 1..n' /\ tree'[n + 1] = base
    BY <1>t, <2>2, <2>3, RecordedGrows
  <2>5. ASSUME NEW f \in 1..n, f \in anc[head], healthy \in anc'[f]
        PROVE  work' = tree'[healthy]
    <3>1. healthy \in anc[head]
      BY <2>4, <2>5 DEF GitInv, Grows
    <3>2. MergeBase(head, healthy) = healthy
      BY <3>1, BaseOfAncestor
    <3> QED BY <2>0, <2>4, <3>2 DEF Grows
  <2>6. work' \subseteq 1..n' /\ work' = tree'[head']
    BY <2>0, <2>2, <2>4
  <2> HIDE DEF base
  <2> QED BY <2>0, <2>4, <2>5, <2>6
<1>3. CASE Restores(healthy)
  <2>1. /\ Grows /\ n' \in {n, n + 1} /\ head' \in 1..n' /\ work' \subseteq 1..n' /\ adds' = adds
        /\ slips \subseteq slips' /\ slips' \subseteq slips \cup {"restore", "uncommitted"}
        /\ "restore" \notin slips' => work' = CheckedOut(healthy)
        /\ "uncommitted" \notin slips' => work' = tree'[head']
    BY <1>3, RestoresKeeps
  <2>2. fellBack' = TRUE
    BY <1>3 DEF Restores
  <2> QED BY <2>1, <2>2 DEF Grows, CheckedOut
<1> QED BY <1>1, <1>2, <1>3 DEF RollbackTo

LEMMA UnhealthyStep ==
  ASSUME Inv, Unhealthy
  PROVE  Inv'
<1>t. /\ GitInv /\ Bounded /\ LoopInv /\ WatchInv /\ ResultInv /\ Whole /\ BotType /\ n \in Nat
      /\ Placed
      /\ w \in Watchers(n) /\ result \in Reports(n) /\ fellBack \in BOOLEAN
      /\ (w.pc # "idle" => w.action \in Actions)
  BY WatchFacts
<1>1. /\ w.pc = "health" /\ healthy # w.new /\ RollbackTo(healthy)
      /\ w' = [w EXCEPT !.pc = "again", !.target = healthy]
      /\ UNCHANGED <<bot, row, at, want, marker, boot, trigger, result, healthy, origin, remote,
                     image, served, posts, deployed, cut>>
  BY DEF Unhealthy, app, files, docker, counts, history
<1>2. n < MaxCommit /\ MaxCommit \in Nat
  BY <1>t, <1>1, Room DEF Late
<1>p. head \in 1..n /\ healthy \in 1..n /\ work \in SUBSET (1..n)
  BY <1>t DEF Placed
<1>3. /\ Grows /\ n' \in {n, n + 1} /\ head' \in 1..n' /\ work' \subseteq 1..n' /\ fellBack' \in BOOLEAN
      /\ slips \subseteq slips' /\ slips' \subseteq slips \cup {"restore", "uncommitted"}
      /\ "uncommitted" \notin slips' => work' = tree'[head']
      /\ "restore" \notin slips' => \A f \in 1..n :
           f \in anc[head] /\ f # healthy /\ healthy \in anc'[f] =>
             work' \cap (tree'[f] \ tree'[healthy]) \subseteq IF fellBack' THEN adds' ELSE {}
  BY <1>t, <1>p, <1>1, <1>2, RollbackClean
<1>4. GitInv' /\ n' \in Nat /\ n <= n' /\ 1..n \subseteq 1..n' /\ 0..n \subseteq 0..n' /\ healthy \in 0..n'
  BY <1>t, <1>p, <1>3 DEF Grows
<1>5. /\ w' \in Watchers(n') /\ w'.pc = "again" /\ w'.new = w.new /\ w'.target = healthy
      /\ w'.action = w.action
  <2>1. w \in Watchers(n') /\ "again" \in PCs
    BY <1>t, <1>4 DEF Watchers, PCs
  <2>2. w' = [w EXCEPT !.pc = "again", !.target = healthy] /\ healthy \in 0..n'
    BY <1>1, <1>4
  <2> QED BY <2>1, <2>2 DEF Watchers
<1>6. Bounded'
  BY <1>t, <1>1, <1>3, <1>5, SpentBound DEF Early, Late
<1>7. BotType' /\ LoopInv'
  BY <1>t, <1>1 DEF BotType, LoopInv
<1>8. TypeInv'
  <2>1. Placed'
    BY <1>t, <1>1, <1>3, <1>4, PlacedGrows
  <2>2. result' \in Reports(n')
    BY <1>t, <1>1, <1>4 DEF Reports
  <2> QED BY <1>t, <1>1, <1>3, <1>4, <1>5, <1>7, <2>1, <2>2, WatchType
<1>9. WatchInv'
  <2>1. w.new \in 1..n /\ w.new \in anc[head]
    BY <1>t, <1>1 DEF WatchInv
  <2>3. w'.new \in 1..n' /\ w'.target = healthy'
    BY <1>1, <1>4, <1>5, <2>1
  <2>4. "restore" \notin slips' => Clean(work, w.new, w.target)'
    BY <1>1, <1>3, <1>5, <2>1 DEF Clean
  <2> QED BY <1>5, <2>3, <2>4 DEF WatchInv
<1>10. ResultInv'
  BY <1>t, <1>1 DEF ResultInv
<1>11. Whole'
  BY <1>t, <1>1, <1>3 DEF Whole, Grows, Placed
<1> QED BY <1>4, <1>6, <1>7, <1>8, <1>9, <1>10, <1>11 DEF Inv

LEMMA BuildFailsStep ==
  ASSUME Inv, BuildFails
  PROVE  Inv'
<1>t. /\ GitInv /\ Bounded /\ LoopInv /\ WatchInv /\ ResultInv /\ Whole /\ BotType /\ n \in Nat
      /\ Placed
      /\ w \in Watchers(n) /\ result \in Reports(n) /\ fellBack \in BOOLEAN /\ w.new \in 0..n
  BY WatchFacts
<1>1. /\ w.pc \in {"rebuild", "rebuild-all"} /\ w' = Idle /\ result' = Report("build_failed", healthy, w.new)
      /\ UNCHANGED <<bot, row, at, want, marker, boot, trigger, healthy, origin, remote,
                     image, served, posts, deployed, cut>>
  BY DEF BuildFails, Ends, app, docker, counts, history
<1>2. n < MaxCommit /\ MaxCommit \in Nat
  BY <1>t, <1>1, Room DEF Late
<1>p. head \in 1..n /\ healthy \in 1..n /\ work \in SUBSET (1..n)
  BY <1>t DEF Placed
<1>3. /\ Grows /\ n' \in {n, n + 1} /\ head' \in 1..n' /\ work' \subseteq 1..n' /\ fellBack' \in BOOLEAN
      /\ slips \subseteq slips' /\ slips' \subseteq slips \cup {"restore", "uncommitted"}
      /\ "uncommitted" \notin slips' => work' = tree'[head']
  <2>1. CASE RollbackTo(healthy)
    BY <1>t, <1>p, <1>1, <1>2, <2>1, RollbackClean
  <2>2. CASE NoCommit /\ UNCHANGED <<head, work, unsaid>>
    <3>1. Grows /\ n' = n /\ tree' = tree
      BY <1>t, <2>2, NoCommitGrows DEF NoCommit
    <3>2. "uncommitted" \notin slips => work = tree[head]
      BY <1>t DEF Whole
    <3> QED BY <1>t, <1>p, <2>2, <3>1, <3>2 DEF unsaid
  <2> QED BY <2>1, <2>2 DEF BuildFails
<1>4. GitInv' /\ n' \in Nat /\ n <= n' /\ 1..n \subseteq 1..n' /\ 0..n \subseteq 0..n' /\ healthy \in 0..n'
  BY <1>t, <1>p, <1>3 DEF Grows
<1>5. w' \in Watchers(n') /\ w'.pc = "idle" /\ result' \in Reports(n') /\ result'.status = "build_failed"
  BY <1>t, <1>1, <1>4 DEF Idle, Watchers, PCs, Report, Reports, Statuses, Terminal
<1>6. Bounded'
  BY <1>t, <1>1, <1>3, <1>5, SpentBound DEF Early, Late
<1>7. BotType' /\ LoopInv'
  BY <1>t, <1>1 DEF BotType, LoopInv
<1>8. TypeInv'
  <2>1. Placed'
    BY <1>t, <1>1, <1>3, <1>4, PlacedGrows
  <2> QED BY <1>1, <1>3, <1>4, <1>5, <1>7, <2>1, WatchType
<1>9. WatchInv' /\ ResultInv'
  BY <1>5 DEF WatchInv, ResultInv
<1>10. Whole'
  BY <1>t, <1>1, <1>3 DEF Whole, Grows, Placed
<1> QED BY <1>4, <1>6, <1>7, <1>8, <1>9, <1>10 DEF Inv

-----------------------------------------------------------------------------
(* The theorems                                                            *)

LEMMA InitInv == Init => Inv
<1> SUFFICES ASSUME Init PROVE Inv
  OBVIOUS
<1>1. /\ bot = "up" /\ marker = FALSE /\ boot = "none"
      /\ row = [t \in Tasks |-> "pending"] /\ at = [t \in Tasks |-> "idle"]
      /\ want = [t \in Tasks |-> "none"] /\ trigger = "none"
      /\ result = Report("none", 0, 0) /\ n = 1 /\ adds = {}
      /\ tree = [c \in Commits |-> IF c = 1 THEN {1} ELSE {}]
      /\ anc = [c \in Commits |-> IF c = 1 THEN {1} ELSE {}]
      /\ head = 1 /\ work = {1} /\ origin = 1 /\ remote = 1 /\ healthy = 1
      /\ image = [commit |-> 1, tree |-> {1}] /\ served = image /\ slips = {}
      /\ w = Idle /\ posts = 0 /\ deployed = {} /\ cut = FALSE /\ fellBack = FALSE
  BY DEF Init, Built
<1>2. MaxCommit \in Nat /\ 1 <= MaxCommit /\ MaxEdits \in Nat /\ MaxPosts \in Nat
  BY DeployAssumption DEF DeployAssumption
<1>3. GitInv
  <2>1. 1 \in Commits /\ 1..n = {1} /\ tree[1] = {1} /\ anc[1] = {1}
    BY <1>1, <1>2 DEF Commits
  <2>2. tree \in [Commits -> SUBSET Commits] /\ anc \in [Commits -> SUBSET Commits]
    BY <1>1, <2>1
  <2> QED BY <1>1, <2>1, <2>2 DEF GitInv
<1>4. Bounded
  <2>1. Pending = 0 /\ Coming = 0
    BY <1>1 DEF Pending, Coming, Early, Late, Idle
  <2> QED BY <1>1, <1>2, <2>1 DEF Bounded
<1>5. TypeInv
  <2>1. /\ w \in Watchers(n) /\ result \in Reports(n) /\ w.pc = "idle"
        /\ result.status \in Terminal \cup {"none", "in_progress", "pending_approval"}
    BY <1>1 DEF Watchers, Reports, Idle, Report, PCs, Statuses
  <2>2. /\ row \in [Tasks -> {"pending", "processing", "done"}]
        /\ at \in [Tasks -> {"idle", "gates", "marked"}] /\ want \in [Tasks -> Actions \cup {"none"}]
    BY <1>1
  <2>3. Placed
    <3>1. 1 \in 1..n
      BY <1>1
    <3>2. image \in [commit : 1..n, tree : SUBSET (1..n)]
      BY <1>1, <3>1
    <3> QED BY <1>1, <3>1, <3>2 DEF Placed
  <2>4. n \in Commits /\ tree \in [Commits -> SUBSET Commits]
    BY <1>3 DEF GitInv
  <2>5. TypeOK
    BY <1>1, <2>1, <2>2, <2>3, <2>4 DEF TypeOK, Placed
  <2> QED BY <1>1, <2>1, <2>5 DEF TypeInv
<1>6. LoopInv
  BY <1>1 DEF LoopInv
<1>7. WatchInv /\ ResultInv
  BY <1>1 DEF WatchInv, ResultInv, Idle, Report
<1>8. Whole
  <2>1. tree[1] = {1}
    BY <1>1, <1>2 DEF Commits
  <2> QED BY <1>1, <2>1 DEF Whole
<1> QED BY <1>3, <1>4, <1>5, <1>6, <1>7, <1>8 DEF Inv

\* Nothing of the invariant changes when nobody moves, or the operator only answers.
LEMMA StillStep ==
  ASSUME Inv, UNCHANGED vars \/ OperatorAnswers
  PROVE  Inv'
<1>1. UNCHANGED <<bot, row, at, want, marker, boot, trigger, result, healthy, n, tree, anc, adds,
                  head, work, origin, remote, image, served, w, posts, deployed, cut, fellBack, slips>>
  BY DEF vars, app, files, git, docker, counts, history, unsaid, OperatorAnswers
<1>2. GitInv' /\ Bounded' /\ TypeInv' /\ LoopInv'
  BY <1>1 DEF Inv, GitInv, Bounded, Pending, Coming, TypeInv, TypeOK, LoopInv
<1>3. WatchInv' /\ ResultInv' /\ Whole'
  BY <1>1 DEF Inv, WatchInv, ResultInv, Clean, Whole
<1> QED BY <1>2, <1>3 DEF Inv

\* The inductive invariant: the commit graph, the budget of commits, the types, and what a trigger,
\* a watch and a result say of the graph.
THEOREM InvHolds == Spec => []Inv
<1>1. Inv /\ [Next]_vars => Inv'
  <2> SUFFICES ASSUME Inv, [Next]_vars PROVE Inv'
    OBVIOUS
  <2>1. CASE Bot \/ BotCrashes
    BY <2>1, BotStep, WorkStep DEF Bot, BotMoves
  <2>2. CASE Watcher
    BY <2>2, QuietSteps, MergeStep, BuildStep, BuildFailsStep, UpStep, HealthyStep, UnhealthyStep
       DEF Watcher
  <2> QED BY <2>1, <2>2, QuietSteps, StillStep, WorkStep DEF Next
<1> QED BY <1>1, InitInv, PTL DEF Spec

\* The marker, the trigger, the result and the graph keep their types through crashes of both processes.
THEOREM TypeCorrect == Spec => []TypeOK
<1>1. Inv => TypeOK
  BY DEF Inv, TypeInv
<1> QED BY <1>1, InvHolds, PTL

\* A task that asked for a deploy is not run again by the start it caused.
THEOREM DeploysDoNotLoop == Spec => []NoDeployLoop
<1>1. Inv => NoDeployLoop
  BY DEF Inv, LoopInv, TypeInv, NoDeployLoop
<1> QED BY <1>1, InvHolds, PTL

\* A rollback that reports success has taken the failed commit's changes out of service,
\* unless the checkout or the start of the container failed unseen.
THEOREM RollbacksDropFailed == Spec => []RollbackDropsFailed
<1>1. Inv => RollbackDropsFailed
  BY DEF Inv, ResultInv, Clean, RollbackDropsFailed
<1> QED BY <1>1, InvHolds, PTL

\* What a successful deploy names is the next rollback's target; it is in service unless the
\* start of the container failed unseen, with its own files unless a restore stayed uncommitted.
THEOREM SuccessIsServed == Spec => []SuccessServesCommit
<1>1. Inv => SuccessServesCommit
  BY DEF Inv, ResultInv, Whole, SuccessServesCommit
<1> QED BY <1>1, InvHolds, PTL
=============================================================================
