--------------------------- MODULE PmStoreProofs ---------------------------
(***************************************************************************)
(* The project store keeps its types, numbers tickets uniquely, moves them *)
(* only along the table, has one open rolling sprint, and is outside a     *)
(* transaction when nobody is at work. The argument is about what calls    *)
(* have left to do: the statements that follow one another in a call (Wf), *)
(* and what the head of each call's list says of the connection.           *)
(***************************************************************************)
EXTENDS PmStore, TLAPS, FiniteSetTheorems, WellFoundedInduction
LOCAL INSTANCE FiniteSetsExt

-----------------------------------------------------------------------------
(* The statements of a call *)

Ops ==
  {"begin", "can_move", "can_transition", "set_status", "set_sprint", "set_sprint_of", "log",
   "commit", "rollback", "raise", "catch", "save", "touch", "cap", "insert", "read_back",
   "lock", "unlock", "find", "new_sprint", "read_sprint", "list", "drop_rest"}

Status == DOMAIN TicketTransitions \cup DOMAIN SprintTransitions

Statement ==
  {<<o>> : o \in Ops} \cup (Ops \X Nat) \cup (Ops \X Nat \X (Nat \cup Status))
    \cup (Ops \X (SUBSET Nat) \X Nat)

Inside == {"can_move", "can_transition", "set_status", "set_sprint", "set_sprint_of",
           "log", "commit"}

\* Statements that another one of the same call follows at once.
Bound == {"begin", "can_move", "can_transition", "set_status", "set_sprint",
          "set_sprint_of", "log", "touch", "lock"}

\* Statements that only follow one they belong to, or begin a list.
Led == Inside \cup {"find", "new_sprint", "rollback"}

Typed(a) ==
  /\ a[1] \in {"can_move", "set_status"} =>
       a[2] \in Nat /\ a[3] \in DOMAIN TicketTransitions
  /\ a[1] \in {"can_transition", "set_sprint"} =>
       a[2] \in Nat /\ a[3] \in DOMAIN SprintTransitions
  /\ a[1] \in {"insert", "set_sprint_of"} => a[2] \in Nat /\ a[3] \in Nat
  /\ a[1] = "list" => a[2] \in Nat
  /\ a[1] = "drop_rest" => a[2] \in SUBSET Nat /\ a[3] \in Nat

Follows(a, b) ==
  /\ a[1] = "begin" => b[1] \in {"can_move", "can_transition", "set_sprint_of"}
  /\ a[1] = "can_move" => b = <<"set_status", a[2], a[3]>>
  /\ a[1] = "can_transition" => b = <<"set_sprint", a[2], a[3]>>
  /\ a[1] = "set_status" => b[1] = "log"
  /\ a[1] \in {"set_sprint", "set_sprint_of", "log"} => b[1] = "commit"
  /\ a[1] = "touch" => b[1] = "save"
  /\ a[1] = "lock" => b[1] = "find"
  /\ b[1] \in Inside => a[1] \in Bound
  /\ b[1] = "find" => a[1] = "lock"
  /\ b[1] \notin {"new_sprint", "rollback"}

Wf(s) ==
  /\ s \in Seq(Statement)
  /\ \A i \in 1..Len(s) : Typed(s[i])
  /\ \A i \in 1..(Len(s) - 1) : Follows(s[i], s[i + 1])
  /\ s # <<>> => s[Len(s)][1] \notin Bound
  /\ \A i, j \in 1..Len(s) : s[i][1] = "unlock" /\ s[j][1] = "unlock" => i = j

-----------------------------------------------------------------------------
(* The invariant *)

Op(c) == IF todo[c] = <<>> THEN "none" ELSE Head(todo[c])[1]

TodoInv ==
  /\ todo \in [Calls -> Seq(Statement)] /\ res \in [Calls -> {"none", "ok", "error", "stuck", "cut"}]
  /\ \A c \in Calls : Wf(todo[c]) /\ (res[c] # "none" => todo[c] = <<>>)

\* Tickets are numbered in the order of their ids; what is committed is also seen.
NumInv ==
  /\ \A db \in {view, disk} : \A t \in DOMAIN db.tickets : db.tickets[t].number = t
  /\ Len(disk.tickets) <= Len(view.tickets) /\ Len(disk.sprints) <= Len(view.sprints)
  /\ ~open => view = disk

\* An open transaction will be ended by a call at work, short of those that could not.
Closing(c) == Op(c) \in Inside \cup {"save", "rollback"}
IdleInv ==
  open => \E c \in Calls : res[c] \in {"stuck", "cut"} \/ Closing(c)

\* The lock is held from its acquire to the release.
Holds(c) ==
  Op(c) \in {"find", "new_sprint"} \/ \E i \in 1..Len(todo[c]) : todo[c][i][1] = "unlock"
LockInv == \A c \in Calls : Holds(c) => lock = c

\* A call inside its transaction is the one that opened it; until it writes, what it sees
\* of statuses is what is committed.
SameTickets ==
  \A t \in DOMAIN disk.tickets : view.tickets[t].status = disk.tickets[t].status
SameSprints == \A k \in DOMAIN disk.sprints : view.sprints[k] = disk.sprints[k]
HoldOf(c) ==
  Op(c) \in Inside \cup {"rollback"} =>
    /\ open /\ owner = c
    /\ Op(c) \in {"can_move", "can_transition", "set_status", "set_sprint_of"} => SameTickets
    /\ Op(c) # "commit" => SameSprints
    /\ Op(c) = "set_status" =>
         /\ Arg(c, 2) \in DOMAIN view.tickets
         /\ Arg(c, 3) \in TicketTransitions[view.tickets[Arg(c, 2)].status]
    /\ Op(c) = "set_sprint" =>
         /\ Arg(c, 2) \in DOMAIN view.sprints
         /\ Arg(c, 3) \in SprintTransitions[view.sprints[Arg(c, 2)].status]
HoldInv == \A c \in Calls : HoldOf(c)

\* What is to be committed is at most one move away from what is.
NearInv ==
  \A t \in DOMAIN disk.tickets :
    LET was == disk.tickets[t].status
        now == view.tickets[t].status
    IN  now = was \/ now \in TicketTransitions[was]

\* Whoever is about to create a rolling sprint has the only right to, and there is none.
RollInv ==
  /\ \A db \in {view, disk} : \A j, k \in Rolling(db) : j = k
  /\ \A c \in Calls : Op(c) = "new_sprint" => Rolling(view) = {}

Inv ==
  /\ TypeOK /\ TodoInv /\ NumInv /\ IdleInv /\ LockInv
  /\ ~hit => HoldInv /\ NearInv /\ RollInv

-----------------------------------------------------------------------------
(* Lists of statements *)

LEMMA StatementTuples ==
  /\ \A o \in Ops : <<o>> \in Statement
  /\ \A o \in Ops, k \in Nat : <<o, k>> \in Statement
  /\ \A o \in Ops, k \in Nat, a \in Nat : <<o, k, a>> \in Statement
  /\ \A o \in Ops, k \in Nat, a \in Status : <<o, k, a>> \in Statement
  /\ \A o \in Ops, k \in SUBSET Nat, a \in Nat : <<o, k, a>> \in Statement
BY DEF Statement

LEMMA EmptyWf == Wf(<<>>)
BY DEF Wf

LEMMA SuffixWf ==
  ASSUME NEW s, Wf(s), NEW k \in 1..(Len(s) + 1)
  PROVE  Wf(SubSeq(s, k, Len(s)))
<1> DEFINE t == SubSeq(s, k, Len(s))
<1>1. s \in Seq(Statement) /\ Len(s) \in Nat
  BY DEF Wf
<1>2. /\ t \in Seq(Statement) /\ Len(t) = Len(s) - k + 1
      /\ \A i \in 1..Len(t) : t[i] = s[i + k - 1] /\ i + k - 1 \in 1..Len(s)
  BY <1>1
<1>3. t # <<>> => Len(t) \in 1..Len(t)
  BY <1>2
<1> HIDE DEF t
<1>4. \A i \in 1..Len(t) : Typed(t[i])
  BY <1>2 DEF Wf
<1>5. ASSUME NEW i \in 1..(Len(t) - 1) PROVE Follows(t[i], t[i + 1])
  <2>1. i \in 1..Len(t) /\ i + 1 \in 1..Len(t)
    BY <1>1, <1>2
  <2>2. t[i] = s[i + k - 1] /\ t[i + 1] = s[i + k] /\ i + k - 1 \in 1..(Len(s) - 1)
    BY <1>1, <1>2, <2>1
  <2>3. Follows(s[i + k - 1], s[(i + k - 1) + 1])
    BY <2>2 DEF Wf
  <2> QED BY <1>1, <2>2, <2>3
<1>6. t # <<>> => t[Len(t)][1] \notin Bound
  <2>1. SUFFICES ASSUME t # <<>> PROVE t[Len(t)][1] \notin Bound
    OBVIOUS
  <2>2. t[Len(t)] = s[Len(s)] /\ s # <<>>
    BY <1>1, <1>2, <1>3, <2>1
  <2> QED BY <2>2 DEF Wf
<1>7. ASSUME NEW i \in 1..Len(t), NEW j \in 1..Len(t), t[i][1] = "unlock", t[j][1] = "unlock"
      PROVE i = j
  <2>1. s[i + k - 1][1] = "unlock" /\ s[j + k - 1][1] = "unlock"
    BY <1>2, <1>7
  <2>2. i + k - 1 \in 1..Len(s) /\ j + k - 1 \in 1..Len(s)
    BY <1>2
  <2>3. i + k - 1 = j + k - 1
    BY <2>1, <2>2 DEF Wf
  <2> QED BY <1>1, <1>2, <2>3
<1> QED BY <1>2, <1>4, <1>5, <1>6, <1>7 DEF Wf, t

\* A list may go before another that begins with a statement of its own right.
LEMMA JoinWf ==
  ASSUME NEW s, NEW t, Wf(s), Wf(t), t # <<>> => t[1][1] \notin Led,
         \/ \A i \in 1..Len(s) : s[i][1] # "unlock"
         \/ \A i \in 1..Len(t) : t[i][1] # "unlock"
  PROVE  Wf(s \o t)
<1> DEFINE u == s \o t
<1>1. s \in Seq(Statement) /\ Len(s) \in Nat /\ t \in Seq(Statement) /\ Len(t) \in Nat
  BY DEF Wf
<1>2. /\ u \in Seq(Statement) /\ Len(u) = Len(s) + Len(t)
      /\ \A i \in 1..Len(u) : u[i] = IF i <= Len(s) THEN s[i] ELSE t[i - Len(s)]
  BY <1>1
<1>3. u # <<>> => Len(u) \in 1..Len(u) /\ Len(u) > 0
  BY <1>2
<1> HIDE DEF u
<1>4. \A i \in 1..Len(u) : \/ i \in 1..Len(s) /\ u[i] = s[i]
                           \/ i - Len(s) \in 1..Len(t) /\ u[i] = t[i - Len(s)] /\ i > Len(s)
  BY <1>1, <1>2
<1>5. \A i \in 1..Len(u) : Typed(u[i])
  BY <1>4 DEF Wf
<1>6. ASSUME NEW i \in 1..(Len(u) - 1) PROVE Follows(u[i], u[i + 1])
  <2>1. i \in 1..Len(u) /\ i + 1 \in 1..Len(u)
    BY <1>1, <1>2
  <2>2. CASE i < Len(s)
    <3>1. u[i] = s[i] /\ u[i + 1] = s[i + 1] /\ i \in 1..(Len(s) - 1)
      BY <1>1, <1>2, <2>1, <2>2
    <3> QED BY <3>1 DEF Wf
  <2>3. CASE i > Len(s)
    <3>1. /\ u[i] = t[i - Len(s)] /\ u[i + 1] = t[(i - Len(s)) + 1]
          /\ i - Len(s) \in 1..(Len(t) - 1)
      BY <1>1, <1>2, <2>1, <2>3
    <3> QED BY <3>1 DEF Wf
  <2>4. CASE i = Len(s)
    <3>1. u[i] = s[Len(s)] /\ u[i + 1] = t[1] /\ s # <<>> /\ t # <<>>
      BY <1>1, <1>2, <2>1, <2>4
    <3>2. u[i][1] \notin Bound /\ u[i + 1][1] \notin Led
      BY <3>1 DEF Wf
    <3> QED BY <3>2 DEF Follows, Bound, Led, Inside
  <2> QED BY <1>1, <1>2, <2>2, <2>3, <2>4
<1>7. u # <<>> => u[Len(u)][1] \notin Bound
  <2>1. SUFFICES ASSUME u # <<>> PROVE u[Len(u)][1] \notin Bound
    OBVIOUS
  <2>2. CASE t = <<>>
    <3>1. u[Len(u)] = s[Len(s)] /\ s # <<>>
      BY <1>1, <1>2, <1>3, <2>1, <2>2
    <3> QED BY <3>1 DEF Wf
  <2>3. CASE t # <<>>
    <3>1. u[Len(u)] = t[Len(t)]
      BY <1>1, <1>2, <1>3, <2>1, <2>3
    <3> QED BY <2>3, <3>1 DEF Wf
  <2> QED BY <2>2, <2>3
<1>8. ASSUME NEW i \in 1..Len(u), NEW j \in 1..Len(u), u[i][1] = "unlock", u[j][1] = "unlock"
      PROVE i = j
  <2>1. CASE i \in 1..Len(s) /\ u[i] = s[i] /\ j \in 1..Len(s) /\ u[j] = s[j]
    BY <1>8, <2>1 DEF Wf
  <2>2. CASE /\ i - Len(s) \in 1..Len(t) /\ u[i] = t[i - Len(s)]
             /\ j - Len(s) \in 1..Len(t) /\ u[j] = t[j - Len(s)]
    <3>1. i - Len(s) = j - Len(s)
      BY <1>8, <2>2 DEF Wf
    <3> QED BY <1>1, <1>2, <3>1
  <2> QED BY <1>4, <1>8, <2>1, <2>2
<1> QED BY <1>2, <1>5, <1>6, <1>7, <1>8 DEF Wf, u

-----------------------------------------------------------------------------
(* The lists the tools run *)

LEMMA ListOfOne ==
  ASSUME NEW a \in Statement, Typed(a), a[1] \notin Bound
  PROVE  Wf(<<a>>)
<1>1. <<a>> \in Seq(Statement) /\ Len(<<a>>) = 1 /\ <<a>>[1] = a
  OBVIOUS
<1> QED BY <1>1 DEF Wf

LEMMA ListOfTwo ==
  ASSUME NEW a \in Statement, NEW b \in Statement, Typed(a), Typed(b), Follows(a, b),
         b[1] \notin Bound, a[1] # "unlock" \/ b[1] # "unlock"
  PROVE  Wf(<<a, b>>)
<1> DEFINE s == <<a, b>>
<1>1. s \in Seq(Statement) /\ Len(s) = 2 /\ s[1] = a /\ s[2] = b /\ s # <<>>
  OBVIOUS
<1>2. 1..2 = {1, 2} /\ 1..(2 - 1) = {1} /\ 1 + 1 = 2
  OBVIOUS
<1> HIDE DEF s
<1>3. Wf(s)
  BY <1>1, <1>2 DEF Wf
<1> QED BY <1>3 DEF s

LEMMA ListOfFour ==
  ASSUME NEW a \in Statement, NEW b \in Statement, NEW c \in Statement, NEW d \in Statement,
         Typed(a), Typed(b), Typed(c), Typed(d),
         Follows(a, b), Follows(b, c), Follows(c, d), d[1] \notin Bound,
         a[1] # "unlock", b[1] # "unlock", c[1] # "unlock", d[1] # "unlock"
  PROVE  /\ Wf(<<a, b, c, d>>)
         /\ \A i \in 1..Len(<<a, b, c, d>>) : <<a, b, c, d>>[i][1] # "unlock"
<1> DEFINE s == <<a, b, c, d>>
<1>1. s \in Seq(Statement) /\ Len(s) = 4 /\ s[1] = a /\ s[2] = b /\ s[3] = c /\ s[4] = d
  OBVIOUS
<1>2. /\ 1..4 = {1, 2, 3, 4} /\ 1..(4 - 1) = {1, 2, 3} /\ 1 + 1 = 2 /\ 2 + 1 = 3 /\ 3 + 1 = 4
      /\ s # <<>>
  OBVIOUS
<1> HIDE DEF s
<1>3. \A i \in 1..Len(s) : Typed(s[i])
  BY <1>1, <1>2
<1>4. \A i \in 1..(Len(s) - 1) : Follows(s[i], s[i + 1])
  BY <1>1, <1>2
<1>5. \A i \in 1..Len(s) : s[i][1] # "unlock"
  BY <1>1, <1>2
<1>6. Wf(s)
  BY <1>1, <1>3, <1>4, <1>5 DEF Wf
<1> QED BY <1>5, <1>6 DEF s

LEMMA ListOfFive ==
  ASSUME NEW a \in Statement, NEW b \in Statement, NEW c \in Statement, NEW d \in Statement,
         NEW e \in Statement, Typed(a), Typed(b), Typed(c), Typed(d), Typed(e),
         Follows(a, b), Follows(b, c), Follows(c, d), Follows(d, e), e[1] \notin Bound,
         a[1] # "unlock", b[1] # "unlock", c[1] # "unlock", d[1] # "unlock", e[1] # "unlock"
  PROVE  /\ Wf(<<a, b, c, d, e>>)
         /\ \A i \in 1..Len(<<a, b, c, d, e>>) : <<a, b, c, d, e>>[i][1] # "unlock"
<1> DEFINE s == <<a, b, c, d, e>>
<1>1. /\ s \in Seq(Statement) /\ Len(s) = 5
      /\ s[1] = a /\ s[2] = b /\ s[3] = c /\ s[4] = d /\ s[5] = e
  OBVIOUS
<1>2. /\ 1..5 = {1, 2, 3, 4, 5} /\ 1..(5 - 1) = {1, 2, 3, 4} /\ 1 + 1 = 2 /\ 2 + 1 = 3
      /\ 3 + 1 = 4 /\ 4 + 1 = 5 /\ s # <<>>
  OBVIOUS
<1> HIDE DEF s
<1>3. \A i \in 1..Len(s) : Typed(s[i])
  BY <1>1, <1>2
<1>4. \A i \in 1..(Len(s) - 1) : Follows(s[i], s[i + 1])
  BY <1>1, <1>2
<1>5. \A i \in 1..Len(s) : s[i][1] # "unlock"
  BY <1>1, <1>2
<1>6. Wf(s)
  BY <1>1, <1>3, <1>4, <1>5 DEF Wf
<1> QED BY <1>5, <1>6 DEF s

LEMMA ShortLists ==
  /\ Wf(<< <<"raise">> >>) /\ Wf(<< <<"new_sprint">> >>) /\ Wf(<< <<"unlock">> >>)
  /\ Wf(<< <<"rollback">> >>)
  /\ \A k \in Nat : Wf(CancelSprint(k))
<1> USE DEF Typed, Bound, Ops
<1>1. \A o \in {"raise", "new_sprint", "unlock", "rollback"} : Wf(<< <<o>> >>)
  <2> SUFFICES ASSUME NEW o \in {"raise", "new_sprint", "unlock", "rollback"}
               PROVE  Wf(<< <<o>> >>)
    OBVIOUS
  <2>1. o \in Ops
    OBVIOUS
  <2>2. <<o>> \in Statement /\ <<o>>[1] = o
    BY <2>1, StatementTuples
  <2> QED BY <2>2, ListOfOne
<1>2. ASSUME NEW k \in Nat PROVE Wf(CancelSprint(k))
  <2>1. <<"list", k>> \in Statement
    BY StatementTuples
  <2> QED BY <2>1, ListOfOne DEF CancelSprint
<1> QED BY <1>1, <1>2

LEMMA PairLists ==
  /\ Wf(<< <<"rollback">>, <<"raise">> >>) /\ Wf(<< <<"catch">>, <<"unlock">> >>)
  /\ Wf(AutoTicket) /\ Wf(Update)
  /\ \A k \in Nat : Wf(<< <<"save">>, <<"read_back", k>> >>)
  /\ \A k \in Nat : Wf(<< <<"save">>, <<"read_sprint", k>> >>)
  /\ \A k \in Nat, parent \in Nat : Wf(Create(k, parent))
  /\ \A left \in SUBSET Nat, k \in Nat : Wf(<< <<"catch">>, <<"drop_rest", left, k>> >>)
<1> USE DEF Typed, Bound, Follows, Inside, Ops
<1>1. Wf(<< <<"rollback">>, <<"raise">> >>)
  BY StatementTuples, ListOfTwo
<1>2. Wf(<< <<"catch">>, <<"unlock">> >>)
  BY StatementTuples, ListOfTwo
<1>3. Wf(AutoTicket)
  BY StatementTuples, ListOfTwo DEF AutoTicket
<1>4. Wf(Update)
  BY StatementTuples, ListOfTwo DEF Update
<1>5. ASSUME NEW k \in Nat PROVE Wf(<< <<"save">>, <<"read_back", k>> >>)
  BY StatementTuples, ListOfTwo
<1>6. ASSUME NEW k \in Nat PROVE Wf(<< <<"save">>, <<"read_sprint", k>> >>)
  BY StatementTuples, ListOfTwo
<1>7. ASSUME NEW k \in Nat, NEW parent \in Nat PROVE Wf(Create(k, parent))
  <2>1. <<"cap", k>> \in Statement /\ <<"insert", k, parent>> \in Statement
    BY StatementTuples
  <2> QED BY <2>1, ListOfTwo DEF Create
<1>8. ASSUME NEW left \in SUBSET Nat, NEW k \in Nat
      PROVE  Wf(<< <<"catch">>, <<"drop_rest", left, k>> >>)
  <2>1. <<"catch">> \in Statement /\ <<"drop_rest", left, k>> \in Statement
    BY StatementTuples
  <2> QED BY <2>1, ListOfTwo
<1> QED BY <1>1, <1>2, <1>3, <1>4, <1>5, <1>6, <1>7, <1>8

NoUnlock(s) == \A i \in 1..Len(s) : s[i][1] # "unlock"
Block(s) == Wf(s) /\ NoUnlock(s) /\ s # <<>> /\ s[1][1] \notin Led

LEMMA JoinFirst ==
  ASSUME NEW s, NEW t, Wf(s), Wf(t), s # <<>>
  PROVE  s \o t # <<>> /\ (s \o t)[1] = s[1] /\ (NoUnlock(s) /\ NoUnlock(t) => NoUnlock(s \o t))
<1> DEFINE u == s \o t
<1>1. s \in Seq(Statement) /\ Len(s) \in Nat /\ t \in Seq(Statement) /\ Len(t) \in Nat
  BY DEF Wf
<1>2. /\ u \in Seq(Statement) /\ Len(u) = Len(s) + Len(t) /\ Len(s) > 0
      /\ \A i \in 1..Len(u) : u[i] = IF i <= Len(s) THEN s[i] ELSE t[i - Len(s)]
  BY <1>1
<1> HIDE DEF u
<1>3. u # <<>> /\ u[1] = s[1]
  BY <1>1, <1>2
<1>4. ASSUME NoUnlock(s), NoUnlock(t) PROVE NoUnlock(u)
  <2>1. \A i \in 1..Len(u) : \/ i \in 1..Len(s) /\ u[i] = s[i]
                             \/ i - Len(s) \in 1..Len(t) /\ u[i] = t[i - Len(s)]
    BY <1>1, <1>2
  <2> QED BY <1>4, <2>1 DEF NoUnlock
<1> QED BY <1>3, <1>4 DEF u

LEMMA BlockJoin ==
  ASSUME NEW s, NEW t, Block(s), Block(t)
  PROVE  Block(s \o t)
<1>1. Wf(s) /\ Wf(t) /\ t[1][1] \notin Led /\ s # <<>> /\ s[1][1] \notin Led
  BY DEF Block
<1>2. Wf(s \o t)
  BY <1>1, JoinWf DEF Block, NoUnlock
<1>3. s \o t # <<>> /\ (s \o t)[1] = s[1] /\ NoUnlock(s \o t)
  BY <1>1, JoinFirst DEF Block
<1> QED BY <1>1, <1>2, <1>3 DEF Block

LEMMA MoveBlock ==
  ASSUME NEW t \in Nat, NEW s \in DOMAIN TicketTransitions
  PROVE  Block(Move(t, s))
<1>1. /\ <<"begin">> \in Statement /\ <<"can_move", t, s>> \in Statement
      /\ <<"set_status", t, s>> \in Statement /\ <<"log", t>> \in Statement
      /\ <<"commit">> \in Statement
  BY StatementTuples DEF Ops, Status
<1>2. /\ Typed(<<"begin">>) /\ Typed(<<"can_move", t, s>>) /\ Typed(<<"set_status", t, s>>)
      /\ Typed(<<"log", t>>) /\ Typed(<<"commit">>)
  BY DEF Typed
<1>3. /\ Follows(<<"begin">>, <<"can_move", t, s>>)
      /\ Follows(<<"can_move", t, s>>, <<"set_status", t, s>>)
      /\ Follows(<<"set_status", t, s>>, <<"log", t>>) /\ Follows(<<"log", t>>, <<"commit">>)
  BY DEF Follows, Inside, Bound
<1>4. <<"commit">>[1] \notin Bound
  BY DEF Bound
<1>5. Wf(Move(t, s)) /\ NoUnlock(Move(t, s))
  <2>1. /\ <<"begin">>[1] # "unlock" /\ <<"can_move", t, s>>[1] # "unlock"
        /\ <<"set_status", t, s>>[1] # "unlock" /\ <<"log", t>>[1] # "unlock"
        /\ <<"commit">>[1] # "unlock"
    OBVIOUS
  <2> DEFINE p(a, b, c, d, e) == <<a, b, c, d, e>>
  <2>2. \A a, b, c, d, e \in Statement :
          /\ Typed(a) /\ Typed(b) /\ Typed(c) /\ Typed(d) /\ Typed(e)
          /\ Follows(a, b) /\ Follows(b, c) /\ Follows(c, d) /\ Follows(d, e)
          /\ e[1] \notin Bound /\ a[1] # "unlock" /\ b[1] # "unlock" /\ c[1] # "unlock"
          /\ d[1] # "unlock" /\ e[1] # "unlock"
          => Wf(p(a, b, c, d, e)) /\ NoUnlock(p(a, b, c, d, e))
    BY ListOfFive DEF NoUnlock
  <2> HIDE DEF p
  <2>3. LET m == p(<<"begin">>, <<"can_move", t, s>>, <<"set_status", t, s>>, <<"log", t>>,
                   <<"commit">>)
        IN  Wf(m) /\ NoUnlock(m)
    BY <1>1, <1>2, <1>3, <1>4, <2>1, <2>2
  <2> QED BY <2>3 DEF p, Move
<1>6. Move(t, s) # <<>> /\ Move(t, s)[1][1] \notin Led
  BY DEF Move, Led, Inside
<1> QED BY <1>5, <1>6 DEF Block

LEMMA SprintBlock ==
  ASSUME NEW k \in Nat, NEW s \in DOMAIN SprintTransitions
  PROVE  Block(TransitionSprint(k, s))
<1>1. /\ <<"begin">> \in Statement /\ <<"can_transition", k, s>> \in Statement
      /\ <<"set_sprint", k, s>> \in Statement /\ <<"commit">> \in Statement
  BY StatementTuples DEF Ops, Status
<1>2. /\ Typed(<<"begin">>) /\ Typed(<<"can_transition", k, s>>)
      /\ Typed(<<"set_sprint", k, s>>) /\ Typed(<<"commit">>)
  BY DEF Typed
<1>3. /\ Follows(<<"begin">>, <<"can_transition", k, s>>)
      /\ Follows(<<"can_transition", k, s>>, <<"set_sprint", k, s>>)
      /\ Follows(<<"set_sprint", k, s>>, <<"commit">>)
  BY DEF Follows, Inside, Bound
<1>4. <<"commit">>[1] \notin Bound
  BY DEF Bound
<1>5. Wf(TransitionSprint(k, s)) /\ NoUnlock(TransitionSprint(k, s))
  BY <1>1, <1>2, <1>3, <1>4, ListOfFour DEF NoUnlock, TransitionSprint, Transition
<1>6. TransitionSprint(k, s) # <<>> /\ TransitionSprint(k, s)[1][1] \notin Led
  BY DEF TransitionSprint, Transition, Led, Inside
<1> QED BY <1>5, <1>6 DEF Block

LEMMA ReassignBlock ==
  ASSUME NEW t \in Nat, NEW k \in Nat
  PROVE  Block(Reassign(t, k))
<1> DEFINE p == << <<"cap", k>>, <<"begin">>, <<"set_sprint_of", t, k>>, <<"commit">> >>
<1>1. /\ <<"cap", k>> \in Statement /\ <<"begin">> \in Statement
      /\ <<"set_sprint_of", t, k>> \in Statement /\ <<"commit">> \in Statement
  BY StatementTuples DEF Ops, Status
<1>2. /\ Typed(<<"begin">>) /\ Typed(<<"cap", k>>)
      /\ Typed(<<"set_sprint_of", t, k>>) /\ Typed(<<"commit">>)
  BY DEF Typed
<1>3. /\ Follows(<<"cap", k>>, <<"begin">>) /\ Follows(<<"begin">>, <<"set_sprint_of", t, k>>)
      /\ Follows(<<"set_sprint_of", t, k>>, <<"commit">>)
  BY DEF Follows, Inside, Bound
<1>4. <<"commit">>[1] \notin Bound
  BY DEF Bound
<1>5. Wf(p) /\ NoUnlock(p)
  BY <1>1, <1>2, <1>3, <1>4, ListOfFour DEF NoUnlock
<1>6. p # <<>> /\ p[1][1] \notin Led
  BY DEF Led, Inside
<1>7. Block(p)
  BY <1>5, <1>6 DEF Block
<1> HIDE DEF p
<1>8. Block(Update)
  <2>1. NoUnlock(Update) /\ Update # <<>> /\ Update[1][1] \notin Led
    BY DEF Update, NoUnlock, Led, Inside
  <2> QED BY <2>1, PairLists DEF Block
<1>9. Block(p \o Update)
  BY <1>7, <1>8, BlockJoin
<1>10. Block((p \o Update) \o Update)
  BY <1>8, <1>9, BlockJoin
<1>11. Block(((p \o Update) \o Update) \o Update)
  BY <1>8, <1>10, BlockJoin
<1> QED BY <1>11 DEF Reassign, p

LEMMA ResetBlock ==
  ASSUME NEW t \in Nat
  PROVE  Block(Update) /\ Block(Update \o Update \o Move(t, "ready"))
<1>1. Block(Update)
  <2>1. NoUnlock(Update) /\ Update # <<>> /\ Update[1][1] \notin Led
    BY DEF Update, NoUnlock, Led, Inside
  <2> QED BY <2>1, PairLists DEF Block
<1>2. Block(Update \o Update)
  BY <1>1, BlockJoin
<1>3. Block(Move(t, "ready"))
  BY MoveBlock DEF TicketTransitions
<1>4. Block((Update \o Update) \o Move(t, "ready"))
  BY <1>2, <1>3, BlockJoin
<1> QED BY <1>1, <1>4

LEMMA CreateBlock ==
  ASSUME NEW k \in Nat, NEW parent \in Nat
  PROVE  Block(Create(k, parent))
<1>1. NoUnlock(Create(k, parent)) /\ Create(k, parent) # <<>> /\ Create(k, parent)[1][1] \notin Led
  BY DEF Create, NoUnlock, Led, Inside
<1> QED BY <1>1, PairLists DEF Block

LEMMA FoundList ==
  ASSUME NEW k \in Nat
  PROVE  LET p == << <<"unlock">> >> \o Create(k, 0)
         IN  Wf(p) /\ p # <<>> /\ p[1][1] = "unlock"
<1>1. Block(Create(k, 0)) /\ Wf(<< <<"unlock">> >>)
  BY CreateBlock, ShortLists
<1>2. Wf(<< <<"unlock">> >> \o Create(k, 0))
  BY <1>1, JoinWf DEF Block, NoUnlock
<1>3. << <<"unlock">> >> # <<>> /\ << <<"unlock">> >>[1] = <<"unlock">>
  OBVIOUS
<1>4. (<< <<"unlock">> >> \o Create(k, 0))[1] = <<"unlock">> /\ << <<"unlock">> >> \o Create(k, 0) # <<>>
  BY <1>1, <1>3, JoinFirst DEF Block
<1> QED BY <1>2, <1>4

LEMMA NewRollingList ==
  ASSUME NEW k \in Nat
  PROVE  Wf(NewRolling(k)) /\ NewRolling(k) # <<>> /\ NewRolling(k)[1][1] = "save"
<1> DEFINE a == << <<"save">>, <<"read_sprint", k>> >>
           b == TransitionSprint(k, "approved")
           c == TransitionSprint(k, "running")
           d == << <<"catch">>, <<"unlock">> >>
           e == Create(k, 0)
<1>1. a # <<>> /\ a[1] = <<"save">> /\ NoUnlock(a) /\ a[1][1] \notin Led
  BY DEF NoUnlock, Led, Inside
<1>2. Block(a)
  BY <1>1, PairLists DEF Block
<1>3. Wf(d) /\ d[1][1] \notin Led
  BY PairLists DEF Led, Inside
<1>4. Block(b) /\ Block(c) /\ Block(e)
  BY SprintBlock, CreateBlock DEF SprintTransitions
<1> HIDE DEF a, b, c, d, e
<1>5. Block(a \o b) /\ (a \o b)[1] = a[1]
  BY <1>2, <1>4, BlockJoin, JoinFirst DEF Block
<1>6. Block((a \o b) \o c) /\ ((a \o b) \o c)[1] = a[1]
  BY <1>4, <1>5, BlockJoin, JoinFirst DEF Block
<1> DEFINE abc == (a \o b) \o c
<1> HIDE DEF abc
<1>7. Block(abc) /\ abc[1] = a[1]
  BY <1>6 DEF abc
<1>8. Wf(abc \o d)
  BY <1>3, <1>7, JoinWf DEF Block, NoUnlock
<1>9. abc \o d # <<>> /\ (abc \o d)[1] = a[1]
  BY <1>3, <1>7, JoinFirst DEF Block
<1>10. Wf((abc \o d) \o e)
  BY <1>4, <1>8, JoinWf DEF Block, NoUnlock
<1>11. (abc \o d) \o e # <<>> /\ ((abc \o d) \o e)[1] = a[1]
  BY <1>4, <1>8, <1>9, JoinFirst DEF Block
<1>12. NewRolling(k) = (abc \o d) \o e
  BY DEF NewRolling, abc, a, b, c, d, e
<1> QED BY <1>1, <1>10, <1>11, <1>12

\* A non-empty set of natural numbers has a least element.
LEMMA MinOf ==
  ASSUME NEW S \in SUBSET Nat, S # {}
  PROVE  Min(S) \in S /\ \A y \in S : Min(S) <= y
<1> DEFINE less == {ss \in Nat \X Nat : ss[1] < ss[2]}
<1>1. IsWellFoundedOn(less, Nat)
  BY NatLessThanWellFounded DEF OpToRel
<1> HIDE DEF less
<1>2. \E x \in S : \A y \in S : ~ (<<y, x>> \in less)
  BY <1>1, WFMin
<1>3. \A x, y \in Nat : ~ (<<y, x>> \in less) => x <= y
  BY DEF less
<1>4. \E x \in S : \A y \in S : x <= y
  BY <1>2, <1>3
<1> QED BY <1>4 DEF Min

LEMMA DropBlock ==
  ASSUME NEW left \in SUBSET Nat, NEW k \in Nat
  PROVE  Block(DropAll(left, k))
<1>1. CASE left = {}
  BY <1>1, SprintBlock DEF DropAll, SprintTransitions
<1>2. CASE left # {}
  <2> DEFINE t == Min(left)
             rest == << <<"catch">>, <<"drop_rest", left \ {t}, k>> >>
  <2>1. t \in Nat
    BY <1>2, MinOf
  <2>2. Block(Move(t, "dropped"))
    BY <2>1, MoveBlock DEF TicketTransitions
  <2>3. rest # <<>> /\ NoUnlock(rest) /\ rest[1][1] \notin Led
    BY DEF NoUnlock, Led, Inside
  <2>4. Block(rest)
    BY <2>3, PairLists DEF Block
  <2> HIDE DEF rest
  <2>5. Block(Move(t, "dropped") \o rest)
    BY <2>2, <2>4, BlockJoin
  <2> QED BY <1>2, <2>5 DEF DropAll, rest
<1> QED BY <1>1, <1>2

LEMMA ProgramBlock ==
  ASSUME NEW r \in Request
  PROVE  Block(Program(r))
<1>1. CASE r = <<"update">>
  BY <1>1, ResetBlock DEF Program
<1>2. CASE r = <<"auto">>
  <2>1. NoUnlock(AutoTicket) /\ AutoTicket # <<>> /\ AutoTicket[1][1] \notin Led
    BY DEF AutoTicket, NoUnlock, Led, Inside
  <2>2. Block(AutoTicket)
    BY <2>1, PairLists DEF Block
  <2> QED BY <1>2, <2>2 DEF Program
<1>3. ASSUME NEW t \in Nat, r = <<"reset", t>> PROVE Block(Program(r))
  BY <1>3, ResetBlock DEF Program
<1>4. ASSUME NEW k \in Nat, r = <<"cancel", k>> PROVE Block(Program(r))
  <2>1. NoUnlock(CancelSprint(k)) /\ CancelSprint(k) # <<>> /\ CancelSprint(k)[1][1] \notin Led
    BY DEF CancelSprint, NoUnlock, Led, Inside
  <2>2. Block(CancelSprint(k))
    BY <2>1, ShortLists DEF Block
  <2> QED BY <1>4, <2>2 DEF Program
<1>5. ASSUME NEW k \in Nat, NEW p \in Nat, r = <<"create", k, p>> PROVE Block(Program(r))
  BY <1>5, CreateBlock DEF Program
<1>6. ASSUME NEW t \in Nat, NEW k \in Nat, r = <<"reassign", t, k>> PROVE Block(Program(r))
  BY <1>6, ReassignBlock DEF Program
<1>7. ASSUME NEW t \in Nat, NEW s \in DOMAIN TicketTransitions, r = <<"move", t, s>>
      PROVE  Block(Program(r))
  BY <1>7, MoveBlock DEF Program
<1>8. ASSUME NEW k \in Nat, NEW s \in DOMAIN SprintTransitions, r = <<"sprint", k, s>>
      PROVE  Block(Program(r))
  BY <1>8, SprintBlock DEF Program
<1> QED BY <1>1, <1>2, <1>3, <1>4, <1>5, <1>6, <1>7, <1>8 DEF Request

-----------------------------------------------------------------------------
(* How a call moves on *)

Others(c) == \A d \in Calls \ {c} : todo'[d] = todo[d] /\ res'[d] = res[d]

\* The lists of the others are as they were, and what is said of them.
LEMMA OthersKept ==
  ASSUME NEW c \in Calls, NEW d \in Calls \ {c}, Others(c)
  PROVE  /\ Op(d)' = Op(d) /\ Holds(d)' = Holds(d) /\ Closing(d)' = Closing(d)
         /\ todo'[d] = todo[d] /\ res'[d] = res[d]
<1>1. todo'[d] = todo[d] /\ res'[d] = res[d]
  BY DEF Others
<1>2. Op(d)' = Op(d)
  BY <1>1 DEF Op
<1> QED BY <1>1, <1>2 DEF Holds, Closing

LEMMA Continues ==
  ASSUME TodoInv, NEW c \in Calls, todo[c] # <<>>, NEW rest, Wf(rest), Continue(c, rest)
  PROVE  TodoInv' /\ Others(c) /\ todo'[c] = rest /\ res[c] = "none" /\ res'[c] \in {"none", "ok"}
<1>1. res[c] = "none" /\ rest \in Seq(Statement)
  BY DEF TodoInv, Wf
<1>2. todo' = [todo EXCEPT ![c] = rest] /\ todo'[c] = rest
  BY DEF TodoInv, Continue
<1>3. res' = [res EXCEPT ![c] = IF rest = <<>> THEN "ok" ELSE res[c]]
  BY DEF TodoInv, Continue
<1>4. res'[c] \in {"none", "ok"} /\ (res'[c] = "ok" => rest = <<>>)
  BY <1>1, <1>3 DEF TodoInv
<1>5. Others(c)
  BY <1>2, <1>3 DEF TodoInv, Others
<1>6. todo' \in [Calls -> Seq(Statement)] /\ res' \in [Calls -> {"none", "ok", "error", "stuck", "cut"}]
  BY <1>1, <1>2, <1>3, <1>4 DEF TodoInv
<1>7. ASSUME NEW d \in Calls PROVE Wf(todo'[d]) /\ (res'[d] # "none" => todo'[d] = <<>>)
  BY <1>2, <1>4, <1>5 DEF TodoInv, Others
<1> QED BY <1>1, <1>2, <1>4, <1>5, <1>6, <1>7 DEF TodoInv

LEMMA Leaves ==
  ASSUME TodoInv, LockInv, lock \in Calls \cup {NoCall}, NEW c \in Calls, todo[c] # <<>>,
         NEW r \in {"error", "stuck", "cut"}, Leave(c, r)
  PROVE  /\ TodoInv' /\ LockInv' /\ lock' \in Calls \cup {NoCall} /\ Others(c)
         /\ todo'[c] = <<>> /\ Op(c)' = "none" /\ res[c] = "none" /\ res'[c] = r
<1>1. res[c] = "none"
  BY DEF TodoInv
<1>2. todo' = [todo EXCEPT ![c] = <<>>] /\ todo'[c] = <<>>
  BY DEF TodoInv, Leave
<1>3. res' = [res EXCEPT ![c] = r] /\ res'[c] = r
  BY DEF TodoInv, Leave
<1>4. Others(c)
  BY <1>2, <1>3 DEF TodoInv, Others
<1>5. todo' \in [Calls -> Seq(Statement)] /\ res' \in [Calls -> {"none", "ok", "error", "stuck", "cut"}]
  BY <1>2, <1>3 DEF TodoInv
<1>6. ASSUME NEW d \in Calls PROVE Wf(todo'[d]) /\ (res'[d] # "none" => todo'[d] = <<>>)
  BY <1>2, <1>4, EmptyWf DEF TodoInv, Others
<1>7. lock' \in Calls \cup {NoCall} /\ \A d \in Calls \ {c} : lock = d => lock' = d
  BY DEF Leave
<1>8. Op(c)' = "none" /\ ~ Holds(c)'
  <2>1. Op(c)' = "none"
    BY <1>2 DEF Op
  <2>2. ~ \E i \in 1..Len(todo'[c]) : todo'[c][i][1] = "unlock"
    BY <1>2
  <2> QED BY <2>1, <2>2 DEF Holds
<1>9. LockInv'
  BY <1>4, <1>7, <1>8, OthersKept DEF LockInv
<1> QED BY <1>1, <1>2, <1>3, <1>4, <1>5, <1>6, <1>7, <1>8, <1>9 DEF TodoInv

\* The next statement is one that follows; a lock is not asked for and not given back twice.
LEMMA Advances ==
  ASSUME TodoInv, NEW c \in Calls, todo[c] # <<>>, Advance(c)
  PROVE  /\ TodoInv' /\ Others(c) /\ res[c] = "none" /\ res'[c] \in {"none", "ok"}
         /\ \/ todo'[c] = <<>> /\ Op(c)' = "none" /\ Op(c) \notin Bound
            \/ /\ todo'[c] # <<>> /\ Op(c)' = todo'[c][1][1] /\ Head(todo'[c]) = todo'[c][1]
               /\ Follows(todo[c][1], todo'[c][1])
         /\ Op(c) # "lock" /\ Holds(c)' => Holds(c)
         /\ Op(c) = "unlock" => ~ Holds(c)'
<1> DEFINE s == todo[c]
           t == Tail(todo[c])
<1>1. /\ Wf(s) /\ s \in Seq(Statement) /\ s # <<>> /\ Len(s) \in Nat /\ Len(s) >= 1
      /\ t = SubSeq(s, 2, Len(s)) /\ 2 \in 1..(Len(s) + 1) /\ Head(s) = s[1]
  BY DEF TodoInv
<1>2. /\ t \in Seq(Statement) /\ Len(t) = Len(s) - 1
      /\ \A i \in 1..Len(t) : t[i] = s[i + 1] /\ i + 1 \in 1..Len(s) /\ i + 1 # 1
  BY <1>1
<1>3. Wf(t)
  BY <1>1, SuffixWf
<1>4. TodoInv' /\ Others(c) /\ todo'[c] = t /\ res[c] = "none" /\ res'[c] \in {"none", "ok"}
  BY <1>3, Continues DEF Advance
<1> HIDE DEF t
<1>5. /\ Op(c) = s[1][1] /\ (t # <<>> => Op(c)' = t[1][1] /\ Head(t) = t[1])
      /\ (t = <<>> => Op(c)' = "none")
  <2>1. t # <<>> => Head(t) = t[1]
    BY <1>2
  <2> QED BY <1>1, <1>4, <2>1 DEF Op
<1>6. CASE t = <<>>
  <2>1. Len(s) = 1
    <3>1. Len(t) = Len(<<>>) /\ Len(<<>>) = 0
      BY <1>6
    <3>2. Len(s) \in Nat
      BY <1>1
    <3>3. Len(t) = Len(s) - 1
      BY <1>2
    <3> QED BY <3>1, <3>2, <3>3
  <2>2. s[1][1] \notin Bound
    BY <1>1, <2>1 DEF Wf
  <2>3. ~ Holds(c)'
    <3>1. ~ \E i \in 1..Len(todo'[c]) : todo'[c][i][1] = "unlock"
      BY <1>4, <1>6
    <3> QED BY <1>5, <1>6, <3>1 DEF Holds
  <2> QED BY <1>4, <1>5, <1>6, <2>2, <2>3
<1>7. CASE t # <<>>
  <2>1. t[1] = s[2] /\ 1 \in 1..(Len(s) - 1) /\ 1 + 1 = 2 /\ 1 \in 1..Len(s)
    BY <1>1, <1>2, <1>7
  <2>2. Follows(s[1], t[1])
    BY <1>1, <2>1 DEF Wf
  <2>3. Op(c)' \in {"find", "new_sprint"} => Op(c) = "lock"
    BY <1>5, <1>7, <2>2 DEF Follows
  <2>4. ASSUME NEW i \in 1..Len(t), t[i][1] = "unlock"
        PROVE  Holds(c) /\ Op(c) # "unlock"
    <3>1. s[i + 1][1] = "unlock" /\ i + 1 \in 1..Len(s) /\ i + 1 # 1
      BY <1>2, <2>4
    <3>2. s[1][1] # "unlock"
      BY <1>1, <2>1, <3>1 DEF Wf
    <3> QED BY <1>5, <3>1, <3>2 DEF Holds
  <2>5. Holds(c)' => Op(c)' \in {"find", "new_sprint"} \/ \E i \in 1..Len(t) : t[i][1] = "unlock"
    BY <1>4 DEF Holds
  <2> QED BY <1>4, <1>5, <1>7, <2>2, <2>3, <2>4, <2>5
<1> QED BY <1>6, <1>7

\* A refused check rolls back next, and resumes after a handler or leaves.
LEMMA Refuses ==
  ASSUME TodoInv, NEW c \in Calls, todo[c] # <<>>, Refuse(c)
  PROVE  /\ TodoInv' /\ Others(c) /\ res[c] = "none" /\ res'[c] \in {"none", "ok"}
         /\ Op(c)' = "rollback" /\ (Holds(c)' => Holds(c))
<1> DEFINE s == todo[c]
           t == Tail(todo[c])
           rest == AfterCatch(t)
           back == << <<"rollback">> >>
           at == {i \in DOMAIN t : t[i][1] = "catch"}
<1>1. /\ Wf(s) /\ s \in Seq(Statement) /\ s # <<>> /\ Len(s) \in Nat /\ Len(s) >= 1
      /\ t = SubSeq(s, 2, Len(s)) /\ 2 \in 1..(Len(s) + 1)
  BY DEF TodoInv
<1>2. /\ t \in Seq(Statement) /\ Len(t) = Len(s) - 1 /\ DOMAIN t = 1..Len(t) /\ Len(t) \in Nat
      /\ \A i \in 1..Len(t) : t[i] = s[i + 1] /\ i + 1 \in 1..Len(s)
  BY <1>1
<1>3. Wf(t)
  BY <1>1, SuffixWf
<1> HIDE DEF t
<1>4. /\ Wf(rest) /\ (rest # <<>> => rest[1][1] \notin Led)
      /\ \A i \in 1..Len(rest) : rest[i][1] = "unlock" =>
           \E j \in 1..Len(t) : t[j][1] = "unlock"
  <2>1. CASE at = {}
    <3>1. rest = << <<"raise">> >>
      BY <2>1 DEF AfterCatch
    <3>2. rest[1] = <<"raise">> /\ Len(rest) = 1
      BY <3>1
    <3>3. rest[1][1] \notin Led /\ \A i \in 1..Len(rest) : rest[i][1] # "unlock"
      BY <3>2 DEF Led, Inside
    <3> QED BY <3>1, <3>3, ShortLists
  <2>2. CASE at # {}
    <3> DEFINE k == Min(at)
    <3>1. at \in SUBSET Nat
      BY <1>2
    <3>2. k \in at
      BY <2>2, <3>1, MinOf
    <3>3. k \in 1..Len(t) /\ t[k][1] = "catch" /\ k + 1 \in 1..(Len(t) + 1)
      BY <1>2, <3>2
    <3>4. rest = SubSeq(t, k + 1, Len(t))
      BY <2>2 DEF AfterCatch
    <3> HIDE DEF k, at, rest
    <3>5. Wf(rest)
      BY <1>3, <3>3, <3>4, SuffixWf
    <3>6. /\ Len(rest) = Len(t) - k
          /\ \A i \in 1..Len(rest) : rest[i] = t[i + k] /\ i + k \in 1..Len(t)
      BY <1>2, <3>3, <3>4
    <3>7. ASSUME rest # <<>> PROVE rest[1][1] \notin Led
      <4>1. 1 \in 1..Len(rest)
        BY <3>5, <3>7 DEF Wf
      <4>2. k \in 1..(Len(t) - 1) /\ rest[1] = t[k + 1]
        BY <1>2, <3>3, <3>6, <4>1
      <4>3. Follows(t[k], rest[1])
        BY <1>3, <4>2 DEF Wf
      <4> QED BY <3>3, <4>3 DEF Follows, Led, Bound, Inside
    <3> QED BY <3>5, <3>6, <3>7
  <2> QED BY <2>1, <2>2
<1>5. Wf(back) /\ back # <<>> /\ back[1] = <<"rollback">> /\ \A i \in 1..Len(back) : back[i][1] # "unlock"
  BY ShortLists
<1> HIDE DEF rest, back
<1>6. Wf(back \o rest)
  BY <1>4, <1>5, JoinWf
<1>7. back \o rest # <<>> /\ (back \o rest)[1] = <<"rollback">>
  BY <1>4, <1>5, JoinFirst
<1>8. /\ TodoInv' /\ Others(c) /\ todo'[c] = back \o rest /\ res[c] = "none"
      /\ res'[c] \in {"none", "ok"}
  BY <1>6, Continues DEF Refuse, back, rest, t
<1>9. Op(c)' = "rollback"
  <2>1. Head(back \o rest) = (back \o rest)[1]
    BY <1>6, <1>7 DEF Wf
  <2> QED BY <1>7, <1>8, <2>1 DEF Op
<1>10. ASSUME Holds(c)' PROVE Holds(c)
  <2>1. PICK i \in 1..Len(back \o rest) : (back \o rest)[i][1] = "unlock"
    BY <1>8, <1>9, <1>10 DEF Holds
  <2>2. ~ NoUnlock(back \o rest)
    BY <2>1 DEF NoUnlock
  <2>3. ~ NoUnlock(rest)
    BY <1>4, <1>5, <2>2, JoinFirst DEF NoUnlock
  <2>4. PICK j \in 1..Len(t) : t[j][1] = "unlock"
    BY <1>4, <2>3 DEF NoUnlock
  <2>5. s[j + 1][1] = "unlock" /\ j + 1 \in 1..Len(s)
    BY <1>2, <2>4
  <2> QED BY <2>5 DEF Holds
<1> QED BY <1>8, <1>9, <1>10

-----------------------------------------------------------------------------
(* Steps that leave the connection alone *)

LEMMA LockKept ==
  ASSUME LockInv, NEW c \in Calls, Others(c), Holds(c)' => lock' = c,
         \A d \in Calls \ {c} : lock = d => lock' = d
  PROVE  LockInv'
<1> SUFFICES ASSUME NEW d \in Calls, Holds(d)' PROVE lock' = d
  BY DEF LockInv
<1>1. CASE d = c
  BY <1>1
<1>2. CASE d # c
  BY <1>2, OthersKept DEF LockInv
<1> QED BY <1>1, <1>2

LEMMA IdleKept ==
  ASSUME IdleInv, TodoInv, NEW c \in Calls, Others(c), res[c] = "none",
         open' => open,
         open' /\ Closing(c) => Closing(c)' \/ res'[c] \in {"stuck", "cut"}
  PROVE  IdleInv'
<1> SUFFICES ASSUME open' PROVE \E d \in Calls : (res[d] \in {"stuck", "cut"} \/ Closing(d))'
  BY DEF IdleInv
<1>1. PICK d \in Calls : res[d] \in {"stuck", "cut"} \/ Closing(d)
  BY DEF IdleInv
<1>2. CASE d = c
  BY <1>1, <1>2
<1>3. CASE d # c
  BY <1>1, <1>3, OthersKept
<1> QED BY <1>2, <1>3

LEMMA Quiet ==
  ASSUME Inv, NEW c \in Calls, Reads, Others(c), TodoInv', LockInv',
         lock' \in Calls \cup {NoCall}, res[c] = "none",
         Op(c)' \notin Inside \cup {"rollback"},
         Op(c)' = "new_sprint" => Rolling(view) = {},
         open /\ Closing(c) => res'[c] \in {"stuck", "cut"}
  PROVE  Inv'
<1> USE DEF Reads, txn
<1>1. TypeOK' /\ NumInv'
  BY DEF Inv, TypeOK, NumInv, TodoInv
<1>2. IdleInv'
  BY IdleKept DEF Inv
<1>3. ASSUME ~ hit' PROVE HoldInv' /\ NearInv' /\ RollInv'
  <2>1. ~ hit /\ HoldInv /\ NearInv /\ RollInv
    BY <1>3 DEF Inv
  <2>2. NearInv'
    BY <2>1 DEF NearInv
  <2>3. SameTickets' = SameTickets /\ SameSprints' = SameSprints
    BY DEF SameTickets, SameSprints
  <2>4. HoldInv'
    <3>1. ASSUME NEW d \in Calls PROVE HoldOf(d)'
      <4>1. CASE d = c
        BY <4>1 DEF HoldOf
      <4>2. CASE d # c
        <5>1. Op(d)' = Op(d) /\ todo'[d] = todo[d]
          BY <4>2, OthersKept
        <5>2. HoldOf(d)
          BY <2>1 DEF HoldInv
        <5> QED BY <2>3, <5>1, <5>2 DEF HoldOf, Arg
      <4> QED BY <4>1, <4>2
    <3> QED BY <3>1 DEF HoldInv
  <2>5. RollInv'
    <3>1. \A d \in Calls : Op(d)' = "new_sprint" => Rolling(view) = {}
      BY <2>1, OthersKept DEF RollInv
    <3>2. Rolling(view)' = Rolling(view) /\ Rolling(disk)' = Rolling(disk)
      BY DEF Rolling
    <3> QED BY <2>1, <3>1, <3>2 DEF RollInv, Rolling
  <2> QED BY <2>2, <2>4, <2>5
<1> QED BY <1>1, <1>2, <1>3 DEF Inv

LEMMA Heads ==
  ASSUME TodoInv, NEW c \in Calls, NEW o, Doing(c, o)
  PROVE  /\ todo[c] # <<>> /\ Op(c) = o /\ res[c] = "none"
         /\ Head(todo[c]) = todo[c][1] /\ Typed(Head(todo[c])) /\ todo[c][1][1] = o
<1>1. todo[c] \in Seq(Statement) /\ todo[c] # <<>> /\ Head(todo[c])[1] = o
  BY DEF TodoInv, Doing
<1>2. 1 \in 1..Len(todo[c]) /\ Head(todo[c]) = todo[c][1]
  BY <1>1
<1> QED BY <1>1, <1>2 DEF TodoInv, Wf, Op

LEMMA PlainNext ==
  ASSUME TodoInv, NEW c \in Calls, NEW o, Doing(c, o), o \notin Bound, Advance(c)
  PROVE  Op(c)' \notin Led
<1>1. todo[c] # <<>> /\ todo[c][1][1] = o
  BY Heads
<1>2. \/ Op(c)' = "none"
      \/ Op(c)' = todo'[c][1][1] /\ Follows(todo[c][1], todo'[c][1])
  BY <1>1, Advances
<1> QED BY <1>1, <1>2 DEF Follows, Led, Inside, Bound

LEMMA PlainStep ==
  ASSUME Inv, NEW c \in Calls, NEW o \in {"catch", "cap", "read_back", "read_sprint"},
         Doing(c, o), Advance(c), UNCHANGED lock, Reads
  PROVE  Inv'
<1>1. todo[c] # <<>> /\ Op(c) = o /\ o \notin Bound
  BY Heads DEF Inv, Bound
<1>2. Op(c)' \notin Led
  BY <1>1, PlainNext DEF Inv
<1>3. /\ TodoInv' /\ Others(c) /\ res[c] = "none" /\ (Holds(c)' => Holds(c))
  BY <1>1, Advances DEF Inv
<1>4. LockInv'
  BY <1>3, LockKept DEF Inv, LockInv
<1>5. lock' \in Calls \cup {NoCall}
  BY DEF Inv, TypeOK
<1>6. ~ Closing(c)
  BY <1>1 DEF Closing, Inside
<1> QED BY <1>2, <1>3, <1>4, <1>5, <1>6, Quiet DEF Led

LEMMA LeaveStep ==
  ASSUME Inv, NEW c \in Calls, NEW r \in {"error", "stuck", "cut"}, todo[c] # <<>>,
         Leave(c, r), Reads, Closing(c) => r = "cut"
  PROVE  Inv'
<1>1. lock \in Calls \cup {NoCall} /\ TodoInv /\ LockInv
  BY DEF Inv, TypeOK
<1>2. /\ TodoInv' /\ LockInv' /\ lock' \in Calls \cup {NoCall} /\ Others(c)
      /\ Op(c)' = "none" /\ res[c] = "none" /\ res'[c] = r
  BY <1>1, Leaves
<1> QED BY <1>2, Quiet DEF Inside

LEMMA CallStep ==
  ASSUME Inv, NEW c \in Calls, Call(c)
  PROVE  Inv'
<1>1. PICK r \in Requests[c] : todo' = [todo EXCEPT ![c] = Program(r)]
  BY DEF Call
<1>2. r \in Request
  BY PmAssumption DEF PmAssumption
<1> DEFINE p == Program(r)
<1>3. Block(p)
  BY <1>2, ProgramBlock
<1> HIDE DEF p
<1>4. /\ todo' = [todo EXCEPT ![c] = p] /\ p \in Seq(Statement) /\ res' = res /\ lock' = lock
      /\ res[c] = "none" /\ todo[c] = <<>> /\ Reads
  BY <1>1, <1>3 DEF Call, Block, Wf, p
<1>5. TodoInv' /\ Others(c) /\ todo'[c] = p
  <2>1. todo' \in [Calls -> Seq(Statement)] /\ todo'[c] = p
    BY <1>4 DEF Inv, TodoInv
  <2>2. Others(c)
    BY <1>4 DEF Inv, TodoInv, Others
  <2>3. ASSUME NEW d \in Calls PROVE Wf(todo'[d]) /\ (res'[d] # "none" => todo'[d] = <<>>)
    BY <1>3, <1>4, <2>1, <2>2 DEF Inv, TodoInv, Others, Block
  <2> QED BY <1>4, <2>1, <2>2, <2>3 DEF Inv, TodoInv
<1>6. Op(c)' = p[1][1] /\ Op(c)' \notin Led
  <2>1. Head(p) = p[1] /\ p # <<>>
    BY <1>3 DEF Block, Wf
  <2> QED BY <1>3, <1>5, <2>1 DEF Op, Block
<1>7. ~ Holds(c)'
  BY <1>3, <1>5, <1>6 DEF Holds, Block, NoUnlock, Led
<1>8. LockInv'
  BY <1>4, <1>5, <1>7, LockKept DEF Inv
<1>9. ~ Closing(c)
  BY <1>4 DEF Closing, Op, Inside
<1>10. lock' \in Calls \cup {NoCall}
  BY <1>4 DEF Inv, TypeOK
<1> QED BY <1>4, <1>5, <1>6, <1>8, <1>9, <1>10, Quiet DEF Led

LEMMA PlainSteps ==
  ASSUME Inv, NEW c \in Calls,
         Catch(c) \/ Cap(c) \/ ReadBack(c) \/ ReadSprint(c) \/ Raise(c) \/ Cancel(c)
  PROVE  Inv'
<1> USE DEF Inv
<1>1. CASE Catch(c)
  BY <1>1, PlainStep DEF Catch
<1>2. CASE Cap(c)
  <2>1. Doing(c, "cap") /\ Reads
    BY <1>2 DEF Cap
  <2>2. todo[c] # <<>> /\ ~ Closing(c)
    BY <2>1, Heads DEF Closing, Inside
  <2> QED BY <1>2, <2>1, <2>2, PlainStep, LeaveStep DEF Cap
<1>3. CASE ReadBack(c)
  <2>1. Doing(c, "read_back") /\ Reads
    BY <1>3 DEF ReadBack
  <2>2. todo[c] # <<>> /\ ~ Closing(c)
    BY <2>1, Heads DEF Closing, Inside
  <2> QED BY <1>3, <2>1, <2>2, PlainStep, LeaveStep DEF ReadBack
<1>4. CASE ReadSprint(c)
  <2>1. Doing(c, "read_sprint") /\ Reads
    BY <1>4 DEF ReadSprint
  <2>2. todo[c] # <<>> /\ ~ Closing(c)
    BY <2>1, Heads DEF Closing, Inside
  <2> QED BY <1>4, <2>1, <2>2, PlainStep, LeaveStep DEF ReadSprint
<1>5. CASE Raise(c)
  <2>1. Doing(c, "raise") /\ Reads /\ Leave(c, "error")
    BY <1>5 DEF Raise
  <2>2. todo[c] # <<>> /\ ~ Closing(c)
    BY <2>1, Heads DEF Closing, Inside
  <2> QED BY <2>1, <2>2, LeaveStep
<1>6. CASE Cancel(c)
  BY <1>6, LeaveStep DEF Cancel
<1> QED BY <1>1, <1>2, <1>3, <1>4, <1>5, <1>6

LEMMA ListSteps ==
  ASSUME Inv, NEW c \in Calls, List(c) \/ DropRest(c)
  PROVE  Inv'
<1>1. PICK o \in {"list", "drop_rest"} : Doing(c, o)
  BY DEF List, DropRest
<1>2. /\ todo[c] # <<>> /\ Op(c) = o /\ res[c] = "none" /\ Typed(Head(todo[c]))
      /\ Head(todo[c])[1] = o
  BY <1>1, Heads DEF Inv
<1>3. Reads /\ lock' = lock
  BY DEF List, DropRest
<1>4. PICK rest : Block(rest) /\ Continue(c, rest)
  <2>1. CASE List(c)
    <3> DEFINE k == Arg(c, 2)
               left == {t \in TicketsOf(view, k) : view.tickets[t].status \notin Terminal}
    <3>1. k \in Nat
      BY <1>1, <1>2, <2>1 DEF List, Doing, Arg, Typed
    <3>2. left \in SUBSET Nat
      BY DEF Inv, TypeOK, TicketsOf
    <3>3. Block(DropAll(left, k))
      BY <3>1, <3>2, DropBlock
    <3> QED BY <2>1, <3>3 DEF List
  <2>2. CASE DropRest(c)
    <3>1. Arg(c, 2) \in SUBSET Nat /\ Arg(c, 3) \in Nat
      BY <1>1, <1>2, <2>2 DEF DropRest, Doing, Arg, Typed
    <3>2. Block(DropAll(Arg(c, 2), Arg(c, 3)))
      BY <3>1, DropBlock
    <3> QED BY <2>2, <3>2 DEF DropRest
  <2> QED BY <2>1, <2>2
<1>5. TodoInv' /\ Others(c) /\ todo'[c] = rest
  BY <1>2, <1>4, Continues DEF Inv, Block
<1>6. Op(c)' \notin Led
  <2>1. Head(rest) = rest[1] /\ rest # <<>>
    BY <1>4 DEF Block, Wf
  <2> QED BY <1>4, <1>5, <2>1 DEF Op, Block
<1>7. ~ Holds(c)'
  BY <1>4, <1>5, <1>6 DEF Holds, Block, NoUnlock, Led
<1>8. LockInv'
  BY <1>3, <1>5, <1>7, LockKept DEF Inv
<1>9. ~ Closing(c)
  BY <1>2 DEF Closing, Inside
<1>10. lock' \in Calls \cup {NoCall}
  BY <1>3 DEF Inv, TypeOK
<1> QED BY <1>2, <1>3, <1>5, <1>6, <1>8, <1>9, <1>10, Quiet DEF Led

LEMMA FindStep ==
  ASSUME Inv, NEW c \in Calls, Find(c)
  PROVE  Inv'
<1>1. /\ todo[c] # <<>> /\ Op(c) = "find" /\ res[c] = "none" /\ Reads /\ lock' = lock
      /\ Holds(c) /\ lock = c
  <2>1. Doing(c, "find") /\ Reads /\ lock' = lock
    BY DEF Find
  <2>2. todo[c] # <<>> /\ Op(c) = "find" /\ res[c] = "none"
    BY <2>1, Heads DEF Inv
  <2>3. Holds(c)
    BY <2>2 DEF Holds
  <2> QED BY <2>1, <2>2, <2>3 DEF Inv, LockInv
<1>2. PICK rest : /\ Wf(rest) /\ rest # <<>> /\ Continue(c, rest)
                  /\ \/ rest[1][1] = "unlock"
                     \/ rest[1][1] = "new_sprint" /\ Rolling(view) = {}
  <2>1. CASE Rolling(view) # {}
    <3> DEFINE k == Min(Rolling(view))
    <3>1. Rolling(view) \in SUBSET Nat
      BY DEF Inv, TypeOK, Rolling
    <3>2. k \in Nat
      BY <2>1, <3>1, MinOf
    <3> DEFINE p == << <<"unlock">> >> \o Create(k, 0)
    <3>3. Wf(p) /\ p # <<>> /\ p[1][1] = "unlock"
      BY <3>2, FoundList
    <3> QED BY <2>1, <3>3 DEF Find
  <2>2. CASE Rolling(view) = {}
    <3>1. Continue(c, << <<"new_sprint">> >>)
      BY <2>2 DEF Find
    <3> QED BY <2>2, <3>1, ShortLists
  <2> QED BY <2>1, <2>2
<1>3. TodoInv' /\ Others(c) /\ todo'[c] = rest
  BY <1>1, <1>2, Continues DEF Inv
<1>4. Op(c)' = rest[1][1]
  <2>1. Head(rest) = rest[1]
    BY <1>2 DEF Wf
  <2> QED BY <1>2, <1>3, <2>1 DEF Op
<1>5. LockInv'
  BY <1>1, <1>3, LockKept DEF Inv
<1>6. ~ Closing(c)
  BY <1>1 DEF Closing, Inside
<1>7. lock' \in Calls \cup {NoCall}
  BY <1>1 DEF Inv, TypeOK
<1> QED BY <1>1, <1>2, <1>3, <1>4, <1>5, <1>6, <1>7, Quiet DEF Inside

LEMMA LockSteps ==
  ASSUME Inv, NEW c \in Calls, Lock(c) \/ Unlock(c)
  PROVE  Inv'
<1>1. PICK o \in {"lock", "unlock"} : Doing(c, o)
  BY DEF Lock, Unlock
<1>2. /\ todo[c] # <<>> /\ Op(c) = o /\ res[c] = "none" /\ todo[c][1][1] = o
      /\ Reads /\ Advance(c)
  BY <1>1, Heads DEF Inv, Lock, Unlock
<1>3. /\ TodoInv' /\ Others(c)
      /\ \/ Op(c)' = "none" /\ Op(c) \notin Bound
         \/ Op(c)' = todo'[c][1][1] /\ Follows(todo[c][1], todo'[c][1])
      /\ Op(c) = "unlock" => ~ Holds(c)'
  BY <1>2, Advances DEF Inv
<1>4. Op(c)' \notin Inside \cup {"rollback", "new_sprint"}
  BY <1>2, <1>3 DEF Follows, Inside, Bound
<1>5. lock' \in Calls \cup {NoCall} /\ LockInv'
  <2>1. CASE Lock(c)
    <3>1. lock = NoCall /\ lock' = c
      BY <2>1 DEF Lock
    <3>2. NoCall \notin Calls
      BY PmAssumption DEF PmAssumption
    <3> QED BY <1>3, <3>1, <3>2, LockKept DEF Inv
  <2>2. CASE Unlock(c)
    <3>1. lock' = NoCall /\ Op(c) = "unlock"
      BY <2>2, Heads DEF Unlock, Inv
    <3>2. Holds(c)
      <4>1. 1 \in 1..Len(todo[c]) /\ todo[c][1][1] = "unlock"
        BY <1>2, <3>1 DEF Inv, TodoInv
      <4> QED BY <4>1 DEF Holds
    <3>3. lock = c
      BY <3>2 DEF Inv, LockInv
    <3> QED BY <1>3, <3>1, <3>3, LockKept DEF Inv
  <2> QED BY <2>1, <2>2
<1>6. ~ Closing(c)
  BY <1>2 DEF Closing, Inside
<1> QED BY <1>2, <1>3, <1>4, <1>5, <1>6, Quiet

-----------------------------------------------------------------------------
(* The rows *)

Db == [tickets : Seq(Ticket), sprints : Seq(Sprint)]

LEMMA StatusSet ==
  ASSUME NEW db \in Db, NEW t \in DOMAIN db.tickets, NEW s \in DOMAIN TicketTransitions, NEW db2,
         db2 = [db EXCEPT !.tickets[t].status = s]
  PROVE  /\ db2 \in Db /\ db2.sprints = db.sprints /\ Len(db2.tickets) = Len(db.tickets)
         /\ DOMAIN db2.tickets = DOMAIN db.tickets
         /\ \A u \in DOMAIN db.tickets : /\ db2.tickets[u].number = db.tickets[u].number
                                         /\ u # t => db2.tickets[u].status = db.tickets[u].status
         /\ db2.tickets[t].status = s
<1> DEFINE row == [db.tickets[t] EXCEPT !.status = s]
           rows == [db.tickets EXCEPT ![t] = row]
<1>1. db.tickets \in Seq(Ticket) /\ db.tickets[t] \in Ticket /\ t \in 1..Len(db.tickets)
  BY DEF Db
<1>2. row \in Ticket /\ row.number = db.tickets[t].number /\ row.status = s
  BY <1>1 DEF Ticket
<1> HIDE DEF row
<1>3. /\ rows \in Seq(Ticket) /\ Len(rows) = Len(db.tickets) /\ DOMAIN rows = DOMAIN db.tickets
      /\ rows[t] = row /\ \A u \in DOMAIN db.tickets : u # t => rows[u] = db.tickets[u]
  BY <1>1, <1>2
<1>4. db2 = [db EXCEPT !.tickets = rows]
  BY DEF rows, row
<1> HIDE DEF rows
<1>5. db2.tickets = rows /\ db2.sprints = db.sprints /\ db2 \in Db
  BY <1>3, <1>4 DEF Db
<1> QED BY <1>2, <1>3, <1>5

LEMMA SprintOfSet ==
  ASSUME NEW db \in Db, NEW t \in DOMAIN db.tickets, NEW k \in Nat, NEW db2,
         db2 = [db EXCEPT !.tickets[t].sprint = k]
  PROVE  /\ db2 \in Db /\ db2.sprints = db.sprints /\ Len(db2.tickets) = Len(db.tickets)
         /\ DOMAIN db2.tickets = DOMAIN db.tickets
         /\ \A u \in DOMAIN db.tickets : /\ db2.tickets[u].number = db.tickets[u].number
                                         /\ db2.tickets[u].status = db.tickets[u].status
<1> DEFINE row == [db.tickets[t] EXCEPT !.sprint = k]
           rows == [db.tickets EXCEPT ![t] = row]
<1>1. db.tickets \in Seq(Ticket) /\ db.tickets[t] \in Ticket /\ t \in 1..Len(db.tickets)
  BY DEF Db
<1>2. row \in Ticket /\ row.number = db.tickets[t].number /\ row.status = db.tickets[t].status
  BY <1>1 DEF Ticket
<1> HIDE DEF row
<1>3. /\ rows \in Seq(Ticket) /\ Len(rows) = Len(db.tickets) /\ DOMAIN rows = DOMAIN db.tickets
      /\ rows[t] = row /\ \A u \in DOMAIN db.tickets : u # t => rows[u] = db.tickets[u]
  BY <1>1, <1>2
<1>4. db2 = [db EXCEPT !.tickets = rows]
  BY DEF rows, row
<1> HIDE DEF rows
<1>5. db2.tickets = rows /\ db2.sprints = db.sprints /\ db2 \in Db
  BY <1>3, <1>4 DEF Db
<1> QED BY <1>2, <1>3, <1>5

LEMMA SprintStatusSet ==
  ASSUME NEW db \in Db, NEW k \in DOMAIN db.sprints, NEW s \in DOMAIN SprintTransitions, NEW db2,
         db2 = [db EXCEPT !.sprints[k].status = s]
  PROVE  /\ db2 \in Db /\ db2.tickets = db.tickets /\ Len(db2.sprints) = Len(db.sprints)
         /\ DOMAIN db2.sprints = DOMAIN db.sprints
         /\ \A j \in DOMAIN db.sprints : /\ db2.sprints[j].rolling = db.sprints[j].rolling
                                         /\ j # k => db2.sprints[j] = db.sprints[j]
<1> DEFINE row == [db.sprints[k] EXCEPT !.status = s]
           rows == [db.sprints EXCEPT ![k] = row]
<1>1. db.sprints \in Seq(Sprint) /\ db.sprints[k] \in Sprint /\ k \in 1..Len(db.sprints)
  BY DEF Db
<1>2. row \in Sprint /\ row.rolling = db.sprints[k].rolling
  BY <1>1 DEF Sprint
<1> HIDE DEF row
<1>3. /\ rows \in Seq(Sprint) /\ Len(rows) = Len(db.sprints) /\ DOMAIN rows = DOMAIN db.sprints
      /\ rows[k] = row /\ \A u \in DOMAIN db.sprints : u # k => rows[u] = db.sprints[u]
  BY <1>1, <1>2
<1>4. db2 = [db EXCEPT !.sprints = rows]
  BY DEF rows, row
<1> HIDE DEF rows
<1>5. db2.sprints = rows /\ db2.tickets = db.tickets /\ db2 \in Db
  BY <1>3, <1>4 DEF Db
<1> QED BY <1>2, <1>3, <1>5

LEMMA TicketAdded ==
  ASSUME NEW db \in Db, NEW row \in Ticket, NEW db2,
         db2 = [db EXCEPT !.tickets = Append(db.tickets, row)]
  PROVE  /\ db2 \in Db /\ db2.sprints = db.sprints /\ Len(db2.tickets) = Len(db.tickets) + 1
         /\ db2.tickets[Len(db.tickets) + 1] = row
         /\ \A u \in DOMAIN db.tickets : db2.tickets[u] = db.tickets[u]
<1>1. db.tickets \in Seq(Ticket)
  BY DEF Db
<1>2. db2.tickets = Append(db.tickets, row) /\ db2.sprints = db.sprints
  BY DEF Db
<1>3. db2 \in Db
  <2> DEFINE rows == Append(db.tickets, row)
  <2>1. rows \in Seq(Ticket) /\ db2 = [db EXCEPT !.tickets = rows]
    BY <1>1
  <2> HIDE DEF rows
  <2> QED BY <2>1 DEF Db
<1>4. ASSUME NEW s \in Seq(Ticket), NEW r \in Ticket
      PROVE  /\ Len(Append(s, r)) = Len(s) + 1 /\ Append(s, r)[Len(s) + 1] = r
             /\ \A u \in DOMAIN s : Append(s, r)[u] = s[u]
  OBVIOUS
<1> QED BY <1>1, <1>2, <1>3, <1>4

LEMMA SprintAdded ==
  ASSUME NEW db \in Db, NEW row \in Sprint, NEW db2,
         db2 = [db EXCEPT !.sprints = Append(db.sprints, row)]
  PROVE  /\ db2 \in Db /\ db2.tickets = db.tickets /\ Len(db2.sprints) = Len(db.sprints) + 1
         /\ db2.sprints[Len(db.sprints) + 1] = row
         /\ \A u \in DOMAIN db.sprints : db2.sprints[u] = db.sprints[u]
<1>1. db.sprints \in Seq(Sprint)
  BY DEF Db
<1>2. db2.sprints = Append(db.sprints, row) /\ db2.tickets = db.tickets
  BY DEF Db
<1>3. db2 \in Db
  BY <1>1 DEF Db
<1>4. ASSUME NEW s \in Seq(Sprint), NEW r \in Sprint
      PROVE  /\ Len(Append(s, r)) = Len(s) + 1 /\ Append(s, r)[Len(s) + 1] = r
             /\ \A u \in DOMAIN s : Append(s, r)[u] = s[u]
  OBVIOUS
<1> QED BY <1>1, <1>2, <1>3, <1>4

LEMMA Domains ==
  ASSUME TypeOK, NumInv
  PROVE  /\ view \in Db /\ disk \in Db
         /\ DOMAIN view.tickets = 1..Len(view.tickets) /\ DOMAIN disk.tickets = 1..Len(disk.tickets)
         /\ DOMAIN view.sprints = 1..Len(view.sprints) /\ DOMAIN disk.sprints = 1..Len(disk.sprints)
         /\ Len(view.tickets) \in Nat /\ Len(disk.tickets) \in Nat
         /\ Len(view.sprints) \in Nat /\ Len(disk.sprints) \in Nat
         /\ DOMAIN disk.tickets \subseteq DOMAIN view.tickets
         /\ DOMAIN disk.sprints \subseteq DOMAIN view.sprints
<1>1. view \in Db /\ disk \in Db
  BY DEF TypeOK, Db
<1>2. /\ view.tickets \in Seq(Ticket) /\ disk.tickets \in Seq(Ticket)
      /\ view.sprints \in Seq(Sprint) /\ disk.sprints \in Seq(Sprint)
  BY <1>1 DEF Db
<1>3. Len(disk.tickets) <= Len(view.tickets) /\ Len(disk.sprints) <= Len(view.sprints)
  BY DEF NumInv
<1> QED BY <1>1, <1>2, <1>3

-----------------------------------------------------------------------------
(* The steps of a transition *)

\* While one call is inside its transaction, no other is.
LEMMA Alone ==
  ASSUME HoldInv, NEW c \in Calls, Op(c) \in Inside \cup {"rollback"}, Others(c),
         NEW d \in Calls \ {c}
  PROVE  HoldOf(d)'
<1>1. owner = c
  BY DEF HoldInv, HoldOf
<1>2. Op(d) \notin Inside \cup {"rollback"}
  BY <1>1 DEF HoldInv, HoldOf
<1> QED BY <1>2, OthersKept DEF HoldOf

LEMMA BeginStep ==
  ASSUME Inv, NEW c \in Calls, Begin(c)
  PROVE  Inv'
<1>1. Doing(c, "begin") /\ UNCHANGED <<view, disk, hit, crashes>>
  BY DEF Begin
<1>2. /\ todo[c] # <<>> /\ Op(c) = "begin" /\ res[c] = "none" /\ todo[c][1][1] = "begin"
      /\ ~ Closing(c)
  BY <1>1, Heads DEF Inv, Closing, Inside
<1>3. CASE open
  <2>1. Leave(c, "error") /\ Reads
    BY <1>1, <1>3 DEF Begin, Reads, txn
  <2> QED BY <1>2, <2>1, LeaveStep
<1>4. CASE ~ open
  <2>1. Advance(c) /\ open' = TRUE /\ owner' = c /\ lock' = lock
    BY <1>4 DEF Begin
  <2>2. /\ TodoInv' /\ Others(c) /\ (Holds(c)' => Holds(c))
        /\ Op(c)' \in {"can_move", "can_transition", "set_sprint_of"}
    <3>1. "begin" \in Bound
      BY DEF Bound
    <3> QED BY <1>2, <2>1, <3>1, Advances DEF Inv, Follows
  <2>3. TypeOK' /\ NumInv' /\ view = disk
    <3>1. TypeOK'
      BY <1>1, <2>1, <2>2 DEF Inv, TypeOK, TodoInv
    <3>2. NumInv' /\ view = disk
      BY <1>1, <1>4, <2>1 DEF Inv, NumInv
    <3> QED BY <3>1, <3>2
  <2>4. LockInv'
    BY <2>1, <2>2, LockKept DEF Inv, LockInv
  <2>5. IdleInv'
    BY <2>2 DEF IdleInv, Closing, Inside
  <2>6. ASSUME ~ hit' PROVE HoldInv' /\ NearInv' /\ RollInv'
    <3>1. ~ hit /\ HoldInv /\ NearInv /\ RollInv
      BY <1>1, <2>6 DEF Inv
    <3>2. HoldOf(c)'
      BY <1>1, <2>1, <2>2, <2>3 DEF HoldOf, SameTickets, SameSprints
    <3>3. ASSUME NEW d \in Calls \ {c} PROVE HoldOf(d)'
      <4>1. Op(d) \notin Inside \cup {"rollback"}
        BY <1>4, <3>1 DEF HoldInv, HoldOf
      <4> QED BY <2>2, <4>1, OthersKept DEF HoldOf
    <3>4. HoldInv'
      BY <3>2, <3>3 DEF HoldInv
    <3>5. NearInv'
      BY <1>1, <3>1 DEF NearInv
    <3>6. \A d \in Calls : Op(d)' = "new_sprint" => Op(d) = "new_sprint"
      BY <2>2, OthersKept
    <3>7. RollInv'
      BY <1>1, <3>1, <3>6 DEF RollInv, Rolling
    <3> QED BY <3>4, <3>5, <3>7
  <2> QED BY <2>2, <2>3, <2>4, <2>5, <2>6 DEF Inv
<1> QED BY <1>3, <1>4

\* A check passed or refused: what it looked at has not changed.
LEMMA CheckStep ==
  ASSUME Inv, NEW c \in Calls, Op(c) \in {"can_move", "can_transition"}, Reads, lock' = lock,
         TodoInv', Others(c), res[c] = "none", Holds(c)' => Holds(c),
         Op(c)' \in {"set_status", "set_sprint", "rollback"},
         ~ hit /\ HoldOf(c) => HoldOf(c)'
  PROVE  Inv'
<1> USE DEF Reads, txn
<1>1. TypeOK' /\ NumInv'
  BY DEF Inv, TypeOK, NumInv, TodoInv
<1>2. LockInv'
  BY LockKept DEF Inv, LockInv
<1>3. IdleInv'
  <2>1. Closing(c)'
    BY DEF Closing, Inside
  <2> QED BY <2>1, IdleKept DEF Inv
<1>4. ASSUME ~ hit' PROVE HoldInv' /\ NearInv' /\ RollInv'
  <2>1. ~ hit /\ HoldInv /\ NearInv /\ RollInv
    BY <1>4 DEF Inv
  <2>2. HoldOf(c)'
    BY <2>1 DEF HoldInv
  <2>3. HoldInv'
    BY <2>1, <2>2, Alone DEF HoldInv, Inside
  <2>4. NearInv'
    BY <2>1 DEF NearInv
  <2>5. \A d \in Calls : Op(d)' = "new_sprint" => Op(d) = "new_sprint"
    BY OthersKept
  <2>6. RollInv'
    BY <2>1, <2>5 DEF RollInv, Rolling
  <2> QED BY <2>3, <2>4, <2>6
<1> QED BY <1>1, <1>2, <1>3, <1>4 DEF Inv

LEMMA CheckSteps ==
  ASSUME Inv, NEW c \in Calls, CanMove(c) \/ CanTransition(c)
  PROVE  Inv'
<1>1. PICK o \in {"can_move", "can_transition"} : Doing(c, o)
  BY DEF CanMove, CanTransition
<1>2. /\ todo[c] # <<>> /\ Op(c) = o /\ res[c] = "none" /\ todo[c][1][1] = o /\ o \in Bound
      /\ Head(todo[c]) = todo[c][1] /\ o \in Inside
  BY <1>1, Heads DEF Inv, Bound, Inside
<1>3. Reads /\ lock' = lock
  BY DEF CanMove, CanTransition
<1>4. CASE Refuse(c)
  <2>1. /\ TodoInv' /\ Others(c) /\ Op(c)' = "rollback" /\ (Holds(c)' => Holds(c))
    BY <1>2, <1>4, Refuses DEF Inv
  <2>2. HoldOf(c) => HoldOf(c)'
    BY <1>2, <1>3, <2>1 DEF HoldOf, Reads, txn, SameSprints, Inside
  <2> QED BY <1>2, <1>3, <2>1, <2>2, CheckStep
<1>5. CASE Advance(c)
  <2>1. /\ TodoInv' /\ Others(c) /\ (Holds(c)' => Holds(c)) /\ todo'[c] # <<>>
        /\ Op(c)' = todo'[c][1][1] /\ Head(todo'[c]) = todo'[c][1]
        /\ Follows(todo[c][1], todo'[c][1])
    BY <1>2, <1>5, Advances DEF Inv
  <2>2. CASE CanMove(c)
    <3>1. o = "can_move"
      BY <1>2, <2>2, Heads DEF CanMove, Inv
    <3>2. todo'[c][1] = <<"set_status", todo[c][1][2], todo[c][1][3]>>
      BY <1>2, <2>1, <3>1 DEF Follows
    <3>3. Op(c)' = "set_status" /\ Arg(c, 2)' = Arg(c, 2) /\ Arg(c, 3)' = Arg(c, 3)
      BY <1>2, <2>1, <3>2 DEF Arg
    <3>4. ~ Refuse(c) => /\ Arg(c, 2) \in DOMAIN view.tickets
                         /\ Arg(c, 3) \in TicketTransitions[view.tickets[Arg(c, 2)].status]
      BY <2>2 DEF CanMove
    <3>5. ~ Refuse(c) => (HoldOf(c) => HoldOf(c)')
      BY <1>2, <1>3, <3>1, <3>3, <3>4 DEF HoldOf, Reads, txn, SameSprints, SameTickets, Inside
    <3> QED BY <1>2, <1>3, <1>4, <2>1, <3>3, <3>5, CheckStep
  <2>3. CASE CanTransition(c)
    <3>1. o = "can_transition"
      BY <1>2, <2>3, Heads DEF CanTransition, Inv
    <3>2. todo'[c][1] = <<"set_sprint", todo[c][1][2], todo[c][1][3]>>
      BY <1>2, <2>1, <3>1 DEF Follows
    <3>3. Op(c)' = "set_sprint" /\ Arg(c, 2)' = Arg(c, 2) /\ Arg(c, 3)' = Arg(c, 3)
      BY <1>2, <2>1, <3>2 DEF Arg
    <3>4. ~ Refuse(c) => /\ Arg(c, 2) \in DOMAIN view.sprints
                         /\ Arg(c, 3) \in SprintTransitions[view.sprints[Arg(c, 2)].status]
      BY <2>3 DEF CanTransition
    <3>5. ~ Refuse(c) => (HoldOf(c) => HoldOf(c)')
      BY <1>2, <1>3, <3>1, <3>3, <3>4 DEF HoldOf, Reads, txn, SameSprints, Inside
    <3> QED BY <1>2, <1>3, <1>4, <2>1, <3>3, <3>5, CheckStep
  <2> QED BY <2>2, <2>3
<1> QED BY <1>4, <1>5 DEF CanMove, CanTransition

\* A write of the call that is inside its transaction.
LEMMA OwnWrite ==
  ASSUME Inv, NEW c \in Calls, Op(c) \in {"set_status", "set_sprint", "set_sprint_of", "log"},
         TodoInv', Others(c), res[c] = "none", res'[c] \in {"none", "ok"}, Holds(c)' => Holds(c),
         lock' = lock, open' = TRUE, UNCHANGED <<disk, owner, hit, crashes>>,
         Op(c)' \in {"log", "commit", "rollback"},
         view' \in Db, Len(view'.tickets) = Len(view.tickets),
         Len(view'.sprints) = Len(view.sprints),
         \A t \in DOMAIN view.tickets : view'.tickets[t].number = view.tickets[t].number,
         DOMAIN view'.tickets = DOMAIN view.tickets,
         Op(c)' # "commit" => view'.sprints = view.sprints,
         ~ hit /\ HoldInv /\ NearInv => NearInv',
         ~ hit /\ HoldInv => Rolling(view') \subseteq Rolling(view)
  PROVE  Inv'
<1>1. TypeOK'
  BY DEF Inv, TypeOK, TodoInv, Db
<1>2. NumInv'
  BY DEF Inv, NumInv
<1>3. LockInv'
  BY LockKept DEF Inv, LockInv
<1>4. IdleInv'
  BY DEF IdleInv, Closing, Inside
<1>5. ASSUME ~ hit' PROVE HoldInv' /\ NearInv' /\ RollInv'
  <2>1. ~ hit /\ HoldInv /\ NearInv /\ RollInv
    BY <1>5 DEF Inv
  <2>2. Op(c) \in Inside \cup {"rollback"} /\ Op(c) # "commit"
    BY DEF Inside
  <2>3. HoldOf(c)'
    <3>1. owner = c /\ SameSprints
      BY <2>1, <2>2 DEF HoldInv, HoldOf
    <3>2. Op(c)' # "commit" => SameSprints'
      BY <3>1 DEF SameSprints
    <3> QED BY <3>1, <3>2 DEF HoldOf
  <2>4. HoldInv'
    BY <2>1, <2>2, <2>3, Alone DEF HoldInv
  <2>5. \A d \in Calls : Op(d)' = "new_sprint" => Op(d) = "new_sprint"
    BY OthersKept
  <2>6. Rolling(view') \subseteq Rolling(view) /\ Rolling(disk') = Rolling(disk)
    BY <2>1
  <2>7. RollInv'
    BY <2>1, <2>5, <2>6 DEF RollInv
  <2> QED BY <2>1, <2>4, <2>7
<1> QED BY <1>1, <1>2, <1>3, <1>4, <1>5 DEF Inv

LEMMA OwnNext ==
  ASSUME Inv, NEW c \in Calls, NEW o \in {"set_status", "set_sprint", "set_sprint_of", "log"},
         Doing(c, o), Advance(c)
  PROVE  /\ TodoInv' /\ Others(c) /\ res[c] = "none" /\ res'[c] \in {"none", "ok"}
         /\ (Holds(c)' => Holds(c)) /\ Op(c) = o
         /\ Op(c)' = IF o = "set_status" THEN "log" ELSE "commit"
<1>1. todo[c] # <<>> /\ Op(c) = o /\ todo[c][1][1] = o /\ o \in Bound
  BY Heads DEF Inv, Bound
<1> QED BY <1>1, Advances DEF Inv, Follows

LEMMA SetStatusStep ==
  ASSUME Inv, NEW c \in Calls, SetStatus(c)
  PROVE  Inv'
<1> DEFINE t == Arg(c, 2)
           s == Arg(c, 3)
<1>1. /\ Doing(c, "set_status") /\ Advance(c) /\ lock' = lock /\ open' = TRUE
      /\ UNCHANGED <<disk, owner, hit, crashes>>
      /\ view' = IF t \in DOMAIN view.tickets
                 THEN [view EXCEPT !.tickets[t].status = s] ELSE view
  BY DEF SetStatus, Write
<1>2. t \in Nat /\ s \in DOMAIN TicketTransitions
  BY <1>1, Heads DEF Inv, Arg, Typed, Doing
<1>3. view \in Db /\ disk \in Db /\ DOMAIN disk.tickets \subseteq DOMAIN view.tickets
  BY Domains DEF Inv
<1> HIDE DEF t, s
<1>4. /\ view' \in Db /\ Len(view'.tickets) = Len(view.tickets)
      /\ view'.sprints = view.sprints /\ DOMAIN view'.tickets = DOMAIN view.tickets
      /\ \A u \in DOMAIN view.tickets :
           /\ view'.tickets[u].number = view.tickets[u].number
           /\ u # t => view'.tickets[u].status = view.tickets[u].status
      /\ t \in DOMAIN view.tickets => view'.tickets[t].status = s
  <2>1. CASE t \in DOMAIN view.tickets
    BY <1>1, <1>2, <1>3, <2>1, StatusSet
  <2>2. CASE t \notin DOMAIN view.tickets
    BY <1>1, <1>3, <2>2
  <2> QED BY <2>1, <2>2
<1>5. /\ TodoInv' /\ Others(c) /\ res[c] = "none" /\ res'[c] \in {"none", "ok"}
      /\ (Holds(c)' => Holds(c)) /\ Op(c) = "set_status" /\ Op(c)' = "log"
  BY <1>1, OwnNext
<1>6. ASSUME ~ hit, HoldInv PROVE NearInv'
  <2>1. SameTickets /\ s \in TicketTransitions[view.tickets[t].status]
    BY <1>5, <1>6 DEF HoldInv, HoldOf, Inside, s, t
  <2> QED BY <1>1, <1>3, <1>4, <2>1 DEF NearInv, SameTickets
<1>7. Rolling(view') \subseteq Rolling(view)
  BY <1>4 DEF Rolling
<1> QED BY <1>1, <1>4, <1>5, <1>6, <1>7, OwnWrite

LEMMA SetSprintStep ==
  ASSUME Inv, NEW c \in Calls, SetSprint(c)
  PROVE  Inv'
<1> DEFINE k == Arg(c, 2)
           s == Arg(c, 3)
<1>1. /\ Doing(c, "set_sprint") /\ Advance(c) /\ lock' = lock /\ open' = TRUE
      /\ UNCHANGED <<disk, owner, hit, crashes>>
      /\ view' = IF k \in DOMAIN view.sprints
                 THEN [view EXCEPT !.sprints[k].status = s] ELSE view
  BY DEF SetSprint, Write
<1>2. k \in Nat /\ s \in DOMAIN SprintTransitions
  BY <1>1, Heads DEF Inv, Arg, Typed, Doing
<1>3. view \in Db /\ disk \in Db /\ DOMAIN disk.tickets \subseteq DOMAIN view.tickets
  BY Domains DEF Inv
<1> HIDE DEF k, s
<1>4. /\ view' \in Db /\ view'.tickets = view.tickets
      /\ Len(view'.sprints) = Len(view.sprints) /\ DOMAIN view'.sprints = DOMAIN view.sprints
      /\ \A j \in DOMAIN view.sprints :
           /\ view'.sprints[j].rolling = view.sprints[j].rolling
           /\ j # k => view'.sprints[j] = view.sprints[j]
  <2>1. CASE k \in DOMAIN view.sprints
    BY <1>1, <1>2, <1>3, <2>1, SprintStatusSet
  <2>2. CASE k \notin DOMAIN view.sprints
    BY <1>1, <1>3, <2>2
  <2> QED BY <2>1, <2>2
<1>5. /\ TodoInv' /\ Others(c) /\ res[c] = "none" /\ res'[c] \in {"none", "ok"}
      /\ (Holds(c)' => Holds(c)) /\ Op(c) = "set_sprint" /\ Op(c)' = "commit"
  BY <1>1, OwnNext
<1>6. ASSUME ~ hit, HoldInv PROVE Rolling(view') \subseteq Rolling(view)
  <2>1. s \in SprintTransitions[view.sprints[k].status] /\ k \in DOMAIN view.sprints
    BY <1>5, <1>6 DEF HoldInv, HoldOf, Inside, s, k
  <2>2. view.sprints[k].status \in DOMAIN SprintTransitions
    <3>1. view.sprints \in Seq(Sprint)
      BY <1>3 DEF Db
    <3>2. view.sprints[k] \in Sprint
      BY <2>1, <3>1
    <3> QED BY <3>2 DEF Sprint
  <2>3. view.sprints[k].status \notin Closed
    BY <2>1, <2>2 DEF SprintTransitions, Closed
  <2> QED BY <1>4, <2>1, <2>3 DEF Rolling
<1>7. NearInv => NearInv'
  BY <1>1, <1>4 DEF NearInv
<1> QED BY <1>1, <1>4, <1>5, <1>6, <1>7, OwnWrite

LEMMA SetSprintOfStep ==
  ASSUME Inv, NEW c \in Calls, SetSprintOf(c)
  PROVE  Inv'
<1> DEFINE t == Arg(c, 2)
           k == Arg(c, 3)
<1>1. /\ Doing(c, "set_sprint_of") /\ Advance(c) /\ lock' = lock /\ open' = TRUE
      /\ UNCHANGED <<disk, owner, hit, crashes>>
      /\ view' = IF t \in DOMAIN view.tickets
                 THEN [view EXCEPT !.tickets[t].sprint = k] ELSE view
  BY DEF SetSprintOf, Write
<1>2. t \in Nat /\ k \in Nat
  BY <1>1, Heads DEF Inv, Arg, Typed, Doing
<1>3. view \in Db /\ disk \in Db /\ DOMAIN disk.tickets \subseteq DOMAIN view.tickets
  BY Domains DEF Inv
<1> HIDE DEF t, k
<1>4. /\ view' \in Db /\ Len(view'.tickets) = Len(view.tickets)
      /\ view'.sprints = view.sprints /\ DOMAIN view'.tickets = DOMAIN view.tickets
      /\ \A u \in DOMAIN view.tickets :
           /\ view'.tickets[u].number = view.tickets[u].number
           /\ view'.tickets[u].status = view.tickets[u].status
  <2>1. CASE t \in DOMAIN view.tickets
    BY <1>1, <1>2, <1>3, <2>1, SprintOfSet
  <2>2. CASE t \notin DOMAIN view.tickets
    BY <1>1, <1>3, <2>2
  <2> QED BY <2>1, <2>2
<1>5. /\ TodoInv' /\ Others(c) /\ res[c] = "none" /\ res'[c] \in {"none", "ok"}
      /\ (Holds(c)' => Holds(c)) /\ Op(c) = "set_sprint_of" /\ Op(c)' = "commit"
  BY <1>1, OwnNext
<1>6. NearInv => NearInv'
  BY <1>1, <1>3, <1>4 DEF NearInv
<1>7. Rolling(view') \subseteq Rolling(view)
  BY <1>4 DEF Rolling
<1> QED BY <1>1, <1>4, <1>5, <1>6, <1>7, OwnWrite

\* The way out of a call after an exception that is not a refusal.
LEMMA RaisesNext ==
  ASSUME TodoInv, NEW c \in Calls, todo[c] # <<>>,
         Continue(c, << <<"rollback">>, <<"raise">> >>)
  PROVE  /\ TodoInv' /\ Others(c) /\ res[c] = "none" /\ res'[c] \in {"none", "ok"}
         /\ Op(c)' = "rollback" /\ ~ Holds(c)'
<1> DEFINE rest == << <<"rollback">>, <<"raise">> >>
<1>1. Wf(rest)
  BY PairLists
<1>2. /\ TodoInv' /\ Others(c) /\ todo'[c] = rest /\ res[c] = "none" /\ res'[c] \in {"none", "ok"}
  BY <1>1, Continues
<1>3. Op(c)' = "rollback"
  BY <1>2 DEF Op
<1>4. NoUnlock(rest)
  BY DEF NoUnlock
<1> HIDE DEF rest
<1> QED BY <1>2, <1>3, <1>4 DEF Holds, NoUnlock

LEMMA LogStep ==
  ASSUME Inv, NEW c \in Calls, Log(c)
  PROVE  Inv'
<1>1. /\ Doing(c, "log") /\ lock' = lock /\ open' = TRUE /\ view' = view
      /\ UNCHANGED <<disk, owner, hit, crashes>>
  BY DEF Log, Write
<1>2. view \in Db
  BY Domains DEF Inv
<1>3. todo[c] # <<>> /\ Op(c) = "log"
  BY <1>1, Heads DEF Inv
<1>4. /\ TodoInv' /\ Others(c) /\ res[c] = "none" /\ res'[c] \in {"none", "ok"}
      /\ (Holds(c)' => Holds(c)) /\ Op(c)' \in {"commit", "rollback"}
  <2>1. CASE Advance(c)
    BY <1>1, <2>1, OwnNext
  <2>2. CASE Continue(c, << <<"rollback">>, <<"raise">> >>)
    BY <1>3, <2>2, RaisesNext DEF Inv
  <2> QED BY <2>1, <2>2 DEF Log
<1>5. NearInv => NearInv'
  BY <1>1 DEF NearInv
<1> QED BY <1>1, <1>2, <1>3, <1>4, <1>5, OwnWrite

-----------------------------------------------------------------------------
(* Writes of a call that began no transaction *)

\* Rows may be added under the feet of a call inside its transaction, no row is changed.
LEMMA GuestWrite ==
  ASSUME Inv, NEW c \in Calls, Op(c) \notin Inside \cup {"rollback"},
         TodoInv', Others(c), res[c] = "none", LockInv', lock' \in Calls \cup {NoCall},
         open' = TRUE, UNCHANGED <<disk, owner, hit, crashes>>,
         Op(c)' \in {"save", "none"}, Op(c)' = "none" => res'[c] = "stuck",
         view' \in Db, Len(view'.tickets) >= Len(view.tickets),
         Len(view'.sprints) >= Len(view.sprints),
         \A t \in DOMAIN view.tickets : view'.tickets[t] = view.tickets[t],
         \A k \in DOMAIN view.sprints : view'.sprints[k] = view.sprints[k],
         \A t \in DOMAIN view'.tickets : view'.tickets[t].number = t,
         RollInv => RollInv'
  PROVE  Inv'
<1>1. /\ view \in Db /\ disk \in Db
      /\ DOMAIN view.tickets = 1..Len(view.tickets) /\ DOMAIN disk.tickets \subseteq DOMAIN view.tickets
      /\ DOMAIN view.sprints = 1..Len(view.sprints) /\ DOMAIN disk.sprints \subseteq DOMAIN view.sprints
      /\ Len(view.tickets) \in Nat /\ Len(disk.tickets) \in Nat
      /\ Len(view.sprints) \in Nat /\ Len(disk.sprints) \in Nat
  BY Domains DEF Inv
<1>2. /\ Len(view'.tickets) \in Nat /\ Len(view'.sprints) \in Nat
      /\ DOMAIN view'.tickets = 1..Len(view'.tickets) /\ DOMAIN view'.sprints = 1..Len(view'.sprints)
  BY DEF Db
<1>3. DOMAIN view.tickets \subseteq DOMAIN view'.tickets /\ DOMAIN view.sprints \subseteq DOMAIN view'.sprints
  BY <1>1, <1>2
<1>4. TypeOK'
  BY DEF Inv, TypeOK, TodoInv, Db
<1>5. NumInv'
  BY <1>1, <1>2 DEF Inv, NumInv
<1>6. IdleInv'
  BY DEF IdleInv, Closing
<1>7. ASSUME ~ hit' PROVE HoldInv' /\ NearInv' /\ RollInv'
  <2>1. ~ hit /\ HoldInv /\ NearInv /\ RollInv
    BY <1>7 DEF Inv
  <2>2. NearInv'
    BY <1>1, <2>1 DEF NearInv
  <2>3. (SameTickets => SameTickets') /\ (SameSprints => SameSprints')
    BY <1>1 DEF SameTickets, SameSprints
  <2>4. ASSUME NEW d \in Calls PROVE HoldOf(d)'
    <3>1. CASE d = c
      BY <3>1 DEF HoldOf, Inside
    <3>2. CASE d # c
      <4>1. Op(d)' = Op(d) /\ todo'[d] = todo[d]
        BY <3>2, OthersKept
      <4>2. HoldOf(d)
        BY <2>1 DEF HoldInv
      <4>3. Arg(d, 2)' = Arg(d, 2) /\ Arg(d, 3)' = Arg(d, 3)
        BY <4>1 DEF Arg
      <4> QED BY <1>3, <2>3, <4>1, <4>2, <4>3 DEF HoldOf
    <3> QED BY <3>1, <3>2
  <2> QED BY <2>1, <2>2, <2>4 DEF HoldInv
<1> QED BY <1>4, <1>5, <1>6, <1>7 DEF Inv

LEMMA TouchStep ==
  ASSUME Inv, NEW c \in Calls, Touch(c)
  PROVE  Inv'
<1>1. /\ Doing(c, "touch") /\ Advance(c) /\ lock' = lock /\ open' = TRUE /\ view' = view
      /\ UNCHANGED <<disk, owner, hit, crashes>>
  BY DEF Touch, Write
<1>2. todo[c] # <<>> /\ Op(c) = "touch" /\ todo[c][1][1] = "touch" /\ "touch" \in Bound
  BY <1>1, Heads DEF Inv, Bound
<1>3. TodoInv' /\ Others(c) /\ res[c] = "none" /\ (Holds(c)' => Holds(c)) /\ Op(c)' = "save"
  BY <1>1, <1>2, Advances DEF Inv, Follows
<1>4. LockInv'
  BY <1>1, <1>3, LockKept DEF Inv, LockInv
<1>5. view \in Db /\ Len(view.tickets) \in Nat /\ Len(view.sprints) \in Nat
  BY Domains DEF Inv
<1>6. RollInv => RollInv'
  <2>1. \A d \in Calls : Op(d)' = "new_sprint" => Op(d) = "new_sprint"
    BY <1>3, OthersKept
  <2> QED BY <1>1, <2>1 DEF RollInv, Rolling
<1>7. lock' \in Calls \cup {NoCall} /\ \A t \in DOMAIN view.tickets : view.tickets[t].number = t
  BY <1>1 DEF Inv, TypeOK, NumInv
<1>8. /\ Len(view'.tickets) >= Len(view.tickets) /\ Len(view'.sprints) >= Len(view.sprints)
      /\ \A t \in DOMAIN view.tickets : view'.tickets[t] = view.tickets[t]
      /\ \A k \in DOMAIN view.sprints : view'.sprints[k] = view.sprints[k]
  BY <1>1, <1>5
<1>9. view' \in Db /\ \A t \in DOMAIN view'.tickets : view'.tickets[t].number = t
  BY <1>1, <1>5, <1>7
<1>10. Op(c) \notin Inside \cup {"rollback"}
  BY <1>2 DEF Inside
<1>11. \E x \in {"save", "none"} : Op(c)' = x
  BY <1>3
<1> QED BY <1>1, <1>3, <1>4, <1>6, <1>7, <1>8, <1>9, <1>10, <1>11, GuestWrite

\* The number the subquery computes is the next one.
LEMMA NextNumber ==
  ASSUME Inv
  PROVE  1 + Max({0} \cup {view.tickets[t].number : t \in DOMAIN view.tickets})
           = Len(view.tickets) + 1
<1> DEFINE n == Len(view.tickets)
           S == {0} \cup {view.tickets[t].number : t \in DOMAIN view.tickets}
<1>1. n \in Nat /\ DOMAIN view.tickets = 1..n
  BY Domains DEF Inv
<1>2. \A t \in 1..n : view.tickets[t].number = t
  BY <1>1 DEF Inv, NumInv
<1> HIDE DEF n
<1>3. \A x : x \in S <=> x \in 0..n
  BY <1>1, <1>2
<1> HIDE DEF S
<1>4. n \in S /\ \A y \in S : n >= y
  BY <1>1, <1>3
<1>5. \A x \in S : (\A y \in S : x >= y) => x = n
  BY <1>1, <1>3, <1>4
<1>6. Max(S) = n
  BY <1>4, <1>5 DEF Max
<1> QED BY <1>1, <1>6 DEF S, n

LEMMA InsertStep ==
  ASSUME Inv, NEW c \in Calls, Insert(c)
  PROVE  Inv'
<1> DEFINE k == Arg(c, 2)
           n == Len(view.tickets) + 1
           row == [sprint |-> k, status |-> "backlog", number |-> n]
<1>1. Doing(c, "insert")
  BY DEF Insert
<1>2. todo[c] # <<>> /\ Op(c) = "insert" /\ res[c] = "none" /\ k \in Nat
  BY <1>1, Heads DEF Inv, Arg, Typed, Doing
<1>3. /\ view \in Db /\ DOMAIN view.tickets = 1..Len(view.tickets) /\ Len(view.tickets) \in Nat
      /\ Len(view.sprints) \in Nat
  BY Domains DEF Inv
<1>4. Op(c) \notin Inside \cup {"rollback"}
  BY <1>2 DEF Inside
<1>5. \A t \in DOMAIN view.tickets : view.tickets[t].number = t
  BY DEF Inv, NumInv
<1>6. CASE k \in DOMAIN view.sprints /\ Arg(c, 3) \in DOMAIN view.tickets \cup {0}
  <2>1. /\ view' = [view EXCEPT !.tickets = Append(view.tickets, row)] /\ open' = TRUE
        /\ UNCHANGED <<disk, owner, hit, crashes>> /\ lock' = lock
        /\ Continue(c, << <<"save">>, <<"read_back", n>> >>)
    BY <1>6, NextNumber DEF Insert, Write
  <2>2. n \in Nat /\ row \in Ticket /\ row.number = n
    BY <1>2, <1>3 DEF Ticket, TicketTransitions
  <2> DEFINE rest == << <<"save">>, <<"read_back", n>> >>
  <2>3. Wf(rest) /\ rest # <<>> /\ Head(rest)[1] = "save" /\ NoUnlock(rest)
    BY <2>2, PairLists DEF NoUnlock
  <2> HIDE DEF rest
  <2>4. TodoInv' /\ Others(c) /\ todo'[c] = rest
    BY <1>2, <2>1, <2>3, Continues DEF Inv, rest
  <2>5. Op(c)' = "save" /\ ~ Holds(c)'
    <3>1. Op(c)' = "save"
      BY <2>3, <2>4 DEF Op
    <3> QED BY <2>3, <2>4, <3>1 DEF Holds, NoUnlock
  <2>6. LockInv' /\ lock' \in Calls \cup {NoCall}
    BY <2>1, <2>4, <2>5, LockKept DEF Inv, TypeOK
  <2> HIDE DEF row, n, k
  <2>7. /\ view' \in Db /\ view'.sprints = view.sprints /\ Len(view'.tickets) = Len(view.tickets) + 1
        /\ view'.tickets[Len(view.tickets) + 1] = row
        /\ \A u \in DOMAIN view.tickets : view'.tickets[u] = view.tickets[u]
    BY <1>3, <2>1, <2>2, TicketAdded
  <2>8. \A t \in DOMAIN view'.tickets : view'.tickets[t].number = t
    <3>1. DOMAIN view'.tickets = 1..(Len(view.tickets) + 1)
      BY <2>7 DEF Db
    <3> QED BY <1>3, <1>5, <2>2, <2>7, <3>1 DEF n
  <2>9. RollInv => RollInv'
    <3>1. \A d \in Calls : Op(d)' = "new_sprint" => Op(d) = "new_sprint"
      BY <2>4, <2>5, OthersKept
    <3>2. Rolling(view') = Rolling(view) /\ Rolling(disk') = Rolling(disk)
      BY <2>1, <2>7 DEF Rolling
    <3> QED BY <3>1, <3>2 DEF RollInv
  <2>10. Len(view'.tickets) >= Len(view.tickets) /\ Len(view'.sprints) >= Len(view.sprints)
    BY <1>3, <2>7
  <2>11. Op(c)' \in {"save", "none"} /\ (Op(c)' = "none" => res'[c] = "stuck")
    BY <2>5
  <2> QED BY <1>2, <1>4, <2>1, <2>4, <2>6, <2>7, <2>8, <2>9, <2>10, <2>11, GuestWrite
<1>7. CASE ~ (k \in DOMAIN view.sprints /\ Arg(c, 3) \in DOMAIN view.tickets \cup {0})
  <2>1. Leave(c, "stuck") /\ open' = TRUE /\ UNCHANGED <<view, disk, owner, hit, crashes>>
    BY <1>7 DEF Insert
  <2>2. lock \in Calls \cup {NoCall}
    BY DEF Inv, TypeOK
  <2>3. /\ TodoInv' /\ LockInv' /\ lock' \in Calls \cup {NoCall} /\ Others(c)
        /\ Op(c)' = "none" /\ res'[c] = "stuck"
    BY <1>2, <2>1, <2>2, Leaves DEF Inv
  <2>4. RollInv => RollInv'
    <3>1. \A d \in Calls : Op(d)' = "new_sprint" => Op(d) = "new_sprint"
      BY <2>3, OthersKept
    <3> QED BY <2>1, <3>1 DEF RollInv, Rolling
  <2>5. Len(view'.tickets) >= Len(view.tickets) /\ Len(view'.sprints) >= Len(view.sprints)
    BY <1>3, <2>1
  <2>6. Op(c)' \in {"save", "none"}
    BY <2>3
  <2> QED BY <1>2, <1>3, <1>4, <1>5, <2>1, <2>3, <2>4, <2>5, <2>6, GuestWrite
<1> QED BY <1>6, <1>7

LEMMA NewSprintStep ==
  ASSUME Inv, NEW c \in Calls, NewSprint(c)
  PROVE  Inv'
<1> DEFINE n == Len(view.sprints) + 1
           row == [rolling |-> TRUE, status |-> "draft"]
           rest == NewRolling(n)
<1>1. /\ Doing(c, "new_sprint") /\ open' = TRUE /\ UNCHANGED <<disk, owner, hit, crashes>>
      /\ view' = [view EXCEPT !.sprints = Append(view.sprints, row)] /\ lock' = lock
      /\ Continue(c, rest)
  BY DEF NewSprint, Write
<1>2. todo[c] # <<>> /\ Op(c) = "new_sprint" /\ res[c] = "none"
  BY <1>1, Heads DEF Inv
<1>3. lock = c
  BY <1>2 DEF Inv, LockInv, Holds
<1>4. /\ view \in Db /\ DOMAIN view.sprints = 1..Len(view.sprints) /\ Len(view.sprints) \in Nat
      /\ Len(view.tickets) \in Nat
  BY Domains DEF Inv
<1>5. Wf(rest) /\ rest # <<>> /\ rest[1][1] = "save"
  BY <1>4, NewRollingList
<1> HIDE DEF rest
<1>6. TodoInv' /\ Others(c) /\ todo'[c] = rest
  BY <1>1, <1>2, <1>5, Continues DEF Inv
<1>7. Op(c)' = "save"
  <2>1. Head(rest) = rest[1]
    BY <1>5 DEF Wf
  <2> QED BY <1>5, <1>6, <2>1 DEF Op
<1>8. LockInv' /\ lock' \in Calls \cup {NoCall}
  BY <1>1, <1>3, <1>6, LockKept DEF Inv
<1>9. row \in Sprint /\ row.status \notin Closed /\ row.rolling
  BY DEF Sprint, SprintTransitions, Closed
<1> HIDE DEF row
<1>10. /\ view' \in Db /\ view'.tickets = view.tickets /\ Len(view'.sprints) = Len(view.sprints) + 1
       /\ view'.sprints[Len(view.sprints) + 1] = row
       /\ \A u \in DOMAIN view.sprints : view'.sprints[u] = view.sprints[u]
  BY <1>1, <1>4, <1>9, SprintAdded
<1>11. RollInv => RollInv'
  <2>1. SUFFICES ASSUME RollInv PROVE RollInv'
    OBVIOUS
  <2>2. Rolling(view) = {}
    BY <1>2, <2>1 DEF RollInv
  <2>3. DOMAIN view'.sprints = 1..n
    BY <1>10 DEF Db
  <2>4. \A j \in Rolling(view') : j = n
    BY <1>4, <1>10, <2>2, <2>3 DEF Rolling
  <2>5. \A d \in Calls : Op(d)' # "new_sprint"
    <3>1. \A d \in Calls \ {c} : Op(d) # "new_sprint"
      BY <1>3 DEF Inv, LockInv, Holds
    <3> QED BY <1>6, <1>7, <3>1, OthersKept
  <2>6. Rolling(disk') = Rolling(disk)
    BY <1>1
  <2> QED BY <2>1, <2>4, <2>5, <2>6 DEF RollInv
<1>12. \A t \in DOMAIN view'.tickets : view'.tickets[t].number = t
  BY <1>10 DEF Inv, NumInv
<1>13. Len(view'.tickets) >= Len(view.tickets) /\ Len(view'.sprints) >= Len(view.sprints)
  BY <1>4, <1>10
<1>14. Op(c) \notin Inside \cup {"rollback"}
  BY <1>2 DEF Inside
<1>15. Op(c)' \in {"save", "none"} /\ (Op(c)' = "none" => res'[c] = "stuck")
  BY <1>7
<1> QED BY <1>1, <1>2, <1>6, <1>8, <1>10, <1>11, <1>12, <1>13, <1>14, <1>15, GuestWrite

-----------------------------------------------------------------------------
(* The end of a transaction *)

LEMMA Ends ==
  ASSUME Inv, NEW c \in Calls, todo[c] # <<>>, TodoInv', Others(c), res[c] = "none",
         Holds(c)' => Holds(c), lock' = lock, EndTransaction(c), Op(c)' \notin Led,
         \/ disk' = view /\ view' = view
         \/ disk' = disk /\ view' = disk /\ (~ hit /\ HoldInv => SameSprints)
  PROVE  Inv'
<1>1. open' = FALSE /\ owner' = NoCall /\ hit' = (hit \/ Stolen(c)) /\ crashes' = crashes
  BY DEF EndTransaction
<1>2. /\ view \in Db /\ disk \in Db /\ DOMAIN disk.sprints \subseteq DOMAIN view.sprints
      /\ Len(view.tickets) \in Nat /\ Len(disk.tickets) \in Nat
      /\ Len(view.sprints) \in Nat /\ Len(disk.sprints) \in Nat
  BY Domains DEF Inv
<1>3. view' = disk' /\ view' \in {view, disk}
  OBVIOUS
<1>4. TypeOK'
  BY <1>1, <1>3 DEF Inv, TypeOK, TodoInv
<1>5. NumInv'
  BY <1>2, <1>3 DEF Inv, NumInv
<1>6. LockInv'
  BY LockKept DEF Inv, LockInv
<1>7. IdleInv'
  BY <1>1 DEF IdleInv
<1>8. ASSUME ~ hit' PROVE HoldInv' /\ NearInv' /\ RollInv'
  <2>1. ~ hit /\ ~ Stolen(c) /\ HoldInv /\ NearInv /\ RollInv
    BY <1>1, <1>8 DEF Inv
  <2>2. ASSUME NEW d \in Calls PROVE HoldOf(d)'
    <3>1. CASE d = c
      BY <3>1 DEF HoldOf, Led
    <3>2. CASE d # c
      <4>1. Op(d) \notin Inside \cup {"rollback"}
        <5>1. SUFFICES ASSUME Op(d) \in Inside \cup {"rollback"} PROVE FALSE
          OBVIOUS
        <5>2. owner = d
          BY <2>1, <5>1 DEF HoldInv, HoldOf
        <5>3. todo[d] # <<>>
          BY <5>1 DEF Op, Inside
        <5>4. d # NoCall
          BY PmAssumption DEF PmAssumption
        <5> QED BY <2>1, <3>2, <5>2, <5>3, <5>4 DEF Stolen
      <4> QED BY <3>2, <4>1, OthersKept DEF HoldOf
    <3> QED BY <3>1, <3>2
  <2>3. NearInv'
    BY <1>3 DEF NearInv
  <2>4. \A d \in Calls : Op(d)' = "new_sprint" => Rolling(view) = {}
    BY <2>1, OthersKept DEF RollInv, Led
  <2>5. \A d \in Calls : Op(d)' = "new_sprint" => Rolling(view') = {}
    <3>1. CASE view' = view
      BY <2>4, <3>1
    <3>2. CASE view' # view
      <4>1. SameSprints /\ view' = disk
        BY <2>1, <3>2
      <4>2. Rolling(disk) \subseteq Rolling(view)
        BY <1>2, <4>1 DEF Rolling, SameSprints
      <4> QED BY <2>4, <4>1, <4>2
    <3> QED BY <3>1, <3>2
  <2>6. RollInv'
    <3>1. \A db \in {view, disk} : \A j, k \in Rolling(db) : j = k
      BY <2>1 DEF RollInv
    <3>2. \A db \in {view', disk'} : \A j, k \in Rolling(db) : j = k
      BY <1>3, <3>1
    <3> QED BY <2>5, <3>2 DEF RollInv
  <2> QED BY <2>2, <2>3, <2>6 DEF HoldInv
<1> QED BY <1>4, <1>5, <1>6, <1>7, <1>8 DEF Inv

\* Outside a transaction there is nothing to end.
LEMMA NothingToEnd ==
  ASSUME Inv, NEW c \in Calls, ~ open, Reads, TodoInv', Others(c), res[c] = "none",
         Holds(c)' => Holds(c), lock' = lock, Op(c)' # "new_sprint",
         Op(c)' \in Inside \cup {"rollback"} => Op(c) \in Inside \cup {"rollback"}
  PROVE  Inv'
<1> USE DEF Reads, txn
<1>1. TypeOK' /\ NumInv'
  BY DEF Inv, TypeOK, NumInv, TodoInv
<1>2. LockInv'
  BY LockKept DEF Inv, LockInv
<1>3. IdleInv'
  BY DEF IdleInv
<1>4. ASSUME ~ hit' PROVE HoldInv' /\ NearInv' /\ RollInv'
  <2>1. ~ hit /\ HoldInv /\ NearInv /\ RollInv
    BY <1>4 DEF Inv
  <2>2. \A d \in Calls : Op(d) \notin Inside \cup {"rollback"}
    BY <2>1 DEF HoldInv, HoldOf
  <2>3. \A d \in Calls : Op(d)' \notin Inside \cup {"rollback"}
    BY <2>2, OthersKept
  <2>4. NearInv' /\ HoldInv'
    BY <2>1, <2>3 DEF NearInv, HoldInv, HoldOf
  <2>5. \A d \in Calls : Op(d)' = "new_sprint" => Op(d) = "new_sprint"
    BY OthersKept
  <2>6. RollInv'
    BY <2>1, <2>5 DEF RollInv, Rolling
  <2> QED BY <2>4, <2>6
<1> QED BY <1>1, <1>2, <1>3, <1>4 DEF Inv

LEMMA EndNext ==
  ASSUME Inv, NEW c \in Calls, NEW o \in {"commit", "save", "rollback"}, Doing(c, o), Advance(c)
  PROVE  /\ todo[c] # <<>> /\ TodoInv' /\ Others(c) /\ res[c] = "none" /\ Op(c) = o
         /\ (Holds(c)' => Holds(c)) /\ Op(c)' \notin Led
<1>1. todo[c] # <<>> /\ Op(c) = o /\ o \notin Bound
  BY Heads DEF Inv, Bound
<1> QED BY <1>1, Advances, PlainNext DEF Inv

LEMMA EndSteps ==
  ASSUME Inv, NEW c \in Calls, Commit(c) \/ Save(c) \/ Rollback(c)
  PROVE  Inv'
<1>1. CASE Commit(c)
  <2>1. Doing(c, "commit") /\ lock' = lock /\ view' = view
    BY <1>1 DEF Commit
  <2>2. CASE open
    <3>1. Advance(c) /\ disk' = view /\ EndTransaction(c)
      BY <1>1, <2>2 DEF Commit
    <3> QED BY <2>1, <3>1, EndNext, Ends
  <2>3. CASE ~ open
    <3>1. Continue(c, << <<"rollback">>, <<"raise">> >>) /\ Reads
      BY <1>1, <2>1, <2>3 DEF Commit, Reads
    <3>2. todo[c] # <<>> /\ Op(c) = "commit"
      BY <2>1, Heads DEF Inv
    <3>3. TodoInv' /\ Others(c) /\ res[c] = "none" /\ Op(c)' = "rollback" /\ ~ Holds(c)'
      BY <3>1, <3>2, RaisesNext DEF Inv
    <3> QED BY <2>1, <2>3, <3>1, <3>2, <3>3, NothingToEnd DEF Inside
  <2> QED BY <2>2, <2>3
<1>2. CASE Save(c)
  <2>1. Doing(c, "save") /\ lock' = lock /\ view' = view /\ Advance(c)
    BY <1>2 DEF Save
  <2>2. CASE open
    BY <1>2, <2>1, <2>2, EndNext, Ends DEF Save
  <2>3. CASE ~ open
    <3>1. Reads
      BY <1>2, <2>1, <2>3 DEF Save, Reads
    <3> QED BY <2>1, <2>3, <3>1, EndNext, NothingToEnd DEF Led
  <2> QED BY <2>2, <2>3
<1>3. CASE Rollback(c)
  <2>1. Doing(c, "rollback") /\ lock' = lock /\ disk' = disk /\ Advance(c)
    BY <1>3 DEF Rollback
  <2>2. CASE open
    <3>1. view' = disk /\ EndTransaction(c)
      BY <1>3, <2>2 DEF Rollback
    <3>2. Op(c) = "rollback"
      BY <2>1, EndNext
    <3>3. HoldInv => SameSprints
      BY <3>2 DEF HoldInv, HoldOf
    <3> QED BY <2>1, <3>1, <3>3, EndNext, Ends
  <2>3. CASE ~ open
    <3>1. Reads
      BY <1>3, <2>1, <2>3 DEF Rollback, Reads
    <3> QED BY <2>1, <2>3, <3>1, EndNext, NothingToEnd DEF Led
  <2> QED BY <2>2, <2>3
<1> QED BY <1>1, <1>2, <1>3

LEMMA CrashStep ==
  ASSUME Inv, Crash
  PROVE  Inv'
<1>1. /\ crashes < MaxCrash /\ crashes' = crashes + 1 /\ view' = disk /\ disk' = disk
      /\ open' = FALSE /\ owner' = NoCall /\ lock' = NoCall /\ hit' = hit
      /\ todo' = [c \in Calls |-> <<>>]
      /\ res' = [c \in Calls |-> IF todo[c] = <<>> THEN res[c] ELSE "cut"]
  BY DEF Crash
<1>2. MaxCrash \in Nat
  BY PmAssumption DEF PmAssumption
<1>3. TodoInv'
  <2>1. \A c \in Calls : todo'[c] = <<>>
    BY <1>1
  <2>2. res' \in [Calls -> {"none", "ok", "error", "stuck", "cut"}]
    BY <1>1 DEF Inv, TodoInv
  <2>3. todo' \in [Calls -> Seq(Statement)]
    BY <1>1
  <2> QED BY <2>1, <2>2, <2>3, EmptyWf DEF TodoInv
<1>4. TypeOK'
  <2>1. crashes' \in 0..MaxCrash
    BY <1>1, <1>2 DEF Inv, TypeOK
  <2> QED BY <1>1, <1>3, <2>1 DEF Inv, TypeOK, TodoInv
<1>5. NumInv'
  <2>1. Len(disk.tickets) \in Nat /\ Len(disk.sprints) \in Nat
    BY Domains DEF Inv
  <2> QED BY <1>1, <2>1 DEF Inv, NumInv
<1>6. IdleInv'
  BY <1>1 DEF IdleInv
<1>7. \A c \in Calls : Op(c)' = "none" /\ ~ Holds(c)'
  <2> SUFFICES ASSUME NEW c \in Calls PROVE Op(c)' = "none" /\ ~ Holds(c)'
    OBVIOUS
  <2>1. todo'[c] = <<>>
    BY <1>1
  <2>2. ~ \E i \in 1..Len(todo'[c]) : todo'[c][i][1] = "unlock"
    BY <2>1
  <2>3. Op(c)' = "none"
    BY <2>1 DEF Op
  <2> QED BY <2>2, <2>3 DEF Holds
<1>8. LockInv'
  BY <1>7 DEF LockInv
<1>9. ~ hit' => HoldInv' /\ NearInv' /\ RollInv'
  <2>1. SUFFICES ASSUME ~ hit PROVE HoldInv' /\ NearInv' /\ RollInv'
    BY <1>1
  <2>2. RollInv
    BY <2>1 DEF Inv
  <2>3. HoldInv'
    BY <1>7 DEF HoldInv, HoldOf, Inside
  <2>4. NearInv'
    BY <1>1 DEF NearInv
  <2>5. RollInv'
    BY <1>1, <1>7, <2>2 DEF RollInv
  <2> QED BY <2>3, <2>4, <2>5
<1> QED BY <1>3, <1>4, <1>5, <1>6, <1>8, <1>9 DEF Inv

LEMMA InitInv == Init => Inv
<1> SUFFICES ASSUME Init PROVE Inv
  OBVIOUS
<1>1. PICK s \in StartStatus :
        view = [tickets |-> << [sprint |-> 1, status |-> s, number |-> 1] >>,
                sprints |-> << [rolling |-> FALSE, status |-> "running"] >>]
  BY DEF Init
<1>2. s \in DOMAIN TicketTransitions /\ MaxCrash \in Nat
  BY PmAssumption DEF PmAssumption
<1> DEFINE row == [sprint |-> 1, status |-> s, number |-> 1]
           srow == [rolling |-> FALSE, status |-> "running"]
<1>3. row \in Ticket /\ srow \in Sprint /\ row.number = 1 /\ ~ srow.rolling
  BY <1>2 DEF Ticket, Sprint, SprintTransitions
<1>4. view.tickets = <<row>> /\ view.sprints = <<srow>> /\ disk = view
  BY <1>1 DEF Init
<1>5. view = [tickets |-> <<row>>, sprints |-> <<srow>>]
  BY <1>1
<1> HIDE DEF row, srow
<1>6. <<row>> \in Seq(Ticket) /\ <<srow>> \in Seq(Sprint)
  BY <1>3
<1>7. view \in [tickets : Seq(Ticket), sprints : Seq(Sprint)]
  BY <1>5, <1>6
<1>8. TodoInv
  <2>1. todo = [c \in Calls |-> <<>>] /\ res = [c \in Calls |-> "none"]
    BY DEF Init
  <2>2. \A c \in Calls : todo[c] = <<>>
    BY <2>1
  <2> QED BY <2>1, <2>2, EmptyWf DEF TodoInv
<1>9. TypeOK
  <2>1. /\ open = FALSE /\ hit = FALSE /\ lock = NoCall /\ owner = NoCall /\ crashes = 0
        /\ res = [c \in Calls |-> "none"] /\ disk = view
    BY DEF Init
  <2>2. {view, disk} \subseteq [tickets : Seq(Ticket), sprints : Seq(Sprint)]
    BY <2>1, <1>7
  <2>3. \A c \in Calls : res[c] \in {"none", "ok", "error", "stuck", "cut"}
    BY <2>1
  <2>4. crashes \in 0..MaxCrash
    BY <2>1, <1>2
  <2> QED BY <2>1, <2>2, <2>3, <2>4 DEF TypeOK
<1>10. NumInv
  <2>1. \A t \in DOMAIN view.tickets : view.tickets[t].number = t
    BY <1>3, <1>4
  <2>2. Len(view.tickets) = 1 /\ Len(view.sprints) = 1
    BY <1>4
  <2>3. disk = view
    BY <1>4
  <2>4. \A db \in {view, disk} : \A t \in DOMAIN db.tickets : db.tickets[t].number = t
    BY <2>1, <2>3
  <2>5. Len(disk.tickets) <= Len(view.tickets) /\ Len(disk.sprints) <= Len(view.sprints)
    <3>1. Len(disk.tickets) = 1 /\ Len(disk.sprints) = 1
      BY <2>2, <2>3, Zenon
    <3> QED BY <2>2, <3>1
  <2> QED BY <2>3, <2>4, <2>5 DEF NumInv
<1>11. \A c \in Calls : Op(c) = "none" /\ ~ Holds(c)
  <2> SUFFICES ASSUME NEW c \in Calls PROVE Op(c) = "none" /\ ~ Holds(c)
    OBVIOUS
  <2>1. todo[c] = <<>>
    BY DEF Init
  <2>2. ~ \E i \in 1..Len(todo[c]) : todo[c][i][1] = "unlock"
    BY <2>1
  <2>3. Op(c) = "none"
    BY <2>1 DEF Op
  <2> QED BY <2>2, <2>3 DEF Holds
<1>12. IdleInv /\ LockInv
  BY <1>11 DEF Init, IdleInv, LockInv
<1>13. HoldInv /\ NearInv /\ RollInv
  <2>1. HoldInv
    BY <1>11 DEF HoldInv, HoldOf, Inside
  <2>2. NearInv
    BY <1>4 DEF NearInv
  <2>3. Rolling(view) = {}
    BY <1>3, <1>4 DEF Rolling
  <2> QED BY <1>4, <1>11, <2>1, <2>2, <2>3 DEF RollInv
<1> QED BY <1>8, <1>9, <1>10, <1>12, <1>13 DEF Inv

LEMMA StillStep ==
  ASSUME Inv, UNCHANGED vars
  PROVE  Inv'
<1> USE DEF vars
<1>1. TypeOK' /\ TodoInv' /\ NumInv'
  BY DEF Inv, TypeOK, TodoInv, NumInv
<1>2. \A c \in Calls : Op(c)' = Op(c) /\ Holds(c)' = Holds(c) /\ HoldOf(c)' = HoldOf(c)
                       /\ Closing(c)' = Closing(c)
  BY DEF Op, Holds, HoldOf, Arg, Closing, SameTickets, SameSprints
<1>3. IdleInv' /\ LockInv'
  BY <1>2 DEF Inv, IdleInv, LockInv
<1>4. ~ hit' => HoldInv' /\ NearInv' /\ RollInv'
  BY <1>2 DEF Inv, HoldInv, NearInv, RollInv, Rolling
<1> QED BY <1>1, <1>3, <1>4 DEF Inv

LEMMA NextInv ==
  ASSUME Inv, [Next]_vars
  PROVE  Inv'
<1>1. ASSUME NEW c \in Calls, Step(c) PROVE Inv'
  BY <1>1, BeginStep, CheckSteps, SetStatusStep, SetSprintStep, LogStep, EndSteps, PlainSteps,
     TouchStep, InsertStep, SetSprintOfStep, LockSteps, FindStep, NewSprintStep, ListSteps
     DEF Step
<1> QED BY <1>1, CallStep, PlainSteps, CrashStep, StillStep DEF Next

-----------------------------------------------------------------------------
(* The theorems *)

\* The inductive invariant: the lists of statements, the lock, and, until a call's transaction
\* is ended by another, the view of the call that is inside one.
THEOREM InvHolds == Spec => []Inv
BY InitInv, NextInv, PTL DEF Spec

\* Rows, lock, owner and results keep their types, whatever is interleaved, rolled back or cut.
THEOREM TypeCorrect == Spec => []TypeOK
<1>1. Inv => TypeOK
  BY DEF Inv
<1> QED BY <1>1, InvHolds, PTL

\* No two tickets share a number, in what is seen and in what is committed: the number is the
\* row's position, since nothing deletes a ticket but the rollback of its INSERT.
THEOREM NumbersAreUnique == Spec => []NumbersUnique
<1>1. Inv => NumbersUnique
  BY DEF Inv, NumInv, NumbersUnique
<1> QED BY <1>1, InvHolds, PTL

\* pm_auto_ticket never opens a second rolling sprint, until a call's transaction is ended by
\* another call.
THEOREM RollingSprintIsOne == Spec => []OneRollingSprint
<1>1. ASSUME NEW S, \A j, k \in S : j = k PROVE Cardinality(S) <= 1
  <2>1. CASE S = {}
    BY <2>1, FS_EmptySet
  <2>2. CASE S # {}
    <3>1. PICK k \in S : TRUE
      BY <2>2
    <3>2. S = {k}
      BY <1>1, <3>1
    <3> QED BY <3>2, FS_Singleton
  <2> QED BY <2>1, <2>2
<1>2. Inv => OneRollingSprint
  BY <1>1 DEF Inv, RollInv, OneRollingSprint
<1> QED BY <1>2, InvHolds, PTL

\* With nobody at work the connection is free for the next BEGIN, except after a cancelled call
\* or an INSERT whose foreign key failed.
THEOREM IdleConnectionIsFree == Spec => []IdleMeansClosed
<1>1. Inv => IdleMeansClosed
  BY DEF Inv, IdleInv, IdleMeansClosed, Closing, Op, Inside
<1> QED BY <1>1, InvHolds, PTL

\* What is committed moves along TICKET_TRANSITIONS only, until a call's transaction is ended
\* by another call: every commit is at most one move of each ticket away.
THEOREM CommitsFollowTable == Spec => MovesFollowTable
<1> DEFINE Moves == ~ hit' =>
             \A t \in DOMAIN disk.tickets :
               LET was == disk.tickets[t].status
                   now == disk'.tickets[t].status
               IN  now = was \/ now \in TicketTransitions[was]
<1>1. ASSUME Inv, [Next]_vars PROVE [Moves]_vars
  <2>1. disk' \in {disk, view}
    <3>1. ASSUME NEW c \in Calls, Step(c) PROVE disk' \in {disk, view}
      <4> USE DEF Write, Reads
      <4>1. CASE Begin(c) \/ CanMove(c) \/ CanTransition(c) \/ SetStatus(c) \/ SetSprint(c)
        BY <4>1 DEF Begin, CanMove, CanTransition, SetStatus, SetSprint
      <4>2. CASE Log(c) \/ Commit(c) \/ Rollback(c) \/ Raise(c) \/ Catch(c) \/ Save(c)
        BY <4>2 DEF Log, Commit, Rollback, Raise, Catch, Save
      <4>3. CASE Touch(c) \/ Cap(c) \/ Insert(c) \/ ReadBack(c) \/ SetSprintOf(c)
        BY <4>3 DEF Touch, Cap, Insert, ReadBack, SetSprintOf
      <4>4. CASE \/ Lock(c) \/ Unlock(c) \/ Find(c) \/ NewSprint(c) \/ ReadSprint(c) \/ List(c)
                 \/ DropRest(c)
        BY <4>4 DEF Lock, Unlock, Find, NewSprint, ReadSprint, List, DropRest
      <4> QED BY <3>1, <4>1, <4>2, <4>3, <4>4 DEF Step
    <3>2. ASSUME NEW c \in Calls, Call(c) \/ Cancel(c) PROVE disk' \in {disk, view}
      BY <3>2 DEF Call, Cancel, Reads
    <3>3. CASE Crash
      BY <3>3 DEF Crash
    <3>4. CASE UNCHANGED vars
      BY <3>4 DEF vars
    <3> QED BY <1>1, <3>1, <3>2, <3>3, <3>4 DEF Next
  <2>2. hit => hit'
    <3>1. ASSUME NEW c \in Calls, Step(c) PROVE hit => hit'
      <4> USE DEF Write, Reads, txn, EndTransaction
      <4>1. CASE Begin(c) \/ CanMove(c) \/ CanTransition(c) \/ SetStatus(c) \/ SetSprint(c)
        BY <4>1 DEF Begin, CanMove, CanTransition, SetStatus, SetSprint
      <4>2. CASE Log(c) \/ Commit(c) \/ Rollback(c) \/ Raise(c) \/ Catch(c) \/ Save(c)
        BY <4>2 DEF Log, Commit, Rollback, Raise, Catch, Save
      <4>3. CASE Touch(c) \/ Cap(c) \/ Insert(c) \/ ReadBack(c) \/ SetSprintOf(c)
        BY <4>3 DEF Touch, Cap, Insert, ReadBack, SetSprintOf
      <4>4. CASE \/ Lock(c) \/ Unlock(c) \/ Find(c) \/ NewSprint(c) \/ ReadSprint(c) \/ List(c)
                 \/ DropRest(c)
        BY <4>4 DEF Lock, Unlock, Find, NewSprint, ReadSprint, List, DropRest
      <4> QED BY <3>1, <4>1, <4>2, <4>3, <4>4 DEF Step
    <3>2. ASSUME NEW c \in Calls, Call(c) \/ Cancel(c) PROVE hit => hit'
      BY <3>2 DEF Call, Cancel, Reads, txn
    <3>3. CASE Crash
      BY <3>3 DEF Crash
    <3>4. CASE UNCHANGED vars
      BY <3>4 DEF vars
    <3> QED BY <1>1, <3>1, <3>2, <3>3, <3>4 DEF Next
  <2>3. ASSUME ~ hit' PROVE NearInv
    BY <1>1, <2>2, <2>3 DEF Inv
  <2> QED BY <2>1, <2>3 DEF NearInv
<1>2. Spec => [][Moves]_vars
  BY <1>1, InvHolds, PTL DEF Spec
<1> QED BY <1>2 DEF MovesFollowTable
=============================================================================
