--------------------------- MODULE RbacCacheProofs ---------------------------
(* Proofs about RbacCache, for any roles, any number of calls and any bounds. *)
EXTENDS RbacCache, TLAPS

Reading(c) == call[c].pc \in {"list", "policies", "assignments"}

\* Fact f of role r was so at time t or later, and with every acknowledged change in the
\* tables unless the reader of it was late.
Kept(r, f, t, late) == last[r][f].at >= t /\ (late \/ last[r][f].ver >= acked)

\* What was read of the policies of some roles, and of the assignments, was so after t.
PolKept(pol, roles, t, late) ==
  \A r \in roles :
    /\ "allow" \in pol[r] => Kept(r, "allow", t, late)
    /\ "allow" \notin pol[r] => Kept(r, "lack", t, late)
    /\ "deny" \in pol[r] => Kept(r, "deny", t, late)
    /\ "deny" \notin pol[r] => Kept(r, "free", t, late)
HeldKept(held, t, late) ==
  \A r \in Roles :
    /\ r \in held => Kept(r, "held", t, late)
    /\ r \notin held => Kept(r, "lack", t, late) /\ Kept(r, "free", t, late)

\* What is true now was last true now.
NowIsLast ==
  \A r \in Roles, f \in Facts : Fact(r, f, policies, until, now) =>
    last[r][f].at = now /\ last[r][f].ver = version

\* A read in progress that is not late began after the newest acknowledged change.
NeedIsAcked == \A c \in Calls : Reading(c) => call[c].late \/ call[c].need = acked

ReadKept ==
  \A c \in Calls :
    /\ call[c].pc = "list" => call[c].pol = NoPolicies
    /\ call[c].pc \in {"policies", "assignments"} =>
         PolKept(call[c].pol, Roles \ call[c].todo, call[c].from, call[c].late)
    /\ call[c].pc = "assignments" => call[c].todo = {}

\* A copy that has not been dropped.
CacheKept ==
  cache.ts > 0 => /\ PolKept(cache.pol, Roles, cache.ts, cache.late)
                  /\ HeldKept(cache.held, cache.ts, cache.late)

CacheInv == /\ TypeOK /\ NowIsLast /\ NeedIsAcked /\ ReadKept /\ CacheKept
            /\ AnswerIsRecent /\ AckedIsSeen

-----------------------------------------------------------------------------
(* Types                                                                   *)

\* A change of the tables keeps the history's type.
LEMMA RememberType ==
  ASSUME now' \in Nat, version' \in Nat, now \in Nat, version \in Nat,
         now' >= now, version' >= version, Remember,
         last \in [Roles -> [Facts -> [at : 0..now, ver : 0..version]]]
  PROVE  last' \in [Roles -> [Facts -> [at : 0..now', ver : 0..version']]]
<1>. DEFINE R == [at : 0..now', ver : 0..version']
            new == [at |-> now', ver |-> version']
            next(r, f) == IF Fact(r, f, policies', until', now') THEN new ELSE last[r][f]
<1>1. new \in R
  OBVIOUS
<1>2. \A r \in Roles, f \in Facts : last[r][f] \in R
  <2>1. SUFFICES ASSUME NEW r \in Roles, NEW f \in Facts  PROVE last[r][f] \in R
    OBVIOUS
  <2>2. last[r][f] \in [at : 0..now, ver : 0..version]
    OBVIOUS
  <2>3. 0..now \subseteq 0..now' /\ 0..version \subseteq 0..version'
    OBVIOUS
  <2>. QED  BY <2>2, <2>3
<1>3. last' = [r \in Roles |-> [f \in Facts |-> next(r, f)]]
  BY DEF Remember
<1>4. \A r \in Roles, f \in Facts : next(r, f) \in R
  BY <1>1, <1>2
<1>. HIDE DEF R, next
<1>5. [r \in Roles |-> [f \in Facts |-> next(r, f)]] \in [Roles -> [Facts -> R]]
  BY <1>4
<1>. QED  BY <1>3, <1>5 DEF R

LEMMA InitType == Init => TypeOK
<1>. SUFFICES ASSUME Init  PROVE TypeOK
  OBVIOUS
<1>. USE RbacAssumption DEF Init
<1>1. /\ now \in Time /\ Ttl <= now /\ version \in Version /\ acked \in 0..version
      /\ owing \subseteq 1..version
  BY DEF Time, Version
<1>2. exists \in SUBSET Roles /\ policies \in Policies /\ until \in [Roles -> None..Forever]
  BY DEF None, Forever
<1>3. \A r \in Roles \ exists : policies[r] = {} /\ until[r] = None
  OBVIOUS
<1>4. NoPolicies \in Policies
  BY DEF NoPolicies, Policies
<1>5. cache \in Cache /\ cache.ts <= now
  BY <1>4 DEF Cache, Time
<1>6. NoCall \in Call
  BY <1>4 DEF NoCall, Call, Time, Version
<1>7. /\ call \in [Calls -> Call]
      /\ \A c \in Calls : call[c].from <= now /\ call[c].need <= acked
  <2>1. NoCall.from = 0 /\ NoCall.need = 0
    BY DEF NoCall
  <2>. QED  BY <1>1, <1>6, <2>1
<1>8. last \in [Roles -> [Facts -> [at : 0..now, ver : 0..version]]]
  <2>. DEFINE at(r, f) == IF Fact(r, f, policies, until, now) THEN now ELSE 0
  <2>1. \A r \in Roles, f \in Facts : at(r, f) \in 0..now
    OBVIOUS
  <2>2. last = [r \in Roles |-> [f \in Facts |-> [at |-> at(r, f), ver |-> 0]]]
    OBVIOUS
  <2>3. version = 0
    OBVIOUS
  <2>. HIDE DEF at, Init
  <2>. QED  BY <2>1, <2>2, <2>3
<1>. QED  BY <1>1, <1>2, <1>3, <1>5, <1>7, <1>8 DEF TypeOK

\* A change made by a tool: the part of the types that every change shares.
LEMMA ChangedType ==
  ASSUME TypeOK, NEW drops \in BOOLEAN, Changed(drops),
         exists' \in SUBSET Roles, policies' \in Policies, until' \in [Roles -> None..Forever],
         \A r \in Roles \ exists' : policies'[r] = {} /\ until'[r] = None
  PROVE  TypeOK'
<1>. USE RbacAssumption DEF TypeOK, Changed
<1>1. /\ version' \in Version /\ acked' \in 0..version' /\ owing' \subseteq 1..version'
      /\ version' \in Nat /\ version \in Nat /\ version' >= version
  BY DEF Version
<1>2. last' \in [Roles -> [Facts -> [at : 0..now', ver : 0..version']]]
  BY <1>1, RememberType DEF Time
<1>. QED  BY <1>1, <1>2

\* A step of a call.
LEMMA CallType ==
  ASSUME TypeOK, NEW c \in Calls, NEW new \in Call, new.from <= now, new.need <= acked,
         call' = [call EXCEPT ![c] = new],
         cache' \in Cache, cache'.ts <= now,
         UNCHANGED <<now, tables, owing, version, acked, last>>
  PROVE  TypeOK'
<1>1. /\ call' \in [Calls -> Call]
      /\ \A d \in Calls : call'[d].from <= now /\ call'[d].need <= acked
  BY DEF TypeOK
<1>. QED  BY <1>1 DEF TypeOK, tables

LEMMA DecideType ==
  ASSUME NEW pol, NEW held  PROVE Decide(pol, held) \in {"allow", "deny"}
BY DEF Decide

\* What each step of a call makes of it: how the calls are indexed and typed.
LEMMA CallStepType ==
  ASSUME TypeOK, NEW c \in Calls,
         Begin(c) \/ ListRoles(c) \/ ReadPolicies(c) \/ ReadAssignments(c) \/ Fails(c)
  PROVE  TypeOK'
<1>. USE RbacAssumption
<1>1. call[c] \in Call /\ call[c].from <= now /\ call[c].need <= acked
  BY DEF TypeOK
<1>2. NoPolicies \in Policies
  BY DEF NoPolicies, Policies
<1>3. /\ acked \in Version /\ now \in Time /\ cache \in Cache /\ cache.ts <= now
      /\ now <= now /\ 0 <= now /\ acked <= acked /\ 0 <= acked
  BY DEF TypeOK, Version, Time
<1>4. 0 \in Version /\ 0 \in Time
  BY DEF Version, Time
<1>5. NoCall \in Call
  BY <1>2, <1>4 DEF NoCall, Call
<1>6. CASE Begin(c)
  <2>1. CASE BeginHit(c)
    <3>. DEFINE new == [NoCall EXCEPT !.pc = "done", !.from = now, !.need = acked,
                          !.late = cache.late, !.verdict = Decide(cache.pol, cache.held)]
    <3>1. new \in Call /\ new.from = now /\ new.need = acked
      BY <1>2, <1>3, <1>4, DecideType DEF NoCall, Call, Cache
    <3>2. call' = [call EXCEPT ![c] = new]
      BY <2>1 DEF BeginHit
    <3>. HIDE DEF new
    <3>. QED  BY <1>3, <1>6, <3>1, <3>2, CallType DEF Begin
  <2>2. CASE BeginRead(c)
    <3>. DEFINE new == [NoCall EXCEPT !.pc = "list", !.from = now, !.need = acked]
    <3>1. new \in Call /\ new.from = now /\ new.need = acked
      BY <1>2, <1>3, <1>4 DEF NoCall, Call
    <3>2. call' = [call EXCEPT ![c] = new]
      BY <2>2 DEF BeginRead
    <3>. HIDE DEF new
    <3>. QED  BY <1>3, <1>6, <3>1, <3>2, CallType DEF Begin
  <2>. QED  BY <1>6, <2>1, <2>2 DEF Begin
<1>7. CASE ListRoles(c)
  <2>. DEFINE new == [call[c] EXCEPT !.pc = IF exists = {} THEN "assignments" ELSE "policies",
                                     !.todo = exists]
  <2>1. new \in Call /\ new.from = call[c].from /\ new.need = call[c].need
    BY <1>1 DEF Call, TypeOK
  <2>2. call' = [call EXCEPT ![c] = new]
    BY <1>7, <1>1 DEF ListRoles, TypeOK, Call
  <2>. HIDE DEF new
  <2>. QED  BY <1>1, <1>3, <1>7, <2>1, <2>2, CallType DEF ListRoles
<1>8. CASE ReadPolicies(c)
  <2>1. PICK r \in call[c].todo :
          call' = [call EXCEPT
            ![c].pc = IF call[c].todo = {r} THEN "assignments" ELSE "policies",
            ![c].todo = call[c].todo \ {r},
            ![c].pol = [call[c].pol EXCEPT ![r] = policies[r]]]
    BY <1>8 DEF ReadPolicies
  <2>. DEFINE new == [call[c] EXCEPT
                        !.pc = IF call[c].todo = {r} THEN "assignments" ELSE "policies",
                        !.todo = call[c].todo \ {r},
                        !.pol = [call[c].pol EXCEPT ![r] = policies[r]]]
  <2>2. [call[c].pol EXCEPT ![r] = policies[r]] \in Policies
    BY <1>1 DEF Call, Policies, TypeOK
  <2>3. new \in Call /\ new.from = call[c].from /\ new.need = call[c].need
    BY <1>1, <2>2 DEF Call
  <2>4. call' = [call EXCEPT ![c] = new]
    BY <2>1, <1>1 DEF TypeOK, Call
  <2>. HIDE DEF new
  <2>. QED  BY <1>1, <1>3, <1>8, <2>3, <2>4, CallType DEF ReadPolicies
<1>9. CASE ReadAssignments(c)
  <2>. DEFINE held == {r \in Roles : until[r] >= now}
              new == [call[c] EXCEPT !.pc = "done", !.pol = NoPolicies,
                                     !.verdict = Decide(call[c].pol, held)]
  <2>1. new \in Call /\ new.from = call[c].from /\ new.need = call[c].need
    BY <1>1, <1>2, DecideType DEF Call
  <2>2. call' = [call EXCEPT ![c] = new]
    BY <1>9, <1>1 DEF ReadAssignments, TypeOK, Call
  <2>3. cache' \in Cache /\ cache'.ts <= now
    BY <1>1, <1>9 DEF ReadAssignments, Install, Cache, Call
  <2>. HIDE DEF new
  <2>. QED  BY <1>1, <1>9, <2>1, <2>2, <2>3, CallType DEF ReadAssignments
<1>10. CASE Fails(c)
  <2>1. NoCall.from = 0 /\ NoCall.need = 0
    BY DEF NoCall
  <2>2. call' = [call EXCEPT ![c] = NoCall]
    BY <1>10 DEF Fails
  <2>. QED  BY <1>3, <1>5, <1>10, <2>1, <2>2, CallType DEF Fails
<1>. QED  BY <1>6, <1>7, <1>8, <1>9, <1>10

LEMMA ToolStepType ==
  ASSUME TypeOK, NEW r \in Roles, NEW e \in Effects, NEW expiry \in {now, Forever},
         NEW drops \in BOOLEAN,
         \/ CreateRole(r) \/ DeleteRole(r) \/ RevokeRole(r)
         \/ AddPolicy(r, e) \/ RemovePolicy(r, e) \/ AssignRole(r, expiry, drops)
  PROVE  TypeOK'
<1>. USE RbacAssumption
<1>1. /\ exists \in SUBSET Roles /\ policies \in [Roles -> SUBSET Effects]
      /\ until \in [Roles -> None..Forever]
      /\ \A s \in Roles \ exists : policies[s] = {} /\ until[s] = None
  BY DEF TypeOK, Policies
<1>2. None \in None..Forever /\ expiry \in None..Forever
  BY DEF None, Forever, TypeOK, Time
<1>3. SUFFICES
        /\ exists' \in SUBSET Roles /\ policies' \in [Roles -> SUBSET Effects]
        /\ until' \in [Roles -> None..Forever]
        /\ \A s \in Roles \ exists' : policies'[s] = {} /\ until'[s] = None
        /\ Changed(TRUE) \/ Changed(drops)
  BY ChangedType DEF Policies
<1>4. CASE CreateRole(r)
  BY <1>1, <1>4 DEF CreateRole
<1>5. CASE DeleteRole(r)
  BY <1>1, <1>2, <1>5 DEF DeleteRole
<1>6. CASE RevokeRole(r)
  BY <1>1, <1>2, <1>6 DEF RevokeRole
<1>7. CASE AddPolicy(r, e)
  BY <1>1, <1>7 DEF AddPolicy
<1>8. CASE RemovePolicy(r, e)
  BY <1>1, <1>8 DEF RemovePolicy
<1>9. CASE AssignRole(r, expiry, drops)
  BY <1>1, <1>2, <1>9 DEF AssignRole
<1>. QED  BY <1>4, <1>5, <1>6, <1>7, <1>8, <1>9

LEMMA InvalidateType ==
  ASSUME TypeOK, NEW v \in owing, Invalidate(v)
  PROVE  TypeOK'
<1>. USE RbacAssumption
<1>1. /\ v \in 1..version /\ acked \in 0..version /\ version \in Version /\ now \in Time
      /\ call \in [Calls -> Call] /\ cache \in Cache
  BY DEF TypeOK
<1>2. acked' \in 0..version /\ acked <= acked'
  BY <1>1 DEF Invalidate, Newer, Version
<1>3. owing' \subseteq 1..version
  BY DEF Invalidate, TypeOK
<1>4. cache' \in Cache /\ cache'.ts <= now
  BY <1>1 DEF Invalidate, Cache, Time
<1>5. ASSUME NEW c \in Calls
      PROVE  call'[c] \in Call /\ call'[c].from <= now /\ call'[c].need <= acked'
  <2>. DEFINE late == call[c].late \/ call[c].pc \in {"list", "policies", "assignments"}
  <2>1. late \in BOOLEAN
    BY <1>1 DEF Call
  <2>2. call'[c] = [call[c] EXCEPT !.late = late]
    BY <1>1 DEF Invalidate
  <2>3. call[c] \in Call /\ call[c].from <= now /\ call[c].need <= acked
    BY DEF TypeOK
  <2>. HIDE DEF late
  <2>4. call'[c] \in Call /\ call'[c].from = call[c].from /\ call'[c].need = call[c].need
    BY <2>1, <2>2, <2>3 DEF Call
  <2>5. call[c].need \in Int /\ acked \in Int /\ acked' \in Int
    BY <1>1, <1>2, <2>3 DEF Call, Version
  <2>. QED  BY <1>2, <2>3, <2>4, <2>5
<1>6. \E f \in [Calls -> Call] : call' = f
  <2>. DEFINE f == [c \in Calls |-> call'[c]]
  <2>1. f \in [Calls -> Call]
    BY <1>5
  <2>2. call' = f
    BY DEF Invalidate
  <2>. QED  BY <2>1, <2>2
<1>7. UNCHANGED <<now, exists, policies, until, version, last>>
  BY DEF Invalidate, tables
<1>. QED  BY <1>2, <1>3, <1>4, <1>5, <1>6, <1>7 DEF TypeOK

LEMMA TickType == ASSUME TypeOK, Tick PROVE TypeOK'
<1>. USE RbacAssumption
<1>1. /\ now \in Nat /\ now' \in Time /\ now' >= now /\ version \in Nat /\ version' = version
      /\ now' \in Nat /\ version' >= version
  BY DEF TypeOK, Tick, Time, Version
<1>2. last' \in [Roles -> [Facts -> [at : 0..now', ver : 0..version']]]
  BY <1>1, RememberType DEF Tick, TypeOK
<1>3. UNCHANGED <<exists, policies, until, cache, call, owing, acked>>
  BY DEF Tick, tables
<1>4. Ttl <= now' /\ cache.ts <= now' /\ \A c \in Calls : call[c].from <= now'
  <2>1. Ttl \in Int /\ cache.ts \in Int /\ \A c \in Calls : call[c].from \in Int
    BY DEF TypeOK, Cache, Call, Time
  <2>. QED  BY <1>1, <2>1 DEF TypeOK
<1>. QED  BY <1>1, <1>2, <1>3, <1>4 DEF TypeOK

LEMMA StepType == TypeOK /\ [Next]_vars => TypeOK'
<1>. SUFFICES ASSUME TypeOK, [Next]_vars  PROVE TypeOK'
  OBVIOUS
<1>1. CASE UNCHANGED vars
  BY <1>1 DEF vars, tables, TypeOK
<1>2. CASE \E c \in Calls :
             Begin(c) \/ ListRoles(c) \/ ReadPolicies(c) \/ ReadAssignments(c) \/ Fails(c)
  BY <1>2, CallStepType
<1>3. CASE \E r \in Roles : CreateRole(r) \/ DeleteRole(r) \/ RevokeRole(r)
  <2>1. "allow" \in Effects /\ Forever \in {now, Forever} /\ TRUE \in BOOLEAN
    BY DEF Effects
  <2>. QED  BY <1>3, <2>1, ToolStepType
<1>4. CASE \E r \in Roles, e \in Effects : AddPolicy(r, e) \/ RemovePolicy(r, e)
  <2>1. Forever \in {now, Forever} /\ TRUE \in BOOLEAN
    OBVIOUS
  <2>. QED  BY <1>4, <2>1, ToolStepType
<1>5. CASE \E r \in Roles, expiry \in {now, Forever}, drops \in BOOLEAN :
             AssignRole(r, expiry, drops)
  <2>1. "allow" \in Effects
    BY DEF Effects
  <2>. QED  BY <1>5, <2>1, ToolStepType
<1>6. CASE \E v \in owing : Invalidate(v)
  BY <1>6, InvalidateType
<1>7. CASE Tick
  BY <1>7, TickType
<1>. QED  BY <1>1, <1>2, <1>3, <1>4, <1>5, <1>6, <1>7 DEF Next

-----------------------------------------------------------------------------
(* What the history keeps                                                  *)

\* A step that changes no table, no clock and no history.
Quiet == UNCHANGED <<now, exists, policies, until, version, last, acked>>

\* Every step is a step of a call, a change or a tick, or an invalidation.
CallStep(c) == Begin(c) \/ ListRoles(c) \/ ReadPolicies(c) \/ ReadAssignments(c) \/ Fails(c)
WorldStep == Remember /\ UNCHANGED <<cache, call, acked>>

LEMMA StepKinds ==
  ASSUME [Next]_vars
  PROVE  \/ UNCHANGED vars
         \/ \E c \in Calls : CallStep(c)
         \/ WorldStep
         \/ \E v \in owing : Invalidate(v)
<1>1. ASSUME NEW drops, Changed(drops)  PROVE WorldStep
  BY <1>1 DEF Changed, WorldStep
<1>2. ASSUME NEW r \in Roles, CreateRole(r) \/ DeleteRole(r) \/ RevokeRole(r)
      PROVE  WorldStep
  BY <1>1, <1>2 DEF CreateRole, DeleteRole, RevokeRole
<1>3. ASSUME NEW r \in Roles, NEW e \in Effects, AddPolicy(r, e) \/ RemovePolicy(r, e)
      PROVE  WorldStep
  BY <1>1, <1>3 DEF AddPolicy, RemovePolicy
<1>4. ASSUME NEW r \in Roles, NEW expiry, NEW drops, AssignRole(r, expiry, drops)
      PROVE  WorldStep
  BY <1>1, <1>4 DEF AssignRole
<1>5. ASSUME Tick  PROVE WorldStep
  BY <1>5 DEF Tick, WorldStep
<1>. QED  BY <1>2, <1>3, <1>4, <1>5 DEF Next, CallStep

LEMMA CallStepQuiet ==
  ASSUME NEW c \in Calls, CallStep(c)  PROVE Quiet
BY DEF CallStep, Begin, ListRoles, ReadPolicies, ReadAssignments, Fails, Quiet, tables

\* The clock and the versions do not go back.
LEMMA Forward ==
  ASSUME TypeOK, [Next]_vars
  PROVE  now' >= now /\ version' >= version
<1>. USE RbacAssumption
<1>1. now \in Int /\ version \in Int
  BY DEF TypeOK, Time, Version
<1>2. ASSUME NEW drops, Changed(drops)  PROVE now' >= now /\ version' >= version
  BY <1>1, <1>2 DEF Changed
<1>3. ASSUME NEW c \in Calls, CallStep(c)  PROVE now' >= now /\ version' >= version
  BY <1>1, <1>3, CallStepQuiet DEF Quiet
<1>4. ASSUME NEW v \in owing, Invalidate(v)  PROVE now' >= now /\ version' >= version
  BY <1>1, <1>4 DEF Invalidate
<1>5. ASSUME Tick  PROVE now' >= now /\ version' >= version
  BY <1>1, <1>5 DEF Tick
<1>6. ASSUME UNCHANGED vars  PROVE now' >= now /\ version' >= version
  BY <1>1, <1>6 DEF vars
<1>. QED  BY <1>2, <1>3, <1>4, <1>5, <1>6 DEF Next, CallStep, CreateRole, DeleteRole, AddPolicy,
             RemovePolicy, AssignRole, RevokeRole

\* A fact once seen is remembered: last only grows.
LEMMA LastGrows ==
  ASSUME TypeOK, [Next]_vars, NEW r \in Roles, NEW f \in Facts
  PROVE  /\ last[r][f].at \in Int /\ last[r][f].ver \in Int
         /\ last'[r][f].at \in Int /\ last'[r][f].ver \in Int
         /\ last'[r][f].at >= last[r][f].at /\ last'[r][f].ver >= last[r][f].ver
<1>1. /\ last[r][f].at \in 0..now /\ last[r][f].ver \in 0..version
      /\ now \in Int /\ version \in Int
  BY DEF TypeOK, Time, Version
<1>2. TypeOK'
  BY StepType
<1>3. now' \in Int /\ version' \in Int
  BY <1>2 DEF TypeOK, Time, Version
<1>4. now' >= now /\ version' >= version
  BY Forward
<1>5. CASE last' = last
  BY <1>1, <1>5
<1>6. CASE Remember
  <2>1. last'[r][f] = IF Fact(r, f, policies', until', now')
                      THEN [at |-> now', ver |-> version'] ELSE last[r][f]
    BY <1>6 DEF Remember
  <2>. QED  BY <1>1, <1>3, <1>4, <2>1
<1>7. Remember \/ last' = last
  BY StepKinds, CallStepQuiet DEF Quiet, WorldStep, Invalidate, vars
<1>. QED  BY <1>5, <1>6, <1>7

LEMMA NowIsLastStep ==
  ASSUME TypeOK, NowIsLast, [Next]_vars  PROVE NowIsLast'
<1>1. CASE Remember
  BY <1>1 DEF Remember, NowIsLast
<1>2. CASE UNCHANGED <<now, exists, policies, until, version, last>>
  BY <1>2 DEF NowIsLast, Fact
<1>. QED  BY <1>1, <1>2, StepKinds, CallStepQuiet DEF Quiet, WorldStep, Invalidate, vars, tables

\* What was read stays read: as it was, or late when a tool drops the cache.
LEMMA KeptStays ==
  ASSUME TypeOK, [Next]_vars, NEW r \in Roles, NEW f \in Facts, NEW t \in Int,
         NEW late \in BOOLEAN, NEW later \in BOOLEAN, late => later,
         acked' = acked \/ later, Kept(r, f, t, late)
  PROVE  Kept(r, f, t, later)'
<1>1. acked \in Int
  BY RbacAssumption DEF TypeOK, Version
<1>. QED  BY <1>1, LastGrows DEF Kept

LEMMA PolKeptStays ==
  ASSUME TypeOK, [Next]_vars, NEW pol, NEW roles \in SUBSET Roles, NEW t \in Int,
         NEW late \in BOOLEAN, NEW later \in BOOLEAN, late => later,
         acked' = acked \/ later, PolKept(pol, roles, t, late)
  PROVE  PolKept(pol, roles, t, later)'
<1>1. {"allow", "lack", "deny", "free"} \subseteq Facts
  BY DEF Facts
<1>. QED  BY <1>1, KeptStays DEF PolKept

LEMMA HeldKeptStays ==
  ASSUME TypeOK, [Next]_vars, NEW held, NEW t \in Int,
         NEW late \in BOOLEAN, NEW later \in BOOLEAN, late => later,
         acked' = acked \/ later, HeldKept(held, t, late)
  PROVE  HeldKept(held, t, later)'
<1>1. {"held", "lack", "free"} \subseteq Facts
  BY DEF Facts
<1>. QED  BY <1>1, KeptStays DEF HeldKept

\* An answer goes on resting on what it rested on.
LEMMA RestsOnStays ==
  ASSUME TypeOK, [Next]_vars, NEW verdict, NEW t \in Int, NEW v \in Int,
         RestsOn(verdict, t, v)
  PROVE  RestsOn(verdict, t, v)'
<1>1. ASSUME NEW r \in Roles, NEW f \in Facts, Since(r, f, t, v)  PROVE Since(r, f, t, v)'
  BY <1>1, LastGrows DEF Since
<1>2. {"held", "lack", "free", "allow", "deny"} \subseteq Facts
  BY DEF Facts
<1>. QED  BY <1>1, <1>2 DEF RestsOn

\* What can be read now is so now.
LEMMA ReadNow ==
  ASSUME TypeOK, NowIsLast, NEW t \in Int, t <= now, NEW late \in BOOLEAN,
         NEW r \in Roles, NEW f \in Facts, Fact(r, f, policies, until, now)
  PROVE  Kept(r, f, t, late)
<1>1. last[r][f].at = now /\ last[r][f].ver = version
  BY DEF NowIsLast
<1>2. version >= acked /\ now >= t
  BY RbacAssumption DEF TypeOK, Version, Time
<1>. QED  BY <1>1, <1>2 DEF Kept

\* The decision rests on what was read.
LEMMA DecideRests ==
  ASSUME TypeOK, NEW pol, NEW held \in SUBSET Roles, NEW t \in Int, NEW late \in BOOLEAN,
         PolKept(pol, Roles, t, late), HeldKept(held, t, late),
         NEW s \in Int, s < t, NEW v \in Int, v <= 0 \/ (~late /\ v = acked)
  PROVE  RestsOn(Decide(pol, held), s, v)
<1>1. ASSUME NEW r \in Roles, NEW f \in Facts, Kept(r, f, t, late)  PROVE Since(r, f, s, v)
  <2>1. last[r][f].at \in 0..now /\ last[r][f].ver \in 0..version /\ acked \in Int
    BY RbacAssumption DEF TypeOK, Version
  <2>2. now \in Int /\ version \in Int
    BY RbacAssumption DEF TypeOK, Version, Time
  <2>. QED  BY <1>1, <2>1, <2>2 DEF Kept, Since
<1>2. {"held", "lack", "free", "allow", "deny"} \subseteq Facts
  BY DEF Facts
<1>3. \A r \in Roles :
        /\ "allow" \in pol[r] => Since(r, "allow", s, v)
        /\ "allow" \notin pol[r] => Since(r, "lack", s, v)
        /\ "deny" \in pol[r] => Since(r, "deny", s, v)
        /\ "deny" \notin pol[r] => Since(r, "free", s, v)
  BY <1>1, <1>2 DEF PolKept
<1>4. \A r \in Roles :
        /\ r \in held => Since(r, "held", s, v)
        /\ r \notin held => Since(r, "lack", s, v) /\ Since(r, "free", s, v)
  BY <1>1, <1>2 DEF HeldKept
<1>5. CASE \E r \in held : "deny" \in pol[r]
  <2>1. Decide(pol, held) = "deny"
    BY <1>5 DEF Decide
  <2>. QED  BY <1>3, <1>4, <1>5, <2>1 DEF RestsOn
<1>6. CASE ~(\E r \in held : "deny" \in pol[r]) /\ \E r \in held : "allow" \in pol[r]
  <2>1. Decide(pol, held) = "allow"
    BY <1>6 DEF Decide
  <2>. QED  BY <1>3, <1>4, <1>6, <2>1 DEF RestsOn
<1>7. CASE ~(\E r \in held : "allow" \in pol[r])
  <2>1. Decide(pol, held) = "deny"
    BY <1>7 DEF Decide
  <2>. QED  BY <1>3, <1>4, <1>7, <2>1 DEF RestsOn
<1>. QED  BY <1>5, <1>6, <1>7

-----------------------------------------------------------------------------
(* The invariant                                                           *)

\* What the invariant says of one call.
CallOf(c) ==
  /\ Reading(c) => call[c].late \/ call[c].need = acked
  /\ call[c].pc = "list" => call[c].pol = NoPolicies
  /\ call[c].pc \in {"policies", "assignments"} =>
       PolKept(call[c].pol, Roles \ call[c].todo, call[c].from, call[c].late)
  /\ call[c].pc = "assignments" => call[c].todo = {}
  /\ call[c].pc = "done" =>
       /\ RestsOn(call[c].verdict, call[c].from - Ttl, 0)
       /\ ~call[c].late => RestsOn(call[c].verdict, -1, call[c].need)

LEMMA CallOfAll ==
  (\A c \in Calls : CallOf(c)) <=> NeedIsAcked /\ ReadKept /\ AnswerIsRecent /\ AckedIsSeen
BY DEF CallOf, NeedIsAcked, ReadKept, AnswerIsRecent, AckedIsSeen

LEMMA InitInv == Init => CacheInv
<1>. SUFFICES ASSUME Init  PROVE CacheInv
  OBVIOUS
<1>1. TypeOK
  BY InitType
<1>2. NowIsLast
  BY DEF Init, NowIsLast
<1>3. ASSUME NEW c \in Calls  PROVE call[c].pc = "idle"
  BY DEF Init, NoCall
<1>4. CacheKept
  BY DEF Init, CacheKept
<1>. QED  BY <1>1, <1>2, <1>3, <1>4 DEF CacheInv, NeedIsAcked, ReadKept, AnswerIsRecent,
             AckedIsSeen, Reading

\* A call that does nothing keeps its part, though it may turn late.
LEMMA OtherCall ==
  ASSUME CacheInv, [Next]_vars, NEW d \in Calls, call'[d] = call[d], acked' = acked
  PROVE  CallOf(d)'
<1>1. /\ TypeOK /\ CallOf(d)
      /\ call[d] \in Call
  BY CallOfAll DEF CacheInv, TypeOK
<1>2. /\ call[d].from \in Int /\ call[d].need \in Int /\ call[d].late \in BOOLEAN
      /\ call[d].from - Ttl \in Int /\ Roles \ call[d].todo \in SUBSET Roles
  BY <1>1, RbacAssumption DEF Call, Time, Version
<1>3. call[d].pc \in {"policies", "assignments"} =>
        PolKept(call[d].pol, Roles \ call[d].todo, call[d].from, call[d].late)'
  BY <1>1, <1>2, PolKeptStays DEF CallOf
<1>4. call[d].pc = "done" =>
       /\ RestsOn(call[d].verdict, call[d].from - Ttl, 0)'
       /\ ~call[d].late => RestsOn(call[d].verdict, -1, call[d].need)'
  BY <1>1, <1>2, RestsOnStays DEF CallOf
<1>. QED  BY <1>1, <1>3, <1>4 DEF CallOf, Reading

\* A call that answers, with a verdict that rests on what was read at time t and after it.
LEMMA Answers ==
  ASSUME CacheInv, [Next]_vars, UNCHANGED acked, NEW c \in Calls,
         NEW pol, NEW held \in SUBSET Roles, NEW t \in Int, NEW late \in BOOLEAN,
         PolKept(pol, Roles, t, late), HeldKept(held, t, late),
         call'[c].pc = "done", call'[c].verdict = Decide(pol, held),
         call'[c].late = late, call'[c].from - Ttl < t, -1 < t,
         ~late => call'[c].need = acked
  PROVE  CallOf(c)'
<1>1. TypeOK /\ call' \in [Calls -> Call]
  BY StepType DEF CacheInv, TypeOK
<1>2. call'[c].from - Ttl \in Int /\ call'[c].need \in Int /\ acked \in Int
  BY <1>1, RbacAssumption DEF Call, Time, Version, TypeOK
<1>3. RestsOn(Decide(pol, held), call'[c].from - Ttl, 0)
  BY <1>1, <1>2, DecideRests
<1>4. ~late => RestsOn(Decide(pol, held), -1, acked)
  BY <1>1, <1>2, DecideRests
<1>5. RestsOn(call[c].verdict, call[c].from - Ttl, 0)'
  BY <1>1, <1>2, <1>3, RestsOnStays
<1>6. (~call[c].late => RestsOn(call[c].verdict, -1, call[c].need))'
  BY <1>1, <1>2, <1>4, RestsOnStays
<1>. QED  BY <1>5, <1>6 DEF CallOf, Reading

\* What a step of a call has to go on.
LEMMA CallContext ==
  ASSUME CacheInv, NEW c \in Calls, CallStep(c)
  PROVE  /\ [Next]_vars /\ TypeOK /\ TypeOK' /\ NowIsLast /\ CallOf(c) /\ CacheKept
         /\ Quiet /\ acked' = acked /\ call \in [Calls -> Call] /\ call[c] \in Call
         /\ now \in Int /\ Ttl \in Int /\ Ttl <= now /\ call[c].from \in Int
         /\ call[c].from <= now /\ call[c].late \in BOOLEAN /\ call[c].need \in Int
<1>1. [Next]_vars
  BY DEF CallStep, Next
<1>2. TypeOK /\ TypeOK'
  BY <1>1, StepType DEF CacheInv
<1>3. CallOf(c) /\ NowIsLast /\ CacheKept
  BY CallOfAll DEF CacheInv
<1>4. call \in [Calls -> Call] /\ call[c] \in Call /\ now \in Int /\ Ttl <= now /\ Ttl \in Int
  BY <1>2, RbacAssumption DEF TypeOK, Time
<1>5. call[c].from \in Int /\ call[c].from <= now /\ call[c].late \in BOOLEAN
      /\ call[c].need \in Int
  BY <1>2, <1>4, RbacAssumption DEF TypeOK, Call, Time, Version
<1>6. Quiet /\ acked' = acked
  BY CallStepQuiet DEF Quiet
<1>. QED  BY <1>1, <1>2, <1>3, <1>4, <1>5, <1>6

LEMMA BeginInv ==
  ASSUME CacheInv, NEW c \in Calls, Begin(c)  PROVE CallOf(c)'
<1>. USE RbacAssumption
<1>1. /\ [Next]_vars /\ TypeOK /\ TypeOK' /\ acked' = acked /\ CacheKept
      /\ call \in [Calls -> Call] /\ now \in Int /\ Ttl <= now /\ Ttl \in Int
  BY CallContext DEF CallStep
<1>2. cache \in Cache /\ cache.ts \in Int
  BY <1>1 DEF TypeOK, Cache, Time
<1>3. CASE BeginHit(c)
  <2>1. /\ call'[c].pc = "done" /\ call'[c].from = now /\ call'[c].need = acked
        /\ call'[c].late = cache.late /\ call'[c].verdict = Decide(cache.pol, cache.held)
    BY <1>1, <1>3 DEF BeginHit, NoCall
  <2>2. now - Ttl < cache.ts /\ cache.ts > 0
    BY <1>1, <1>2, <1>3 DEF BeginHit, Fresh
  <2>3. /\ PolKept(cache.pol, Roles, cache.ts, cache.late)
        /\ HeldKept(cache.held, cache.ts, cache.late)
    BY <1>1, <2>2 DEF CacheKept
  <2>4. cache.held \in SUBSET Roles /\ cache.late \in BOOLEAN
    BY <1>2 DEF Cache
  <2>5. /\ call'[c].from - Ttl < cache.ts /\ -1 < cache.ts
    BY <2>1, <2>2, <1>2
  <2>. QED  BY <1>1, <1>2, <2>1, <2>3, <2>4, <2>5, Answers
<1>4. CASE BeginRead(c)
  <2>1. /\ call'[c].pc = "list" /\ call'[c].need = acked /\ call'[c].pol = NoPolicies
    BY <1>1, <1>4 DEF BeginRead, NoCall
  <2>. QED  BY <1>1, <2>1 DEF CallOf
<1>5. BeginHit(c) \/ BeginRead(c)
  BY DEF Begin
<1>. QED  BY <1>3, <1>4, <1>5

LEMMA ListRolesInv ==
  ASSUME CacheInv, NEW c \in Calls, ListRoles(c)  PROVE CallOf(c)'
<1>1. /\ [Next]_vars /\ TypeOK /\ NowIsLast /\ acked' = acked /\ CallOf(c)
      /\ call \in [Calls -> Call] /\ call[c] \in Call /\ now \in Int /\ call[c].from <= now
      /\ call[c].from \in Int /\ call[c].late \in BOOLEAN
  BY CallContext DEF CallStep
<1>2. /\ call[c].pc = "list" /\ call[c].pol = NoPolicies
      /\ call[c].late \/ call[c].need = acked
  BY <1>1 DEF ListRoles, CallOf, Reading
<1>3. /\ call'[c].pc = (IF exists = {} THEN "assignments" ELSE "policies")
      /\ call'[c].todo = exists /\ call'[c].pol = NoPolicies
      /\ call'[c].from = call[c].from /\ call'[c].late = call[c].late
      /\ call'[c].need = call[c].need
  BY <1>1, <1>2 DEF ListRoles, Call
<1>4. \A r \in Roles \ exists : Fact(r, "lack", policies, until, now)
                                /\ Fact(r, "free", policies, until, now)
  BY <1>1 DEF TypeOK, Fact
<1>5. PolKept(NoPolicies, Roles \ exists, call[c].from, call[c].late)
  <2>1. {"lack", "free"} \subseteq Facts
    BY DEF Facts
  <2>2. \A r \in Roles \ exists : /\ Kept(r, "lack", call[c].from, call[c].late)
                                  /\ Kept(r, "free", call[c].from, call[c].late)
    BY <1>1, <1>4, <2>1, ReadNow
  <2>. QED  BY <2>2 DEF PolKept, NoPolicies
<1>6. PolKept(call[c].pol, Roles \ call[c].todo, call[c].from, call[c].late)'
  <2>1. Roles \ exists \in SUBSET Roles
    OBVIOUS
  <2>. QED  BY <1>1, <1>3, <1>5, <2>1, PolKeptStays
<1>. QED  BY <1>1, <1>2, <1>3, <1>6 DEF CallOf, Reading

LEMMA ReadPoliciesInv ==
  ASSUME CacheInv, NEW c \in Calls, ReadPolicies(c)  PROVE CallOf(c)'
<1>1. /\ [Next]_vars /\ TypeOK /\ NowIsLast /\ acked' = acked /\ CallOf(c)
      /\ call \in [Calls -> Call] /\ call[c] \in Call /\ now \in Int /\ call[c].from <= now
      /\ call[c].from \in Int /\ call[c].late \in BOOLEAN
  BY CallContext DEF CallStep
<1>2. PICK r \in call[c].todo :
        call' = [call EXCEPT
          ![c].pc = IF call[c].todo = {r} THEN "assignments" ELSE "policies",
          ![c].todo = call[c].todo \ {r},
          ![c].pol = [call[c].pol EXCEPT ![r] = policies[r]]]
  BY DEF ReadPolicies
<1>. DEFINE pol == [call[c].pol EXCEPT ![r] = policies[r]]
            todo == call[c].todo \ {r}
<1>3. /\ call'[c].pc = (IF call[c].todo = {r} THEN "assignments" ELSE "policies")
      /\ call'[c].todo = todo /\ call'[c].pol = pol
      /\ call'[c].from = call[c].from /\ call'[c].late = call[c].late
      /\ call'[c].need = call[c].need
  BY <1>1, <1>2 DEF Call
<1>4. /\ call[c].late \/ call[c].need = acked
      /\ PolKept(call[c].pol, Roles \ call[c].todo, call[c].from, call[c].late)
  BY <1>1 DEF ReadPolicies, CallOf, Reading
<1>5. r \in Roles /\ call[c].pol \in [Roles -> SUBSET Effects] /\ call[c].todo \in SUBSET Roles
  BY <1>1 DEF Call, Policies
<1>6. /\ "allow" \in policies[r] => Kept(r, "allow", call[c].from, call[c].late)
      /\ "allow" \notin policies[r] => Kept(r, "lack", call[c].from, call[c].late)
      /\ "deny" \in policies[r] => Kept(r, "deny", call[c].from, call[c].late)
      /\ "deny" \notin policies[r] => Kept(r, "free", call[c].from, call[c].late)
  <2>1. {"allow", "lack", "deny", "free"} \subseteq Facts
    BY DEF Facts
  <2>2. /\ "allow" \in policies[r] => Fact(r, "allow", policies, until, now)
        /\ "allow" \notin policies[r] => Fact(r, "lack", policies, until, now)
        /\ "deny" \in policies[r] => Fact(r, "deny", policies, until, now)
        /\ "deny" \notin policies[r] => Fact(r, "free", policies, until, now)
    BY DEF Fact
  <2>. QED  BY <1>1, <1>5, <2>1, <2>2, ReadNow
<1>7. PolKept(pol, Roles \ todo, call[c].from, call[c].late)
  <2>1. pol[r] = policies[r] /\ \A s \in Roles \ {r} : pol[s] = call[c].pol[s]
    BY <1>5
  <2>2. \A s \in Roles \ todo : s = r \/ s \in (Roles \ call[c].todo) \ {r}
    OBVIOUS
  <2>. HIDE DEF pol, todo
  <2>. QED  BY <1>4, <1>6, <2>1, <2>2 DEF PolKept
<1>. HIDE DEF pol
<1>8. PolKept(call[c].pol, Roles \ call[c].todo, call[c].from, call[c].late)'
  <2>1. Roles \ todo \in SUBSET Roles
    OBVIOUS
  <2>. QED  BY <1>1, <1>3, <1>7, <2>1, PolKeptStays
<1>9. call'[c].pc = "assignments" => call'[c].todo = {}
  BY <1>3
<1>. QED  BY <1>1, <1>3, <1>4, <1>8, <1>9 DEF CallOf, Reading

LEMMA ReadAssignmentsInv ==
  ASSUME CacheInv, NEW c \in Calls, ReadAssignments(c)  PROVE CallOf(c)' /\ CacheKept'
<1>. DEFINE held == {r \in Roles : until[r] >= now}
<1>1. /\ [Next]_vars /\ TypeOK /\ NowIsLast /\ acked' = acked /\ CallOf(c)
      /\ call \in [Calls -> Call] /\ call[c] \in Call /\ now \in Int /\ call[c].from <= now
      /\ call[c].from \in Int /\ call[c].late \in BOOLEAN
  BY CallContext DEF CallStep
<1>2. /\ call'[c].pc = "done" /\ call'[c].verdict = Decide(call[c].pol, held)
      /\ call'[c].from = call[c].from /\ call'[c].late = call[c].late
      /\ call'[c].need = call[c].need
  BY <1>1 DEF ReadAssignments, Call
<1>3. /\ call[c].late \/ call[c].need = acked
      /\ PolKept(call[c].pol, Roles, call[c].from, call[c].late)
  <2>1. call[c].pc = "assignments"
    BY DEF ReadAssignments
  <2>2. Roles \ {} = Roles
    OBVIOUS
  <2>. QED  BY <1>1, <2>1, <2>2 DEF CallOf, Reading
<1>4. HeldKept(held, call[c].from, call[c].late)
  <2>1. {"held", "lack", "free"} \subseteq Facts
    BY DEF Facts
  <2>2. \A r \in Roles :
          /\ r \in held => Fact(r, "held", policies, until, now)
          /\ r \notin held => Fact(r, "lack", policies, until, now)
                              /\ Fact(r, "free", policies, until, now)
    BY DEF Fact
  <2>. HIDE DEF held
  <2>. QED  BY <1>1, <2>1, <2>2, ReadNow DEF HeldKept
<1>5. held \in SUBSET Roles
  OBVIOUS
<1>6. cache' = [ts |-> call[c].from, pol |-> call[c].pol, held |-> held, late |-> call[c].late]
  BY DEF ReadAssignments, Install
<1>. HIDE DEF held
<1>7. call[c].from - Ttl < call[c].from /\ -1 < call[c].from
  BY <1>1, RbacAssumption DEF Call, Time
<1>8. CallOf(c)'
  BY <1>1, <1>2, <1>3, <1>4, <1>5, <1>7, Answers
<1>9. CacheKept'
  <2>1. /\ cache'.ts = call[c].from /\ cache'.pol = call[c].pol
        /\ cache'.held = held /\ cache'.late = call[c].late
    BY <1>6
  <2>2. PolKept(cache.pol, Roles, cache.ts, cache.late)'
    BY <1>1, <1>3, <2>1, PolKeptStays
  <2>3. HeldKept(cache.held, cache.ts, cache.late)'
    BY <1>1, <1>4, <2>1, HeldKeptStays
  <2>. QED  BY <2>2, <2>3 DEF CacheKept
<1>. QED  BY <1>8, <1>9

\* A copy nobody replaces or drops stays good.
LEMMA CacheStays ==
  ASSUME CacheInv, [Next]_vars, UNCHANGED <<cache, acked>>  PROVE CacheKept'
<1>1. TypeOK /\ CacheKept /\ cache.ts \in Int /\ cache.late \in BOOLEAN
  BY RbacAssumption DEF CacheInv, TypeOK, Cache, Time
<1>2. cache.ts > 0 => PolKept(cache.pol, Roles, cache.ts, cache.late)'
  BY <1>1, PolKeptStays DEF CacheKept
<1>3. cache.ts > 0 => HeldKept(cache.held, cache.ts, cache.late)'
  BY <1>1, HeldKeptStays DEF CacheKept
<1>. QED  BY <1>2, <1>3 DEF CacheKept

LEMMA CallStepInv ==
  ASSUME CacheInv, NEW c \in Calls, CallStep(c)
  PROVE  CacheKept' /\ \A d \in Calls : CallOf(d)'
<1>1. [Next]_vars /\ acked' = acked /\ call \in [Calls -> Call]
  BY CallContext
<1>2. ASSUME NEW d \in Calls, d # c  PROVE call'[d] = call[d]
  BY <1>1, <1>2 DEF CallStep, Begin, BeginHit, BeginRead, ListRoles, ReadPolicies,
     ReadAssignments, Fails
<1>3. \A d \in Calls : d # c => CallOf(d)'
  BY <1>1, <1>2, OtherCall
<1>4. CASE Fails(c)
  <2>1. call'[c].pc = "idle"
    BY <1>1, <1>4 DEF Fails, NoCall
  <2>2. CallOf(c)'
    BY <2>1 DEF CallOf, Reading
  <2>3. CacheKept'
    BY <1>1, <1>4, CacheStays DEF Fails
  <2>. QED  BY <1>3, <2>2, <2>3
<1>5. CASE Begin(c)
  BY <1>1, <1>3, <1>5, BeginInv, CacheStays DEF Begin
<1>6. CASE ListRoles(c)
  BY <1>1, <1>3, <1>6, ListRolesInv, CacheStays DEF ListRoles
<1>7. CASE ReadPolicies(c)
  BY <1>1, <1>3, <1>7, ReadPoliciesInv, CacheStays DEF ReadPolicies
<1>8. CASE ReadAssignments(c)
  BY <1>3, <1>8, ReadAssignmentsInv
<1>. QED  BY <1>4, <1>5, <1>6, <1>7, <1>8 DEF CallStep

LEMMA InvalidateInv ==
  ASSUME CacheInv, NEW v \in owing, Invalidate(v)
  PROVE  CacheKept' /\ \A c \in Calls : CallOf(c)'
<1>1. [Next]_vars /\ TypeOK /\ call \in [Calls -> Call] /\ cache \in Cache
  BY DEF CacheInv, Next, TypeOK
<1>2. cache'.ts = 0
  BY <1>1 DEF Invalidate, Cache
<1>3. ASSUME NEW c \in Calls  PROVE CallOf(c)'
  <2>1. CallOf(c) /\ call[c] \in Call
    BY <1>1, CallOfAll DEF CacheInv
  <2>2. /\ call'[c].pc = call[c].pc /\ call'[c].from = call[c].from
        /\ call'[c].todo = call[c].todo /\ call'[c].pol = call[c].pol
        /\ call'[c].need = call[c].need /\ call'[c].verdict = call[c].verdict
        /\ call'[c].late = (call[c].late \/ Reading(c))
    BY <2>1 DEF Invalidate, Call, Reading
  <2>3. /\ call[c].from \in Int /\ call[c].need \in Int /\ call[c].late \in BOOLEAN
        /\ call'[c].late \in BOOLEAN /\ call[c].from - Ttl \in Int
        /\ Roles \ call[c].todo \in SUBSET Roles
    BY <2>1, <2>2, RbacAssumption DEF Call, Time, Version, Reading
  <2>4. CASE Reading(c)
    <3>1. call'[c].late = TRUE
      BY <2>2, <2>4
    <3>2. call[c].pc \in {"policies", "assignments"} =>
            PolKept(call[c].pol, Roles \ call[c].todo, call[c].from, call[c].late)'
      <4>1. ASSUME call[c].pc \in {"policies", "assignments"}
            PROVE  PolKept(call[c].pol, Roles \ call[c].todo, call[c].from, call[c].late)
        BY <2>1, <4>1 DEF CallOf
      <4>. QED  BY <1>1, <2>2, <2>3, <3>1, <4>1, PolKeptStays
    <3>. QED  BY <2>1, <2>2, <2>4, <3>1, <3>2 DEF CallOf, Reading
  <2>5. CASE ~Reading(c)
    <3>1. call'[c].late = call[c].late
      BY <2>2, <2>3, <2>5
    <3>2. call[c].pc = "done" =>
            /\ RestsOn(call[c].verdict, call[c].from - Ttl, 0)'
            /\ (~call[c].late => RestsOn(call[c].verdict, -1, call[c].need)')
      BY <1>1, <2>1, <2>2, <2>3, <3>1, RestsOnStays DEF CallOf
    <3>. QED  BY <2>1, <2>2, <2>5, <3>1, <3>2 DEF CallOf, Reading
  <2>. QED  BY <2>4, <2>5
<1>. QED  BY <1>2, <1>3 DEF CacheKept

LEMMA CacheInvStep == CacheInv /\ [Next]_vars => CacheInv'
<1>. SUFFICES ASSUME CacheInv, [Next]_vars  PROVE CacheInv'
  OBVIOUS
<1>1. TypeOK' /\ NowIsLast'
  BY StepType, NowIsLastStep DEF CacheInv
<1>2. CacheKept' /\ \A c \in Calls : CallOf(c)'
  <2>1. CASE UNCHANGED vars
    BY <2>1, OtherCall, CacheStays DEF vars
  <2>2. CASE \E c \in Calls : CallStep(c)
    BY <2>2, CallStepInv
  <2>3. CASE WorldStep
    BY <2>3, OtherCall, CacheStays DEF WorldStep
  <2>4. CASE \E v \in owing : Invalidate(v)
    BY <2>4, InvalidateInv
  <2>. QED  BY <2>1, <2>2, <2>3, <2>4, StepKinds
<1>3. (NeedIsAcked /\ ReadKept /\ AnswerIsRecent /\ AckedIsSeen)'
  BY <1>2, CallOfAll DEF CallOf, NeedIsAcked, ReadKept, AnswerIsRecent, AckedIsSeen
<1>. QED  BY <1>1, <1>2, <1>3 DEF CacheInv

-----------------------------------------------------------------------------
(* Theorems                                                                *)

\* Every variable has its type, the owed cache drops are of changes made, and the history
\* knows of nothing later than the clock and the newest change.
THEOREM TypeCorrect == Spec => []TypeOK
BY InitType, StepType, PTL DEF Spec

\* For any roles, calls and length of _cache_ttl, and whatever changes between the queries
\* of a refresh: an answer rests on roles and policies that were in the tables less than
\* _cache_ttl before the call began.
THEOREM AnswersAreRecent == Spec => []AnswerIsRecent
<1>1. CacheInv => AnswerIsRecent
  BY DEF CacheInv
<1>. QED  BY <1>1, InitInv, CacheInvStep, PTL DEF Spec

\* The change of a tool that has dropped the cache is in the tables an answer to a later
\* call rests on, except in the copy of a refresh that was under way when it was dropped.
THEOREM AcknowledgedIsSeen == Spec => []AckedIsSeen
<1>1. CacheInv => AckedIsSeen
  BY DEF CacheInv
<1>. QED  BY <1>1, InitInv, CacheInvStep, PTL DEF Spec
=============================================================================
