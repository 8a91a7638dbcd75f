------------------------------ MODULE RbacCache ------------------------------
(***************************************************************************)
(* Access decisions of bot/rbac: roles, policies and assignments live in    *)
(* SQLite; PolicyEngine answers from a copy of them that is at most _cache_ttl *)
(* old.  A call that finds the copy too old reads the tables again, with an *)
(* await before each query, while other calls read them too and tools change *)
(* them; a tool drops the copy when its change has been committed.          *)
(*                                                                         *)
(* The model is about one subject and one privilege on one object: of the  *)
(* policies only those that match the request are kept, and the roles of   *)
(* the user, the teams and the chat of the subject are one set.            *)
(*                                                                         *)
(* A definition that directly precedes another one and is used nowhere is  *)
(* a mutant of it: the same code with a plausible mistake.                 *)
(***************************************************************************)
EXTENDS Integers, FiniteSets

CONSTANTS
  Roles,       \* role ids, numbered in the order list_roles sorts them
  Builtin,     \* the roles delete_role refuses to delete
  Calls,       \* check_access calls under way at once
  Ttl,         \* _cache_ttl in ticks
  MaxTime,     \* bound on the clock
  MaxChanges   \* bound on the changes of the tables

ASSUME RbacAssumption ==
  /\ Roles \subseteq Int /\ Builtin \subseteq Roles
  /\ Ttl \in Nat \ {0} /\ MaxTime \in Nat /\ Ttl <= MaxTime /\ MaxChanges \in Nat

VARIABLES
  now,       \* the clock; ticks before Ttl stand for the past _cache_ts = 0 is in
  exists,    \* rbac_roles
  policies,  \* rbac_policies: the effects of a role's policies for the request
  until,     \* rbac_assignments: when a role's assignment expires, None without one
  cache,     \* _role_policies, _subject_roles, _cache_ts
  call,      \* the calls of check_access
  owing,     \* changes committed whose tool has still to drop the cache
  version,   \* history: how many changes have been committed
  acked,     \* history: the newest change whose tool has dropped the cache
  last       \* history: when, and at which version, each fact was last true

tables == <<exists, policies, until>>
vars == <<now, tables, cache, call, owing, version, acked, last>>

-----------------------------------------------------------------------------
Time == 0..MaxTime
None == -1
Forever == MaxTime + 1
Effects == {"allow", "deny"}
Facts == {"held", "allow", "deny", "lack", "free"}
Policies == [Roles -> SUBSET Effects]
Version == 0..MaxChanges

\* late: the cache was dropped while these tables were read.
Cache == [ts : Time, pol : Policies, held : SUBSET Roles, late : BOOLEAN]

\* from: when the call began.  need: acked at that time.  todo: the listed roles whose
\* policies are still to be read into pol.
Call == [pc : {"idle", "list", "policies", "assignments", "done"}, from : Time,
         todo : SUBSET Roles, pol : Policies, need : Version, late : BOOLEAN,
         verdict : {"none", "allow", "deny"}]
NoPolicies == [r \in Roles |-> {}]
NoCall == [pc |-> "idle", from |-> 0, todo |-> {}, pol |-> NoPolicies, need |-> 0,
           late |-> FALSE, verdict |-> "none"]

\* lack: the role allows nothing, because it is not held or has no such policy.
\* free: nor does it deny anything.
Fact(r, f, pol, expiry, time) ==
  LET held == expiry[r] >= time
  IN CASE f = "held" -> held
       [] f = "allow" -> "allow" \in pol[r]
       [] f = "deny" -> "deny" \in pol[r]
       [] f = "lack" -> ~held \/ "allow" \notin pol[r]
       [] f = "free" -> ~held \/ "deny" \notin pol[r]
Remember ==
  last' = [r \in Roles |-> [f \in Facts |->
             IF Fact(r, f, policies', until', now') THEN [at |-> now', ver |-> version']
                                                    ELSE last[r][f]]]

\* The seeded roles with their policies, some of them assigned for good.
Init ==
  /\ now = Ttl /\ exists = Builtin
  /\ policies \in Policies /\ \A r \in Roles \ Builtin : policies[r] = {}
  /\ until \in [Roles -> {None, Forever}] /\ \A r \in Roles \ Builtin : until[r] = None
  /\ cache = [ts |-> 0, pol |-> NoPolicies, held |-> {}, late |-> FALSE]
  /\ call = [c \in Calls |-> NoCall] /\ owing = {} /\ version = 0 /\ acked = 0
  /\ last = [r \in Roles |-> [f \in Facts |->
               [at |-> IF Fact(r, f, policies, until, now) THEN now ELSE 0, ver |-> 0]]]

-----------------------------------------------------------------------------
(* check_access                                                            *)

\* A deny of any role wins; without an allow the answer is no.
Decide(pol, held) ==
  IF (\A r \in held : "deny" \notin pol[r]) /\ (\E r \in held : "allow" \in pol[r])
  THEN "allow" ELSE "deny"

\* The copy answers at once while it is young enough; otherwise the tables are read again,
\* even when another call is reading them already.
Fresh == now - cache.ts < Ttl

BeginHit(c) ==
  /\ Fresh
  /\ call' = [call EXCEPT ![c] =
       [NoCall EXCEPT !.pc = "done", !.from = now, !.need = acked, !.late = cache.late,
                      !.verdict = Decide(cache.pol, cache.held)]]
BeginRead(c) ==
  /\ ~Fresh
  /\ call' = [call EXCEPT ![c] = [NoCall EXCEPT !.pc = "list", !.from = now, !.need = acked]]
Begin(c) ==
  /\ call[c].pc \in {"idle", "done"}
  /\ BeginHit(c) \/ BeginRead(c)
  /\ UNCHANGED <<now, tables, cache, owing, version, acked, last>>

ListRoles(c) ==
  /\ call[c].pc = "list"
  /\ call' = [call EXCEPT ![c].pc = IF exists = {} THEN "assignments" ELSE "policies",
                          ![c].todo = exists]
  /\ UNCHANGED <<now, tables, cache, owing, version, acked, last>>

ReadPolicies(c) ==
  /\ call[c].pc = "policies"
  /\ \E r \in call[c].todo :
       /\ \A s \in call[c].todo : r <= s
       /\ call' = [call EXCEPT
            ![c].pc = IF call[c].todo = {r} THEN "assignments" ELSE "policies",
            ![c].todo = call[c].todo \ {r},
            ![c].pol = [call[c].pol EXCEPT ![r] = policies[r]]]
  /\ UNCHANGED <<now, tables, cache, owing, version, acked, last>>

\* The last query, the installation of what was read and the decision: nothing is awaited
\* between them.  The copy counts as read when the call began.
InstallNow(c, held) ==
  cache' = [ts |-> now, pol |-> call[c].pol, held |-> held, late |-> call[c].late]
Install(c, held) ==
  cache' = [ts |-> call[c].from, pol |-> call[c].pol, held |-> held, late |-> call[c].late]
ReadAssignments(c) ==
  /\ call[c].pc = "assignments"
  /\ LET held == {r \in Roles : until[r] >= now}
     IN /\ Install(c, held)
        /\ call' = [call EXCEPT ![c].pc = "done", ![c].pol = NoPolicies,
                                ![c].verdict = Decide(call[c].pol, held)]
  /\ UNCHANGED <<now, tables, owing, version, acked, last>>

\* A query raises: the caller (hooks.py) refuses the tool, nothing is installed.
Fails(c) ==
  /\ call[c].pc \in {"list", "policies", "assignments"}
  /\ call' = [call EXCEPT ![c] = NoCall]
  /\ UNCHANGED <<now, tables, cache, owing, version, acked, last>>

-----------------------------------------------------------------------------
(* Changes of the tables                                                   *)

\* The tool that made the change drops the cache after the commit; onboarding and the seed
\* assign roles without dropping it.
Changed(drops) ==
  /\ version < MaxChanges /\ version' = version + 1
  /\ owing' = IF drops THEN owing \cup {version'} ELSE owing
  /\ UNCHANGED <<now, cache, call, acked>> /\ Remember

CreateRole(r) ==
  /\ r \notin exists /\ exists' = exists \cup {r}
  /\ UNCHANGED <<policies, until>> /\ Changed(TRUE)
\* Its policies and assignments go with it (ON DELETE CASCADE).
DeleteRole(r) ==
  /\ r \in exists \ Builtin /\ exists' = exists \ {r}
  /\ policies' = [policies EXCEPT ![r] = {}] /\ until' = [until EXCEPT ![r] = None]
  /\ Changed(TRUE)
AddPolicy(r, e) ==
  /\ r \in exists /\ policies' = [policies EXCEPT ![r] = @ \cup {e}]
  /\ UNCHANGED <<exists, until>> /\ Changed(TRUE)
RemovePolicy(r, e) ==
  /\ e \in policies[r] /\ policies' = [policies EXCEPT ![r] = @ \ {e}]
  /\ UNCHANGED <<exists, until>> /\ Changed(TRUE)
AssignRole(r, expiry, drops) ==
  /\ r \in exists /\ until' = [until EXCEPT ![r] = expiry]
  /\ UNCHANGED <<exists, policies>> /\ Changed(drops)
RevokeRole(r) ==
  /\ until[r] # None /\ until' = [until EXCEPT ![r] = None]
  /\ UNCHANGED <<exists, policies>> /\ Changed(TRUE)

Newer(v) == IF v > acked THEN v ELSE acked
InvalidateKeeps(v) ==
  /\ v \in owing /\ owing' = owing \ {v} /\ acked' = Newer(v)
  /\ call' = [c \in Calls |->
       [call[c] EXCEPT !.late = @ \/ call[c].pc \in {"list", "policies", "assignments"}]]
  /\ UNCHANGED <<now, tables, cache, version, last>>

\* Reads in progress go on and install what they have read.
Invalidate(v) ==
  /\ v \in owing /\ owing' = owing \ {v} /\ acked' = Newer(v)
  /\ cache' = [cache EXCEPT !.ts = 0]
  /\ call' = [c \in Calls |->
       [call[c] EXCEPT !.late = @ \/ call[c].pc \in {"list", "policies", "assignments"}]]
  /\ UNCHANGED <<now, tables, version, last>>

Tick ==
  /\ now < MaxTime /\ now' = now + 1
  /\ UNCHANGED <<tables, cache, call, owing, version, acked>> /\ Remember

Next ==
  \/ \E c \in Calls : Begin(c) \/ ListRoles(c) \/ ReadPolicies(c) \/ ReadAssignments(c) \/ Fails(c)
  \/ \E r \in Roles : CreateRole(r) \/ DeleteRole(r) \/ RevokeRole(r)
  \/ \E r \in Roles, e \in Effects : AddPolicy(r, e) \/ RemovePolicy(r, e)
  \/ \E r \in Roles, expiry \in {now, Forever}, drops \in BOOLEAN : AssignRole(r, expiry, drops)
  \/ \E v \in owing : Invalidate(v)
  \/ Tick

Spec == Init /\ [][Next]_vars

-----------------------------------------------------------------------------
(* Properties                                                              *)

TypeOK ==
  /\ now \in Time /\ Ttl <= now /\ version \in Version /\ acked \in 0..version
  /\ owing \subseteq 1..version
  /\ exists \in SUBSET Roles /\ policies \in Policies /\ until \in [Roles -> None..Forever]
  /\ \A r \in Roles \ exists : policies[r] = {} /\ until[r] = None
  /\ cache \in Cache /\ cache.ts <= now /\ call \in [Calls -> Call]
  /\ \A c \in Calls : call[c].from <= now /\ call[c].need <= acked
  /\ last \in [Roles -> [Facts -> [at : 0..now, ver : 0..version]]]

\* Role r had fact f after time t, and at version v of the tables or a later one.
Since(r, f, t, v) == last[r][f].at > t /\ last[r][f].ver >= v

\* What a verdict rests on: allow, on a role that was held and allowed and on no role that
\* denied; deny, on a role that was held and denied or on every role lacking an allow.
RestsOn(verdict, t, v) ==
  /\ verdict = "allow" =>
       /\ \E r \in Roles : Since(r, "held", t, v) /\ Since(r, "allow", t, v)
       /\ \A r \in Roles : Since(r, "free", t, v)
  /\ verdict = "deny" =>
       \/ \E r \in Roles : Since(r, "held", t, v) /\ Since(r, "deny", t, v)
       \/ \A r \in Roles : Since(r, "lack", t, v)

\* Whatever other calls and tools do meanwhile, the roles and policies an answer rests on
\* were in the tables less than _cache_ttl before the call (a revoked or expired role, a
\* new deny, are honoured after that).
AnswerIsRecent ==
  \A c \in Calls : call[c].pc = "done" => RestsOn(call[c].verdict, call[c].from - Ttl, 0)

\* A call made after a tool has dropped the cache rests on tables that had the tool's change,
\* except when the copy it is answered from was being read while the cache was dropped.
AckedIsSeen ==
  \A c \in Calls : call[c].pc = "done" /\ ~call[c].late =>
    RestsOn(call[c].verdict, -1, call[c].need)

\* The comment of rbac_tools._invalidate_cache: changes take effect immediately.
TakesEffect ==
  \A c \in Calls : call[c].pc = "done" => RestsOn(call[c].verdict, -1, call[c].need)
=============================================================================
