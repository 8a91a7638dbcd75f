-------------------------- MODULE ClientPoolProofs --------------------------
(***************************************************************************)
(* Proofs about ClientPool, for any number of chats and system tasks and   *)
(* any bounds on conversations, settings and caps.                         *)
(***************************************************************************)
EXTENDS ClientPool, SequenceTheorems, TLAPS

-----------------------------------------------------------------------------
(* Type correctness                                                        *)

\* What the bounds say of the smallest values.
LEMMA Bounds ==
  PoolAssumption => /\ 0 \in Sid /\ 0 \in 0..MaxCfg /\ 0 \in 0..MaxCap
                    /\ Default \in 0..MaxCap
BY DEF PoolAssumption, Sid, Default

\* The teardowns of the code are plans.
LEMMA PlanTypes ==
  /\ Disconnect \in Plans /\ Reset \in Plans /\ << >> \in Plans
  /\ <<"close", "forget">> \in Plans /\ <<"close", "uncap">> \in Plans
  /\ <<"forget">> \in Plans
BY DEF Plans, Disconnect, Reset, Steps

\* A plan is worked off from its head.
LEMMA PlanStep ==
  ASSUME NEW p \in Plans, p # << >>
  PROVE  Head(p) \in Steps /\ Tail(p) \in Plans
BY DEF Plans

LEMMA NoQueryType == PoolAssumption => NoQuery \in Query
BY PlanTypes, Bounds DEF NoQuery, Query, Pc

LEMMA NoClientType == PoolAssumption => NoClient \in Client
BY Bounds DEF NoClient, Client

\* The updates of a query that keep its type.
LEMMA QueryGoes ==
  ASSUME NEW q \in Query, NEW p \in Pc, NEW s \in Sid
  PROVE  /\ [q EXCEPT !.pc = p] \in Query
         /\ [q EXCEPT !.pc = p, !.again = FALSE] \in Query
         /\ [q EXCEPT !.sid = s, !.pc = p] \in Query
         /\ [q EXCEPT !.pc = p, !.sid = s] \in Query
BY DEF Query
LEMMA QueryTears ==
  ASSUME NEW q \in Query, NEW s \in Sid, NEW p \in Pc, NEW t \in Plans, NEW n \in Pc
  PROVE  /\ [q EXCEPT !.pc = p, !.todo = t, !.next = n] \in Query
         /\ [q EXCEPT !.sid = s, !.pc = p, !.todo = t, !.next = n] \in Query
         /\ [q EXCEPT !.sid = s, !.again = TRUE, !.pc = p, !.todo = t, !.next = n] \in Query
         /\ [q EXCEPT !.pc = p, !.todo = t] \in Query
         /\ [q EXCEPT !.todo = t] \in Query
BY DEF Query
LEMMA QueryServes ==
  ASSUME NEW q \in Query, NEW p \in Pc, NEW s \in Sid, NEW g \in 0..MaxCfg, NEW c \in 0..MaxCap
  PROVE  /\ [q EXCEPT !.pc = p, !.sid = s, !.cfg = g, !.cap = c] \in Query
         /\ [q EXCEPT !.pc = p, !.cfg = g, !.cap = c] \in Query
BY DEF Query
LEMMA QueryPromised ==
  ASSUME NEW q \in Query, NEW p \in Pc, NEW g \in 0..MaxCfg, NEW h \in 0..MaxCfg, NEW c \in 0..MaxCap
  PROVE  [q EXCEPT !.pc = p, !.needCfg = g, !.needSeen = h, !.needCap = c] \in Query
BY DEF Query
LEMMA QueryLoses ==
  ASSUME NEW q \in Query, NEW c \in 0..MaxCap, NEW m \in {"ok", "popped", "closed"}
  PROVE  /\ [q EXCEPT !.needCap = c, !.mine = m] \in Query
         /\ [q EXCEPT !.mine = m] \in Query
BY DEF Query

\* And those of a client.
LEMMA ClientChanges ==
  ASSUME NEW c \in Client, NEW u \in {"none", "live", "dead"}, NEW s \in Sid
  PROVE  /\ [c EXCEPT !.up = u, !.unread = FALSE] \in Client
         /\ [c EXCEPT !.unread = FALSE] \in Client
         /\ [c EXCEPT !.unread = TRUE] \in Client
         /\ [c EXCEPT !.sid = s] \in Client
BY DEF Client

\* A mishap keeps the type of the history, and says so of what was not given up.
LEMMA MishapType ==
  ASSUME TypeOK, NEW K, NEW why \in Mishaps, Mishap(K, why)
  PROVE  /\ lapse' \in [Keys -> Mishaps]
         /\ \A c \in Keys : lapse'[c] = IF c \in K /\ owed[c] # 0 THEN why ELSE lapse[c]
BY DEF TypeOK, Mishap

\* A conversation the subprocess reports keeps the types.
LEMMA ReportType ==
  ASSUME PoolAssumption, TypeOK, NEW k \in Keys, NEW sid \in Sid, NEW pc \in Pc,
         Report(k, sid, pc)
  PROVE  /\ client' \in [Keys -> Client] /\ query' \in [Keys -> Query]
         /\ saved' \in [Keys -> Sid] /\ files' \subseteq Sid /\ sids' \in Sid
         /\ owed' \in [Keys -> Sid] /\ lapse' \in [Keys -> Mishaps] /\ doomed' \subseteq Keys
<1>1. [query[k] EXCEPT !.sid = sid, !.pc = pc] \in Query /\ [client[k] EXCEPT !.sid = sid] \in Client
  BY QueryGoes, ClientChanges DEF TypeOK
<1>. QED  BY <1>1, Bounds DEF TypeOK, Report, Set, Mishaps
LEMMA StartedType == ASSUME PoolAssumption, TypeOK PROVE Started \subseteq Sid
BY DEF PoolAssumption, TypeOK, Started, Sid

\* The rest of a teardown keeps the types.
LEMMA QueryStepType ==
  ASSUME PoolAssumption, TypeOK, NEW k \in Keys, QueryStep(k), query[k].todo # << >>
  PROVE  TypeOK'
<1>1. query[k] \in Query /\ query[k].next \in Pc /\ query[k].todo \in Plans
  BY DEF TypeOK, Query
<1>2. Tail(query[k].todo) \in Plans
  BY <1>1, PlanStep
<1>3. /\ [query[k] EXCEPT !.todo = Tail(query[k].todo)] \in Query
      /\ [query[k] EXCEPT !.pc = query[k].next, !.todo = << >>] \in Query
  BY <1>1, <1>2, PlanTypes, QueryTears, Bounds
<1>4. query' \in [Keys -> Query]
  BY <1>3, NoQueryType DEF TypeOK, QueryStep, Set
<1>. QED  BY <1>4, Bounds DEF TypeOK, QueryStep, Step, Set, pending, kept, hist

LEMMA BeginChatType == ASSUME PoolAssumption, TypeOK, NEW k \in Keys, BeginChat(k) PROVE TypeOK'
<1>1. [NoQuery EXCEPT !.pc = "setup", !.needCfg = promised[k],
                          !.needSeen = announced[k], !.needCap = granted[k]] \in Query
  BY NoQueryType, QueryPromised DEF TypeOK, Pc
<1>. QED  BY <1>1 DEF TypeOK, BeginChat, store, pending, kept, hist, Set

LEMMA BeginSystemType == ASSUME PoolAssumption, TypeOK, NEW k \in Keys, BeginSystem(k) PROVE TypeOK'
<1>1. [query[k] EXCEPT !.pc = "tear", !.todo = Disconnect, !.next = "enter"] \in Query
  BY PlanTypes, QueryTears DEF TypeOK, Pc
<1>. QED  BY <1>1, NoClientType, Bounds DEF TypeOK, BeginSystem, store, pending, kept, hist,
    Teardown, Set

LEMMA EnterSystemType == ASSUME PoolAssumption, TypeOK, NEW k \in Keys, EnterSystem(k) PROVE TypeOK'
<1>1. [query[k] EXCEPT !.pc = "setup"] \in Query
  BY QueryGoes DEF TypeOK, Pc
<1>. QED  BY <1>1 DEF TypeOK, EnterSystem, store, pending, kept, hist, Goto

LEMMA ReuseType == ASSUME PoolAssumption, TypeOK, NEW k \in Keys, Reuse(k) PROVE TypeOK'
<1>1. client[k].sid \in Sid /\ client[k].cfg \in 0..MaxCfg /\ client[k].cap \in 0..MaxCap
  BY DEF TypeOK, Client
<1>2. [query[k] EXCEPT !.pc = "ready", !.sid = client[k].sid,
                           !.cfg = client[k].cfg, !.cap = client[k].cap] \in Query
  BY <1>1, QueryServes DEF TypeOK, Pc
<1>. QED  BY <1>1, <1>2 DEF TypeOK, Reuse, store, pending, kept, hist

LEMMA DropDeadType == ASSUME PoolAssumption, TypeOK, NEW k \in Keys, DropDead(k) PROVE TypeOK'
<1>1. client[k].sid \in Sid
  BY DEF TypeOK, Client
<1>2. [query[k] EXCEPT !.sid = client[k].sid, !.pc = "tear",
                           !.todo = Disconnect, !.next = "load"] \in Query
  BY <1>1, PlanTypes, QueryTears DEF TypeOK, Pc
<1>. QED  BY <1>1, <1>2, NoClientType DEF TypeOK, DropDead, store, pending, kept, hist, Set

LEMMA LoadSidType == ASSUME PoolAssumption, TypeOK, NEW k \in Keys, LoadSid(k) PROVE TypeOK'
<1>1. \A s \in Sid : [query[k] EXCEPT !.pc = "build", !.sid = s] \in Query
  BY QueryGoes DEF TypeOK, Pc
<1>2. query[k].sid \in Sid /\ saved[k] \in Sid
  BY DEF TypeOK, Query
<1>. QED  BY <1>1, <1>2 DEF TypeOK, LoadSid, store, pending, kept, hist

LEMMA BuildType == ASSUME PoolAssumption, TypeOK, NEW k \in Keys, Build(k) PROVE TypeOK'
<1>1. Cap(k) \in 0..MaxCap
  BY Bounds DEF TypeOK, Cap
<1>2. [query[k] EXCEPT !.pc = "connect", !.cfg = settings[k], !.cap = Cap(k)] \in Query
  BY <1>1, QueryServes DEF TypeOK, Pc
<1>. QED  BY <1>1, <1>2 DEF TypeOK, Build, store, pending, kept, hist

LEMMA ConnectType == ASSUME PoolAssumption, TypeOK, NEW k \in Keys, Connect(k) PROVE TypeOK'
<1>1. [query[k] EXCEPT !.pc = "ready", !.again = FALSE] \in Query
  BY QueryGoes DEF TypeOK, Pc
<1>2. [up |-> "live", sid |-> query[k].sid, cfg |-> query[k].cfg,
        cap |-> query[k].cap, unread |-> FALSE] \in Client
  BY DEF TypeOK, Query, Client
<1>. QED  BY <1>1, <1>2 DEF TypeOK, Connect, store, pending, kept, hist, Set

LEMMA LoadFailsType == ASSUME PoolAssumption, TypeOK, NEW k \in Keys, LoadFails(k) PROVE TypeOK'
<1>1. [query[k] EXCEPT !.pc = "build"] \in Query
  BY QueryGoes, Bounds DEF TypeOK, Pc
<1>2. lapse' \in [Keys -> Mishaps]
  BY MishapType DEF LoadFails, Mishaps
<1>. QED  BY <1>1, <1>2 DEF TypeOK, LoadFails, store, pending, hist, Goto

LEMMA FallbackType == ASSUME PoolAssumption, TypeOK, NEW k \in Keys, Fallback(k) PROVE TypeOK'
<1>1. [query[k] EXCEPT !.sid = 0, !.again = TRUE, !.pc = "tear", !.todo = <<"forget">>,
                       !.next = "setup"] \in Query
  BY PlanTypes, QueryTears, Bounds DEF TypeOK, Pc
<1>2. lapse' \in [Keys -> Mishaps]
  BY MishapType DEF Fallback, Mishaps
<1>. QED  BY <1>1, <1>2, NoClientType DEF TypeOK, Fallback, store, pending, hist, Set

LEMMA SendType == ASSUME PoolAssumption, TypeOK, NEW k \in Keys, Send(k) PROVE TypeOK'
<1>1. [query[k] EXCEPT !.pc = "stream"] \in Query
  BY QueryGoes DEF TypeOK, Pc
<1>. QED  BY <1>1 DEF TypeOK, Send, store, pending, kept, hist, Goto

LEMMA FailChatType == ASSUME PoolAssumption, TypeOK, NEW k \in Keys, FailChat(k) PROVE TypeOK'
<1>1. [query[k] EXCEPT !.pc = "tear", !.todo = <<"close", "forget">>, !.next = "idle"] \in Query
  BY PlanTypes, QueryTears DEF TypeOK, Pc
<1>. QED  BY <1>1, NoClientType, Bounds DEF TypeOK, FailChat, Drop, Mishaps, store, pending, kept, hist, Teardown, Set

LEMMA ExhaustedType == ASSUME PoolAssumption, TypeOK, NEW k \in Keys, Exhausted(k) PROVE TypeOK'
<1>1. [query[k] EXCEPT !.pc = "tear", !.todo = Reset, !.next = "after"] \in Query
  BY PlanTypes, QueryTears DEF TypeOK, Pc
<1>. QED  BY <1>1, NoClientType, Bounds DEF TypeOK, Exhausted, store, pending, kept, hist, Teardown,
    Set, GiveUp, Drop, Mishaps

LEMMA FinishType == ASSUME PoolAssumption, TypeOK, NEW k \in Keys, Finish(k) PROVE TypeOK'
<1>1. [query[k] EXCEPT !.pc = "after"] \in Query
  BY QueryGoes DEF TypeOK, Pc
<1>. QED  BY <1>1 DEF TypeOK, Finish, store, pending, kept, hist, Goto

LEMMA AfterResetType == ASSUME PoolAssumption, TypeOK, NEW k \in Keys, AfterReset(k) PROVE TypeOK'
<1>1. [query[k] EXCEPT !.pc = "tear", !.todo = Reset, !.next = "after2"] \in Query
  BY PlanTypes, QueryTears DEF TypeOK, Pc
<1>. QED  BY <1>1, NoClientType, Bounds DEF TypeOK, AfterReset, store, pending, kept, hist, Teardown,
    Set, GiveUp, Drop, Mishaps

LEMMA AfterBudgetType == ASSUME PoolAssumption, TypeOK, NEW k \in Keys, AfterBudget(k) PROVE TypeOK'
<1>1. [query[k] EXCEPT !.pc = "tear", !.todo = Disconnect, !.next = "post"] \in Query
  BY PlanTypes, QueryTears DEF TypeOK, Pc
<1>. QED  BY <1>1, NoClientType DEF TypeOK, AfterBudget, store, pending, kept, hist, Teardown, Set

LEMMA ReturnType == ASSUME PoolAssumption, TypeOK, NEW k \in Keys, Return(k) PROVE TypeOK'
BY NoQueryType DEF TypeOK, Return, store, pending, kept, hist, Set

LEMMA RateLimitedType == ASSUME PoolAssumption, TypeOK, NEW k \in Keys, RateLimited(k) PROVE TypeOK'
<1>1. [query[k] EXCEPT !.pc = "tear", !.todo = Disconnect, !.next = "idle"] \in Query
  BY PlanTypes, QueryTears DEF TypeOK, Pc
<1>. QED  BY <1>1, NoClientType DEF TypeOK, RateLimited, store, pending, kept, hist, Teardown, Set

LEMMA SuspiciousType == ASSUME PoolAssumption, TypeOK, NEW k \in Keys, Suspicious(k) PROVE TypeOK'
BY NoQueryType, NoClientType, PlanTypes DEF TypeOK, Suspicious, store, pending, kept, hist, Set

LEMMA EndSystemType == ASSUME PoolAssumption, TypeOK, NEW k \in Keys, EndSystem(k) PROVE TypeOK'
<1>1. [query[k] EXCEPT !.pc = "tear", !.todo = <<"close", "uncap">>, !.next = "idle"] \in Query
  BY PlanTypes, QueryTears DEF TypeOK, Pc
<1>. QED  BY <1>1, NoClientType DEF TypeOK, EndSystem, store, pending, kept, hist, Teardown, Set

LEMMA CancelChatType == ASSUME PoolAssumption, TypeOK, NEW k \in Keys, CancelChat(k) PROVE TypeOK'
BY NoQueryType, Bounds DEF TypeOK, CancelChat, store, pending, kept, hist, Set

LEMMA TaskStepType == ASSUME PoolAssumption, TypeOK, NEW k \in Keys, TaskStep(k) PROVE TypeOK'
<1>1. Tail(task[k]) \in Plans
  BY PlanStep DEF TypeOK, TaskStep
<1>2. [query[k] EXCEPT !.mine = "closed"] \in Query
  BY QueryLoses, Bounds DEF TypeOK
<1>. QED  BY <1>1, <1>2, Bounds DEF TypeOK, TaskStep, store, pending, kept, hist, Step, Set

LEMMA ResetSessionType == ASSUME PoolAssumption, TypeOK, NEW k \in Keys, ResetSession(k) PROVE TypeOK'
<1>1. \A m \in {"ok", "popped", "closed"} : [query[k] EXCEPT !.needCap = 0, !.mine = m] \in Query
  BY QueryLoses, Bounds DEF TypeOK
<1>2. query[k].mine \in {"ok", "popped", "closed"}
  BY DEF TypeOK, Query
<1>. QED  BY <1>1, <1>2, NoClientType, PlanTypes, Bounds DEF TypeOK, ResetSession, store,
    pending, kept, hist, Set, GiveUp, Drop, Mishaps

LEMMA DiesType == ASSUME PoolAssumption, TypeOK, NEW k \in Keys, Dies(k) PROVE TypeOK'
<1>1. [client[k] EXCEPT !.up = "dead", !.unread = FALSE] \in Client
  BY ClientChanges, Bounds DEF TypeOK
<1>. QED  BY <1>1 DEF TypeOK, Dies, store, pending, kept, hist

LEMMA SwitchModelType == ASSUME PoolAssumption, TypeOK, NEW k \in Keys, SwitchModel(k) PROVE TypeOK'
<1>1. settings[k] + 1 \in 0..MaxCfg
  BY DEF TypeOK, SwitchModel, NewSettings, PoolAssumption
<1>. QED  BY <1>1 DEF TypeOK, SwitchModel, store, pending, kept, hist, NewSettings, Set

LEMMA SwitchFromOutsideType == ASSUME PoolAssumption, TypeOK, NEW k \in Keys, SwitchFromOutside(k) PROVE TypeOK'
<1>1. settings[k] + 1 \in 0..MaxCfg
  BY DEF TypeOK, SwitchFromOutside, NewSettings, PoolAssumption
<1>. QED  BY <1>1 DEF TypeOK, SwitchFromOutside, store, pending, kept, hist, NewSettings

LEMMA AssignHarnessType == ASSUME PoolAssumption, TypeOK, NEW k \in Keys, AssignHarness(k) PROVE TypeOK'
<1>1. settings[k] + 1 \in 0..MaxCfg
  BY DEF TypeOK, AssignHarness, NewSettings, PoolAssumption
<1>. QED  BY <1>1 DEF TypeOK, AssignHarness, store, pending, kept, hist, NewSettings, Set

LEMMA ExtendBudgetType == ASSUME PoolAssumption, TypeOK, NEW k \in Keys, ExtendBudget(k) PROVE TypeOK'
<1>1. Cap(k) + 1 \in 0..MaxCap
  BY DEF TypeOK, ExtendBudget, Cap, Default, PoolAssumption
<1>. QED  BY <1>1, Bounds DEF TypeOK, ExtendBudget, store, pending, kept, hist, Set

LEMMA InjectType == ASSUME PoolAssumption, TypeOK, NEW k \in Keys, Inject(k) PROVE TypeOK'
<1>1. [client[k] EXCEPT !.unread = TRUE] \in Client
  BY ClientChanges, Bounds DEF TypeOK
<1>. QED  BY <1>1 DEF TypeOK, Inject, store, pending, kept, hist

LEMMA ReadInjectedType == ASSUME PoolAssumption, TypeOK, NEW k \in Keys, ReadInjected(k) PROVE TypeOK'
<1>1. [client[k] EXCEPT !.unread = FALSE] \in Client
  BY ClientChanges, Bounds DEF TypeOK
<1>. QED  BY <1>1 DEF TypeOK, ReadInjected, store, pending, kept, hist

-----------------------------------------------------------------------------
(* Every teardown under way has a step to do                               *)

TornHasSteps == \A k \in Keys : query[k].pc = "tear" => query[k].todo # << >>
Types == TypeOK /\ TornHasSteps

LEMMA InitTypes == PoolAssumption /\ Init => Types
BY NoQueryType, NoClientType, PlanTypes, Bounds DEF Types, TypeOK, TornHasSteps, Init, NoQuery,
  Mishaps

\* Every step keeps the types.
LEMMA StepType == ASSUME PoolAssumption, Types, [Next]_vars PROVE TypeOK'
<1>. USE DEF Types
<1>1. ASSUME NEW k \in Keys, BeginChat(k) PROVE TypeOK'
  BY <1>1, BeginChatType
<1>2. ASSUME NEW k \in Keys, BeginSystem(k) PROVE TypeOK'
  BY <1>2, BeginSystemType
<1>3. ASSUME NEW k \in Keys, EnterSystem(k) PROVE TypeOK'
  BY <1>3, EnterSystemType
<1>4. ASSUME NEW k \in Keys, Reuse(k) PROVE TypeOK'
  BY <1>4, ReuseType
<1>5. ASSUME NEW k \in Keys, DropDead(k) PROVE TypeOK'
  BY <1>5, DropDeadType
<1>6. ASSUME NEW k \in Keys, LoadSid(k) PROVE TypeOK'
  BY <1>6, LoadSidType
<1>7. ASSUME NEW k \in Keys, Build(k) PROVE TypeOK'
  BY <1>7, BuildType
<1>8. ASSUME NEW k \in Keys, Connect(k) PROVE TypeOK'
  BY <1>8, ConnectType
<1>9. ASSUME NEW k \in Keys, Send(k) PROVE TypeOK'
  BY <1>9, SendType
<1>10. ASSUME NEW k \in Keys, InitMessage(k) PROVE TypeOK'
  <2>1. PICK sid \in Sid, pc \in Pc : Report(k, sid, pc)
    BY <1>10, StartedType DEF InitMessage, TypeOK, Query, Pc
  <2>. QED  BY <2>1, <1>10, ReportType DEF TypeOK, InitMessage, pending, kept, hist
<1>11. ASSUME NEW k \in Keys, Result(k) PROVE TypeOK'
  <2>1. PICK sid \in Sid, pc \in Pc : Report(k, sid, pc)
    BY <1>11, StartedType DEF Result, TypeOK, Query, Pc
  <2>. QED  BY <2>1, <1>11, ReportType DEF TypeOK, Result, pending, kept, hist
<1>12. ASSUME NEW k \in Keys, FailChat(k) PROVE TypeOK'
  BY <1>12, FailChatType
<1>13. ASSUME NEW k \in Keys, Exhausted(k) PROVE TypeOK'
  BY <1>13, ExhaustedType
<1>14. ASSUME NEW k \in Keys, Finish(k) PROVE TypeOK'
  BY <1>14, FinishType
<1>15. ASSUME NEW k \in Keys, AfterReset(k) PROVE TypeOK'
  BY <1>15, AfterResetType
<1>16. ASSUME NEW k \in Keys, AfterBudget(k) PROVE TypeOK'
  BY <1>16, AfterBudgetType
<1>17. ASSUME NEW k \in Keys, Return(k) PROVE TypeOK'
  BY <1>17, ReturnType
<1>18. ASSUME NEW k \in Keys, RateLimited(k) PROVE TypeOK'
  BY <1>18, RateLimitedType
<1>19. ASSUME NEW k \in Keys, Suspicious(k) PROVE TypeOK'
  BY <1>19, SuspiciousType
<1>20. ASSUME NEW k \in Keys, EndSystem(k) PROVE TypeOK'
  BY <1>20, EndSystemType
<1>21. ASSUME NEW k \in Keys, CancelChat(k) PROVE TypeOK'
  BY <1>21, CancelChatType
<1>22. ASSUME NEW k \in Keys, QueryStep(k) PROVE TypeOK'
  BY <1>22, QueryStepType DEF TornHasSteps, QueryStep
<1>23. ASSUME NEW k \in Keys, TaskStep(k) PROVE TypeOK'
  BY <1>23, TaskStepType
<1>24. ASSUME NEW k \in Keys, ResetSession(k) PROVE TypeOK'
  BY <1>24, ResetSessionType
<1>25. ASSUME NEW k \in Keys, Dies(k) PROVE TypeOK'
  BY <1>25, DiesType
<1>26. ASSUME NEW k \in Keys, SwitchModel(k) PROVE TypeOK'
  BY <1>26, SwitchModelType
<1>27. ASSUME NEW k \in Keys, SwitchFromOutside(k) PROVE TypeOK'
  BY <1>27, SwitchFromOutsideType
<1>28. ASSUME NEW k \in Keys, AssignHarness(k) PROVE TypeOK'
  BY <1>28, AssignHarnessType
<1>29. ASSUME NEW k \in Keys, ExtendBudget(k) PROVE TypeOK'
  BY <1>29, ExtendBudgetType
<1>30. ASSUME NEW k \in Keys, Inject(k) PROVE TypeOK'
  BY <1>30, InjectType
<1>31. ASSUME NEW k \in Keys, ReadInjected(k) PROVE TypeOK'
  BY <1>31, ReadInjectedType
<1>32. ASSUME CleanFiles PROVE TypeOK'
  <2>. lapse' \in [Keys -> Mishaps]
    BY <1>32, MishapType DEF CleanFiles, Mishaps
  <2>. QED  BY <1>32 DEF TypeOK, CleanFiles, pending, hist
<1>33. ASSUME PruneMap PROVE TypeOK'
  <2>. lapse' \in [Keys -> Mishaps]
    BY <1>33, MishapType DEF PruneMap, Mishaps
  <2>. QED  BY <1>33, Bounds DEF TypeOK, PruneMap, pending, hist
<1>34. ASSUME Restart PROVE TypeOK'
  <2>1. lapse' \in [Keys -> Mishaps] /\ saved' \in [Keys -> Sid] /\ owed' \in [Keys -> Sid]
    BY <1>34, Bounds DEF TypeOK, Restart, kept, Mishaps
  <2>. QED  BY <1>34, <2>1, NoQueryType, NoClientType, PlanTypes, Bounds DEF TypeOK, Restart
<1>35. CASE UNCHANGED vars
  BY <1>35 DEF TypeOK, vars, store, pending, kept, hist
<1>36. ASSUME NEW k \in Keys, LoadFails(k) PROVE TypeOK'
  BY <1>36, LoadFailsType
<1>37. ASSUME NEW k \in Keys, Fallback(k) PROVE TypeOK'
  BY <1>37, FallbackType
<1>38. ASSUME PruneRead PROVE TypeOK'
  BY <1>38 DEF TypeOK, PruneRead, pending, kept, hist
<1>. QED  BY <1>1, <1>2, <1>3, <1>4, <1>5, <1>6, <1>7, <1>8, <1>9, <1>10, <1>11, <1>12, <1>13,
    <1>14, <1>15, <1>16, <1>17, <1>18, <1>19, <1>20, <1>21, <1>22, <1>23, <1>24, <1>25, <1>26,
    <1>27, <1>28, <1>29, <1>30, <1>31, <1>32, <1>33, <1>34, <1>35, <1>36, <1>37, <1>38
  DEF Next, QueryNext, Beside

\* None of the code's teardowns is empty.
LEMMA PlansNotEmpty ==
  /\ Disconnect # << >> /\ Reset # << >>
  /\ <<"close", "forget">> # << >> /\ <<"close", "uncap">> # << >> /\ <<"forget">> # << >>
BY DEF Disconnect, Reset

\* What most steps leave alone of a client and of a query.
KeepsClient(c) ==
  /\ client'[c].up = client[c].up /\ client'[c].cfg = client[c].cfg
  /\ client'[c].cap = client[c].cap /\ client'[c].unread = client[c].unread
KeepsQuery(c) ==
  /\ query'[c].next = query[c].next
  /\ query'[c].cfg = query[c].cfg /\ query'[c].cap = query[c].cap
  /\ query'[c].needCfg = query[c].needCfg
KeepsNeeds(c) ==
  query'[c].needCap = query[c].needCap /\ query'[c].mine = query[c].mine

\* What a reported conversation changes.
LEMMA ReportFrame ==
  ASSUME Types, NEW k \in Keys, NEW sid \in Sid, NEW pc \in Pc, Report(k, sid, pc), NEW c \in Keys
  PROVE  /\ KeepsClient(c) /\ KeepsQuery(c) /\ KeepsNeeds(c) /\ query'[c].todo = query[c].todo
         /\ query'[c].pc = IF c = k THEN pc ELSE query[c].pc
<1>1. /\ query \in [Keys -> Query] /\ client \in [Keys -> Client]
      /\ query[c] \in Query /\ client[c] \in Client
  BY DEF Types, TypeOK
<1>2. /\ client' = [client EXCEPT ![k].sid = sid] \/ client' = client
      /\ query' = [query EXCEPT ![k].sid = sid, ![k].pc = pc]
  BY DEF Report
<1>. USE DEF KeepsClient, KeepsQuery, KeepsNeeds
<1>3. CASE c # k
  BY <1>1, <1>2, <1>3
<1>4. CASE c = k
  <2>1. client'[c] = [client[c] EXCEPT !.sid = sid] \/ client'[c] = client[c]
    BY <1>1, <1>2, <1>4
  <2>2. query'[c] = [query[c] EXCEPT !.sid = sid, !.pc = pc]
    BY <1>1, <1>2, <1>4
  <2>. QED  BY <1>1, <1>4, <2>1, <2>2 DEF Query, Client
<1>. QED  BY <1>3, <1>4

\* What a reset by another coroutine changes.
LEMMA ResetFrame ==
  ASSUME Types, NEW k \in Keys, ResetSession(k), NEW c \in Keys
  PROVE  /\ client'[c] = IF c = k THEN NoClient ELSE client[c]
         /\ KeepsQuery(c) /\ query'[c].pc = query[c].pc /\ query'[c].sid = query[c].sid
         /\ query'[c].todo = query[c].todo
         /\ query'[c].needCap = IF c = k THEN 0 ELSE query[c].needCap
         /\ query'[c].mine = IF c = k /\ Busy(k) /\ query[k].mine = "ok" THEN "popped" ELSE query[c].mine
<1>1. /\ query \in [Keys -> Query] /\ client \in [Keys -> Client] /\ query[c] \in Query
  BY DEF Types, TypeOK
<1>. DEFINE m == IF Busy(k) /\ query[k].mine = "ok" THEN "popped" ELSE query[k].mine
<1>2. query' = [query EXCEPT ![k].needCap = 0, ![k].mine = m]
  BY <1>1 DEF ResetSession, Query
<1>3. client' = [client EXCEPT ![k] = NoClient]
  BY DEF ResetSession, Set
<1>4. CASE c # k
  BY <1>1, <1>2, <1>3, <1>4 DEF KeepsQuery
<1>5. CASE c = k
  <2>1. query'[c] = [query[c] EXCEPT !.needCap = 0, !.mine = m]
    BY <1>1, <1>2, <1>5
  <2>2. client'[c] = NoClient
    BY <1>1, <1>3, <1>5
  <2>. QED  BY <1>1, <1>5, <2>1, <2>2 DEF Query, KeepsQuery
<1>. QED  BY <1>4, <1>5

\* What a step of a query's own teardown does: the next step, the end of the query, or
\* what comes after the teardown.
LEMMA QueryStepFrame ==
  ASSUME Types, NEW k \in Keys, QueryStep(k), NEW c \in Keys
  PROVE  /\ client' = client /\ query[k].pc = "tear" /\ UNCHANGED <<settings, pending, hist>>
         /\ UNCHANGED <<task, kept, files>> /\ query[k].todo # << >>
         /\ saved'[c] = saved[c] \/ (c = k /\ Head(query[k].todo) = "forget")
         /\ override'[c] = IF c = k /\ Head(query[k].todo) = "uncap" THEN 0 ELSE override[c]
         /\ c # k => query'[c] = query[c]
         /\ c = k => \/ query'[c] = NoQuery
                     \/ /\ KeepsQuery(c) /\ KeepsNeeds(c) /\ query'[c].sid = query[c].sid
                        /\ \/ query'[c].pc = "tear" /\ query'[c].todo = Tail(query[c].todo)
                           \/ query[c].next # "idle" /\ query'[c].pc = query[c].next
<1>. query[k].todo # << >>
  BY DEF Types, TornHasSteps, QueryStep
<1>. /\ saved'[c] = saved[c] \/ (c = k /\ Head(query[k].todo) = "forget")
     /\ override'[c] = IF c = k /\ Head(query[k].todo) = "uncap" THEN 0 ELSE override[c]
     /\ UNCHANGED <<task, kept, files>>
  BY DEF Types, TypeOK, QueryStep, Step, Set
<1>1. query \in [Keys -> Query] /\ query[c] \in Query
  BY DEF Types, TypeOK
<1>2. \/ query' = [query EXCEPT ![k].todo = Tail(query[k].todo)]
      \/ query' = [query EXCEPT ![k] = NoQuery]
      \/ /\ query[k].next # "idle"
         /\ query' = [query EXCEPT ![k].pc = query[k].next, ![k].todo = << >>]
  BY DEF QueryStep, Set
<1>3. client' = client /\ query[k].pc = "tear" /\ UNCHANGED <<settings, pending, hist>>
  BY DEF QueryStep, Step
<1>4. CASE c # k
  BY <1>1, <1>2, <1>3, <1>4
<1>5. CASE c = k
  <2>1. \/ query'[c] = [query[c] EXCEPT !.todo = Tail(query[c].todo)]
        \/ query'[c] = NoQuery
        \/ /\ query[c].next # "idle"
           /\ query'[c] = [query[c] EXCEPT !.pc = query[c].next, !.todo = << >>]
    BY <1>1, <1>2, <1>5
  <2>. QED  BY <1>1, <1>3, <1>5, <2>1 DEF Query, KeepsQuery, KeepsNeeds
<1>. QED  BY <1>4, <1>5

\* What extend_budget changes, the caps apart.
LEMMA ExtendFrame ==
  ASSUME NEW k \in Keys, ExtendBudget(k)
  PROVE  /\ ToolCall(k) /\ UNCHANGED <<client, query>>
         /\ pendBudget' = pendBudget \cup {k} /\ UNCHANGED <<pendReset, settings, promised>>
BY DEF ExtendBudget

\* What a step of another coroutine's teardown changes of the query of its key.
LEMMA TaskFrame ==
  ASSUME Types, NEW k \in Keys, TaskStep(k), NEW c \in Keys
  PROVE  /\ client' = client /\ KeepsQuery(c) /\ query'[c].pc = query[c].pc
         /\ query'[c].todo = query[c].todo /\ query'[c].sid = query[c].sid
         /\ query'[c].needCap = query[c].needCap
         /\ \/ query'[c].mine = query[c].mine
            \/ query[c].mine = "popped" /\ query'[c].mine = "closed"
         /\ UNCHANGED <<settings, pending, hist, kept, files>> /\ task[k] # << >>
         /\ task'[c] = IF c = k THEN Tail(task[k]) ELSE task[c]
         /\ saved'[c] = saved[c] \/ (c = k /\ Head(task[k]) = "forget")
         /\ override'[c] = IF c = k /\ Head(task[k]) = "uncap" THEN 0 ELSE override[c]
<1>. /\ task'[c] = (IF c = k THEN Tail(task[k]) ELSE task[c]) /\ task[k] # << >>
     /\ saved'[c] = saved[c] \/ (c = k /\ Head(task[k]) = "forget")
     /\ override'[c] = IF c = k /\ Head(task[k]) = "uncap" THEN 0 ELSE override[c]
     /\ UNCHANGED <<kept, files>>
  BY DEF Types, TypeOK, TaskStep, Step, Set
<1>1. query \in [Keys -> Query] /\ query[c] \in Query
  BY DEF Types, TypeOK
<1>2. \/ query' = query
      \/ query[k].mine = "popped" /\ query' = [query EXCEPT ![k].mine = "closed"]
  BY DEF TaskStep
<1>3. client' = client /\ UNCHANGED <<settings, pending, hist>>
  BY DEF TaskStep, Step
<1>. QED  BY <1>1, <1>2, <1>3 DEF Query, KeepsQuery

\* And the caps.
LEMMA ExtendCaps ==
  ASSUME NEW k \in Keys, ExtendBudget(k)
  PROVE  /\ override' = [override EXCEPT ![k] = Cap(k) + 1] /\ UNCHANGED task
         /\ granted' = [granted EXCEPT ![k] = IF task[k] = << >> THEN Cap(k) + 1 ELSE 0]
BY DEF ExtendBudget, Set

\* A plan still has the step s to do.
Has(p, s) == \E i \in DOMAIN p : p[i] = s

\* The rest of a plan has no step the plan does not have.
LEMMA HasLess ==
  ASSUME NEW p \in Plans, p # << >>, NEW s
  PROVE  (Head(p) = s => Has(p, s)) /\ (Has(Tail(p), s) => Has(p, s))
<1>1. p \in Seq(Steps) /\ Len(p) \in Nat \ {0} /\ DOMAIN p = 1..Len(p)
  BY DEF Plans
<1>2. Head(p) = p[1] /\ DOMAIN Tail(p) = 1..Len(p) - 1
  BY <1>1
<1>3. \A i \in 1..Len(p) - 1 : Tail(p)[i] = p[i + 1]
  BY <1>1
<1>. QED  BY <1>1, <1>2, <1>3 DEF Has

\* What the code's plans have.
LEMMA HasPlans ==
  /\ \A s : ~Has(<< >>, s)
  /\ ~Has(Disconnect, "forget") /\ ~Has(Disconnect, "uncap")
  /\ ~Has(<<"close", "forget">>, "uncap") /\ ~Has(<<"forget">>, "uncap") /\ ~Has(<<"close", "uncap">>, "forget")
BY DEF Has, Disconnect

\* What the start of a query's own teardown changes.
LEMMA TearFrame ==
  ASSUME Types, NEW k \in Keys, NEW plan, NEW next, Teardown(k, plan, next), NEW c \in Keys
  PROVE  /\ c # k => client'[c] = client[c] /\ query'[c] = query[c]
         /\ c = k => /\ client'[c].up = "none" /\ client'[c].sid = 0
                     /\ query'[c].pc = "tear" /\ query'[c].todo = plan /\ query'[c].next = next
                     /\ query'[c].sid = query[c].sid /\ KeepsNeeds(c)
                     /\ query'[c].cfg = query[c].cfg /\ query'[c].cap = query[c].cap
                     /\ query'[c].needCfg = query[c].needCfg
<1>1. query \in [Keys -> Query] /\ client \in [Keys -> Client] /\ query[c] \in Query
  BY DEF Types, TypeOK
<1>2. /\ client' = [client EXCEPT ![k] = NoClient]
      /\ query' = [query EXCEPT ![k].pc = "tear", ![k].todo = plan, ![k].next = next]
  BY DEF Teardown, Set
<1>3. CASE c # k
  BY <1>1, <1>2, <1>3
<1>4. CASE c = k
  <2>1. query'[c] = [query[c] EXCEPT !.pc = "tear", !.todo = plan, !.next = next]
    BY <1>1, <1>2, <1>4
  <2>2. client'[c] = NoClient
    BY <1>1, <1>2, <1>4
  <2>. QED  BY <1>1, <1>4, <2>1, <2>2 DEF Query, NoClient, KeepsNeeds
<1>. QED  BY <1>3, <1>4

\* A query of c that has no client yet, or will take one after a teardown.
Starting == {"enter", "setup", "load", "build", "connect"}
Begins(c) == query[c].pc \in Starting \/ (query[c].pc = "tear" /\ query[c].next \in Starting)

\* What the fallback to a fresh session changes of its query.
LEMMA FallbackFrame ==
  ASSUME Types, NEW k \in Keys, Fallback(k)
  PROVE  /\ client'[k].up = "none" /\ query'[k].pc = "tear" /\ query'[k].next = "setup"
         /\ query'[k].todo = <<"forget">> /\ query'[k].sid = 0 /\ KeepsNeeds(k)
         /\ query'[k].needCap = query[k].needCap /\ query'[k].mine = query[k].mine
         /\ query[k].pc \in Starting
<1>1. query \in [Keys -> Query] /\ client \in [Keys -> Client] /\ query[k] \in Query
  BY DEF Types, TypeOK
<1>2. query'[k] = [query[k] EXCEPT !.sid = 0, !.again = TRUE, !.pc = "tear",
                                   !.todo = <<"forget">>, !.next = "setup"]
  BY <1>1 DEF Fallback
<1>3. client'[k] = NoClient /\ query[k].pc \in Starting
  BY <1>1 DEF Fallback, Set, Starting
<1>. QED  BY <1>1, <1>2, <1>3 DEF Query, NoClient, KeepsNeeds

\* And of the conversations.
LEMMA ReportConversation ==
  ASSUME Types, NEW k \in Keys, NEW sid \in Sid, NEW pc \in Pc, Report(k, sid, pc), NEW c \in Keys
  PROVE  /\ files' = files \cup {sid}
         /\ c # k => /\ query'[c] = query[c] /\ client'[c] = client[c]
                     /\ saved'[c] = saved[c] /\ owed'[c] = owed[c] /\ lapse'[c] = lapse[c]
         /\ c = k => /\ owed'[c] = IF task[k] = << >> THEN sid ELSE 0
                     /\ owed'[c] # 0 /\ lapse'[c] = "none" => saved'[c] = sid
                     /\ query[c].mine = "ok" => client'[c].sid = sid
<1>1. /\ query \in [Keys -> Query] /\ client \in [Keys -> Client] /\ client[c] \in Client
      /\ saved \in [Keys -> Sid] /\ owed \in [Keys -> Sid] /\ lapse \in [Keys -> Mishaps]
  BY DEF Types, TypeOK
<1>2. /\ client' = IF query[k].mine = "ok" THEN [client EXCEPT ![k].sid = sid] ELSE client
      /\ query' = [query EXCEPT ![k].sid = sid, ![k].pc = pc]
      /\ files' = files \cup {sid}
      /\ owed' = [owed EXCEPT ![k] = IF task[k] = << >> THEN sid ELSE 0]
      /\ \/ saved' = [saved EXCEPT ![k] = sid] /\ lapse' = [lapse EXCEPT ![k] = "none"]
         \/ saved' = saved /\ lapse' = [lapse EXCEPT ![k] = IF owed'[k] = 0 THEN "none" ELSE "database"]
  BY DEF Report, Set
<1>3. CASE c # k
  BY <1>1, <1>2, <1>3
<1>4. CASE c = k
  <2>1. query[c].mine = "ok" => client'[c] = [client[c] EXCEPT !.sid = sid]
    BY <1>1, <1>2, <1>4
  <2>2. query[c].mine = "ok" => client'[c].sid = sid
    BY <1>1, <2>1 DEF Client
  <2>. QED  BY <1>1, <1>2, <1>4, <2>2
<1>. QED  BY <1>3, <1>4

\* During a teardown of its query a key has no client; these are the places a teardown is in.
TornOf(c) ==
  query[c].pc = "tear" => /\ client[c].up = "none"
                          /\ query[c].next \in {"idle", "enter", "setup", "load", "after", "after2", "post"}
TornIsGone == \A c \in Keys : TornOf(c)

\* A query starts with what was promised before it, connects with the settings of that
\* moment, and only the query that made a promise, and has scheduled the reset, may
\* still run in a client from before it.
SwitchOf(c) ==
  /\ promised[c] <= settings[c]
  /\ Begins(c) => query[c].needCfg <= promised[c]
  /\ query[c].pc = "connect" => promised[c] <= query[c].cfg
  /\ client[c].up # "none" /\ client[c].cfg < promised[c] =>
       c \in pendReset /\ query[c].pc \in {"stream", "result", "after"}
  /\ Serving(c) => query[c].cfg >= query[c].needCfg
SwitchInv == \A c \in Chats : SwitchOf(c)

\* A teardown under way has a step to do.
LEMMA TornHasStepsStep ==
  ASSUME PoolAssumption, Types, TornHasSteps, [Next]_vars
  PROVE  TornHasSteps'
<1>. query \in [Keys -> Query]
  BY DEF Types, TypeOK
<1>. USE DEF Query, TornHasSteps
<1>1. ASSUME NEW k \in Keys, BeginChat(k) PROVE TornHasSteps'
  BY <1>1 DEF BeginChat, store, pending, kept, hist, Set, NoQuery
<1>2. ASSUME NEW k \in Keys, BeginSystem(k) PROVE TornHasSteps'
  BY <1>2, PlansNotEmpty DEF BeginSystem, Teardown, Set
<1>3. ASSUME NEW k \in Keys, EnterSystem(k) PROVE TornHasSteps'
  BY <1>3 DEF EnterSystem, store, pending, kept, hist, Goto
<1>4. ASSUME NEW k \in Keys, Reuse(k) PROVE TornHasSteps'
  BY <1>4 DEF Reuse, store, pending, kept, hist
<1>5. ASSUME NEW k \in Keys, DropDead(k) PROVE TornHasSteps'
  BY <1>5, PlansNotEmpty DEF DropDead
<1>6. ASSUME NEW k \in Keys, LoadSid(k) PROVE TornHasSteps'
  BY <1>6 DEF LoadSid, store, pending, kept, hist
<1>7. ASSUME NEW k \in Keys, Build(k) PROVE TornHasSteps'
  BY <1>7 DEF Build, store, pending, kept, hist, Cap
<1>8. ASSUME NEW k \in Keys, Connect(k) PROVE TornHasSteps'
  BY <1>8 DEF Connect, store, pending, kept, hist, Set
<1>9. ASSUME NEW k \in Keys, Send(k) PROVE TornHasSteps'
  BY <1>9 DEF Send, store, pending, kept, hist, Goto
<1>10. ASSUME NEW k \in Keys, InitMessage(k) PROVE TornHasSteps'
  BY <1>10 DEF InitMessage, store, pending, kept, hist, Report, Set
<1>11. ASSUME NEW k \in Keys, Result(k) PROVE TornHasSteps'
  BY <1>11 DEF Result, store, pending, kept, hist, Report, Set
<1>12. ASSUME NEW k \in Keys, FailChat(k) PROVE TornHasSteps'
  BY <1>12, PlansNotEmpty DEF FailChat, Teardown, Set
<1>13. ASSUME NEW k \in Keys, Exhausted(k) PROVE TornHasSteps'
  BY <1>13, PlansNotEmpty DEF Exhausted, Teardown, Set
<1>14. ASSUME NEW k \in Keys, Finish(k) PROVE TornHasSteps'
  BY <1>14 DEF Finish, store, pending, kept, hist, Goto
<1>15. ASSUME NEW k \in Keys, AfterReset(k) PROVE TornHasSteps'
  BY <1>15, PlansNotEmpty DEF AfterReset, Teardown, Set
<1>16. ASSUME NEW k \in Keys, AfterBudget(k) PROVE TornHasSteps'
  BY <1>16, PlansNotEmpty DEF AfterBudget, Teardown, Set
<1>17. ASSUME NEW k \in Keys, Return(k) PROVE TornHasSteps'
  BY <1>17 DEF Return, store, pending, kept, hist, Returning, Set, NoQuery
<1>18. ASSUME NEW k \in Keys, RateLimited(k) PROVE TornHasSteps'
  BY <1>18, PlansNotEmpty DEF RateLimited, Teardown, Set
<1>19. ASSUME NEW k \in Keys, Suspicious(k) PROVE TornHasSteps'
  BY <1>19 DEF Suspicious, store, pending, kept, hist, Returning, Set, NoQuery
<1>20. ASSUME NEW k \in Keys, EndSystem(k) PROVE TornHasSteps'
  BY <1>20, PlansNotEmpty DEF EndSystem, Teardown, Set
<1>21. ASSUME NEW k \in Keys, CancelChat(k) PROVE TornHasSteps'
  BY <1>21 DEF CancelChat, store, pending, kept, hist, Set, NoQuery
<1>22. ASSUME NEW k \in Keys, QueryStep(k) PROVE TornHasSteps'
  BY <1>22 DEF QueryStep, store, pending, kept, hist, Step, Set, NoQuery
<1>23. ASSUME NEW k \in Keys, TaskStep(k) PROVE TornHasSteps'
  BY <1>23 DEF TaskStep, store, pending, kept, hist, Step, Set
<1>24. ASSUME NEW k \in Keys, ResetSession(k) PROVE TornHasSteps'
  BY <1>24 DEF ResetSession, store, pending, kept, hist, Set, GiveUp
<1>25. ASSUME NEW k \in Keys, Dies(k) PROVE TornHasSteps'
  BY <1>25 DEF Dies, store, pending, kept, hist
<1>26. ASSUME NEW k \in Keys, SwitchModel(k) PROVE TornHasSteps'
  BY <1>26 DEF SwitchModel, store, pending, kept, hist, ToolCall, NewSettings, Set
<1>27. ASSUME NEW k \in Keys, SwitchFromOutside(k) PROVE TornHasSteps'
  BY <1>27 DEF SwitchFromOutside, store, pending, kept, hist, NewSettings
<1>28. ASSUME NEW k \in Keys, AssignHarness(k) PROVE TornHasSteps'
  BY <1>28 DEF AssignHarness, store, pending, kept, hist, NewSettings, Set
<1>29. ASSUME NEW k \in Keys, ExtendBudget(k) PROVE TornHasSteps'
  BY <1>29 DEF ExtendBudget, store, pending, kept, hist, ToolCall, Set, Cap
<1>30. ASSUME NEW k \in Keys, Inject(k) PROVE TornHasSteps'
  BY <1>30 DEF Inject, store, pending, kept, hist
<1>31. ASSUME NEW k \in Keys, ReadInjected(k) PROVE TornHasSteps'
  BY <1>31 DEF ReadInjected, store, pending, kept, hist
<1>32. ASSUME CleanFiles PROVE TornHasSteps'
  BY <1>32 DEF CleanFiles, store, pending, kept, hist
<1>33. ASSUME PruneMap PROVE TornHasSteps'
  BY <1>33 DEF PruneMap, store, pending, kept, hist
<1>34. ASSUME Restart PROVE TornHasSteps'
  BY <1>34 DEF Restart, store, pending, kept, hist, NoQuery
<1>35. CASE UNCHANGED vars
  BY <1>35 DEF vars, store, pending, kept, hist
<1>36. ASSUME NEW k \in Keys, LoadFails(k) PROVE TornHasSteps'
  BY <1>36 DEF LoadFails, store, pending, hist, Goto
<1>37. ASSUME NEW k \in Keys, Fallback(k) PROVE TornHasSteps'
  BY <1>37, PlansNotEmpty DEF Fallback, store, pending, hist, Set
<1>38. ASSUME PruneRead PROVE TornHasSteps'
  BY <1>38 DEF PruneRead, store, pending, kept, hist
<1>. QED  BY <1>1, <1>2, <1>3, <1>4, <1>5, <1>6, <1>7, <1>8, <1>9, <1>10, <1>11, <1>12, <1>13,
    <1>14, <1>15, <1>16, <1>17, <1>18, <1>19, <1>20, <1>21, <1>22, <1>23, <1>24, <1>25, <1>26,
    <1>27, <1>28, <1>29, <1>30, <1>31, <1>32, <1>33, <1>34, <1>35, <1>36, <1>37, <1>38
  DEF Next, QueryNext, Beside

\* Only a connect registers a client.
LEMMA TornIsGoneStep ==
  ASSUME PoolAssumption, Types, TornIsGone, [Next]_vars
  PROVE  TornIsGone'
<1>. USE DEF TornIsGone
<1>1. ASSUME NEW k \in Keys, BeginChat(k) PROVE TornIsGone'
  BY <1>1 DEF BeginChat, store, pending, kept, hist, Set, NoQuery, TornOf, Types, TypeOK, Query,
      Client, Keys, NoClient
<1>2. ASSUME NEW k \in Keys, BeginSystem(k) PROVE TornIsGone'
  BY <1>2 DEF BeginSystem, store, pending, kept, hist, Teardown, Set, Disconnect, TornOf, Types,
      TypeOK, Query, Client, Keys, NoClient
<1>3. ASSUME NEW k \in Keys, EnterSystem(k) PROVE TornIsGone'
  BY <1>3 DEF EnterSystem, store, pending, kept, hist, Goto, TornOf, Types, TypeOK, Query, Client,
      Keys, NoClient
<1>4. ASSUME NEW k \in Keys, Reuse(k) PROVE TornIsGone'
  BY <1>4 DEF Reuse, store, pending, kept, hist, TornOf, Types, TypeOK, Query, Client, Keys, NoClient
<1>5. ASSUME NEW k \in Keys, DropDead(k) PROVE TornIsGone'
  BY <1>5 DEF DropDead, store, pending, kept, hist, Set, TornOf, Types, TypeOK, Query, Client, Keys,
      NoClient
<1>6. ASSUME NEW k \in Keys, LoadSid(k) PROVE TornIsGone'
  BY <1>6 DEF LoadSid, store, pending, kept, hist, TornOf, Types, TypeOK, Query, Client, Keys, NoClient
<1>7. ASSUME NEW k \in Keys, Build(k) PROVE TornIsGone'
  BY <1>7 DEF Build, store, pending, kept, hist, Cap, TornOf, Types, TypeOK, Query, Client, Keys,
      NoClient
<1>8. ASSUME NEW k \in Keys, Connect(k) PROVE TornIsGone'
  BY <1>8 DEF Connect, store, pending, kept, hist, Set, TornOf, Types, TypeOK, Query, Client,
      Keys, NoClient
<1>9. ASSUME NEW k \in Keys, Send(k) PROVE TornIsGone'
  BY <1>9 DEF Send, store, pending, kept, hist, Goto, TornOf, Types, TypeOK, Query, Client, Keys,
      NoClient
<1>10. ASSUME NEW k \in Keys, InitMessage(k) PROVE TornIsGone'
  <2>. SUFFICES ASSUME NEW c \in Keys PROVE TornOf(c)'
    OBVIOUS
  <2>. c \in Keys
    BY DEF Keys
  <2>1. PICK sid \in Sid, pc \in Pc : Report(k, sid, pc) /\ pc \in {"stream", "result"} /\ query[k].pc = "stream"
    BY <1>10, StartedType DEF InitMessage, Types, TypeOK, Query, Pc
  <2>2. /\ KeepsClient(c) /\ KeepsQuery(c) /\ KeepsNeeds(c) /\ query'[c].todo = query[c].todo
        /\ query'[c].pc = IF c = k THEN pc ELSE query[c].pc
    BY <2>1, ReportFrame
  <2>. QED  BY <2>1, <2>2, <1>10 DEF InitMessage, KeepsClient, KeepsQuery, KeepsNeeds, pending, kept,
      hist, TornOf, NoClient
<1>11. ASSUME NEW k \in Keys, Result(k) PROVE TornIsGone'
  <2>. SUFFICES ASSUME NEW c \in Keys PROVE TornOf(c)'
    OBVIOUS
  <2>. c \in Keys
    BY DEF Keys
  <2>1. PICK sid \in Sid, pc \in Pc : Report(k, sid, pc) /\ pc \in {"stream", "result"} /\ query[k].pc = "stream"
    BY <1>11, StartedType DEF Result, Types, TypeOK, Query, Pc
  <2>2. /\ KeepsClient(c) /\ KeepsQuery(c) /\ KeepsNeeds(c) /\ query'[c].todo = query[c].todo
        /\ query'[c].pc = IF c = k THEN pc ELSE query[c].pc
    BY <2>1, ReportFrame
  <2>. QED  BY <2>1, <2>2, <1>11 DEF Result, KeepsClient, KeepsQuery, KeepsNeeds, pending, kept,
      hist, TornOf, NoClient
<1>12. ASSUME NEW k \in Keys, FailChat(k) PROVE TornIsGone'
  BY <1>12 DEF FailChat, store, pending, kept, hist, Teardown, Set, TornOf, Types, TypeOK, Query,
      Client, Keys, NoClient
<1>13. ASSUME NEW k \in Keys, Exhausted(k) PROVE TornIsGone'
  BY <1>13 DEF Exhausted, store, pending, kept, hist, Teardown, Set, GiveUp, TornOf, Types, TypeOK,
      Query, Client, Keys, NoClient
<1>14. ASSUME NEW k \in Keys, Finish(k) PROVE TornIsGone'
  BY <1>14 DEF Finish, store, pending, kept, hist, Goto, TornOf, Types, TypeOK, Query, Client, Keys,
      NoClient
<1>15. ASSUME NEW k \in Keys, AfterReset(k) PROVE TornIsGone'
  BY <1>15 DEF AfterReset, store, pending, kept, hist, Teardown, Set, GiveUp, TornOf, Types, TypeOK,
      Query, Client, Keys, NoClient
<1>16. ASSUME NEW k \in Keys, AfterBudget(k) PROVE TornIsGone'
  BY <1>16 DEF AfterBudget, store, pending, kept, hist, Teardown, Set, TornOf, Types, TypeOK, Query,
      Client, Keys, NoClient
<1>17. ASSUME NEW k \in Keys, Return(k) PROVE TornIsGone'
  BY <1>17 DEF Return, store, pending, kept, hist, Returning, Set, NoQuery, TornOf, Types, TypeOK,
      Query, Client, Keys, NoClient
<1>18. ASSUME NEW k \in Keys, RateLimited(k) PROVE TornIsGone'
  BY <1>18 DEF RateLimited, store, pending, kept, hist, Returning, Teardown, Set, TornOf, Types,
      TypeOK, Query, Client, Keys, NoClient
<1>19. ASSUME NEW k \in Keys, Suspicious(k) PROVE TornIsGone'
  BY <1>19 DEF Suspicious, store, pending, kept, hist, Returning, Set, NoQuery, TornOf, Types,
      TypeOK, Query, Client, Keys, NoClient
<1>20. ASSUME NEW k \in Keys, EndSystem(k) PROVE TornIsGone'
  BY <1>20 DEF EndSystem, store, pending, kept, hist, Teardown, Set, TornOf, Types, TypeOK, Query,
      Client, Keys, NoClient
<1>21. ASSUME NEW k \in Keys, CancelChat(k) PROVE TornIsGone'
  <2>. SUFFICES ASSUME NEW c \in Keys PROVE TornOf(c)'
    OBVIOUS
  <2>. c \in Keys
    BY DEF Keys
  <2>1. CASE c # k
    BY <2>1, <1>21 DEF CancelChat, Set, store, pending, kept, hist, Types, TypeOK, Query, Client,
        Keys, NoClient, TornOf
  <2>2. CASE c = k
    BY <2>2, <1>21 DEF CancelChat, Set, NoQuery, store, pending, kept, hist, Types, TypeOK, Query,
        Client, Keys, NoClient, TornOf
  <2>. QED  BY <2>1, <2>2
<1>22. ASSUME NEW k \in Keys, QueryStep(k) PROVE TornIsGone'
  <2>. SUFFICES ASSUME NEW c \in Keys PROVE TornOf(c)'
    OBVIOUS
  <2>. c \in Keys
    BY DEF Keys
  <2>1. /\ client' = client /\ query[k].pc = "tear" /\ UNCHANGED <<settings, pending, hist>>
        /\ c # k => query'[c] = query[c]
        /\ c = k => \/ query'[c] = NoQuery
                    \/ /\ KeepsQuery(c) /\ KeepsNeeds(c)
                       /\ \/ query'[c].pc = "tear" /\ query'[c].todo = Tail(query[c].todo)
                          \/ query'[c].pc = query[c].next
    BY <1>22, QueryStepFrame
  <2>2. CASE c # k
    BY <2>1, <2>2 DEF pending, kept, hist, TornOf, NoClient
  <2>3. CASE c = k
    <3>1. TornOf(c) /\ TornOf(c)
      BY DEF TornIsGone, Keys
    <3>2. CASE query'[c] = NoQuery
      BY <2>1, <2>3, <3>1, <3>2 DEF pending, kept, hist, NoQuery, TornOf, NoClient
    <3>3. CASE KeepsQuery(c) /\ KeepsNeeds(c) /\ query'[c].pc = "tear"
      BY <2>1, <2>3, <3>1, <3>3 DEF pending, kept, hist, KeepsQuery, KeepsNeeds, TornOf, NoClient
    <3>4. CASE KeepsQuery(c) /\ KeepsNeeds(c) /\ query'[c].pc = query[c].next
      BY <2>1, <2>3, <3>1, <3>4 DEF pending, kept, hist, KeepsQuery, KeepsNeeds, TornOf, NoClient
    <3>. QED  BY <2>1, <2>3, <3>2, <3>3, <3>4
  <2>. QED  BY <2>2, <2>3
<1>23. ASSUME NEW k \in Keys, TaskStep(k) PROVE TornIsGone'
  <2>. SUFFICES ASSUME NEW c \in Keys PROVE TornOf(c)'
    OBVIOUS
  <2>. c \in Keys
    BY DEF Keys
  <2>1. /\ client' = client /\ KeepsQuery(c) /\ query'[c].pc = query[c].pc
        /\ query'[c].todo = query[c].todo /\ query'[c].needCap = query[c].needCap
        /\ UNCHANGED <<settings, pending, hist>>
    BY <1>23, TaskFrame
  <2>. QED  BY <2>1 DEF KeepsQuery, pending, kept, hist, TornOf, NoClient
<1>24. ASSUME NEW k \in Keys, ResetSession(k) PROVE TornIsGone'
  <2>. SUFFICES ASSUME NEW c \in Keys PROVE TornOf(c)'
    OBVIOUS
  <2>. c \in Keys
    BY DEF Keys
  <2>1. /\ client'[c] = IF c = k THEN NoClient ELSE client[c]
        /\ KeepsQuery(c) /\ query'[c].pc = query[c].pc /\ query'[c].todo = query[c].todo
        /\ query'[c].needCap = IF c = k THEN 0 ELSE query[c].needCap
    BY <1>24, ResetFrame
  <2>. QED  BY <2>1, <1>24 DEF ResetSession, KeepsQuery, GiveUp, Set, pending, TornOf, NoClient
<1>25. ASSUME NEW k \in Keys, Dies(k) PROVE TornIsGone'
  BY <1>25 DEF Dies, store, pending, kept, hist, TornOf, Types, TypeOK, Query, Client, Keys, NoClient
<1>26. ASSUME NEW k \in Keys, SwitchModel(k) PROVE TornIsGone'
  BY <1>26 DEF SwitchModel, store, pending, kept, hist, ToolCall, NewSettings, Set, TornOf,
      Types, TypeOK, Query, Client, Keys, NoClient
<1>27. ASSUME NEW k \in Keys, SwitchFromOutside(k) PROVE TornIsGone'
  BY <1>27 DEF SwitchFromOutside, store, pending, kept, hist, NewSettings, TornOf, Types, TypeOK,
      Query, Client, Keys, NoClient
<1>28. ASSUME NEW k \in Keys, AssignHarness(k) PROVE TornIsGone'
  BY <1>28 DEF AssignHarness, store, pending, kept, hist, NewSettings, Set, TornOf, Types, TypeOK,
      Query, Client, Keys, NoClient
<1>29. ASSUME NEW k \in Keys, ExtendBudget(k) PROVE TornIsGone'
  BY <1>29, ExtendFrame DEF ToolCall, Types, TypeOK, Query, Client, Keys, NoClient, TornOf
<1>30. ASSUME NEW k \in Keys, Inject(k) PROVE TornIsGone'
  BY <1>30 DEF Inject, store, pending, kept, hist, TornOf, Types, TypeOK, Query, Client, Keys, NoClient
<1>31. ASSUME NEW k \in Keys, ReadInjected(k) PROVE TornIsGone'
  BY <1>31 DEF ReadInjected, store, pending, kept, hist, TornOf, Types, TypeOK, Query, Client,
      Keys, NoClient
<1>32. ASSUME CleanFiles PROVE TornIsGone'
  BY <1>32 DEF CleanFiles, store, pending, kept, hist, TornOf, Types, TypeOK, Query, Client, Keys,
      NoClient
<1>33. ASSUME PruneMap PROVE TornIsGone'
  BY <1>33 DEF PruneMap, store, pending, kept, hist, TornOf, Types, TypeOK, Query, Client, Keys,
      NoClient
<1>34. ASSUME Restart PROVE TornIsGone'
  BY <1>34 DEF Restart, store, pending, kept, hist, NoQuery, TornOf, Types, TypeOK, Query, Client,
      Keys, NoClient
<1>35. CASE UNCHANGED vars
  BY <1>35 DEF vars, store, pending, kept, hist, TornOf
<1>36. ASSUME NEW k \in Keys, LoadFails(k) PROVE TornIsGone'
  BY <1>36 DEF LoadFails, store, pending, hist, Goto, TornOf, Types, TypeOK, Query, Client,
      Keys, NoClient
<1>37. ASSUME NEW k \in Keys, Fallback(k) PROVE TornIsGone'
  BY <1>37 DEF Fallback, store, pending, hist, Set, TornOf, Types, TypeOK, Query, Client,
      Keys, NoClient
<1>38. ASSUME PruneRead PROVE TornIsGone'
  BY <1>38 DEF PruneRead, store, pending, kept, hist, TornOf, Types, TypeOK, Query, Client,
      Keys, NoClient
<1>. QED  BY <1>1, <1>2, <1>3, <1>4, <1>5, <1>6, <1>7, <1>8, <1>9, <1>10, <1>11, <1>12, <1>13,
    <1>14, <1>15, <1>16, <1>17, <1>18, <1>19, <1>20, <1>21, <1>22, <1>23, <1>24, <1>25, <1>26,
    <1>27, <1>28, <1>29, <1>30, <1>31, <1>32, <1>33, <1>34, <1>35, <1>36, <1>37, <1>38
  DEF Next, QueryNext, Beside

\* A step that begins, connects or ends a query keeps what switch_model promised.
LEMMA SwitchInvStep ==
  ASSUME PoolAssumption, Types, SwitchInv, TornIsGone, [Next]_vars
  PROVE  SwitchInv'
<1>. USE DEF SwitchInv
<1>1. ASSUME NEW k \in Keys, BeginChat(k) PROVE SwitchInv'
  BY <1>1 DEF BeginChat, store, pending, kept, hist, Set, NoQuery, SwitchOf, Begins, Starting,
      TornOf, Serving, Types, TypeOK, Query, Client, Keys, NoClient
<1>2. ASSUME NEW k \in Keys, BeginSystem(k) PROVE SwitchInv'
  BY <1>2 DEF BeginSystem, store, pending, kept, hist, Teardown, Set, Disconnect, SwitchOf, Begins,
      Starting, TornOf, Serving, Types, TypeOK, Query, Client, Keys, NoClient
<1>3. ASSUME NEW k \in Keys, EnterSystem(k) PROVE SwitchInv'
  BY <1>3 DEF EnterSystem, store, pending, kept, hist, Goto, SwitchOf, Begins, Starting, TornOf,
      Serving, Types, TypeOK, Query, Client, Keys, NoClient
<1>4. ASSUME NEW k \in Keys, Reuse(k) PROVE SwitchInv'
  BY <1>4 DEF Reuse, store, pending, kept, hist, SwitchOf, Begins, Starting, TornOf, Serving, Types,
      TypeOK, Query, Client, Keys, NoClient
<1>5. ASSUME NEW k \in Keys, DropDead(k) PROVE SwitchInv'
  BY <1>5 DEF DropDead, store, pending, kept, hist, Set, SwitchOf, Begins, Starting, TornOf, Serving,
      Types, TypeOK, Query, Client, Keys, NoClient
<1>6. ASSUME NEW k \in Keys, LoadSid(k) PROVE SwitchInv'
  BY <1>6 DEF LoadSid, store, pending, kept, hist, SwitchOf, Begins, Starting, TornOf, Serving,
      Types, TypeOK, Query, Client, Keys, NoClient
<1>7. ASSUME NEW k \in Keys, Build(k) PROVE SwitchInv'
  BY <1>7 DEF Build, store, pending, kept, hist, Cap, SwitchOf, Begins, Starting, TornOf, Serving,
      Types, TypeOK, Query, Client, Keys, NoClient
<1>8. ASSUME NEW k \in Keys, Connect(k) PROVE SwitchInv'
  BY <1>8 DEF Connect, store, pending, kept, hist, Set, SwitchOf, Begins, Starting, TornOf,
      Serving, Types, TypeOK, Query, Client, Keys, NoClient
<1>9. ASSUME NEW k \in Keys, Send(k) PROVE SwitchInv'
  BY <1>9 DEF Send, store, pending, kept, hist, Goto, SwitchOf, Begins, Starting, TornOf, Serving,
      Types, TypeOK, Query, Client, Keys, NoClient
<1>10. ASSUME NEW k \in Keys, InitMessage(k) PROVE SwitchInv'
  <2>. SUFFICES ASSUME NEW c \in Chats PROVE SwitchOf(c)'
    OBVIOUS
  <2>. c \in Keys
    BY DEF Keys
  <2>1. PICK sid \in Sid, pc \in Pc : Report(k, sid, pc) /\ pc \in {"stream", "result"} /\ query[k].pc = "stream"
    BY <1>10, StartedType DEF InitMessage, Types, TypeOK, Query, Pc
  <2>2. /\ KeepsClient(c) /\ KeepsQuery(c) /\ KeepsNeeds(c) /\ query'[c].todo = query[c].todo
        /\ query'[c].pc = IF c = k THEN pc ELSE query[c].pc
    BY <2>1, ReportFrame
  <2>. QED  BY <2>1, <2>2, <1>10 DEF InitMessage, KeepsClient, KeepsQuery, KeepsNeeds, pending, kept,
      hist, SwitchOf, NoClient, Begins, Starting, TornOf, Serving
<1>11. ASSUME NEW k \in Keys, Result(k) PROVE SwitchInv'
  <2>. SUFFICES ASSUME NEW c \in Chats PROVE SwitchOf(c)'
    OBVIOUS
  <2>. c \in Keys
    BY DEF Keys
  <2>1. PICK sid \in Sid, pc \in Pc : Report(k, sid, pc) /\ pc \in {"stream", "result"} /\ query[k].pc = "stream"
    BY <1>11, StartedType DEF Result, Types, TypeOK, Query, Pc
  <2>2. /\ KeepsClient(c) /\ KeepsQuery(c) /\ KeepsNeeds(c) /\ query'[c].todo = query[c].todo
        /\ query'[c].pc = IF c = k THEN pc ELSE query[c].pc
    BY <2>1, ReportFrame
  <2>. QED  BY <2>1, <2>2, <1>11 DEF Result, KeepsClient, KeepsQuery, KeepsNeeds, pending, kept,
      hist, SwitchOf, NoClient, Begins, Starting, TornOf, Serving
<1>12. ASSUME NEW k \in Keys, FailChat(k) PROVE SwitchInv'
  BY <1>12 DEF FailChat, store, pending, kept, hist, Teardown, Set, SwitchOf, Begins, Starting,
      TornOf, Serving, Types, TypeOK, Query, Client, Keys, NoClient
<1>13. ASSUME NEW k \in Keys, Exhausted(k) PROVE SwitchInv'
  BY <1>13 DEF Exhausted, store, pending, kept, hist, Teardown, Set, GiveUp, SwitchOf, Begins,
      Starting, TornOf, Serving, Types, TypeOK, Query, Client, Keys, NoClient
<1>14. ASSUME NEW k \in Keys, Finish(k) PROVE SwitchInv'
  BY <1>14 DEF Finish, store, pending, kept, hist, Goto, SwitchOf, Begins, Starting, TornOf, Serving,
      Types, TypeOK, Query, Client, Keys, NoClient
<1>15. ASSUME NEW k \in Keys, AfterReset(k) PROVE SwitchInv'
  BY <1>15 DEF AfterReset, store, pending, kept, hist, Teardown, Set, GiveUp, SwitchOf, Begins,
      Starting, TornOf, Serving, Types, TypeOK, Query, Client, Keys, NoClient
<1>16. ASSUME NEW k \in Keys, AfterBudget(k) PROVE SwitchInv'
  BY <1>16 DEF AfterBudget, store, pending, kept, hist, Teardown, Set, SwitchOf, Begins, Starting,
      TornOf, Serving, Types, TypeOK, Query, Client, Keys, NoClient
<1>17. ASSUME NEW k \in Keys, Return(k) PROVE SwitchInv'
  BY <1>17 DEF Return, store, pending, kept, hist, Returning, Set, NoQuery, SwitchOf, Begins,
      Starting, TornOf, Serving, Types, TypeOK, Query, Client, Keys, NoClient
<1>18. ASSUME NEW k \in Keys, RateLimited(k) PROVE SwitchInv'
  BY <1>18 DEF RateLimited, store, pending, kept, hist, Returning, Teardown, Set, SwitchOf, Begins,
      Starting, TornOf, Serving, Types, TypeOK, Query, Client, Keys, NoClient
<1>19. ASSUME NEW k \in Keys, Suspicious(k) PROVE SwitchInv'
  BY <1>19 DEF Suspicious, store, pending, kept, hist, Returning, Set, NoQuery, SwitchOf, Begins,
      Starting, TornOf, Serving, Types, TypeOK, Query, Client, Keys, NoClient
<1>20. ASSUME NEW k \in Keys, EndSystem(k) PROVE SwitchInv'
  BY <1>20 DEF EndSystem, store, pending, kept, hist, Teardown, Set, SwitchOf, Begins, Starting,
      TornOf, Serving, Types, TypeOK, Query, Client, Keys, NoClient
<1>21. ASSUME NEW k \in Keys, CancelChat(k) PROVE SwitchInv'
  <2>. SUFFICES ASSUME NEW c \in Chats PROVE SwitchOf(c)'
    OBVIOUS
  <2>. c \in Keys
    BY DEF Keys
  <2>1. CASE c # k
    BY <2>1, <1>21 DEF CancelChat, Set, store, pending, kept, hist, Types, TypeOK, Query, Client,
        Keys, NoClient, SwitchOf, Begins, Starting, TornOf, Serving
  <2>2. CASE c = k
    BY <2>2, <1>21 DEF CancelChat, Set, NoQuery, store, pending, kept, hist, Types, TypeOK, Query,
        Client, Keys, NoClient, SwitchOf, Begins, Starting, TornOf, Serving
  <2>. QED  BY <2>1, <2>2
<1>22. ASSUME NEW k \in Keys, QueryStep(k) PROVE SwitchInv'
  <2>. SUFFICES ASSUME NEW c \in Chats PROVE SwitchOf(c)'
    OBVIOUS
  <2>. c \in Keys
    BY DEF Keys
  <2>1. /\ client' = client /\ query[k].pc = "tear" /\ UNCHANGED <<settings, pending, hist>>
        /\ c # k => query'[c] = query[c]
        /\ c = k => \/ query'[c] = NoQuery
                    \/ /\ KeepsQuery(c) /\ KeepsNeeds(c)
                       /\ \/ query'[c].pc = "tear" /\ query'[c].todo = Tail(query[c].todo)
                          \/ query'[c].pc = query[c].next
    BY <1>22, QueryStepFrame
  <2>2. CASE c # k
    BY <2>1, <2>2 DEF pending, kept, hist, SwitchOf, NoClient, Begins, Starting, TornOf, Serving
  <2>3. CASE c = k
    <3>1. SwitchOf(c) /\ TornOf(c)
      BY DEF TornIsGone, Keys
    <3>2. CASE query'[c] = NoQuery
      BY <2>1, <2>3, <3>1, <3>2 DEF pending, kept, hist, NoQuery, SwitchOf, NoClient, Begins,
          Starting, TornOf, Serving
    <3>3. CASE KeepsQuery(c) /\ KeepsNeeds(c) /\ query'[c].pc = "tear"
      BY <2>1, <2>3, <3>1, <3>3 DEF pending, kept, hist, KeepsQuery, KeepsNeeds, SwitchOf, NoClient,
          Begins, Starting, TornOf, Serving
    <3>4. CASE KeepsQuery(c) /\ KeepsNeeds(c) /\ query'[c].pc = query[c].next
      BY <2>1, <2>3, <3>1, <3>4 DEF pending, kept, hist, KeepsQuery, KeepsNeeds, SwitchOf, NoClient,
          Begins, Starting, TornOf, Serving
    <3>. QED  BY <2>1, <2>3, <3>2, <3>3, <3>4
  <2>. QED  BY <2>2, <2>3
<1>23. ASSUME NEW k \in Keys, TaskStep(k) PROVE SwitchInv'
  <2>. SUFFICES ASSUME NEW c \in Chats PROVE SwitchOf(c)'
    OBVIOUS
  <2>. c \in Keys
    BY DEF Keys
  <2>1. /\ client' = client /\ KeepsQuery(c) /\ query'[c].pc = query[c].pc
        /\ query'[c].todo = query[c].todo /\ query'[c].needCap = query[c].needCap
        /\ UNCHANGED <<settings, pending, hist>>
    BY <1>23, TaskFrame
  <2>. QED  BY <2>1 DEF KeepsQuery, pending, kept, hist, SwitchOf, NoClient, Begins, Starting,
      TornOf, Serving
<1>24. ASSUME NEW k \in Keys, ResetSession(k) PROVE SwitchInv'
  <2>. SUFFICES ASSUME NEW c \in Chats PROVE SwitchOf(c)'
    OBVIOUS
  <2>. c \in Keys
    BY DEF Keys
  <2>1. /\ client'[c] = IF c = k THEN NoClient ELSE client[c]
        /\ KeepsQuery(c) /\ query'[c].pc = query[c].pc /\ query'[c].todo = query[c].todo
        /\ query'[c].needCap = IF c = k THEN 0 ELSE query[c].needCap
    BY <1>24, ResetFrame
  <2>. QED  BY <2>1, <1>24 DEF ResetSession, KeepsQuery, GiveUp, Set, pending, SwitchOf,
      NoClient, Begins, Starting, TornOf, Serving
<1>25. ASSUME NEW k \in Keys, Dies(k) PROVE SwitchInv'
  BY <1>25 DEF Dies, store, pending, kept, hist, SwitchOf, Begins, Starting, TornOf, Serving, Types,
      TypeOK, Query, Client, Keys, NoClient
<1>26. ASSUME NEW k \in Keys, SwitchModel(k) PROVE SwitchInv'
  BY <1>26 DEF SwitchModel, store, pending, kept, hist, ToolCall, NewSettings, Set, SwitchOf,
      Begins, Starting, TornOf, Serving, Types, TypeOK, Query, Client, Keys, NoClient
<1>27. ASSUME NEW k \in Keys, SwitchFromOutside(k) PROVE SwitchInv'
  BY <1>27 DEF SwitchFromOutside, store, pending, kept, hist, NewSettings, SwitchOf, Begins,
      Starting, TornOf, Serving, Types, TypeOK, Query, Client, Keys, NoClient
<1>28. ASSUME NEW k \in Keys, AssignHarness(k) PROVE SwitchInv'
  BY <1>28 DEF AssignHarness, store, pending, kept, hist, NewSettings, Set, SwitchOf, Begins,
      Starting, TornOf, Serving, Types, TypeOK, Query, Client, Keys, NoClient
<1>29. ASSUME NEW k \in Keys, ExtendBudget(k) PROVE SwitchInv'
  BY <1>29, ExtendFrame DEF ToolCall, Types, TypeOK, Query, Client, Keys, NoClient,
      SwitchOf, Begins, Starting, TornOf, Serving
<1>30. ASSUME NEW k \in Keys, Inject(k) PROVE SwitchInv'
  BY <1>30 DEF Inject, store, pending, kept, hist, SwitchOf, Begins, Starting, TornOf, Serving,
      Types, TypeOK, Query, Client, Keys, NoClient
<1>31. ASSUME NEW k \in Keys, ReadInjected(k) PROVE SwitchInv'
  BY <1>31 DEF ReadInjected, store, pending, kept, hist, SwitchOf, Begins, Starting, TornOf,
      Serving, Types, TypeOK, Query, Client, Keys, NoClient
<1>32. ASSUME CleanFiles PROVE SwitchInv'
  BY <1>32 DEF CleanFiles, store, pending, kept, hist, SwitchOf, Begins, Starting, TornOf, Serving,
      Types, TypeOK, Query, Client, Keys, NoClient
<1>33. ASSUME PruneMap PROVE SwitchInv'
  BY <1>33 DEF PruneMap, store, pending, kept, hist, SwitchOf, Begins, Starting, TornOf, Serving,
      Types, TypeOK, Query, Client, Keys, NoClient
<1>34. ASSUME Restart PROVE SwitchInv'
  BY <1>34 DEF Restart, store, pending, kept, hist, NoQuery, SwitchOf, Begins, Starting, TornOf,
      Serving, Types, TypeOK, Query, Client, Keys, NoClient
<1>35. CASE UNCHANGED vars
  BY <1>35 DEF vars, store, pending, kept, hist, SwitchOf, Begins, Starting, TornOf, Serving
<1>36. ASSUME NEW k \in Keys, LoadFails(k) PROVE SwitchInv'
  BY <1>36 DEF LoadFails, store, pending, hist, Goto, SwitchOf, Begins, Starting,
      TornOf, Serving, Types, TypeOK, Query, Client, Keys, NoClient
<1>37. ASSUME NEW k \in Keys, Fallback(k) PROVE SwitchInv'
  BY <1>37 DEF Fallback, store, pending, hist, Set, SwitchOf, Begins, Starting,
      TornOf, Serving, Types, TypeOK, Query, Client, Keys, NoClient
<1>38. ASSUME PruneRead PROVE SwitchInv'
  BY <1>38 DEF PruneRead, store, pending, kept, hist, SwitchOf, Begins, Starting,
      TornOf, Serving, Types, TypeOK, Query, Client, Keys, NoClient
<1>. QED  BY <1>1, <1>2, <1>3, <1>4, <1>5, <1>6, <1>7, <1>8, <1>9, <1>10, <1>11, <1>12, <1>13,
    <1>14, <1>15, <1>16, <1>17, <1>18, <1>19, <1>20, <1>21, <1>22, <1>23, <1>24, <1>25, <1>26,
    <1>27, <1>28, <1>29, <1>30, <1>31, <1>32, <1>33, <1>34, <1>35, <1>36, <1>37, <1>38
  DEF Next, QueryNext, Beside

\* The cap a chat was told of is the cap in force, until a reset takes it away: the
\* promise is taken back first. Only the query that raised it may still run in a client
\* from before, and its teardown is scheduled.
BudgetOf(c) ==
  /\ granted[c] <= Cap(c)
  /\ Has(task[c], "uncap") => granted[c] = 0
  /\ query[c].pc = "tear" /\ Has(query[c].todo, "uncap") => granted[c] = 0
  /\ Begins(c) => query[c].needCap <= granted[c]
  /\ query[c].pc = "connect" => granted[c] <= query[c].cap
  /\ client[c].up # "none" /\ client[c].cap < granted[c] =>
       c \in pendBudget /\ query[c].pc \in {"stream", "result", "after", "after2"}
  /\ Serving(c) => query[c].cap >= query[c].needCap
BudgetInv == \A c \in Chats : BudgetOf(c)

\* And what extend_budget granted: only a reset, which takes the grant back first, lowers the cap.
LEMMA BudgetInvStep ==
  ASSUME PoolAssumption, Types, BudgetInv, TornIsGone, [Next]_vars
  PROVE  BudgetInv'
<1>. USE DEF BudgetInv
<1>1. ASSUME NEW k \in Keys, BeginChat(k) PROVE BudgetInv'
  <2>. SUFFICES ASSUME NEW c \in Chats PROVE BudgetOf(c)'
    OBVIOUS
  <2>. c \in Keys
    BY DEF Keys
  <2>1. UNCHANGED <<client, override, pendBudget, granted, task>>
    BY <1>1 DEF BeginChat, pending, kept, hist
  <2>2. Cap(c)' = Cap(c)
    BY <2>1 DEF Cap
  <2>3. CASE c # k
    <3>1. query'[c] = query[c]
      BY <2>3, <1>1 DEF BeginChat, Set, Types, TypeOK
    <3>. QED  BY <2>1, <2>2, <3>1 DEF BudgetOf, Begins, Starting, TornOf, TornIsGone, Serving
  <2>4. CASE c = k
    <3>1. query'[c].pc = "setup" /\ query'[c].needCap = granted[c] /\ query[c].pc = "idle"
      BY <2>4, <1>1 DEF BeginChat, Set, NoQuery, Types, TypeOK
    <3>2. granted[c] \in Nat
      BY DEF Types, TypeOK
    <3>. QED  BY <2>1, <2>2, <3>1, <3>2 DEF BudgetOf, Begins, Starting, TornOf, TornIsGone,
        Serving
  <2>. QED  BY <2>3, <2>4
<1>2. ASSUME NEW k \in Keys, BeginSystem(k) PROVE BudgetInv'
  BY <1>2 DEF BeginSystem, store, pending, kept, hist, Teardown, Set, Disconnect, BudgetOf, Begins,
      Starting, TornOf, TornIsGone, Serving, Cap, Default, Types, TypeOK, Query, Client, Keys,
      NoClient
<1>3. ASSUME NEW k \in Keys, EnterSystem(k) PROVE BudgetInv'
  BY <1>3 DEF EnterSystem, store, pending, kept, hist, Goto, BudgetOf, Begins, Starting, TornOf,
      TornIsGone, Serving, Cap, Default, Types, TypeOK, Query, Client, Keys, NoClient
<1>4. ASSUME NEW k \in Keys, Reuse(k) PROVE BudgetInv'
  BY <1>4 DEF Reuse, store, pending, kept, hist, BudgetOf, Begins, Starting, TornOf, TornIsGone,
      Serving, Cap, Default, Types, TypeOK, Query, Client, Keys, NoClient
<1>5. ASSUME NEW k \in Keys, DropDead(k) PROVE BudgetInv'
  BY <1>5 DEF DropDead, store, pending, kept, hist, Set, BudgetOf, Begins, Starting, TornOf,
      TornIsGone, Serving, Cap, Default, Types, TypeOK, Query, Client, Keys, NoClient
<1>6. ASSUME NEW k \in Keys, LoadSid(k) PROVE BudgetInv'
  BY <1>6 DEF LoadSid, store, pending, kept, hist, BudgetOf, Begins, Starting, TornOf, TornIsGone,
      Serving, Cap, Default, Types, TypeOK, Query, Client, Keys, NoClient
<1>7. ASSUME NEW k \in Keys, Build(k) PROVE BudgetInv'
  BY <1>7 DEF Build, store, pending, kept, hist, Cap, BudgetOf, Begins, Starting, TornOf, TornIsGone,
      Serving, Default, Types, TypeOK, Query, Client, Keys, NoClient
<1>8. ASSUME NEW k \in Keys, Connect(k) PROVE BudgetInv'
  BY <1>8 DEF Connect, store, pending, kept, hist, Set, BudgetOf, Begins, Starting, TornOf,
      TornIsGone, Serving, Cap, Default, Types, TypeOK, Query, Client, Keys, NoClient
<1>9. ASSUME NEW k \in Keys, Send(k) PROVE BudgetInv'
  BY <1>9 DEF Send, store, pending, kept, hist, Goto, BudgetOf, Begins, Starting, TornOf, TornIsGone,
      Serving, Cap, Default, Types, TypeOK, Query, Client, Keys, NoClient
<1>10. ASSUME NEW k \in Keys, InitMessage(k) PROVE BudgetInv'
  <2>. SUFFICES ASSUME NEW c \in Chats PROVE BudgetOf(c)'
    OBVIOUS
  <2>. c \in Keys
    BY DEF Keys
  <2>1. PICK sid \in Sid, pc \in Pc : Report(k, sid, pc) /\ pc \in {"stream", "result"} /\ query[k].pc = "stream"
    BY <1>10, StartedType DEF InitMessage, Types, TypeOK, Query, Pc
  <2>2. /\ KeepsClient(c) /\ KeepsQuery(c) /\ KeepsNeeds(c) /\ query'[c].todo = query[c].todo
        /\ query'[c].pc = IF c = k THEN pc ELSE query[c].pc
    BY <2>1, ReportFrame
  <2>. QED  BY <2>1, <2>2, <1>10 DEF InitMessage, KeepsClient, KeepsQuery, KeepsNeeds, pending, kept,
      hist, BudgetOf, NoClient, Begins, Starting, TornOf, TornIsGone, Serving, Cap, Default
<1>11. ASSUME NEW k \in Keys, Result(k) PROVE BudgetInv'
  <2>. SUFFICES ASSUME NEW c \in Chats PROVE BudgetOf(c)'
    OBVIOUS
  <2>. c \in Keys
    BY DEF Keys
  <2>1. PICK sid \in Sid, pc \in Pc : Report(k, sid, pc) /\ pc \in {"stream", "result"} /\ query[k].pc = "stream"
    BY <1>11, StartedType DEF Result, Types, TypeOK, Query, Pc
  <2>2. /\ KeepsClient(c) /\ KeepsQuery(c) /\ KeepsNeeds(c) /\ query'[c].todo = query[c].todo
        /\ query'[c].pc = IF c = k THEN pc ELSE query[c].pc
    BY <2>1, ReportFrame
  <2>. QED  BY <2>1, <2>2, <1>11 DEF Result, KeepsClient, KeepsQuery, KeepsNeeds, pending, kept,
      hist, BudgetOf, NoClient, Begins, Starting, TornOf, TornIsGone, Serving, Cap, Default
<1>12. ASSUME NEW k \in Keys, FailChat(k) PROVE BudgetInv'
  <2>. SUFFICES ASSUME NEW c \in Chats PROVE BudgetOf(c)'
    OBVIOUS
  <2>. c \in Keys
    BY DEF Keys
  <2>1. Teardown(k, <<"close", "forget">>, "idle") /\ UNCHANGED <<override, granted, task>> /\ (c # k => (c \in pendBudget <=> c \in pendBudget'))
    BY <1>12 DEF FailChat, pending, kept, hist
  <2>2. Cap(c)' = Cap(c)
    BY <2>1 DEF Cap
  <2>3. /\ c # k => client'[c] = client[c] /\ query'[c] = query[c]
        /\ c = k => /\ client'[c].up = "none" /\ query'[c].pc = "tear"
                    /\ query'[c].todo = <<"close", "forget">> /\ query'[c].next = "idle"
    BY <2>1, TearFrame
  <2>. QED  BY <2>1, <2>2, <2>3, HasPlans DEF BudgetOf, Begins, Starting, TornOf, TornIsGone,
      Serving
<1>13. ASSUME NEW k \in Keys, Exhausted(k) PROVE BudgetInv'
  BY <1>13 DEF Exhausted, store, pending, kept, hist, Teardown, Set, GiveUp, BudgetOf, Begins,
      Starting, TornOf, TornIsGone, Serving, Cap, Default, Types, TypeOK, Query, Client, Keys,
      NoClient
<1>14. ASSUME NEW k \in Keys, Finish(k) PROVE BudgetInv'
  BY <1>14 DEF Finish, store, pending, kept, hist, Goto, BudgetOf, Begins, Starting, TornOf,
      TornIsGone, Serving, Cap, Default, Types, TypeOK, Query, Client, Keys, NoClient
<1>15. ASSUME NEW k \in Keys, AfterReset(k) PROVE BudgetInv'
  BY <1>15 DEF AfterReset, store, pending, kept, hist, Teardown, Set, GiveUp, BudgetOf, Begins,
      Starting, TornOf, TornIsGone, Serving, Cap, Default, Types, TypeOK, Query, Client, Keys,
      NoClient
<1>16. ASSUME NEW k \in Keys, AfterBudget(k) PROVE BudgetInv'
  <2>. SUFFICES ASSUME NEW c \in Chats PROVE BudgetOf(c)'
    OBVIOUS
  <2>. c \in Keys
    BY DEF Keys
  <2>1. Teardown(k, Disconnect, "post") /\ UNCHANGED <<override, granted, task>> /\ (c # k => (c \in pendBudget <=> c \in pendBudget'))
    BY <1>16 DEF AfterBudget, pending, kept, hist
  <2>2. Cap(c)' = Cap(c)
    BY <2>1 DEF Cap
  <2>3. /\ c # k => client'[c] = client[c] /\ query'[c] = query[c]
        /\ c = k => /\ client'[c].up = "none" /\ query'[c].pc = "tear"
                    /\ query'[c].todo = Disconnect /\ query'[c].next = "post"
    BY <2>1, TearFrame
  <2>. QED  BY <2>1, <2>2, <2>3, HasPlans DEF BudgetOf, Begins, Starting, TornOf, TornIsGone,
      Serving
<1>17. ASSUME NEW k \in Keys, Return(k) PROVE BudgetInv'
  BY <1>17 DEF Return, store, pending, kept, hist, Returning, Set, NoQuery, BudgetOf, Begins,
      Starting, TornOf, TornIsGone, Serving, Cap, Default, Types, TypeOK, Query, Client, Keys,
      NoClient
<1>18. ASSUME NEW k \in Keys, RateLimited(k) PROVE BudgetInv'
  <2>. SUFFICES ASSUME NEW c \in Chats PROVE BudgetOf(c)'
    OBVIOUS
  <2>. c \in Keys
    BY DEF Keys
  <2>1. Teardown(k, Disconnect, "idle") /\ UNCHANGED <<override, granted, task>> /\ (c # k => (c \in pendBudget <=> c \in pendBudget'))
    BY <1>18 DEF RateLimited, pending, kept, hist
  <2>2. Cap(c)' = Cap(c)
    BY <2>1 DEF Cap
  <2>3. /\ c # k => client'[c] = client[c] /\ query'[c] = query[c]
        /\ c = k => /\ client'[c].up = "none" /\ query'[c].pc = "tear"
                    /\ query'[c].todo = Disconnect /\ query'[c].next = "idle"
    BY <2>1, TearFrame
  <2>. QED  BY <2>1, <2>2, <2>3, HasPlans DEF BudgetOf, Begins, Starting, TornOf, TornIsGone,
      Serving
<1>19. ASSUME NEW k \in Keys, Suspicious(k) PROVE BudgetInv'
  <2>. SUFFICES ASSUME NEW c \in Chats PROVE BudgetOf(c)'
    OBVIOUS
  <2>. c \in Keys
    BY DEF Keys
  <2>1. Cap(c)' = Cap(c)
    BY <1>19 DEF Suspicious, Teardown, Set, Cap
  <2>. QED  BY <2>1, <1>19, HasPlans DEF Suspicious, store, pending, kept, hist, Returning, Set,
      NoQuery, BudgetOf, Begins, Starting, TornOf, TornIsGone, Serving, Types, TypeOK, Query,
      Client, Keys, NoClient
<1>20. ASSUME NEW k \in Keys, EndSystem(k) PROVE BudgetInv'
  BY <1>20 DEF EndSystem, store, pending, kept, hist, Teardown, Set, BudgetOf, Begins, Starting,
      TornOf, TornIsGone, Serving, Cap, Default, Types, TypeOK, Query, Client, Keys, NoClient
<1>21. ASSUME NEW k \in Keys, CancelChat(k) PROVE BudgetInv'
  <2>. SUFFICES ASSUME NEW c \in Chats PROVE BudgetOf(c)'
    OBVIOUS
  <2>. c \in Keys
    BY DEF Keys
  <2>1. CASE c # k
    BY <2>1, <1>21 DEF CancelChat, Set, store, pending, kept, hist, Types, TypeOK, Query, Client,
        Keys, NoClient, BudgetOf, Begins, Starting, TornOf, TornIsGone, Serving, Cap, Default
  <2>2. CASE c = k
    BY <2>2, <1>21 DEF CancelChat, Set, NoQuery, store, pending, kept, hist, Types, TypeOK, Query,
        Client, Keys, NoClient, BudgetOf, Begins, Starting, TornOf, TornIsGone, Serving, Cap,
        Default
  <2>. QED  BY <2>1, <2>2
<1>22. ASSUME NEW k \in Keys, QueryStep(k) PROVE BudgetInv'
  <2>. SUFFICES ASSUME NEW c \in Chats PROVE BudgetOf(c)'
    OBVIOUS
  <2>. c \in Keys
    BY DEF Keys
  <2>1. /\ client' = client /\ query[k].pc = "tear" /\ UNCHANGED <<settings, pending, hist>>
        /\ UNCHANGED task /\ query[k].todo # << >>
        /\ override'[c] = IF c = k /\ Head(query[k].todo) = "uncap" THEN 0 ELSE override[c]
        /\ c # k => query'[c] = query[c]
        /\ c = k => \/ query'[c] = NoQuery
                    \/ /\ KeepsQuery(c) /\ KeepsNeeds(c)
                       /\ \/ query'[c].pc = "tear" /\ query'[c].todo = Tail(query[c].todo)
                          \/ query'[c].pc = query[c].next
    BY <1>22, QueryStepFrame
  <2>2. CASE c # k
    BY <2>1, <2>2 DEF pending, kept, hist, BudgetOf, Begins, Starting, TornOf, TornIsGone, Serving,
        Cap, Default
  <2>3. CASE c = k
    <3>1. BudgetOf(c) /\ TornOf(c) /\ query[k].todo \in Plans
      BY DEF TornIsGone, Keys, Types, TypeOK, Query
    <3>2. /\ Has(Tail(query[c].todo), "uncap") => Has(query[c].todo, "uncap")
          /\ Head(query[c].todo) = "uncap" => Has(query[c].todo, "uncap")
      BY <2>1, <2>3, <3>1, HasLess
    <3>3. granted[c] <= Cap(c)'
      BY <2>1, <2>3, <3>1, <3>2 DEF BudgetOf, Cap, Default
    <3>. USE DEF BudgetOf, TornOf, Begins, Starting, Serving
    <3>4. CASE query'[c] = NoQuery
      BY <2>1, <2>3, <3>1, <3>3, <3>4 DEF pending, kept, hist, NoQuery
    <3>5. CASE KeepsQuery(c) /\ KeepsNeeds(c) /\ query'[c].pc = "tear" /\ query'[c].todo = Tail(query[c].todo)
      BY <2>1, <2>3, <3>1, <3>2, <3>3, <3>5 DEF pending, kept, hist, KeepsQuery, KeepsNeeds
    <3>6. CASE KeepsQuery(c) /\ KeepsNeeds(c) /\ query'[c].pc = query[c].next
      BY <2>1, <2>3, <3>1, <3>3, <3>6 DEF pending, kept, hist, KeepsQuery, KeepsNeeds
    <3>. QED  BY <2>1, <2>3, <3>4, <3>5, <3>6
  <2>. QED  BY <2>2, <2>3
<1>23. ASSUME NEW k \in Keys, TaskStep(k) PROVE BudgetInv'
  <2>. SUFFICES ASSUME NEW c \in Chats PROVE BudgetOf(c)'
    OBVIOUS
  <2>. c \in Keys
    BY DEF Keys
  <2>1. /\ client' = client /\ KeepsQuery(c) /\ query'[c].pc = query[c].pc
        /\ query'[c].todo = query[c].todo /\ query'[c].needCap = query[c].needCap
        /\ task'[c] = (IF c = k THEN Tail(task[k]) ELSE task[c]) /\ task[k] # << >>
        /\ override'[c] = IF c = k /\ Head(task[k]) = "uncap" THEN 0 ELSE override[c]
        /\ UNCHANGED <<settings, pending, hist>>
    BY <1>23, TaskFrame
  <2>2. task[k] \in Plans
    BY DEF Types, TypeOK
  <2>3. /\ Has(task'[c], "uncap") => Has(task[c], "uncap")
        /\ c = k /\ Head(task[k]) = "uncap" => Has(task[c], "uncap")
    BY <2>1, <2>2, HasLess
  <2>. QED  BY <2>1, <2>3 DEF KeepsQuery, pending, kept, hist, BudgetOf, Begins, Starting, TornOf,
      TornIsGone, Serving, Cap, Default
<1>24. ASSUME NEW k \in Keys, ResetSession(k) PROVE BudgetInv'
  <2>. SUFFICES ASSUME NEW c \in Chats PROVE BudgetOf(c)'
    OBVIOUS
  <2>. c \in Keys
    BY DEF Keys
  <2>1. /\ client'[c] = IF c = k THEN NoClient ELSE client[c]
        /\ KeepsQuery(c) /\ query'[c].pc = query[c].pc /\ query'[c].todo = query[c].todo
        /\ query'[c].needCap = IF c = k THEN 0 ELSE query[c].needCap
    BY <1>24, ResetFrame
  <2>2. Cap(c)' = Cap(c) /\ Cap(c) \in Nat
    BY <1>24 DEF ResetSession, Cap, Default, Types, TypeOK
  <2>3. /\ UNCHANGED pendBudget /\ granted' = [granted EXCEPT ![k] = 0]
        /\ task' = [task EXCEPT ![k] = Reset]
    BY <1>24 DEF ResetSession, GiveUp, Set, pending
  <2>4. CASE c # k
    BY <2>1, <2>2, <2>3, <2>4 DEF KeepsQuery, BudgetOf, Begins, Starting, TornOf, TornIsGone,
        Serving, Types, TypeOK
  <2>5. CASE c = k
    <3>1. granted'[c] = 0 /\ query'[c].needCap = 0 /\ client'[c].up = "none"
      BY <2>1, <2>3, <2>5 DEF NoClient, Types, TypeOK
    <3>2. query[c].cap \in Nat
      BY DEF Types, TypeOK, Query
    <3>. QED  BY <2>1, <2>2, <3>1, <3>2 DEF KeepsQuery, BudgetOf, Begins, Starting, TornOf,
        TornIsGone, Serving
  <2>. QED  BY <2>4, <2>5
<1>25. ASSUME NEW k \in Keys, Dies(k) PROVE BudgetInv'
  BY <1>25 DEF Dies, store, pending, kept, hist, BudgetOf, Begins, Starting, TornOf, TornIsGone,
      Serving, Cap, Default, Types, TypeOK, Query, Client, Keys, NoClient
<1>26. ASSUME NEW k \in Keys, SwitchModel(k) PROVE BudgetInv'
  BY <1>26 DEF SwitchModel, store, pending, kept, hist, ToolCall, NewSettings, Set, BudgetOf,
      Begins, Starting, TornOf, TornIsGone, Serving, Cap, Default, Types, TypeOK, Query,
      Client, Keys, NoClient
<1>27. ASSUME NEW k \in Keys, SwitchFromOutside(k) PROVE BudgetInv'
  BY <1>27 DEF SwitchFromOutside, store, pending, kept, hist, NewSettings, BudgetOf, Begins,
      Starting, TornOf, TornIsGone, Serving, Cap, Default, Types, TypeOK, Query, Client, Keys,
      NoClient
<1>28. ASSUME NEW k \in Keys, AssignHarness(k) PROVE BudgetInv'
  BY <1>28 DEF AssignHarness, store, pending, kept, hist, NewSettings, Set, BudgetOf, Begins,
      Starting, TornOf, TornIsGone, Serving, Cap, Default, Types, TypeOK, Query, Client, Keys,
      NoClient
<1>29. ASSUME NEW k \in Keys, ExtendBudget(k) PROVE BudgetInv'
  <2>. SUFFICES ASSUME NEW c \in Chats PROVE BudgetOf(c)'
    OBVIOUS
  <2>. c \in Keys
    BY DEF Keys
  <2>1. /\ override' = [override EXCEPT ![k] = Cap(k) + 1] /\ UNCHANGED task
        /\ granted' = [granted EXCEPT ![k] = IF task[k] = << >> THEN Cap(k) + 1 ELSE 0]
        /\ UNCHANGED <<client, query>> /\ pendBudget' = pendBudget \cup {k}
        /\ query[k].pc = "stream"
    BY <1>29, ExtendFrame, ExtendCaps DEF ToolCall
  <2>2. CASE c # k
    BY <2>1, <2>2 DEF Types, TypeOK, BudgetOf, Cap, Begins, Starting, TornOf, TornIsGone,
        Serving
  <2>3. CASE c = k
    <3>1. Cap(c) \in Nat /\ Cap(c)' = Cap(c) + 1 /\ granted'[c] \in {0, Cap(c) + 1}
      BY <2>1, <2>3 DEF Cap, Default, Types, TypeOK
    <3>2. Has(task'[c], "uncap") => granted'[c] = 0
      BY <2>1, <2>3, HasPlans DEF Types, TypeOK, BudgetOf
    <3>. QED  BY <2>1, <2>3, <3>1, <3>2 DEF BudgetOf, Begins, Starting, TornOf,
        TornIsGone, Serving
  <2>. QED  BY <2>2, <2>3
<1>30. ASSUME NEW k \in Keys, Inject(k) PROVE BudgetInv'
  BY <1>30 DEF Inject, store, pending, kept, hist, BudgetOf, Begins, Starting, TornOf, TornIsGone,
      Serving, Cap, Default, Types, TypeOK, Query, Client, Keys, NoClient
<1>31. ASSUME NEW k \in Keys, ReadInjected(k) PROVE BudgetInv'
  BY <1>31 DEF ReadInjected, store, pending, kept, hist, BudgetOf, Begins, Starting, TornOf,
      TornIsGone, Serving, Cap, Default, Types, TypeOK, Query, Client, Keys, NoClient
<1>32. ASSUME CleanFiles PROVE BudgetInv'
  BY <1>32 DEF CleanFiles, store, pending, kept, hist, BudgetOf, Begins, Starting, TornOf,
      TornIsGone, Serving, Cap, Default, Types, TypeOK, Query, Client, Keys, NoClient
<1>33. ASSUME PruneMap PROVE BudgetInv'
  BY <1>33 DEF PruneMap, store, pending, kept, hist, BudgetOf, Begins, Starting, TornOf, TornIsGone,
      Serving, Cap, Default, Types, TypeOK, Query, Client, Keys, NoClient
<1>34. ASSUME Restart PROVE BudgetInv'
  BY <1>34 DEF Restart, store, pending, kept, hist, NoQuery, BudgetOf, Begins, Starting, TornOf,
      TornIsGone, Serving, Cap, Default, Types, TypeOK, Query, Client, Keys, NoClient
<1>35. CASE UNCHANGED vars
  BY <1>35 DEF vars, store, pending, kept, hist, BudgetOf, Begins, Starting, TornOf, TornIsGone,
      Serving, Cap, Default
<1>36. ASSUME NEW k \in Keys, LoadFails(k) PROVE BudgetInv'
  BY <1>36 DEF LoadFails, store, pending, hist, Goto, BudgetOf, Begins, Starting,
      TornOf, TornIsGone, Serving, Cap, Default, Types, TypeOK, Query, Client, Keys, NoClient
<1>37. ASSUME NEW k \in Keys, Fallback(k) PROVE BudgetInv'
  <2>. SUFFICES ASSUME NEW c \in Chats PROVE BudgetOf(c)'
    OBVIOUS
  <2>. c \in Keys
    BY DEF Keys
  <2>1. UNCHANGED <<override, pendBudget, granted, task>>
    BY <1>37 DEF Fallback, pending, hist
  <2>2. Cap(c)' = Cap(c)
    BY <2>1 DEF Cap
  <2>3. CASE c # k
    <3>1. query'[c] = query[c] /\ client'[c] = client[c]
      BY <2>3, <1>37 DEF Fallback, Set, Types, TypeOK
    <3>. QED  BY <2>1, <2>2, <3>1 DEF BudgetOf, Begins, Starting, Serving
  <2>4. CASE c = k
    <3>1. /\ client'[c].up = "none" /\ query'[c].pc = "tear" /\ query'[c].todo = <<"forget">>
          /\ query'[c].needCap = query[c].needCap /\ query[c].pc \in Starting
      BY <2>4, FallbackFrame, <1>37
    <3>. QED  BY <2>1, <2>2, <3>1, HasPlans DEF BudgetOf, Begins, Starting, Serving
  <2>. QED  BY <2>3, <2>4
<1>38. ASSUME PruneRead PROVE BudgetInv'
  BY <1>38 DEF PruneRead, store, pending, kept, hist, BudgetOf, Begins, Starting,
      TornOf, TornIsGone, Serving, Cap, Default, Types, TypeOK, Query, Client, Keys, NoClient
<1>. QED  BY <1>1, <1>2, <1>3, <1>4, <1>5, <1>6, <1>7, <1>8, <1>9, <1>10, <1>11, <1>12, <1>13,
    <1>14, <1>15, <1>16, <1>17, <1>18, <1>19, <1>20, <1>21, <1>22, <1>23, <1>24, <1>25, <1>26,
    <1>27, <1>28, <1>29, <1>30, <1>31, <1>32, <1>33, <1>34, <1>35, <1>36, <1>37, <1>38
  DEF Next, QueryNext, Beside

\* A conversation that is owed is the one everything leads back to: the map, the
\* transcripts, the client, a start under way; no teardown under way will forget it.
Resumes(c) == query[c].pc = "load" \/ (query[c].pc = "tear" /\ query[c].next = "load")
Fresh(c) == query[c].pc \in {"idle", "enter", "setup"}
            \/ (query[c].pc = "tear" /\ query[c].next \in {"enter", "setup"})
OwedOf(c) ==
  owed[c] # 0 /\ lapse[c] = "none" =>
    /\ saved[c] = owed[c] /\ owed[c] \in files
    /\ client[c].up # "none" => client[c].sid = owed[c]
    /\ query[c].pc \in {"build", "connect"} => query[c].sid = owed[c]
    /\ Resumes(c) => query[c].sid \in {0, owed[c]}
    /\ ~Has(task[c], "forget") /\ (query[c].pc = "tear" => ~Has(query[c].todo, "forget"))
ConversationOf(c) ==
  /\ OwedOf(c)
  /\ Fresh(c) => query[c].sid = 0
  /\ Busy(c) /\ query[c].mine # "ok" => client[c].up = "none"
  /\ Begins(c) \/ query[c].pc = "idle" => query[c].mine = "ok"
ConversationInv == \A c \in Keys : ConversationOf(c)

\* A step that leaves the conversation of c alone keeps it.
LEMMA ConversationStays ==
  ASSUME NEW c \in Keys, ConversationOf(c),
         query'[c] = query[c], client'[c] = client[c], saved'[c] = saved[c],
         owed'[c] = owed[c], lapse'[c] = lapse[c], files \subseteq files', task'[c] = task[c]
  PROVE  ConversationOf(c)'
BY DEF ConversationOf, OwedOf, Resumes, Fresh, Busy, Begins, Starting

\* An owed conversation stays the one everything leads to.
LEMMA ConversationInvStep ==
  ASSUME PoolAssumption, Types, ConversationInv, TornIsGone, [Next]_vars
  PROVE  ConversationInv'
<1>. USE DEF ConversationInv
<1>1. ASSUME NEW k \in Keys, BeginChat(k) PROVE ConversationInv'
  BY <1>1 DEF BeginChat, store, pending, kept, hist, Set, NoQuery, ConversationOf, OwedOf, Resumes,
      Fresh, Busy, Begins, Starting, TornOf, TornIsGone, Types, TypeOK, Query, Client, Keys,
      NoClient
<1>2. ASSUME NEW k \in Keys, BeginSystem(k) PROVE ConversationInv'
  <2>. SUFFICES ASSUME NEW c \in Keys PROVE ConversationOf(c)'
    OBVIOUS
  <2>. c \in Keys
    BY DEF Keys
  <2>1. /\ Teardown(k, Disconnect, "enter") /\ UNCHANGED <<saved, files, task>>
        /\ (c # k => owed'[c] = owed[c] /\ lapse'[c] = lapse[c])
        /\ (c = k => owed'[c] = 0 \/ (owed'[c] = owed[c] /\ lapse'[c] = lapse[c]))
        /\ query[k].pc = "idle"
    BY <1>2 DEF BeginSystem, GiveUp, Drop, Set, store, kept, Types, TypeOK
  <2>2. /\ c # k => client'[c] = client[c] /\ query'[c] = query[c]
        /\ c = k => /\ client'[c].up = "none" /\ query'[c].pc = "tear" /\ query'[c].sid = query[c].sid
                    /\ KeepsNeeds(c) /\ query'[c].todo = Disconnect /\ query'[c].next = "enter"
    BY <2>1, TearFrame
  <2>. QED  BY <2>1, <2>2, HasPlans DEF ConversationOf, KeepsNeeds, OwedOf, Resumes, Fresh,
      Busy, Begins, Starting
<1>3. ASSUME NEW k \in Keys, EnterSystem(k) PROVE ConversationInv'
  BY <1>3 DEF EnterSystem, store, pending, kept, hist, Goto, ConversationOf, OwedOf, Resumes, Fresh,
      Busy, Begins, Starting, TornOf, TornIsGone, Types, TypeOK, Query, Client, Keys, NoClient
<1>4. ASSUME NEW k \in Keys, Reuse(k) PROVE ConversationInv'
  <2>. SUFFICES ASSUME NEW c \in Keys PROVE ConversationOf(c)'
    OBVIOUS
  <2>. c \in Keys
    BY DEF Keys
  <2>. ConversationOf(c)
    OBVIOUS
  <2>1. CASE c # k
    <3>1. /\ query'[c] = query[c] /\ client'[c] = client[c] /\ saved'[c] = saved[c]
          /\ owed'[c] = owed[c] /\ lapse'[c] = lapse[c] /\ files \subseteq files' /\ task'[c] = task[c]
      BY <2>1, <1>4 DEF Reuse, store, kept, Types, TypeOK
    <3>. QED  BY <3>1, ConversationStays
  <2>2. CASE c = k
    <3>1. /\ query'[c].pc = "ready" /\ query'[c].mine = query[c].mine /\ query[c].pc = "setup"
          /\ client[c].up = "live" /\ UNCHANGED <<client, saved, kept, files, task>>
      BY <2>2, <1>4 DEF Reuse, store, kept, Types, TypeOK, Query
    <3>2. query[c].mine = "ok"
      BY <3>1 DEF ConversationOf, Begins, Starting
    <3>. QED  BY <3>1, <3>2 DEF kept, ConversationOf, OwedOf, Resumes, Fresh, Busy, Begins, Starting
  <2>. QED  BY <2>1, <2>2
<1>5. ASSUME NEW k \in Keys, DropDead(k) PROVE ConversationInv'
  BY <1>5 DEF DropDead, store, pending, kept, hist, Set, ConversationOf, OwedOf, Resumes, Fresh,
      Busy, Begins, Starting, TornOf, TornIsGone, Types, TypeOK, Query, Client, Keys, NoClient
<1>6. ASSUME NEW k \in Keys, LoadSid(k) PROVE ConversationInv'
  BY <1>6 DEF LoadSid, store, pending, kept, hist, ConversationOf, OwedOf, Resumes, Fresh, Busy,
      Begins, Starting, TornOf, TornIsGone, Types, TypeOK, Query, Client, Keys, NoClient
<1>7. ASSUME NEW k \in Keys, Build(k) PROVE ConversationInv'
  BY <1>7 DEF Build, store, pending, kept, hist, Cap, ConversationOf, OwedOf, Resumes, Fresh, Busy,
      Begins, Starting, TornOf, TornIsGone, Types, TypeOK, Query, Client, Keys, NoClient
<1>8. ASSUME NEW k \in Keys, Connect(k) PROVE ConversationInv'
  <2>. SUFFICES ASSUME NEW c \in Keys PROVE ConversationOf(c)'
    OBVIOUS
  <2>. c \in Keys
    BY DEF Keys
  <2>. ConversationOf(c)
    OBVIOUS
  <2>1. CASE c # k
    <3>1. /\ query'[c] = query[c] /\ client'[c] = client[c] /\ saved'[c] = saved[c]
          /\ owed'[c] = owed[c] /\ lapse'[c] = lapse[c] /\ files \subseteq files' /\ task'[c] = task[c]
      BY <2>1, <1>8 DEF Connect, Set, store, kept, Types, TypeOK
    <3>. QED  BY <3>1, ConversationStays
  <2>2. CASE c = k
    <3>1. /\ query'[c] = [query[c] EXCEPT !.pc = "ready", !.again = FALSE] /\ query[c].pc = "connect"
          /\ client'[c].sid = query[c].sid /\ client'[c].up = "live"
          /\ UNCHANGED <<saved, kept, files, task>>
      BY <2>2, <1>8 DEF Connect, Set, store, kept, Types, TypeOK
    <3>2. query[c] \in Query
      BY DEF Types, TypeOK
    <3>3. query'[c].pc = "ready" /\ query'[c].mine = "ok"
      BY <3>1, <3>2 DEF Query, ConversationOf, Begins, Starting
    <3>. QED  BY <3>1, <3>3 DEF kept, ConversationOf, OwedOf, Resumes, Fresh, Busy, Begins, Starting
  <2>. QED  BY <2>1, <2>2
<1>9. ASSUME NEW k \in Keys, Send(k) PROVE ConversationInv'
  BY <1>9 DEF Send, store, pending, kept, hist, Goto, ConversationOf, OwedOf, Resumes, Fresh, Busy,
      Begins, Starting, TornOf, TornIsGone, Types, TypeOK, Query, Client, Keys, NoClient
<1>10. ASSUME NEW k \in Keys, InitMessage(k) PROVE ConversationInv'
  <2>0. PICK sid \in Sid, pc \in Pc : Report(k, sid, pc) /\ pc \in {"stream", "result"}
    BY <1>10, StartedType DEF InitMessage, Types, TypeOK, Query, Pc
  <2>. SUFFICES ASSUME NEW c \in Keys PROVE ConversationOf(c)'
    OBVIOUS
  <2>. c \in Keys
    BY DEF Keys
  <2>. ConversationOf(c)
    OBVIOUS
  <2>1. CASE c # k
    <3>1. /\ query'[c] = query[c] /\ client'[c] = client[c] /\ saved'[c] = saved[c]
          /\ owed'[c] = owed[c] /\ lapse'[c] = lapse[c] /\ files \subseteq files' /\ task'[c] = task[c]
      BY <2>1, <1>10, <2>0, ReportConversation DEF InitMessage
    <3>. QED  BY <3>1, ConversationStays
  <2>2. CASE c = k
    <3>1. /\ query'[c].pc = pc /\ query'[c].mine = query[c].mine /\ client'[c].up = client[c].up
      BY <2>0, <2>2, ReportFrame DEF KeepsClient, KeepsNeeds
    <3>2. /\ owed'[c] = (IF task[k] = << >> THEN sid ELSE 0) /\ sid \in files'
          /\ owed'[c] # 0 /\ lapse'[c] = "none" => saved'[c] = sid
          /\ query[c].mine = "ok" => client'[c].sid = sid
      BY <2>0, <2>2, ReportConversation
    <3>3. query[c].pc = "stream" /\ UNCHANGED task
      BY <2>2, <1>10 DEF InitMessage
    <3>. QED  BY <2>0, <2>2, <3>1, <3>2, <3>3, HasPlans DEF ConversationOf, OwedOf, Resumes,
        Fresh, Busy, Begins, Starting
  <2>. QED  BY <2>1, <2>2
<1>11. ASSUME NEW k \in Keys, Result(k) PROVE ConversationInv'
  <2>0. PICK sid \in Sid, pc \in Pc : Report(k, sid, pc) /\ pc \in {"stream", "result"}
    BY <1>11, StartedType DEF Result, Types, TypeOK, Query, Pc
  <2>. SUFFICES ASSUME NEW c \in Keys PROVE ConversationOf(c)'
    OBVIOUS
  <2>. c \in Keys
    BY DEF Keys
  <2>. ConversationOf(c)
    OBVIOUS
  <2>1. CASE c # k
    <3>1. /\ query'[c] = query[c] /\ client'[c] = client[c] /\ saved'[c] = saved[c]
          /\ owed'[c] = owed[c] /\ lapse'[c] = lapse[c] /\ files \subseteq files' /\ task'[c] = task[c]
      BY <2>1, <1>11, <2>0, ReportConversation DEF Result
    <3>. QED  BY <3>1, ConversationStays
  <2>2. CASE c = k
    <3>1. /\ query'[c].pc = pc /\ query'[c].mine = query[c].mine /\ client'[c].up = client[c].up
      BY <2>0, <2>2, ReportFrame DEF KeepsClient, KeepsNeeds
    <3>2. /\ owed'[c] = (IF task[k] = << >> THEN sid ELSE 0) /\ sid \in files'
          /\ owed'[c] # 0 /\ lapse'[c] = "none" => saved'[c] = sid
          /\ query[c].mine = "ok" => client'[c].sid = sid
      BY <2>0, <2>2, ReportConversation
    <3>3. query[c].pc = "stream" /\ UNCHANGED task
      BY <2>2, <1>11 DEF Result
    <3>. QED  BY <2>0, <2>2, <3>1, <3>2, <3>3, HasPlans DEF ConversationOf, OwedOf, Resumes,
        Fresh, Busy, Begins, Starting
  <2>. QED  BY <2>1, <2>2
<1>12. ASSUME NEW k \in Keys, FailChat(k) PROVE ConversationInv'
  <2>. SUFFICES ASSUME NEW c \in Keys PROVE ConversationOf(c)'
    OBVIOUS
  <2>. c \in Keys
    BY DEF Keys
  <2>1. /\ Teardown(k, <<"close", "forget">>, "idle") /\ UNCHANGED <<saved, files, task>>
        /\ (c # k => owed'[c] = owed[c] /\ lapse'[c] = lapse[c])
        /\ (c = k => owed'[c] = 0 \/ (owed'[c] = owed[c] /\ lapse'[c] = lapse[c]))
        /\ owed'[k] = 0
    BY <1>12 DEF FailChat, Drop, Set, store, kept, Types, TypeOK
  <2>2. /\ c # k => client'[c] = client[c] /\ query'[c] = query[c]
        /\ c = k => /\ client'[c].up = "none" /\ query'[c].pc = "tear" /\ query'[c].sid = query[c].sid
                    /\ KeepsNeeds(c) /\ query'[c].todo = <<"close", "forget">> /\ query'[c].next = "idle"
    BY <2>1, TearFrame
  <2>. QED  BY <2>1, <2>2, HasPlans DEF ConversationOf, KeepsNeeds, OwedOf, Resumes, Fresh,
      Busy, Begins, Starting
<1>13. ASSUME NEW k \in Keys, Exhausted(k) PROVE ConversationInv'
  <2>. SUFFICES ASSUME NEW c \in Keys PROVE ConversationOf(c)'
    OBVIOUS
  <2>. c \in Keys
    BY DEF Keys
  <2>1. /\ Teardown(k, Reset, "after") /\ UNCHANGED <<saved, files, task>>
        /\ (c # k => owed'[c] = owed[c] /\ lapse'[c] = lapse[c])
        /\ (c = k => owed'[c] = 0 \/ (owed'[c] = owed[c] /\ lapse'[c] = lapse[c]))
        /\ owed'[k] = 0
    BY <1>13 DEF Exhausted, GiveUp, Drop, Set, store, kept, Types, TypeOK
  <2>2. /\ c # k => client'[c] = client[c] /\ query'[c] = query[c]
        /\ c = k => /\ client'[c].up = "none" /\ query'[c].pc = "tear" /\ query'[c].sid = query[c].sid
                    /\ KeepsNeeds(c) /\ query'[c].todo = Reset /\ query'[c].next = "after"
    BY <2>1, TearFrame
  <2>. QED  BY <2>1, <2>2, HasPlans DEF ConversationOf, KeepsNeeds, OwedOf, Resumes, Fresh,
      Busy, Begins, Starting
<1>14. ASSUME NEW k \in Keys, Finish(k) PROVE ConversationInv'
  BY <1>14 DEF Finish, store, pending, kept, hist, Goto, ConversationOf, OwedOf, Resumes, Fresh,
      Busy, Begins, Starting, TornOf, TornIsGone, Types, TypeOK, Query, Client, Keys, NoClient
<1>15. ASSUME NEW k \in Keys, AfterReset(k) PROVE ConversationInv'
  <2>. SUFFICES ASSUME NEW c \in Keys PROVE ConversationOf(c)'
    OBVIOUS
  <2>. c \in Keys
    BY DEF Keys
  <2>1. /\ Teardown(k, Reset, "after2") /\ UNCHANGED <<saved, files, task>>
        /\ (c # k => owed'[c] = owed[c] /\ lapse'[c] = lapse[c])
        /\ (c = k => owed'[c] = 0 \/ (owed'[c] = owed[c] /\ lapse'[c] = lapse[c]))
        /\ owed'[k] = 0
    BY <1>15 DEF AfterReset, GiveUp, Drop, Set, store, kept, Types, TypeOK
  <2>2. /\ c # k => client'[c] = client[c] /\ query'[c] = query[c]
        /\ c = k => /\ client'[c].up = "none" /\ query'[c].pc = "tear" /\ query'[c].sid = query[c].sid
                    /\ KeepsNeeds(c) /\ query'[c].todo = Reset /\ query'[c].next = "after2"
    BY <2>1, TearFrame
  <2>. QED  BY <2>1, <2>2, HasPlans DEF ConversationOf, KeepsNeeds, OwedOf, Resumes, Fresh,
      Busy, Begins, Starting
<1>16. ASSUME NEW k \in Keys, AfterBudget(k) PROVE ConversationInv'
  <2>. SUFFICES ASSUME NEW c \in Keys PROVE ConversationOf(c)'
    OBVIOUS
  <2>. c \in Keys
    BY DEF Keys
  <2>1. /\ Teardown(k, Disconnect, "post") /\ UNCHANGED <<saved, files, task>>
        /\ (c # k => owed'[c] = owed[c] /\ lapse'[c] = lapse[c])
        /\ (c = k => owed'[c] = 0 \/ (owed'[c] = owed[c] /\ lapse'[c] = lapse[c]))
        /\ TRUE
    BY <1>16 DEF AfterBudget, GiveUp, Drop, Set, store, kept, Types, TypeOK
  <2>2. /\ c # k => client'[c] = client[c] /\ query'[c] = query[c]
        /\ c = k => /\ client'[c].up = "none" /\ query'[c].pc = "tear" /\ query'[c].sid = query[c].sid
                    /\ KeepsNeeds(c) /\ query'[c].todo = Disconnect /\ query'[c].next = "post"
    BY <2>1, TearFrame
  <2>. QED  BY <2>1, <2>2, HasPlans DEF ConversationOf, KeepsNeeds, OwedOf, Resumes, Fresh,
      Busy, Begins, Starting
<1>17. ASSUME NEW k \in Keys, Return(k) PROVE ConversationInv'
  BY <1>17 DEF Return, store, pending, kept, hist, Returning, Set, NoQuery, ConversationOf, OwedOf,
      Resumes, Fresh, Busy, Begins, Starting, TornOf, TornIsGone, Types, TypeOK, Query, Client,
      Keys, NoClient
<1>18. ASSUME NEW k \in Keys, RateLimited(k) PROVE ConversationInv'
  <2>. SUFFICES ASSUME NEW c \in Keys PROVE ConversationOf(c)'
    OBVIOUS
  <2>. c \in Keys
    BY DEF Keys
  <2>1. /\ Teardown(k, Disconnect, "idle") /\ UNCHANGED <<saved, files, task>>
        /\ (c # k => owed'[c] = owed[c] /\ lapse'[c] = lapse[c])
        /\ (c = k => owed'[c] = 0 \/ (owed'[c] = owed[c] /\ lapse'[c] = lapse[c]))
        /\ TRUE
    BY <1>18 DEF RateLimited, GiveUp, Drop, Set, store, kept, Types, TypeOK
  <2>2. /\ c # k => client'[c] = client[c] /\ query'[c] = query[c]
        /\ c = k => /\ client'[c].up = "none" /\ query'[c].pc = "tear" /\ query'[c].sid = query[c].sid
                    /\ KeepsNeeds(c) /\ query'[c].todo = Disconnect /\ query'[c].next = "idle"
    BY <2>1, TearFrame
  <2>. QED  BY <2>1, <2>2, HasPlans DEF ConversationOf, KeepsNeeds, OwedOf, Resumes, Fresh,
      Busy, Begins, Starting
<1>19. ASSUME NEW k \in Keys, Suspicious(k) PROVE ConversationInv'
  <2>. SUFFICES ASSUME NEW c \in Keys PROVE ConversationOf(c)'
    OBVIOUS
  <2>. c \in Keys
    BY DEF Keys
  <2>. ConversationOf(c)
    OBVIOUS
  <2>1. CASE c # k
    <3>1. /\ query'[c] = query[c] /\ client'[c] = client[c] /\ saved'[c] = saved[c]
          /\ owed'[c] = owed[c] /\ lapse'[c] = lapse[c] /\ files \subseteq files' /\ task'[c] = task[c]
      BY <2>1, <1>19 DEF Suspicious, Set, store, kept, Types, TypeOK
    <3>. QED  BY <3>1, ConversationStays
  <2>2. CASE c = k
    <3>1. /\ query'[c] = NoQuery /\ client'[c] = NoClient /\ task'[c] = Disconnect
          /\ UNCHANGED <<saved, kept, files>>
      BY <2>2, <1>19 DEF Suspicious, Set, store, kept, Types, TypeOK
    <3>. QED  BY <3>1, HasPlans DEF kept, NoQuery, NoClient, ConversationOf, OwedOf, Resumes, Fresh,
        Busy, Begins, Starting
  <2>. QED  BY <2>1, <2>2
<1>20. ASSUME NEW k \in Keys, EndSystem(k) PROVE ConversationInv'
  <2>. SUFFICES ASSUME NEW c \in Keys PROVE ConversationOf(c)'
    OBVIOUS
  <2>. c \in Keys
    BY DEF Keys
  <2>1. /\ Teardown(k, <<"close", "uncap">>, "idle") /\ UNCHANGED <<saved, files, task>>
        /\ (c # k => owed'[c] = owed[c] /\ lapse'[c] = lapse[c])
        /\ (c = k => owed'[c] = 0 \/ (owed'[c] = owed[c] /\ lapse'[c] = lapse[c]))
        /\ TRUE
    BY <1>20 DEF EndSystem, GiveUp, Drop, Set, store, kept, Types, TypeOK
  <2>2. /\ c # k => client'[c] = client[c] /\ query'[c] = query[c]
        /\ c = k => /\ client'[c].up = "none" /\ query'[c].pc = "tear" /\ query'[c].sid = query[c].sid
                    /\ KeepsNeeds(c) /\ query'[c].todo = <<"close", "uncap">> /\ query'[c].next = "idle"
    BY <2>1, TearFrame
  <2>. QED  BY <2>1, <2>2, HasPlans DEF ConversationOf, KeepsNeeds, OwedOf, Resumes, Fresh,
      Busy, Begins, Starting
<1>21. ASSUME NEW k \in Keys, CancelChat(k) PROVE ConversationInv'
  <2>. SUFFICES ASSUME NEW c \in Keys PROVE ConversationOf(c)'
    OBVIOUS
  <2>. c \in Keys
    BY DEF Keys
  <2>1. CASE c # k
    BY <2>1, <1>21 DEF CancelChat, Set, store, pending, kept, hist, Types, TypeOK, Query, Client,
        Keys, NoClient, ConversationOf, OwedOf, Resumes, Fresh, Busy, Begins, Starting, TornOf,
        TornIsGone
  <2>2. CASE c = k
    BY <2>2, <1>21 DEF CancelChat, Set, NoQuery, store, pending, kept, hist, Types, TypeOK, Query,
        Client, Keys, NoClient, ConversationOf, OwedOf, Resumes, Fresh, Busy, Begins, Starting,
        TornOf, TornIsGone
  <2>. QED  BY <2>1, <2>2
<1>22. ASSUME NEW k \in Keys, QueryStep(k) PROVE ConversationInv'
  <2>. SUFFICES ASSUME NEW c \in Keys PROVE ConversationOf(c)'
    OBVIOUS
  <2>. c \in Keys
    BY DEF Keys
  <2>. ConversationOf(c)
    OBVIOUS
  <2>1. /\ client' = client /\ query[k].pc = "tear" /\ UNCHANGED <<task, kept, files>>
        /\ query[k].todo # << >>
        /\ saved'[c] = saved[c] \/ (c = k /\ Head(query[k].todo) = "forget")
        /\ c # k => query'[c] = query[c]
        /\ c = k => \/ query'[c] = NoQuery
                    \/ /\ KeepsQuery(c) /\ KeepsNeeds(c) /\ query'[c].sid = query[c].sid
                       /\ \/ query'[c].pc = "tear" /\ query'[c].todo = Tail(query[c].todo)
                          \/ query[c].next # "idle" /\ query'[c].pc = query[c].next
    BY <1>22, QueryStepFrame
  <2>2. CASE c # k
    BY <2>1, <2>2, ConversationStays DEF kept
  <2>3. CASE c = k
    <3>1. TornOf(c) /\ query[c].todo \in Plans
      BY DEF TornIsGone, Types, TypeOK, Query
    <3>2. /\ Has(Tail(query[c].todo), "forget") => Has(query[c].todo, "forget")
          /\ Head(query[c].todo) = "forget" => Has(query[c].todo, "forget")
      BY <2>1, <2>3, <3>1, HasLess
    <3>. USE DEF kept, ConversationOf, OwedOf, Resumes, Fresh, Busy, TornOf, Begins, Starting
    <3>4. CASE query'[c] = NoQuery
      BY <2>1, <2>3, <3>1, <3>2, <3>4 DEF NoQuery
    <3>5. CASE KeepsQuery(c) /\ KeepsNeeds(c) /\ query'[c].sid = query[c].sid /\ query'[c].pc = "tear" /\ query'[c].todo = Tail(query[c].todo)
      BY <2>1, <2>3, <3>1, <3>2, <3>5 DEF KeepsQuery, KeepsNeeds
    <3>6. CASE KeepsQuery(c) /\ KeepsNeeds(c) /\ query'[c].sid = query[c].sid
                /\ query[c].next # "idle" /\ query'[c].pc = query[c].next
      BY <2>1, <2>3, <3>1, <3>2, <3>6 DEF KeepsQuery, KeepsNeeds
    <3>. QED  BY <2>1, <2>3, <3>4, <3>5, <3>6
  <2>. QED  BY <2>2, <2>3
<1>23. ASSUME NEW k \in Keys, TaskStep(k) PROVE ConversationInv'
  <2>. SUFFICES ASSUME NEW c \in Keys PROVE ConversationOf(c)'
    OBVIOUS
  <2>. c \in Keys
    BY DEF Keys
  <2>. ConversationOf(c)
    OBVIOUS
  <2>1. /\ client' = client /\ KeepsQuery(c) /\ query'[c].pc = query[c].pc
        /\ query'[c].todo = query[c].todo /\ query'[c].sid = query[c].sid
        /\ (query'[c].mine = query[c].mine \/ query[c].mine = "popped")
        /\ UNCHANGED <<kept, files>> /\ task[k] # << >>
        /\ task'[c] = (IF c = k THEN Tail(task[k]) ELSE task[c])
        /\ saved'[c] = saved[c] \/ (c = k /\ Head(task[k]) = "forget")
    BY <1>23, TaskFrame
  <2>2. task[k] \in Plans
    BY DEF Types, TypeOK
  <2>3. /\ Has(task'[c], "forget") => Has(task[c], "forget")
        /\ c = k /\ Head(task[k]) = "forget" => Has(task[c], "forget")
    BY <2>1, <2>2, HasLess
  <2>. QED  BY <2>1, <2>3 DEF kept, KeepsQuery, ConversationOf, OwedOf, Resumes, Fresh, Busy, Begins,
      Starting
<1>24. ASSUME NEW k \in Keys, ResetSession(k) PROVE ConversationInv'
  <2>. SUFFICES ASSUME NEW c \in Keys PROVE ConversationOf(c)'
    OBVIOUS
  <2>. c \in Keys
    BY DEF Keys
  <2>. ConversationOf(c)
    OBVIOUS
  <2>1. CASE c # k
    <3>1. /\ query'[c] = query[c] /\ client'[c] = client[c] /\ saved'[c] = saved[c]
          /\ owed'[c] = owed[c] /\ lapse'[c] = lapse[c] /\ files \subseteq files' /\ task'[c] = task[c]
      BY <2>1, <1>24, ResetFrame DEF ResetSession, Set, GiveUp, Drop, store, kept, Types, TypeOK
    <3>. QED  BY <3>1, ConversationStays
  <2>2. CASE c = k
    <3>1. /\ client'[c] = NoClient /\ query'[c].pc = query[c].pc /\ query'[c].sid = query[c].sid
          /\ query'[c].next = query[c].next
          /\ query'[c].mine = IF Busy(k) /\ query[k].mine = "ok" THEN "popped" ELSE query[c].mine
      BY <2>2, <1>24, ResetFrame DEF KeepsQuery
    <3>2. owed'[c] = 0
      BY <2>2, <1>24 DEF ResetSession, GiveUp, Drop, Set, Types, TypeOK
    <3>. QED  BY <2>2, <3>1, <3>2 DEF NoClient, ConversationOf, OwedOf, Resumes, Fresh, Busy,
        Begins, Starting
  <2>. QED  BY <2>1, <2>2
<1>25. ASSUME NEW k \in Keys, Dies(k) PROVE ConversationInv'
  BY <1>25 DEF Dies, store, pending, kept, hist, ConversationOf, OwedOf, Resumes, Fresh, Busy,
      Begins, Starting, TornOf, TornIsGone, Types, TypeOK, Query, Client, Keys, NoClient
<1>26. ASSUME NEW k \in Keys, SwitchModel(k) PROVE ConversationInv'
  BY <1>26 DEF SwitchModel, store, pending, kept, hist, ToolCall, NewSettings, Set,
      ConversationOf, OwedOf, Resumes, Fresh, Busy, Begins, Starting, TornOf, TornIsGone,
      Types, TypeOK, Query, Client, Keys, NoClient
<1>27. ASSUME NEW k \in Keys, SwitchFromOutside(k) PROVE ConversationInv'
  BY <1>27 DEF SwitchFromOutside, store, pending, kept, hist, NewSettings, ConversationOf, OwedOf,
      Resumes, Fresh, Busy, Begins, Starting, TornOf, TornIsGone, Types, TypeOK, Query, Client,
      Keys, NoClient
<1>28. ASSUME NEW k \in Keys, AssignHarness(k) PROVE ConversationInv'
  BY <1>28 DEF AssignHarness, store, pending, kept, hist, NewSettings, Set, ConversationOf, OwedOf,
      Resumes, Fresh, Busy, Begins, Starting, TornOf, TornIsGone, Types, TypeOK, Query, Client,
      Keys, NoClient
<1>29. ASSUME NEW k \in Keys, ExtendBudget(k) PROVE ConversationInv'
  BY <1>29 DEF ExtendBudget, store, kept, ConversationOf, OwedOf, Resumes, Fresh, Busy, Begins,
      Starting
<1>30. ASSUME NEW k \in Keys, Inject(k) PROVE ConversationInv'
  BY <1>30 DEF Inject, store, pending, kept, hist, ConversationOf, OwedOf, Resumes, Fresh, Busy,
      Begins, Starting, TornOf, TornIsGone, Types, TypeOK, Query, Client, Keys, NoClient
<1>31. ASSUME NEW k \in Keys, ReadInjected(k) PROVE ConversationInv'
  BY <1>31 DEF ReadInjected, store, pending, kept, hist, ConversationOf, OwedOf, Resumes,
      Fresh, Busy, Begins, Starting, TornOf, TornIsGone, Types, TypeOK, Query, Client, Keys,
      NoClient
<1>32. ASSUME CleanFiles PROVE ConversationInv'
  <2>. SUFFICES ASSUME NEW c \in Keys PROVE ConversationOf(c)'
    OBVIOUS
  <2>. ConversationOf(c)
    OBVIOUS
  <2>1. PICK sid \in files : files' = files \ {sid}
                            /\ Mishap({d \in Keys : owed[d] = sid}, "pruned")
    BY <1>32 DEF CleanFiles
  <2>2. lapse'[c] = IF owed[c] = sid /\ owed[c] # 0 THEN "pruned" ELSE lapse[c]
    BY <2>1, MishapType DEF Mishaps, Types
  <2>3. UNCHANGED <<client, saved, query, task, owed>>
    BY <1>32 DEF CleanFiles
  <2>. QED  BY <2>1, <2>2, <2>3 DEF ConversationOf, OwedOf, Resumes, Fresh, Busy, Begins, Starting
<1>33. ASSUME PruneMap PROVE ConversationInv'
  <2>. SUFFICES ASSUME NEW c \in Keys PROVE ConversationOf(c)'
    OBVIOUS
  <2>. ConversationOf(c)
    OBVIOUS
  <2>1. lapse'[c] = IF c \in doomed /\ owed[c] # 0 THEN "pruned" ELSE lapse[c]
    BY <1>33, MishapType DEF PruneMap, Mishaps, Types
  <2>2. /\ saved'[c] = IF c \in doomed THEN 0 ELSE saved[c]
        /\ UNCHANGED <<client, files, query, task, owed>>
    BY <1>33 DEF PruneMap
  <2>. QED  BY <2>1, <2>2 DEF ConversationOf, OwedOf, Resumes, Fresh, Busy, Begins, Starting
<1>34. ASSUME Restart PROVE ConversationInv'
  <2>. SUFFICES ASSUME NEW c \in Keys PROVE ConversationOf(c)'
    OBVIOUS
  <2>. c \in Keys
    BY DEF Keys
  <2>1. /\ query'[c] = NoQuery /\ client'[c] = NoClient /\ task'[c] = << >> /\ files' = files
        /\ (saved'[c] = saved[c] /\ owed'[c] = owed[c] /\ lapse'[c] = lapse[c]) \/ owed'[c] = 0
    BY <1>34 DEF Restart, kept
  <2>. QED  BY <2>1, HasPlans DEF NoQuery, NoClient, ConversationOf, OwedOf, Resumes, Fresh,
      Busy, Begins, Starting
<1>35. CASE UNCHANGED vars
  BY <1>35 DEF vars, store, pending, kept, hist, ConversationOf, OwedOf, Resumes, Fresh, Busy,
      Begins, Starting, TornOf, TornIsGone
<1>36. ASSUME NEW k \in Keys, LoadFails(k) PROVE ConversationInv'
  <2>. SUFFICES ASSUME NEW c \in Keys PROVE ConversationOf(c)'
    OBVIOUS
  <2>. ConversationOf(c)
    OBVIOUS
  <2>1. lapse'[c] = IF c = k /\ owed[c] # 0 THEN "database" ELSE lapse[c]
    BY <1>36, MishapType DEF LoadFails, Mishaps, Types
  <2>2. UNCHANGED <<client, saved, files, task, owed>>
    BY <1>36 DEF LoadFails, store
  <2>3. /\ query \in [Keys -> Query] /\ query' = [query EXCEPT ![k].pc = "build"]
        /\ query[k].pc \in {"load", "setup"}
    BY <1>36 DEF LoadFails, Goto, Types, TypeOK
  <2>. QED  BY <2>1, <2>2, <2>3 DEF Query, ConversationOf, OwedOf, Resumes, Fresh, Busy, Begins,
      Starting
<1>37. ASSUME NEW k \in Keys, Fallback(k) PROVE ConversationInv'
  <2>. SUFFICES ASSUME NEW c \in Keys PROVE ConversationOf(c)'
    OBVIOUS
  <2>. ConversationOf(c)
    OBVIOUS
  <2>1. lapse'[c] = IF c = k /\ owed[c] # 0 THEN "fallback" ELSE lapse[c]
    BY <1>37, MishapType DEF Fallback, Mishaps, Types
  <2>2. UNCHANGED <<saved, files, task, owed>>
    BY <1>37 DEF Fallback, store
  <2>3. CASE c # k
    <3>1. query'[c] = query[c] /\ client'[c] = client[c]
      BY <2>3, <1>37 DEF Fallback, Set, Types, TypeOK
    <3>. QED  BY <2>1, <2>2, <2>3, <3>1, ConversationStays
  <2>4. CASE c = k
    <3>1. /\ client'[c].up = "none" /\ query'[c].pc = "tear" /\ query'[c].next = "setup"
          /\ query'[c].sid = 0 /\ query'[c].mine = query[c].mine /\ query[c].pc \in Starting
      BY <2>4, FallbackFrame, <1>37
    <3>. QED  BY <2>1, <2>2, <2>4, <3>1 DEF ConversationOf, OwedOf, Resumes, Fresh, Busy, Begins,
        Starting
  <2>. QED  BY <2>3, <2>4
<1>38. ASSUME PruneRead PROVE ConversationInv'
  BY <1>38 DEF PruneRead, store, pending, kept, hist, ConversationOf, OwedOf,
      Resumes, Fresh, Busy, Begins, Starting, TornOf, TornIsGone, Types, TypeOK, Query, Client,
      Keys, NoClient
<1>. QED  BY <1>1, <1>2, <1>3, <1>4, <1>5, <1>6, <1>7, <1>8, <1>9, <1>10, <1>11, <1>12, <1>13,
    <1>14, <1>15, <1>16, <1>17, <1>18, <1>19, <1>20, <1>21, <1>22, <1>23, <1>24, <1>25, <1>26,
    <1>27, <1>28, <1>29, <1>30, <1>31, <1>32, <1>33, <1>34, <1>35, <1>36, <1>37, <1>38
  DEF Next, QueryNext, Beside

-----------------------------------------------------------------------------
(* The theorems                                                            *)

\* The initial state satisfies every part of the invariant.
LEMMA InitParts ==
  PoolAssumption /\ Init =>
    Types /\ TornIsGone /\ SwitchInv /\ BudgetInv /\ ConversationInv
<1>. SUFFICES ASSUME PoolAssumption, Init
              PROVE  Types /\ TornIsGone /\ SwitchInv /\ BudgetInv
                     /\ ConversationInv
  OBVIOUS
<1>. USE DEF Init, NoQuery, NoClient, Keys, Begins, Starting, Serving
<1>1. Types
  BY InitTypes
<1>2. TornIsGone /\ SwitchInv
  BY DEF TornIsGone, TornOf, SwitchInv, SwitchOf
<1>3. BudgetInv
  BY HasPlans DEF BudgetInv, BudgetOf, Cap, Default
<1>4. ConversationInv
  BY HasPlans DEF ConversationInv, ConversationOf, OwedOf, Resumes, Fresh, Busy
<1>. QED  BY <1>1, <1>2, <1>3, <1>4

\* Every field keeps its type, and a teardown under way always has a step left to do, in
\* every interleaving of queries, resets, injections, maintenance and restarts.
THEOREM TypeCorrect == Spec => []TypeOK
<1>. USE PoolAssumption
<1>1. Init => Types
  BY InitParts
<1>2. Types /\ [Next]_vars => Types'
  BY StepType, TornHasStepsStep DEF Types
<1>3. Types => TypeOK
  BY DEF Types
<1>. QED  BY <1>1, <1>2, <1>3, PTL DEF Spec

\* What switch_model answered holds: whatever ends the query that switched, short of a
\* cancel, no later query of the chat runs with settings from before the switch.
THEOREM SwitchesApply == Spec => []SwitchApplied
<1>. USE PoolAssumption
<1>1. Init => Types /\ TornIsGone /\ SwitchInv
  BY InitParts
<1>2. Types /\ TornIsGone /\ SwitchInv /\ [Next]_vars => (Types /\ TornIsGone /\ SwitchInv)'
  BY StepType, TornHasStepsStep, TornIsGoneStep, SwitchInvStep DEF Types
<1>3. SwitchInv => SwitchApplied
  BY DEF SwitchInv, SwitchOf, SwitchApplied
<1>. QED  BY <1>1, <1>2, <1>3, PTL DEF Spec

\* What extend_budget answered holds too, until a reset takes the cap away.
THEOREM BudgetsApply == Spec => []BudgetApplied
<1>. USE PoolAssumption
<1>1. Init => Types /\ TornIsGone /\ BudgetInv
  BY InitParts
<1>2. Types /\ TornIsGone /\ BudgetInv /\ [Next]_vars => (Types /\ TornIsGone /\ BudgetInv)'
  BY StepType, TornHasStepsStep, TornIsGoneStep, BudgetInvStep DEF Types
<1>3. BudgetInv => BudgetApplied
  BY DEF BudgetInv, BudgetOf, BudgetApplied
<1>. QED  BY <1>1, <1>2, <1>3, PTL DEF Spec

\* A conversation nobody gave up is resumed: through deferred teardowns, dead
\* subprocesses, restarts and the clean-up of old transcripts, session_map, the
\* registered client and a connect under way all lead to it.
THEOREM ConversationsContinue == Spec => []ConversationContinues
<1>. USE PoolAssumption
<1>1. Init => Types /\ TornIsGone /\ ConversationInv
  BY InitParts
<1>2. Types /\ TornIsGone /\ ConversationInv /\ [Next]_vars
        => (Types /\ TornIsGone /\ ConversationInv)'
  BY StepType, TornHasStepsStep, TornIsGoneStep, ConversationInvStep DEF Types
<1>3. ConversationInv => ConversationContinues
  BY DEF ConversationInv, ConversationOf, OwedOf, ConversationContinues
<1>. QED  BY <1>1, <1>2, <1>3, PTL DEF Spec
=============================================================================
