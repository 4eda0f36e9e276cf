-------------------------- MODULE QueryBudget_proofs --------------------------
(***************************************************************************)
(* No budget of QueryGovernance is ever exceeded.  reserve() checks a       *)
(* budget once; the other transactions keep it because a claim holds what   *)
(* was held, a settlement books at most what it held, a release and the end *)
(* of a lease only give back, and a new day or month only forgets.          *)
(***************************************************************************)
EXTENDS QueryGovernance_proofs

(* The byte use of a set of settled and a set of holding requests.          *)
UseOf(S, H) == Total(S, Accounted) + Total(H, reserved)

(* Booking no more than was held cannot raise the use.                      *)
LEMMA MoveToSpent ==
  ASSUME NEW S, NEW H, IsFiniteSet(S), IsFiniteSet(H), NEW r \in H, r \notin S,
         NEW f, NEW g, NEW h,
         \A x \in S : f[x] \in Nat /\ g[x] = f[x],
         \A x \in H : h[x] \in Nat,
         g[r] \in Nat, g[r] <= h[r]
  PROVE  Total(S \cup {r}, g) + Total(H \ {r}, h) <= Total(S, f) + Total(H, h)
<1>1. Total(S, g) = Total(S, f)
  BY TotalSame
<1>2. Total(S \cup {r}, g) = Total(S, g) + g[r]
  <2>1. \A x \in S \cup {r} : g[x] \in Nat
    OBVIOUS
  <2>2. QED
    BY <2>1, TotalAdd
<1>3. Total(H \ {r}, h) = Total(H, h) - h[r]
  BY TotalRemove
<1>4. Total(S, f) \in Nat /\ Total(H, h) \in Nat /\ h[r] \in Nat
  BY TotalType
<1>5. QED
  BY <1>1, <1>2, <1>3, <1>4

LEMMA RowTypes ==
  ASSUME TypeOK, NEW S \in SUBSET Requests
  PROVE  /\ IsFiniteSet(S)
         /\ \A r \in S : Accounted[r] \in Nat /\ reserved[r] \in Nat
         /\ Total(S, Accounted) \in Nat /\ Total(S, reserved) \in Nat
<1>1. IsFiniteSet(S)
  BY ScopeAssumption, FS_Subset
<1>2. \A r \in S : Accounted[r] \in Nat /\ reserved[r] \in Nat
  BY DEF TypeOK, Accounted, UsageRows
<1>3. QED
  BY <1>1, <1>2, TotalType

(* Every scope a budget sums over: a workspace's requests since the day     *)
(* began, or all requests since the month began.                            *)
SettledIn(scope, t) == {r \in scope : Settled(r) /\ usage[r].at >= t}
HeldOf(scope) == {r \in scope : Held(r)}
RequestsIn(w) == {r \in Requests : WorkspaceOf[r] = w}

Scopes ==
    /\ \A w \in Workspaces : DailyUse(w) = UseOf(SettledIn(RequestsIn(w), DayStart(now)),
                                                 HeldOf(RequestsIn(w)))
    /\ MonthlyUse = UseOf(SettledIn(Requests, MonthStart(now)), HeldOf(Requests))

LEMMA BudgetScopes == Scopes
<1>1. ASSUME NEW w \in Workspaces
      PROVE  DailyUse(w) = UseOf(SettledIn(RequestsIn(w), DayStart(now)), HeldOf(RequestsIn(w)))
  <2>1. SettledToday(w) = SettledIn(RequestsIn(w), DayStart(now))
    BY DEF SettledToday, SettledIn, RequestsIn
  <2>2. HeldIn(w) = HeldOf(RequestsIn(w))
    BY DEF HeldIn, HeldAll, HeldOf, RequestsIn
  <2>3. QED
    BY <2>1, <2>2 DEF DailyUse, UseOf
<1>2. SettledThisMonth = SettledIn(Requests, MonthStart(now)) /\ HeldAll = HeldOf(Requests)
  BY DEF SettledThisMonth, SettledIn, HeldAll, HeldOf
<1>3. QED
  BY <1>1, <1>2 DEF Scopes, MonthlyUse, UseOf

(* A step that raises no use of a scope keeps every budget of it: all steps *)
(* but an admission.                                                        *)
UseFalls(scope, t, u) ==
    UseOf(SettledIn(scope, u), HeldOf(scope))' <= UseOf(SettledIn(scope, t), HeldOf(scope))

(* Less is held, or less is remembered: release, claim and the clock.       *)
LEMMA UseShrinks ==
  ASSUME TypeOK, NEW scope \in SUBSET Requests, NEW t, NEW u,
         usage' = usage, reserved' = reserved,
         SettledIn(scope, u)' \subseteq SettledIn(scope, t),
         HeldOf(scope)' \subseteq HeldOf(scope)
  PROVE  UseFalls(scope, t, u)
<1> DEFINE S == SettledIn(scope, t)  S2 == SettledIn(scope, u)'
           H == HeldOf(scope)        H2 == HeldOf(scope)'
<1>1. S \in SUBSET Requests /\ H \in SUBSET Requests /\ S2 \in SUBSET S /\ H2 \in SUBSET H
  BY DEF SettledIn, HeldOf
<1>2. Accounted' = Accounted
  BY DEF Accounted
<1>3. /\ IsFiniteSet(S) /\ IsFiniteSet(H)
      /\ \A r \in S : Accounted[r] \in Nat
      /\ \A r \in H : reserved[r] \in Nat
      /\ Total(S, Accounted) \in Nat /\ Total(H, reserved) \in Nat
      /\ Total(S2, Accounted) \in Nat /\ Total(H2, reserved) \in Nat
  BY <1>1, RowTypes
<1> HIDE DEF S, H, S2, H2
<1>4. Total(S2, Accounted) <= Total(S, Accounted) /\ Total(H2, reserved) <= Total(H, reserved)
  BY <1>1, <1>3, TotalSubset
<1>5. Total(S2, Accounted) + Total(H2, reserved) <= Total(S, Accounted) + Total(H, reserved)
  BY <1>3, <1>4
<1>6. UseOf(SettledIn(scope, u), HeldOf(scope))' = Total(S2, Accounted) + Total(H2, reserved)
  BY <1>2 DEF UseOf, S2, H2
<1>7. QED
  BY <1>5, <1>6 DEF UseFalls, UseOf, S, H
(* A settlement moves one request from held to settled.                     *)
LEMMA SettlementUse ==
  ASSUME TypeOK, SettlementInvariant, NEW scope \in SUBSET Requests,
         NEW t, NEW u \in Nat, t \in Nat, t <= u,
         NEW r \in Requests, status[r] = "EXECUTING",
         NEW final \in {"COMPLETED", "FAILED"}, NEW outcome \in {"SUCCEEDED", "FAILED"},
         NEW duration, Account(r, final, outcome, duration),
         UNCHANGED <<now, reserved, expiresAt>>
  PROVE  UseFalls(scope, t, u)
<1> DEFINE S == SettledIn(scope, t)  S2 == SettledIn(scope, u)'
           H == HeldOf(scope)        H2 == HeldOf(scope)'
           acc2 == Accounted'
<1>1. RequestConsistent(r) /\ ~Settled(r)
  BY DEF SettlementInvariant, RequestConsistent
<1>2. /\ status'[r] = final /\ usage'[r].accounted = AccountedBytes(r)
      /\ \A q \in Requests : q # r => status'[q] = status[q] /\ usage'[q] = usage[q]
  BY DEF Account, TypeOK
<1>3. acc2[r] = AccountedBytes(r) /\ \A q \in Requests : q # r => acc2[q] = Accounted[q]
  BY <1>2 DEF Accounted
<1>4. AccountedBytes(r) \in Nat /\ AccountedBytes(r) <= reserved[r]
  BY <1>1, AccountedType DEF RequestConsistent
<1>5. /\ S \in SUBSET Requests /\ H \in SUBSET Requests /\ r \notin S
      /\ S2 \subseteq S \cup {r} /\ r \notin H2 /\ H2 = H \ {r}
      /\ r \in scope => r \in H
      /\ r \notin scope => r \notin S2 /\ r \notin H
  <2>1. S \in SUBSET Requests /\ H \in SUBSET Requests /\ r \notin S
    BY <1>1 DEF SettledIn, HeldOf
  <2>2. \A q \in Requests : usage[q].at \in Nat
    BY ClockAssumption DEF TypeOK, UsageRows, Times
  <2>3. S2 \subseteq S \cup {r}
    BY <1>2, <2>2 DEF SettledIn, Settled
  <2>4. r \notin H2 /\ H2 = H \ {r}
    BY <1>2 DEF HeldOf, Held, Expired
  <2>5. /\ r \in scope => r \in H
        /\ r \notin scope => r \notin S2 /\ r \notin H
    BY DEF HeldOf, Held, SettledIn
  <2>6. QED
    BY <2>1, <2>3, <2>4, <2>5
<1>6. /\ IsFiniteSet(S) /\ IsFiniteSet(H)
      /\ \A q \in S : Accounted[q] \in Nat
      /\ \A q \in H : reserved[q] \in Nat
      /\ Total(S, Accounted) \in Nat /\ Total(H, reserved) \in Nat
  BY <1>5, RowTypes
<1>7. \A q \in S : acc2[q] = Accounted[q]
  BY <1>3, <1>5
<1>8. UseOf(SettledIn(scope, u), HeldOf(scope))' = Total(S2, acc2) + Total(H2, reserved)
  BY DEF UseOf
<1> SUFFICES Total(S2, acc2) + Total(H2, reserved) <= Total(S, Accounted) + Total(H, reserved)
  BY <1>8 DEF UseFalls, UseOf
<1> HIDE DEF S, H, S2, H2, acc2
<1>9. Total(S, acc2) = Total(S, Accounted)
  BY <1>7, TotalSame
<1>10. IsFiniteSet(S \cup {r}) /\ \A q \in S \cup {r} : acc2[q] \in Nat
  BY <1>3, <1>4, <1>6, <1>7, FS_AddElement
<1>11. CASE r \in scope
  <2>1. Total(S \cup {r}, acc2) + Total(H \ {r}, reserved)
          <= Total(S, Accounted) + Total(H, reserved)
    <3>1. r \in H /\ r \notin S /\ acc2[r] \in Nat /\ acc2[r] <= reserved[r]
      BY <1>3, <1>4, <1>5, <1>11
    <3>2. \A q \in S : Accounted[q] \in Nat /\ acc2[q] = Accounted[q]
      BY <1>6, <1>7
    <3>3. QED
      BY <1>6, <3>1, <3>2, MoveToSpent
  <2>2. Total(S2, acc2) <= Total(S \cup {r}, acc2)
    BY <1>5, <1>10, TotalSubset
  <2>3. /\ Total(S \cup {r}, acc2) \in Nat
        /\ Total(H \ {r}, reserved) \in Nat
    BY <1>5, <1>6, <1>10, TotalType, FS_Subset
  <2>4. Total(S2, acc2) \in Nat
    BY <1>5, <1>10, TotalType, FS_Subset
  <2>5. QED
    BY <1>5, <1>6, <2>1, <2>2, <2>3, <2>4
<1>12. CASE r \notin scope
  <2>1. S2 \subseteq S /\ H2 = H
    BY <1>5, <1>12
  <2>2. IsFiniteSet(S) /\ \A q \in S : acc2[q] \in Nat
    BY <1>6, <1>7
  <2>3. Total(S2, acc2) <= Total(S, acc2) /\ Total(S2, acc2) \in Nat
    BY <2>1, <2>2, TotalSubset, TotalType, FS_Subset
  <2>4. QED
    BY <1>6, <1>9, <2>1, <2>3
<1>13. QED
  BY <1>11, <1>12
-----------------------------------------------------------------------------
(* Seen from the ledger a step admits a request, settles an EXECUTING one,  *)
(* or books nothing and holds nothing new.                                  *)
BooksNothing ==
    /\ usage' = usage /\ reserved' = reserved
    /\ now' \in Times /\ now <= now'
    /\ \A q \in Requests : Held(q)' => Held(q)

SettlesOne ==
    \E r \in Requests, final \in {"COMPLETED", "FAILED"},
       outcome \in {"SUCCEEDED", "FAILED"}, duration \in Durations :
         /\ status[r] = "EXECUTING" /\ Account(r, final, outcome, duration)
         /\ UNCHANGED <<now, reserved, expiresAt>>

AdmitsOne == \E p \in Workers, r \in Requests : Admit(p, r)

LEMMA LedgerSteps ==
  ASSUME TypeOK, SettlementInvariant, [Next]_vars
  PROVE  AdmitsOne \/ SettlesOne \/ BooksNothing
<1> USE DEF ledgerVars, workerVars
<1>n. now \in Nat /\ now \in Times /\ \A q \in Requests : expiresAt[q] \in Nat
  BY ClockAssumption DEF TypeOK, Times
<1>w. \A p \in Workers : stage[p] \in Busy => serving[p] \in Requests
  BY DEF SettlementInvariant, WorkerConsistent
<1>1. ASSUME UNCHANGED <<status, reserved, expiresAt, usage>>, now' \in {now, now + 1},
             now' \in Times
      PROVE  BooksNothing
  BY <1>1, <1>n DEF BooksNothing, Held, Expired
<1>2. ASSUME NEW p \in Workers, NEW r \in Requests, AdmitReused(p, r) \/ Recover(p, r)
      PROVE  BooksNothing
  BY <1>1, <1>2, <1>n DEF AdmitReused, Recover
<1>3. ASSUME NEW p \in Workers, Release(p)
      PROVE  BooksNothing
  <2>1. \A q \in Requests : status'[q] = status[q] \/ status'[q] = "RELEASED"
    BY <1>3 DEF Release, TypeOK
  <2>2. QED
    BY <1>3, <1>n, <2>1 DEF Release, BooksNothing, Held, Expired
<1>4. ASSUME NEW p \in Workers, Claim(p)
      PROVE  BooksNothing
  <2>1. CASE Claimable(serving[p])
    <3>1. \A q \in Requests : status'[q] = status[q] \/ Claimable(q)
      BY <1>4, <2>1 DEF Claim, TypeOK
    <3>2. \A q \in Requests : Held(q)' => Held(q)
      BY <1>4, <3>1 DEF Claim, Claimable, Held, Expired
    <3>3. QED
      BY <1>4, <1>n, <3>2 DEF Claim, BooksNothing
  <2>2. CASE ~Claimable(serving[p])
    BY <1>4, <1>1, <1>n, <2>2 DEF Claim
  <2>3. QED
    BY <2>1, <2>2
<1>5. ASSUME NEW p \in Workers,
             \/ RefuseExecution(p) \/ AwaitFails(p) \/ ObserveFails(p) \/ Crash(p)
             \/ Submit(p) \/ Await(p) \/ Observe(p)
      PROVE  BooksNothing
  BY <1>5, <1>1, <1>n DEF RefuseExecution, AwaitFails, ObserveFails, Crash, Submit, Await, Observe
<1>6. ASSUME NEW p \in Workers, stage[p] \in Busy,
             NEW final \in {"COMPLETED", "FAILED"}, NEW outcome \in {"SUCCEEDED", "FAILED"},
             NEW duration \in Durations, SettleWith(p, final, outcome, duration, "idle")
      PROVE  SettlesOne \/ BooksNothing
  <2>1. serving[p] \in Requests
    BY <1>6, <1>w
  <2>2. CASE status[serving[p]] = "EXECUTING"
    BY <1>6, <2>1, <2>2 DEF SettleWith, SettlesOne
  <2>3. CASE status[serving[p]] # "EXECUTING"
    BY <1>6, <1>1, <1>n, <2>3 DEF SettleWith
  <2>4. QED
    BY <2>2, <2>3
<1>7. ASSUME NEW p \in Workers, Finalize(p) \/ Settle(p) \/ SettleFailed(p)
      PROVE  SettlesOne \/ BooksNothing
  BY <1>6, <1>7 DEF Finalize, Settle, SettleFailed, Busy, Durations
<1>8. ASSUME NEW r \in Requests, Accept(r) \/ Finish(r)
      PROVE  BooksNothing
  BY <1>8, <1>1, <1>n DEF Accept, Finish
<1>9. ASSUME Tick PROVE BooksNothing
  <2>1. now' = now + 1 /\ now' \in Times
    BY <1>9, ClockAssumption, <1>n DEF Tick, Times
  <2>2. QED
    BY <1>9, <1>1, <2>1 DEF Tick
<1>10. ASSUME UNCHANGED vars PROVE BooksNothing
  BY <1>10, <1>1, <1>n DEF vars
<1>11. QED
  BY <1>2, <1>3, <1>4, <1>5, <1>7, <1>8, <1>9, <1>10 DEF Next, WorkerStep, AdmitsOne

(* Every step but an admission lowers every use, seen from any later        *)
(* beginning of the period.                                                 *)
LEMMA UseOnlyFalls ==
  ASSUME TypeOK, SettlementInvariant, SettlesOne \/ BooksNothing,
         NEW scope \in SUBSET Requests, NEW t \in Times, NEW u \in Times, t <= u
  PROVE  UseFalls(scope, t, u)
<1>1. t \in Nat /\ u \in Nat
  BY ClockAssumption DEF Times
<1>2. CASE SettlesOne
  BY <1>1, <1>2, SettlementUse DEF SettlesOne
<1>3. CASE BooksNothing
  <2>1. \A q \in Requests : usage[q].at \in Nat
    BY ClockAssumption DEF TypeOK, UsageRows, Times
  <2>2. SettledIn(scope, u)' \subseteq SettledIn(scope, t)
    BY <1>1, <1>3, <2>1 DEF SettledIn, Settled, BooksNothing
  <2>3. HeldOf(scope)' \subseteq HeldOf(scope)
    BY <1>3 DEF HeldOf, BooksNothing
  <2>4. QED
    BY <1>3, <2>2, <2>3, UseShrinks DEF BooksNothing
<1>4. QED
  BY <1>2, <1>3
(* An admission adds its estimate to the scopes the request belongs to.     *)
LEMMA AdmissionUse ==
  ASSUME TypeOK, SettlementInvariant, NEW p \in Workers, NEW r \in Requests, Admit(p, r)
  PROVE  \E est \in Nat :
           /\ Admissible(WorkspaceOf[r], est)
           /\ \A scope \in SUBSET Requests :
                /\ HeldOf(scope)' = HeldOf(scope) \cup ({r} \cap scope) /\ r \notin HeldOf(scope)
                /\ \A t \in Times :
                     UseOf(SettledIn(scope, t), HeldOf(scope))'
                       <= UseOf(SettledIn(scope, t), HeldOf(scope))
                            + (IF r \in scope THEN est ELSE 0)
<1>1. PICK est \in Estimates : /\ Admissible(WorkspaceOf[r], est)
                               /\ reserved' = [reserved EXCEPT ![r] = est]
  BY DEF Admit
<1>2. est \in Nat
  BY ScopeAssumption
<1>3. /\ status[r] = "NONE" /\ status'[r] = "ACTIVE" /\ expiresAt'[r] > now /\ ~Settled(r)
      /\ now' = now /\ usage' = usage
      /\ \A q \in Requests : q # r => status'[q] = status[q] /\ expiresAt'[q] = expiresAt[q]
  BY ClockAssumption DEF Admit, TypeOK, Times, SettlementInvariant, RequestConsistent
<1>4. ASSUME NEW scope \in SUBSET Requests
      PROVE  HeldOf(scope)' = HeldOf(scope) \cup ({r} \cap scope) /\ r \notin HeldOf(scope)
  <2>1. now \in Nat /\ expiresAt'[r] \in Nat
    BY ClockAssumption DEF TypeOK, Times, Admit
  <2>2. Held(r)' /\ ~Held(r)
    BY <1>3, <2>1 DEF Held, Expired
  <2>3. \A q \in Requests : q # r => (Held(q)' <=> Held(q))
    BY <1>3 DEF Held, Expired
  <2>4. QED
    BY <2>2, <2>3 DEF HeldOf
<1>5. ASSUME NEW scope \in SUBSET Requests, NEW t \in Times
      PROVE  UseOf(SettledIn(scope, t), HeldOf(scope))'
               <= UseOf(SettledIn(scope, t), HeldOf(scope)) + (IF r \in scope THEN est ELSE 0)
  <2> DEFINE S == SettledIn(scope, t)  H == HeldOf(scope)  H2 == HeldOf(scope)'
             res2 == reserved'
  <2>1. S' = S /\ Accounted' = Accounted
    BY <1>3 DEF SettledIn, Settled, Accounted
  <2>2. /\ S \in SUBSET Requests /\ H \in SUBSET Requests /\ r \notin H
        /\ H2 = H \cup ({r} \cap scope)
    BY <1>4 DEF SettledIn, HeldOf
  <2>3. /\ Total(S, Accounted) \in Nat /\ Total(H, reserved) \in Nat /\ IsFiniteSet(H)
        /\ \A q \in H : reserved[q] \in Nat
    BY <2>2, RowTypes
  <2>4. res2[r] = est /\ \A q \in H : res2[q] = reserved[q]
    BY <1>1, <2>2 DEF TypeOK
  <2>5. UseOf(SettledIn(scope, t), HeldOf(scope))' = Total(S, Accounted) + Total(H2, res2)
    BY <2>1 DEF UseOf
  <2>6. UseOf(SettledIn(scope, t), HeldOf(scope)) = Total(S, Accounted) + Total(H, reserved)
    BY DEF UseOf
  <2> HIDE DEF S, H, H2, res2
  <2>7. Total(H, res2) = Total(H, reserved)
    BY <2>4, TotalSame
  <2>8. CASE r \in scope
    <3>1. H2 = H \cup {r} /\ \A q \in H \cup {r} : res2[q] \in Nat
      BY <1>2, <2>2, <2>3, <2>4, <2>8
    <3>2. Total(H2, res2) = Total(H, res2) + est
      BY <2>2, <2>3, <2>4, <3>1, TotalAdd
    <3>3. QED
      BY <1>2, <2>3, <2>5, <2>6, <2>7, <2>8, <3>2
  <2>9. CASE r \notin scope
    <3>1. H2 = H
      BY <2>2, <2>9
    <3>2. QED
      BY <2>3, <2>5, <2>6, <2>7, <2>9, <3>1
  <2>10. QED
    BY <2>8, <2>9
<1>6. QED
  BY <1>1, <1>2, <1>4, <1>5

BudgetInvariant == DailyBudgetHolds /\ MonthlyBudgetHolds

LEMMA BudgetInit == Init => BudgetInvariant
<1> SUFFICES ASSUME Init PROVE BudgetInvariant
  OBVIOUS
<1>1. \A scope \in SUBSET Requests, t \in Nat : UseOf(SettledIn(scope, t), HeldOf(scope)) = 0
  <2> SUFFICES ASSUME NEW scope \in SUBSET Requests, NEW t \in Nat
               PROVE  UseOf(SettledIn(scope, t), HeldOf(scope)) = 0
    OBVIOUS
  <2>1. SettledIn(scope, t) = {} /\ HeldOf(scope) = {}
    BY DEF Init, SettledIn, Settled, HeldOf, Held, NoUsage
  <2>2. QED
    BY <2>1, TotalEmpty DEF UseOf
<1>2. now \in Times /\ DayStart(now) \in Nat /\ MonthStart(now) \in Nat
  BY ClockAssumption DEF Init, Times
<1>3. \A w \in Workspaces : RequestsIn(w) \in SUBSET Requests
  BY DEF RequestsIn
<1>4. /\ \A w \in Workspaces : DailyUse(w) = 0
      /\ MonthlyUse = 0
  BY <1>1, <1>2, <1>3, BudgetScopes DEF Scopes
<1>5. QED
  BY <1>4, PolicyAssumption DEF BudgetInvariant, DailyBudgetHolds, MonthlyBudgetHolds
LEMMA ScopesNext == TRUE => Scopes'
BY BudgetScopes, PTL

LEMMA BudgetStep ==
  TypeOK /\ TypeOK' /\ SettlementInvariant /\ BudgetInvariant /\ [Next]_vars => BudgetInvariant'
<1> SUFFICES ASSUME TypeOK, TypeOK', SettlementInvariant, BudgetInvariant, [Next]_vars
             PROVE  BudgetInvariant'
  OBVIOUS
<1> DEFINE DayUse(w, t) == UseOf(SettledIn(RequestsIn(w), t), HeldOf(RequestsIn(w)))
           MonthUse(t) == UseOf(SettledIn(Requests, t), HeldOf(Requests))
<1>1. /\ now \in Times /\ now' \in Times
      /\ DayStart(now) \in Times /\ MonthStart(now) \in Times
  BY ClockAssumption DEF TypeOK
<1>2. PICK d \in Times, m \in Times : d = DayStart(now)' /\ m = MonthStart(now)'
  BY <1>1, ClockAssumption
<1>3. /\ \A w \in Workspaces : DailyUse(w) = DayUse(w, DayStart(now))
      /\ MonthlyUse = MonthUse(MonthStart(now))
  BY BudgetScopes DEF Scopes
<1>4. /\ \A w \in Workspaces : DailyUse(w)' = DayUse(w, d)'
      /\ MonthlyUse' = MonthUse(m)'
  BY ScopesNext, <1>2 DEF Scopes
<1>5. SUFFICES /\ \A w \in Workspaces : DayUse(w, d)' <= WorkspaceDailyBytes
               /\ MonthUse(m)' <= ProjectMonthlyBytes
  BY <1>4 DEF BudgetInvariant, DailyBudgetHolds, MonthlyBudgetHolds
<1>6. /\ \A w \in Workspaces : RequestsIn(w) \in SUBSET Requests
      /\ Requests \in SUBSET Requests
  BY DEF RequestsIn
<1>7. ASSUME NEW scope \in SUBSET Requests, NEW t \in Times
      PROVE  /\ UseOf(SettledIn(scope, t), HeldOf(scope)) \in Nat
             /\ UseOf(SettledIn(scope, t), HeldOf(scope))' \in Nat
  <2>1. /\ SettledIn(scope, t) \in SUBSET Requests /\ HeldOf(scope) \in SUBSET Requests
        /\ SettledIn(scope, t)' \in SUBSET Requests /\ HeldOf(scope)' \in SUBSET Requests
    BY DEF SettledIn, HeldOf
  <2>2. UseOf(SettledIn(scope, t), HeldOf(scope)) \in Nat
    BY <2>1, RowTypes DEF UseOf
  <2>3. ASSUME NEW S \in SUBSET Requests
        PROVE  Total(S, Accounted') \in Nat /\ Total(S, reserved') \in Nat
    <3>1. IsFiniteSet(S)
      BY ScopeAssumption, FS_Subset
    <3>2. \A r \in S : Accounted'[r] \in Nat /\ reserved'[r] \in Nat
      BY DEF TypeOK, Accounted, UsageRows
    <3>3. QED
      BY <3>1, <3>2, TotalType
  <2>4. UseOf(SettledIn(scope, t), HeldOf(scope))' \in Nat
    BY <2>1, <2>3 DEF UseOf
  <2>5. QED
    BY <2>2, <2>4
<1>8. CASE SettlesOne \/ BooksNothing
  <2>1. now <= now'
    BY <1>1, <1>8, ClockAssumption DEF SettlesOne, BooksNothing, Times
  <2>2. DayStart(now) <= d /\ MonthStart(now) <= m
    BY <1>1, <1>2, <2>1, ClockAssumption
  <2>3. ASSUME NEW w \in Workspaces PROVE DayUse(w, d)' <= WorkspaceDailyBytes
    <3>1. DayUse(w, d)' <= DayUse(w, DayStart(now))
      BY <1>1, <1>6, <1>8, <2>2, UseOnlyFalls DEF UseFalls
    <3>2. DayUse(w, DayStart(now)) <= WorkspaceDailyBytes
      BY <1>3 DEF BudgetInvariant, DailyBudgetHolds
    <3>3. DayUse(w, d)' \in Nat /\ DayUse(w, DayStart(now)) \in Nat
      BY <1>1, <1>6, <1>7
    <3> HIDE DEF DayUse
    <3>4. QED
      BY <3>1, <3>2, <3>3, PolicyAssumption
  <2>4. MonthUse(m)' <= ProjectMonthlyBytes
    <3>1. MonthUse(m)' <= MonthUse(MonthStart(now))
      BY <1>1, <1>6, <1>8, <2>2, UseOnlyFalls DEF UseFalls
    <3>2. MonthUse(MonthStart(now)) <= ProjectMonthlyBytes
      BY <1>3 DEF BudgetInvariant, MonthlyBudgetHolds
    <3>3. MonthUse(m)' \in Nat /\ MonthUse(MonthStart(now)) \in Nat
      BY <1>1, <1>6, <1>7
    <3> HIDE DEF MonthUse
    <3>4. QED
      BY <3>1, <3>2, <3>3, PolicyAssumption
  <2>5. QED
    BY <2>3, <2>4
<1>9. CASE AdmitsOne
  <2>1. PICK p \in Workers, r \in Requests : Admit(p, r)
    BY <1>9 DEF AdmitsOne
  <2>2. PICK est \in Nat :
           /\ Admissible(WorkspaceOf[r], est)
           /\ \A scope \in SUBSET Requests, t \in Times :
                UseOf(SettledIn(scope, t), HeldOf(scope))'
                  <= UseOf(SettledIn(scope, t), HeldOf(scope)) + (IF r \in scope THEN est ELSE 0)
    BY <2>1, AdmissionUse
  <2>3. now' = now /\ d = DayStart(now) /\ m = MonthStart(now)
    BY <1>2, <2>1 DEF Admit
  <2>4. ASSUME NEW w \in Workspaces PROVE DayUse(w, d)' <= WorkspaceDailyBytes
    <3>1. r \in RequestsIn(w) => w = WorkspaceOf[r]
      BY DEF RequestsIn
    <3>2. DayUse(w, d)' <= DayUse(w, d) + (IF r \in RequestsIn(w) THEN est ELSE 0)
      BY <1>6, <2>2
    <3>3. /\ DayUse(w, d) <= WorkspaceDailyBytes
          /\ r \in RequestsIn(w) => DayUse(w, d) + est <= WorkspaceDailyBytes
      BY <1>3, <2>2, <2>3, <3>1 DEF Admissible, BudgetInvariant, DailyBudgetHolds
    <3>4. DayUse(w, d)' \in Nat /\ DayUse(w, d) \in Nat
      BY <1>6, <1>7
    <3> HIDE DEF DayUse
    <3>5. QED
      BY <3>2, <3>3, <3>4, PolicyAssumption
  <2>5. MonthUse(m)' <= ProjectMonthlyBytes
    <3>1. MonthUse(m)' <= MonthUse(m) + est
      BY <1>6, <2>2
    <3>2. MonthUse(m) + est <= ProjectMonthlyBytes
      BY <1>3, <2>2, <2>3 DEF Admissible
    <3>3. MonthUse(m)' \in Nat /\ MonthUse(m) \in Nat
      BY <1>6, <1>7
    <3> HIDE DEF MonthUse
    <3>4. QED
      BY <3>1, <3>2, <3>3, PolicyAssumption
  <2>6. QED
    BY <2>4, <2>5
<1>10. QED
  BY <1>8, <1>9, LedgerSteps

LEMMA BudgetAlways == Spec => [](TypeOK /\ SettlementInvariant /\ BudgetInvariant)
<1>1. Init => TypeOK /\ SettlementInvariant /\ BudgetInvariant
  BY TypeInit, SettlementInit, BudgetInit
<1>2. TypeOK /\ SettlementInvariant /\ BudgetInvariant /\ [Next]_vars
        => (TypeOK /\ SettlementInvariant /\ BudgetInvariant)'
  <2>1. SettlementInvariant => Serving
    BY DEF SettlementInvariant, WorkerConsistent, Serving
  <2>2. QED
    BY <2>1, TypeStep, SettlementStep, BudgetStep
<1>3. QED
  BY <1>1, <1>2, PTL DEF Spec

(* No workspace's day is ever overspent, by what has been settled and what  *)
(* is still held together.                                                  *)
THEOREM DailyBudgetAlwaysHolds == Spec => []DailyBudgetHolds
<1>1. BudgetInvariant => DailyBudgetHolds
  BY DEF BudgetInvariant
<1>2. QED
  BY <1>1, BudgetAlways, PTL

(* Nor is the project's month, over all workspaces.                         *)
THEOREM MonthlyBudgetAlwaysHolds == Spec => []MonthlyBudgetHolds
<1>1. BudgetInvariant => MonthlyBudgetHolds
  BY DEF BudgetInvariant
<1>2. QED
  BY <1>1, BudgetAlways, PTL

(* What a finished job cost is either booked, at the time of its settlement *)
(* and in full, or still reserved by an EXECUTING row.                      *)
LEMMA FinishedIsAccounted ==
  ASSUME TypeOK, SettlementInvariant, NEW r \in Requests, Finished(r)
  PROVE  \/ /\ Settled(r)
            /\ job[r].billed <= usage[r].accounted /\ job[r].at <= usage[r].at
         \/ ~Settled(r) /\ Held(r) /\ job[r].billed <= reserved[r]
<1>1. RequestConsistent(r) /\ status[r] \in Statuses
  BY DEF SettlementInvariant, TypeOK
<1>2. CASE Settled(r)
  BY <1>1, <1>2 DEF RequestConsistent
<1>3. CASE ~Settled(r)
  BY <1>1, <1>3 DEF RequestConsistent, Statuses, Held, Finished
<1>4. QED
  BY <1>2, <1>3

LEMMA SpendIsAccounted ==
  ASSUME TypeOK, SettlementInvariant, NEW w \in Workspaces
  PROVE  Total({r \in Requests : /\ Finished(r) /\ WorkspaceOf[r] = w
                                 /\ job[r].at >= DayStart(now)}, Billed)
           <= DailyUse(w)
<1> DEFINE spent == {r \in Requests : /\ Finished(r) /\ WorkspaceOf[r] = w
                                      /\ job[r].at >= DayStart(now)}
           booked == {r \in spent : Settled(r)}
           open == {r \in spent : ~Settled(r)}
<1>1. /\ SettledToday(w) \in SUBSET Requests /\ HeldIn(w) \in SUBSET Requests
      /\ spent \in SUBSET Requests
      /\ booked \in SUBSET Requests /\ open \in SUBSET Requests
      /\ spent = booked \cup open /\ booked \cap open = {}
  BY DEF SettledToday, HeldIn, HeldAll
<1>2. /\ DayStart(now) \in Nat
      /\ \A r \in Requests : job[r].at \in Nat /\ usage[r].at \in Nat /\ Billed[r] \in Nat
  BY ClockAssumption DEF TypeOK, Times, Jobs, UsageRows, Billed
<1>3. /\ booked \subseteq SettledToday(w)
      /\ \A r \in booked : Billed[r] <= Accounted[r]
  BY <1>2, FinishedIsAccounted DEF SettledToday, Billed, Accounted
<1>4. /\ open \subseteq HeldIn(w)
      /\ \A r \in open : Billed[r] <= reserved[r]
  BY FinishedIsAccounted DEF HeldIn, HeldAll, Billed
<1>5. /\ IsFiniteSet(booked) /\ IsFiniteSet(open)
      /\ IsFiniteSet(SettledToday(w)) /\ IsFiniteSet(HeldIn(w))
      /\ \A r \in Requests : Accounted[r] \in Nat /\ reserved[r] \in Nat
      /\ Total(SettledToday(w), Accounted) \in Nat /\ Total(HeldIn(w), reserved) \in Nat
      /\ Total(booked, Accounted) \in Nat /\ Total(open, reserved) \in Nat
  <2>1. Requests \in SUBSET Requests
    OBVIOUS
  <2>2. QED
    BY <1>1, <2>1, RowTypes
<1>6. booked \in SUBSET SettledToday(w) /\ open \in SUBSET HeldIn(w)
  BY <1>3, <1>4
<1> HIDE DEF spent, booked, open
<1>7. Total(spent, Billed) = Total(booked, Billed) + Total(open, Billed)
  BY <1>1, <1>2, <1>5, TotalUnion
<1>8. Total(booked, Billed) <= Total(booked, Accounted) /\ Total(booked, Billed) \in Nat
  <2>1. \A r \in booked : Billed[r] \in Nat /\ Accounted[r] \in Nat /\ Billed[r] <= Accounted[r]
    BY <1>1, <1>2, <1>3, <1>5
  <2>2. QED
    BY <1>5, <2>1, TotalMonotone, TotalType
<1>9. Total(open, Billed) <= Total(open, reserved) /\ Total(open, Billed) \in Nat
  <2>1. \A r \in open : Billed[r] \in Nat /\ reserved[r] \in Nat /\ Billed[r] <= reserved[r]
    BY <1>1, <1>2, <1>4, <1>5
  <2>2. QED
    BY <1>5, <2>1, TotalMonotone, TotalType
<1>10. Total(booked, Accounted) <= Total(SettledToday(w), Accounted)
  BY <1>1, <1>5, <1>6, TotalSubset
<1>11. Total(open, reserved) <= Total(HeldIn(w), reserved)
  BY <1>1, <1>5, <1>6, TotalSubset
<1>12. Total(spent, Billed) <= DailyUse(w)
  BY <1>5, <1>7, <1>8, <1>9, <1>10, <1>11 DEF DailyUse
<1>13. QED
  BY <1>12 DEF spent

(* The provider never bills a workspace more in a day than its budget: what *)
(* a finished job cost is booked today, or still reserved.                  *)
THEOREM ProviderSpendIsBudgeted == Spec => []ProviderSpendWithinDaily
<1>1. TypeOK /\ SettlementInvariant /\ BudgetInvariant => ProviderSpendWithinDaily
  <2> SUFFICES ASSUME TypeOK, SettlementInvariant, BudgetInvariant, NEW w \in Workspaces
               PROVE  Total({r \in Requests : /\ Finished(r) /\ WorkspaceOf[r] = w
                                              /\ job[r].at >= DayStart(now)}, Billed)
                        <= WorkspaceDailyBytes
    BY DEF ProviderSpendWithinDaily
  <2> DEFINE spent == Total({r \in Requests : /\ Finished(r) /\ WorkspaceOf[r] = w
                                              /\ job[r].at >= DayStart(now)}, Billed)
  <2>1. spent <= DailyUse(w) /\ DailyUse(w) <= WorkspaceDailyBytes
    BY SpendIsAccounted DEF BudgetInvariant, DailyBudgetHolds
  <2>2. spent \in Nat
    <3>1. \A r \in Requests : Billed[r] \in Nat
      BY DEF TypeOK, Jobs, Billed
    <3>2. IsFiniteSet({r \in Requests : /\ Finished(r) /\ WorkspaceOf[r] = w
                                        /\ job[r].at >= DayStart(now)})
      BY ScopeAssumption, FS_Subset
    <3>3. QED
      BY <3>1, <3>2, TotalType
  <2>3. DailyUse(w) \in Nat
    <3>1. SettledToday(w) \in SUBSET Requests /\ HeldIn(w) \in SUBSET Requests
      BY DEF SettledToday, HeldIn, HeldAll
    <3>2. Total(SettledToday(w), Accounted) \in Nat /\ Total(HeldIn(w), reserved) \in Nat
      BY <3>1, RowTypes
    <3>3. QED
      BY <3>2 DEF DailyUse
  <2> HIDE DEF spent
  <2>4. spent <= WorkspaceDailyBytes
    BY <2>1, <2>2, <2>3, PolicyAssumption
  <2>5. QED
    BY <2>4 DEF spent
<1>2. QED
  BY <1>1, BudgetAlways, PTL
-----------------------------------------------------------------------------
(* Concurrency: the same three kinds of step, counted instead of summed.    *)
HeldWithin ==
    /\ Cardinality(HeldOf(Requests)) <= GlobalConcurrency
    /\ \A w \in Workspaces : Cardinality(HeldOf(RequestsIn(w))) <= WorkspaceConcurrency

LEMMA HeldWithinStep ==
  TypeOK /\ SettlementInvariant /\ HeldWithin /\ [Next]_vars => HeldWithin'
<1> SUFFICES ASSUME TypeOK, SettlementInvariant, HeldWithin, [Next]_vars
             PROVE  HeldWithin'
  OBVIOUS
<1>1. ASSUME NEW scope \in SUBSET Requests
      PROVE  IsFiniteSet(HeldOf(scope)) /\ Cardinality(HeldOf(scope)) \in Nat
  BY ScopeAssumption, FS_Subset, FS_CardinalityType DEF HeldOf
<1>2. \A w \in Workspaces : RequestsIn(w) \in SUBSET Requests
  BY DEF RequestsIn
<1>3. CASE SettlesOne \/ BooksNothing
  <2>1. \A q \in Requests : Held(q)' => Held(q)
    BY <1>3 DEF SettlesOne, BooksNothing, Account, Held, Expired, TypeOK
  <2>2. ASSUME NEW scope \in SUBSET Requests
        PROVE  Cardinality(HeldOf(scope)') <= Cardinality(HeldOf(scope))
               /\ Cardinality(HeldOf(scope)') \in Nat
    <3>1. HeldOf(scope)' \subseteq HeldOf(scope)
      BY <2>1 DEF HeldOf
    <3>2. QED
      BY <1>1, <3>1, FS_Subset, FS_CardinalityType
  <2>3. Requests' = Requests /\ \A w \in Workspaces : RequestsIn(w)' = RequestsIn(w)
    BY DEF RequestsIn
  <2>4. QED
    BY <1>1, <1>2, <2>2, <2>3, PolicyAssumption DEF HeldWithin
<1>4. CASE AdmitsOne
  <2>1. PICK p \in Workers, r \in Requests : Admit(p, r)
    BY <1>4 DEF AdmitsOne
  <2>2. PICK est \in Nat :
           /\ Admissible(WorkspaceOf[r], est)
           /\ \A scope \in SUBSET Requests :
                HeldOf(scope)' = HeldOf(scope) \cup ({r} \cap scope) /\ r \notin HeldOf(scope)
    BY <2>1, AdmissionUse
  <2>3. /\ Cardinality(HeldOf(Requests)) < GlobalConcurrency
        /\ Cardinality(HeldOf(RequestsIn(WorkspaceOf[r]))) < WorkspaceConcurrency
    <3>1. HeldAll = HeldOf(Requests)
      BY DEF HeldAll, HeldOf
    <3>2. HeldIn(WorkspaceOf[r]) = HeldOf(RequestsIn(WorkspaceOf[r]))
      BY DEF HeldIn, HeldAll, HeldOf, RequestsIn
    <3>3. QED
      BY <2>2, <3>1, <3>2 DEF Admissible
  <2>4. ASSUME NEW scope \in SUBSET Requests
        PROVE  Cardinality(HeldOf(scope)')
                 = Cardinality(HeldOf(scope)) + (IF r \in scope THEN 1 ELSE 0)
    <3>1. CASE r \in scope
      <4>1. HeldOf(scope)' = HeldOf(scope) \cup {r} /\ r \notin HeldOf(scope)
        BY <2>2, <3>1
      <4>2. QED
        BY <1>1, <3>1, <4>1, FS_AddElement
    <3>2. CASE r \notin scope
      <4>1. HeldOf(scope)' = HeldOf(scope)
        BY <2>2, <3>2
      <4>2. QED
        BY <1>1, <3>2, <4>1
    <3>3. QED
      BY <3>1, <3>2
  <2>5. Cardinality(HeldOf(Requests)') <= GlobalConcurrency
    BY <1>1, <2>3, <2>4, PolicyAssumption
  <2>6. ASSUME NEW w \in Workspaces
        PROVE  Cardinality(HeldOf(RequestsIn(w))') <= WorkspaceConcurrency
    <3>1. r \in RequestsIn(w) => w = WorkspaceOf[r]
      BY DEF RequestsIn
    <3>2. Cardinality(HeldOf(RequestsIn(w))) <= WorkspaceConcurrency
      BY DEF HeldWithin
    <3>3. QED
      BY <1>1, <1>2, <2>3, <2>4, <3>1, <3>2, PolicyAssumption
  <2>7. QED
    BY <2>5, <2>6 DEF HeldWithin
<1>5. QED
  BY <1>3, <1>4, LedgerSteps

LEMMA HeldWithinInit == Init => HeldWithin
<1> SUFFICES ASSUME Init PROVE HeldWithin
  OBVIOUS
<1>1. \A scope \in SUBSET Requests : HeldOf(scope) = {}
  BY DEF Init, HeldOf, Held
<1>2. QED
  BY <1>1, FS_EmptySet, PolicyAssumption DEF HeldWithin, RequestsIn

(* The concurrency limits bound what runs, or may still start to run, at    *)
(* the provider: an unfinished job belongs to an EXECUTING reservation, and *)
(* those are held whatever their lease says.                                *)
THEOREM ConcurrencyAlwaysHolds == Spec => []ConcurrencyHolds
<1>1. Init => TypeOK /\ SettlementInvariant /\ HeldWithin
  BY TypeInit, SettlementInit, HeldWithinInit
<1>2. TypeOK /\ SettlementInvariant /\ HeldWithin /\ [Next]_vars
        => (TypeOK /\ SettlementInvariant /\ HeldWithin)'
  <2>1. SettlementInvariant => Serving
    BY DEF SettlementInvariant, WorkerConsistent, Serving
  <2>2. QED
    BY <2>1, TypeStep, SettlementStep, HeldWithinStep
<1>3. TypeOK /\ SettlementInvariant /\ HeldWithin => ConcurrencyHolds
  <2> SUFFICES ASSUME TypeOK, SettlementInvariant, HeldWithin PROVE ConcurrencyHolds
    OBVIOUS
  <2>1. ASSUME NEW r \in Requests, Unfinished(r) PROVE Held(r)
    <3>1. RequestConsistent(r) /\ status[r] \in Statuses /\ usage[r] \in UsageRows
      BY DEF SettlementInvariant, TypeOK
    <3>2. status[r] \notin {"NONE", "ACTIVE", "RELEASED"}
      BY <2>1, <3>1 DEF RequestConsistent, Unfinished
    <3>3. ~Settled(r)
      BY <2>1, <3>1 DEF RequestConsistent, Unfinished, Settled, UsageRows
    <3>4. QED
      BY <3>1, <3>2, <3>3 DEF RequestConsistent, Held, Statuses
  <2> DEFINE busy == {r \in Requests : Held(r) \/ Unfinished(r)}
  <2>2. /\ busy = HeldOf(Requests)
        /\ \A w : {r \in busy : WorkspaceOf[r] = w} = HeldOf(RequestsIn(w))
    BY <2>1 DEF HeldOf, RequestsIn
  <2>3. QED
    BY <2>2 DEF ConcurrencyHolds, HeldWithin
<1>4. QED
  BY <1>1, <1>2, <1>3, PTL DEF Spec

(* A usage row, once written, is never written again: a late executor and   *)
(* concurrent recoveries cannot change a settlement.                        *)
THEOREM SettlementIsFinal == Spec => SettledOnce
<1>1. TypeOK /\ SettlementInvariant /\ [Next]_vars
        => [\A r \in Requests : Settled(r) => usage'[r] = usage[r]]_vars
  <2> SUFFICES ASSUME TypeOK, SettlementInvariant, [Next]_vars, NEW r \in Requests, Settled(r)
               PROVE  usage'[r] = usage[r]
    OBVIOUS
  <2>1. CASE AdmitsOne
    BY <2>1 DEF AdmitsOne, Admit
  <2>2. CASE SettlesOne
    <3>1. status[r] # "EXECUTING"
      BY DEF SettlementInvariant, RequestConsistent
    <3>2. QED
      BY <2>2, <3>1 DEF SettlesOne, Account, TypeOK
  <2>3. CASE BooksNothing
    BY <2>3 DEF BooksNothing
  <2>4. QED
    BY <2>1, <2>2, <2>3, LedgerSteps
<1>2. QED
  BY <1>1, SettlementConsistent, PTL DEF Spec, SettledOnce
-----------------------------------------------------------------------------
(* The ledger: what a row's phase is, and which rows count in it.           *)
PhaseFacts ==
    \A r \in Requests :
      /\ (Phase(r) \in {"held", "claimed"}) <=> Held(r)
      /\ (Phase(r) = "spent") <=> Settled(r)
      /\ (Phase(r) = "none") <=> (status[r] = "NONE")
      /\ (Phase(r) = "held") <=> (status[r] = "ACTIVE" /\ ~Expired(r))
      /\ (Phase(r) = "claimed") <=> (status[r] = "EXECUTING")
      /\ (Phase(r) = "freed")
           <=> (status[r] = "RELEASED" \/ (status[r] = "ACTIVE" /\ Expired(r)))
      /\ Phase(r) \in {"none", "held", "claimed", "freed", "spent"}

LEMMA PhasesAgree == TypeOK /\ SettlementInvariant => PhaseFacts
<1> SUFFICES ASSUME TypeOK, SettlementInvariant PROVE PhaseFacts
  OBVIOUS
<1>1. ASSUME NEW r \in Requests
      PROVE  /\ status[r] \in Statuses
             /\ Settled(r) <=> status[r] \in {"COMPLETED", "FAILED"}
  BY DEF TypeOK, SettlementInvariant, RequestConsistent
<1>2. ASSUME NEW r \in Requests
      PROVE  /\ status[r] = "NONE" => Phase(r) = "none"
             /\ status[r] = "ACTIVE" /\ Expired(r) => Phase(r) = "freed"
             /\ status[r] = "ACTIVE" /\ ~Expired(r) => Phase(r) = "held"
             /\ status[r] = "RELEASED" => Phase(r) = "freed"
             /\ status[r] = "EXECUTING" => Phase(r) = "claimed"
             /\ status[r] \in {"COMPLETED", "FAILED"} => Phase(r) = "spent"
  BY <1>1 DEF Phase, Statuses
<1>3. QED
  BY <1>1, <1>2 DEF PhaseFacts, Held, Statuses

LEMMA PhasesAgreeNext == (TypeOK /\ SettlementInvariant)' => PhaseFacts'
BY PhasesAgree, PTL

Phases == [r \in Requests |-> Phase(r)]
Amounts == [r \in Requests |-> IF Settled(r) THEN usage[r].accounted ELSE reserved[r]]
SpentAts == [r \in Requests |-> usage[r].at]

(* The instance has its own copies of the library's and ByteSums' operators.*)
LEMMA LedgerCardinality ==
  ASSUME NEW S
  PROVE  Ledger!Cardinality(S) = Cardinality(S)
BY DEF Ledger!Cardinality, Cardinality

LEMMA LedgerTotal ==
  ASSUME NEW S, NEW f
  PROVE  Ledger!Total(S, f) = Total(S, f)
BY LedgerCardinality
   DEF Ledger!Total, Ledger!AllUnits, Ledger!Units, Total, AllUnits, Units

(* The ledger sums one amount over the spent and the holding requests; the  *)
(* code adds two aggregates.                                                *)
LEMMA LedgerUse ==
  ASSUME TypeOK, SettlementInvariant, NEW scope \in SUBSET Requests, NEW t \in Nat
  PROVE  /\ Ledger!Holding(scope) = HeldOf(scope)
         /\ Ledger!Use(scope, t) = UseOf(SettledIn(scope, t), HeldOf(scope))
<1>1. PhaseFacts
  BY PhasesAgree
<1>2. Ledger!Holding(scope) = HeldOf(scope)
  BY <1>1 DEF Ledger!Holding, HeldOf, PhaseFacts
<1>3. Ledger!SpentSince(scope, t) = SettledIn(scope, t)
  BY <1>1 DEF Ledger!SpentSince, SettledIn, PhaseFacts
<1> DEFINE S == SettledIn(scope, t)  H == HeldOf(scope)
<1>4. S \in SUBSET Requests /\ H \in SUBSET Requests /\ S \cap H = {}
  BY <1>1 DEF SettledIn, HeldOf, PhaseFacts
<1>5. /\ \A r \in S : Amounts[r] = Accounted[r]
      /\ \A r \in H : Amounts[r] = reserved[r]
  <2>1. ASSUME NEW r \in H PROVE ~Settled(r)
    BY <1>1 DEF HeldOf, PhaseFacts
  <2>2. QED
    BY <2>1 DEF SettledIn, HeldOf, Amounts, Accounted
<1>6. Ledger!Use(scope, t) = Total(S \cup H, Amounts)
  BY <1>2, <1>3, LedgerTotal DEF Ledger!Use, Amounts
<1>7. /\ IsFiniteSet(S) /\ IsFiniteSet(H)
      /\ \A r \in S : Accounted[r] \in Nat
      /\ \A r \in H : reserved[r] \in Nat
  BY <1>4, RowTypes
<1>8. UseOf(SettledIn(scope, t), HeldOf(scope)) = Total(S, Accounted) + Total(H, reserved)
  BY DEF UseOf
<1> HIDE DEF S, H
<1>9. \A r \in S \cup H : Amounts[r] \in Nat
  BY <1>5, <1>7
<1>10. Total(S \cup H, Amounts) = Total(S, Amounts) + Total(H, Amounts)
  BY <1>4, <1>7, <1>9, TotalUnion
<1>11. Total(S, Amounts) = Total(S, Accounted) /\ Total(H, Amounts) = Total(H, reserved)
  BY <1>5, TotalSame
<1>12. QED
  BY <1>2, <1>6, <1>8, <1>10, <1>11

LEMMA LedgerInit == Init => Ledger!Init
<1> SUFFICES ASSUME Init PROVE Ledger!Init
  OBVIOUS
<1>1. \A r \in Requests : Phase(r) = "none" /\ ~Settled(r) /\ usage[r].at = 0 /\ reserved[r] = 0
  BY DEF Init, Phase, Settled, NoUsage
<1>2. now = 0
  BY DEF Init
<1>3. QED
  BY <1>1, <1>2 DEF Ledger!Init

(* An admission is the ledger's Hold.                                       *)
LEMMA AdmissionHolds ==
  ASSUME TypeOK, SettlementInvariant, PhaseFacts, PhaseFacts',
         NEW p \in Workers, NEW r \in Requests, Admit(p, r)
  PROVE  \E bytes \in 0 .. WorkspaceDailyBytes : Ledger!Hold(r, bytes)
<1>1. PICK est \in Estimates : /\ Admissible(WorkspaceOf[r], est)
                               /\ reserved' = [reserved EXCEPT ![r] = est]
  BY DEF Admit
<1>2. /\ est \in 0 .. WorkspaceDailyBytes /\ est \in Nat
  BY <1>1, ScopeAssumption, PolicyAssumption DEF Admissible
<1>3. /\ status[r] = "NONE" /\ status' = [status EXCEPT ![r] = "ACTIVE"]
      /\ expiresAt' = [expiresAt EXCEPT ![r] = now + LeaseTime]
      /\ now' = now /\ usage' = usage
  BY DEF Admit
<1>4. WorkspaceOf[r] \in Workspaces /\ now \in Nat /\ DayStart(now) \in Nat /\ MonthStart(now) \in Nat
  BY ScopeAssumption, ClockAssumption DEF TypeOK, Times
<1>5. Phase(r) = "none" /\ Phase(r)' = "held" /\ ~Settled(r) /\ ~Settled(r)'
  <2>1. status'[r] = "ACTIVE" /\ ~Expired(r)'
    BY <1>3, <1>4, ClockAssumption DEF Expired, TypeOK
  <2>2. Phase(r) = "none" /\ Phase(r)' = "held"
    BY <1>3, <2>1 DEF PhaseFacts
  <2>3. QED
    BY <1>3, <2>2 DEF PhaseFacts, Settled
<1>6. \A q \in Requests : q # r => Phase(q)' = Phase(q)
  BY <1>3 DEF TypeOK, Phase, Expired
<1>7. Phases' = [Phases EXCEPT ![r] = "held"]
  BY <1>5, <1>6 DEF Phases
<1>8. Amounts' = [Amounts EXCEPT ![r] = est]
  BY <1>1, <1>3, <1>5 DEF Amounts, Settled, TypeOK
<1>9. SpentAts' = SpentAts
  BY <1>3 DEF SpentAts
<1> DEFINE mine == RequestsIn(WorkspaceOf[r])
<1>10. /\ mine \in SUBSET Requests /\ Requests \in SUBSET Requests
       /\ Ledger!RequestsOf(WorkspaceOf[r]) = mine
  BY DEF RequestsIn, Ledger!RequestsOf
<1>11. /\ Ledger!Use(mine, DayStart(now)) = DailyUse(WorkspaceOf[r])
       /\ Ledger!Use(Requests, MonthStart(now)) = MonthlyUse
  BY <1>4, <1>10, LedgerUse, BudgetScopes DEF Scopes
<1>12. /\ Ledger!Holding(mine) = HeldIn(WorkspaceOf[r])
       /\ Ledger!Holding(Requests) = HeldAll
  BY <1>4, <1>10, LedgerUse DEF HeldIn, HeldAll, HeldOf, RequestsIn
<1>13. Ledger!Hold(r, est)
  <2>1. Phases[r] = "none"
    BY <1>5 DEF Phases
  <2>2. /\ Ledger!Use(mine, DayStart(now)) + est <= WorkspaceDailyBytes
        /\ Ledger!Use(Requests, MonthStart(now)) + est <= ProjectMonthlyBytes
        /\ Cardinality(Ledger!Holding(mine)) < WorkspaceConcurrency
        /\ Cardinality(Ledger!Holding(Requests)) < GlobalConcurrency
    BY <1>1, <1>11, <1>12 DEF Admissible
  <2>3. UNCHANGED <<now, SpentAts>>
    BY <1>3, <1>9
  <2> HIDE DEF mine
  <2>4. QED
    BY <1>7, <1>8, <1>10, <2>1, <2>2, <2>3, LedgerCardinality
       DEF Ledger!Hold, Phases, Amounts, SpentAts
<1>14. QED
  BY <1>2, <1>13

(* A claim takes what is held; a release drops it, if it has not lapsed; a  *)
(* settlement spends no more than was claimed; time lets leases lapse.      *)
LEMMA ClaimTakes ==
  ASSUME TypeOK, SettlementInvariant, PhaseFacts, PhaseFacts',
         NEW r \in Requests, Claimable(r), status' = [status EXCEPT ![r] = "EXECUTING"],
         UNCHANGED <<now, reserved, expiresAt, usage>>
  PROVE  Ledger!Take(r)
<1>1. Phase(r) = "held" /\ Phase(r)' = "claimed"
  BY DEF Claimable, PhaseFacts, TypeOK
<1>2. \A q \in Requests : q # r => Phase(q)' = Phase(q)
  BY DEF TypeOK, Phase, Expired
<1>3. Phases' = [Phases EXCEPT ![r] = "claimed"] /\ Phases[r] = "held"
  BY <1>1, <1>2 DEF Phases
<1>4. UNCHANGED <<now, Amounts, SpentAts>>
  BY DEF Amounts, SpentAts, Settled
<1>5. QED
  BY <1>3, <1>4 DEF Ledger!Take, Phases, Amounts, SpentAts

LEMMA ReleaseDrops ==
  ASSUME TypeOK, SettlementInvariant, PhaseFacts, PhaseFacts',
         NEW r \in Requests, status[r] = "ACTIVE", status' = [status EXCEPT ![r] = "RELEASED"],
         UNCHANGED <<now, reserved, expiresAt, usage>>
  PROVE  Ledger!Drop(r) \/ UNCHANGED Ledger!ledger
<1>1. Phase(r) \in {"held", "freed"} /\ Phase(r)' = "freed"
  BY DEF PhaseFacts, TypeOK
<1>2. \A q \in Requests : q # r => Phase(q)' = Phase(q)
  BY DEF TypeOK, Phase, Expired
<1>3. Phases' = [Phases EXCEPT ![r] = "freed"]
  BY <1>1, <1>2 DEF Phases
<1>4. UNCHANGED <<now, Amounts, SpentAts>>
  BY DEF Amounts, SpentAts, Settled
<1>5. CASE Phase(r) = "held"
  <2>1. Phases[r] = "held"
    BY <1>5 DEF Phases
  <2>2. QED
    BY <1>3, <1>4, <2>1 DEF Ledger!Drop, Phases, Amounts, SpentAts
<1>6. CASE Phase(r) = "freed"
  <2>1. Phases' = Phases
    BY <1>3, <1>6 DEF Phases
  <2>2. QED
    BY <1>4, <2>1 DEF Ledger!ledger, Phases, Amounts, SpentAts
<1>7. QED
  BY <1>1, <1>5, <1>6

LEMMA SettlementSpends ==
  ASSUME TypeOK, SettlementInvariant, PhaseFacts, PhaseFacts',
         NEW r \in Requests, status[r] = "EXECUTING",
         NEW final \in {"COMPLETED", "FAILED"}, NEW outcome \in {"SUCCEEDED", "FAILED"},
         NEW duration, Account(r, final, outcome, duration),
         UNCHANGED <<now, reserved, expiresAt>>
  PROVE  Ledger!Spend(r)
<1>1. /\ status' = [status EXCEPT ![r] = final]
      /\ usage'[r].accounted = AccountedBytes(r) /\ usage'[r].at = now
      /\ usage'[r].outcome = outcome
      /\ \A q \in Requests : q # r => usage'[q] = usage[q]
  BY DEF Account, TypeOK
<1>2. ~Settled(r) /\ Settled(r)'
  BY <1>1 DEF SettlementInvariant, RequestConsistent, Settled
<1>3. AccountedBytes(r) \in 0 .. reserved[r]
  <2>1. RequestConsistent(r) /\ reserved[r] \in Nat
    BY DEF SettlementInvariant, TypeOK
  <2>2. QED
    BY <2>1, AccountedType DEF RequestConsistent
<1>4. Phase(r) = "claimed" /\ Phase(r)' = "spent"
  BY <1>2 DEF PhaseFacts
<1>5. \A q \in Requests : q # r => Phase(q)' = Phase(q)
  BY <1>1 DEF TypeOK, Phase, Expired
<1>6. Phases' = [Phases EXCEPT ![r] = "spent"] /\ Phases[r] = "claimed"
  BY <1>4, <1>5 DEF Phases
<1>7. Amounts' = [Amounts EXCEPT ![r] = AccountedBytes(r)] /\ Amounts[r] = reserved[r]
  BY <1>1, <1>2 DEF Amounts, Settled
<1>8. SpentAts' = [SpentAts EXCEPT ![r] = now]
  BY <1>1 DEF SpentAts
<1>9. QED
  BY <1>3, <1>6, <1>7, <1>8 DEF Ledger!Spend, Phases, Amounts, SpentAts

LEMMA TickAdvances ==
  ASSUME TypeOK, SettlementInvariant, PhaseFacts, PhaseFacts', Tick
  PROVE  Ledger!Advance
<1>1. /\ now < MaxTime /\ now' = now + 1 /\ now \in Nat
      /\ UNCHANGED <<status, reserved, expiresAt, usage>>
  BY ClockAssumption DEF Tick, ledgerVars, TypeOK, Times
<1> DEFINE lapsed == {r \in Requests : Phase(r) = "held" /\ Phase(r)' = "freed"}
<1>2. ASSUME NEW r \in Requests
      PROVE  Phase(r)' = (IF r \in lapsed THEN "freed" ELSE Phase(r))
  <2>1. expiresAt[r] \in Nat
    BY DEF TypeOK
  <2>2. Expired(r) => Expired(r)'
    BY <1>1, <2>1 DEF Expired
  <2>3. CASE Phase(r) = "held"
    <3>1. status'[r] = "ACTIVE"
      BY <1>1, <2>3 DEF PhaseFacts
    <3>2. Phase(r)' \in {"held", "freed"}
      BY <3>1 DEF PhaseFacts
    <3>3. QED
      BY <2>3, <3>2
  <2>4. CASE Phase(r) # "held"
    <3>1. Phase(r)' = Phase(r)
      BY <1>1, <2>2, <2>4 DEF PhaseFacts, Settled
    <3>2. QED
      BY <2>4, <3>1
  <2>5. QED
    BY <2>3, <2>4
<1>3. lapsed \in SUBSET {r \in Requests : Phases[r] = "held"}
  BY DEF Phases
<1> HIDE DEF lapsed
<1>4. Phases' = [r \in Requests |-> IF r \in lapsed THEN "freed" ELSE Phases[r]]
  BY <1>2 DEF Phases
<1>5. UNCHANGED <<Amounts, SpentAts>>
  BY <1>1 DEF Amounts, SpentAts, Settled
<1>6. QED
  BY <1>1, <1>3, <1>4, <1>5 DEF Ledger!Advance, Phases, Amounts, SpentAts

LEMMA LedgerStep ==
  ASSUME TypeOK, TypeOK', SettlementInvariant, SettlementInvariant', [Next]_vars
  PROVE  [Ledger!Next]_(Ledger!ledger)
<1> USE DEF ledgerVars, workerVars
<1>1. PhaseFacts /\ PhaseFacts'
  BY PhasesAgree, PhasesAgreeNext
<1>w. \A p \in Workers : stage[p] \in Busy => serving[p] \in Requests
  BY DEF SettlementInvariant, WorkerConsistent
<1>2. ASSUME UNCHANGED <<now, status, reserved, expiresAt, usage>>
      PROVE  UNCHANGED Ledger!ledger
  <2>1. \A r \in Requests : Phase(r)' = Phase(r)
    BY <1>2 DEF Phase, Expired
  <2>2. UNCHANGED <<now, Phases, Amounts, SpentAts>>
    BY <1>2, <2>1 DEF Phases, Amounts, SpentAts, Settled
  <2>3. QED
    BY <2>2 DEF Ledger!ledger, Phases, Amounts, SpentAts
<1>3. ASSUME NEW p \in Workers, NEW r \in Requests, Admit(p, r)
      PROVE  Ledger!Next
  BY <1>1, <1>3, AdmissionHolds DEF Ledger!Next
<1>4. ASSUME NEW p \in Workers, Release(p)
      PROVE  [Ledger!Next]_(Ledger!ledger)
  <2>1. PICK r \in Requests : serving[p] = r
    BY <1>4, <1>w DEF Release, Busy
  <2>2. CASE status[r] = "ACTIVE"
    BY <1>1, <1>4, <2>1, <2>2, ReleaseDrops DEF Release, Ledger!Next
  <2>3. CASE status[r] # "ACTIVE"
    BY <1>2, <1>4, <2>1, <2>3 DEF Release
  <2>4. QED
    BY <2>2, <2>3
<1>5. ASSUME NEW p \in Workers, Claim(p)
      PROVE  [Ledger!Next]_(Ledger!ledger)
  <2>1. PICK r \in Requests : serving[p] = r
    BY <1>5, <1>w DEF Claim, Busy
  <2>2. CASE Claimable(r)
    BY <1>1, <1>5, <2>1, <2>2, ClaimTakes DEF Claim, Ledger!Next
  <2>3. CASE ~Claimable(r)
    BY <1>2, <1>5, <2>1, <2>3 DEF Claim
  <2>4. QED
    BY <2>2, <2>3
<1>6. ASSUME NEW p \in Workers, stage[p] \in Busy,
             NEW final \in {"COMPLETED", "FAILED"}, NEW outcome \in {"SUCCEEDED", "FAILED"},
             NEW duration \in Durations, SettleWith(p, final, outcome, duration, "idle")
      PROVE  [Ledger!Next]_(Ledger!ledger)
  <2>1. PICK r \in Requests : serving[p] = r
    BY <1>6, <1>w
  <2>2. CASE status[r] = "EXECUTING"
    BY <1>1, <1>6, <2>1, <2>2, SettlementSpends DEF SettleWith, Ledger!Next
  <2>3. CASE status[r] # "EXECUTING"
    BY <1>2, <1>6, <2>1, <2>3 DEF SettleWith
  <2>4. QED
    BY <2>2, <2>3
<1>7. ASSUME NEW p \in Workers, Finalize(p) \/ Settle(p) \/ SettleFailed(p)
      PROVE  [Ledger!Next]_(Ledger!ledger)
  BY <1>6, <1>7 DEF Finalize, Settle, SettleFailed, Busy, Durations
<1>8. ASSUME NEW p \in Workers,
             \/ \E r \in Requests : AdmitReused(p, r) \/ Recover(p, r)
             \/ RefuseExecution(p) \/ AwaitFails(p) \/ ObserveFails(p) \/ Crash(p)
             \/ Submit(p) \/ Await(p) \/ Observe(p)
      PROVE  UNCHANGED Ledger!ledger
  BY <1>2, <1>8 DEF AdmitReused, Recover, RefuseExecution, AwaitFails, ObserveFails, Crash,
                    Submit, Await, Observe
<1>9. ASSUME NEW r \in Requests, Accept(r) \/ Finish(r)
      PROVE  UNCHANGED Ledger!ledger
  BY <1>2, <1>9 DEF Accept, Finish
<1>10. ASSUME Tick PROVE Ledger!Next
  BY <1>1, <1>10, TickAdvances DEF Ledger!Next
<1>11. ASSUME UNCHANGED vars PROVE UNCHANGED Ledger!ledger
  BY <1>2, <1>11 DEF vars
<1>12. QED
  BY <1>3, <1>4, <1>5, <1>7, <1>8, <1>9, <1>10, <1>11 DEF Next, WorkerStep

(* Transactions, leases, crashes, lost submissions and recoveries implement *)
(* the ledger: every request holds bytes at most once, spends no more than  *)
(* it held and only while the budgets have room, and nothing that lapsed or *)
(* was released is ever claimed or spent.                                   *)
THEOREM GovernanceImplementsLedger == Spec => LedgerImplemented
<1>1. Init => Ledger!Init
  BY LedgerInit
<1>2. (TypeOK /\ SettlementInvariant) /\ (TypeOK /\ SettlementInvariant)' /\ [Next]_vars
        => [Ledger!Next]_(Ledger!ledger)
  BY LedgerStep
<1>3. QED
  BY <1>1, <1>2, SettlementConsistent, PTL DEF Spec, Ledger!Spec, LedgerImplemented
=============================================================================
