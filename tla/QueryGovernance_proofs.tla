------------------------ MODULE QueryGovernance_proofs ------------------------
(***************************************************************************)
(* Theorems about QueryGovernance, for every set of requests, workers and   *)
(* estimates, every policy the constructor accepts and every clock bound.   *)
(***************************************************************************)
EXTENDS QueryGovernance, FiniteSetTheorems, TLAPS

(* The laws of Total, which the accounting proofs rest on.                 *)

(* The units of one row are finite and there are f[x] of them.             *)
LEMMA UnitsCount ==
  ASSUME NEW x, NEW f, f[x] \in Nat
  PROVE  /\ IsFiniteSet(Units(x, f))
         /\ Cardinality(Units(x, f)) = f[x]
<1>1. /\ IsFiniteSet({x})
      /\ Cardinality({x}) = 1
  BY FS_Singleton
<1>2. /\ IsFiniteSet(1 .. f[x])
      /\ Cardinality(1 .. f[x]) = f[x]
  BY FS_Interval
<1>3. /\ IsFiniteSet({x} \X (1 .. f[x]))
      /\ Cardinality({x} \X (1 .. f[x])) = 1 * f[x]
  BY <1>1, <1>2, FS_Product
<1>4. QED
  BY <1>3 DEF Units

(* The units of finitely many rows are finite, so Total is a number.       *)
LEMMA TotalType ==
  ASSUME NEW S, NEW f, IsFiniteSet(S), \A x \in S : f[x] \in Nat
  PROVE  /\ IsFiniteSet(AllUnits(S, f))
         /\ Total(S, f) \in Nat
<1>. DEFINE T == {Units(x, f) : x \in S}
            g == [x \in S |-> Units(x, f)]
<1>1. g \in Surjection(S, T)
  BY DEF Surjection
<1>2. IsFiniteSet(T)
  BY <1>1, FS_Surjection
<1>3. \A U \in T : IsFiniteSet(U)
  BY UnitsCount
<1>4. IsFiniteSet(UNION T)
  BY <1>2, <1>3, FS_UNION
<1>5. QED
  BY <1>4, FS_CardinalityType DEF AllUnits, Total

(* The sum over no rows is zero.                                           *)
LEMMA TotalEmpty ==
  ASSUME NEW f
  PROVE  Total({}, f) = 0
BY FS_EmptySet DEF Total, AllUnits

(* The sum depends only on the values of the summed rows.                  *)
LEMMA TotalSame ==
  ASSUME NEW S, NEW f, NEW g, \A x \in S : f[x] = g[x]
  PROVE  Total(S, f) = Total(S, g)
<1>1. \A x \in S : Units(x, f) = Units(x, g)
  BY DEF Units
<1>2. AllUnits(S, f) = AllUnits(S, g)
  BY <1>1 DEF AllUnits
<1>3. QED
  BY <1>2 DEF Total

(* Adding a row adds its value.                                            *)
LEMMA TotalAdd ==
  ASSUME NEW S, NEW f, NEW y, IsFiniteSet(S), y \notin S,
         \A x \in S \cup {y} : f[x] \in Nat
  PROVE  Total(S \cup {y}, f) = Total(S, f) + f[y]
<1>1. AllUnits(S \cup {y}, f) = AllUnits(S, f) \cup Units(y, f)
  BY DEF AllUnits
<1>2. AllUnits(S, f) \cap Units(y, f) = {}
  BY DEF AllUnits, Units
<1>3. IsFiniteSet(AllUnits(S, f)) /\ Total(S, f) \in Nat
  BY TotalType
<1>4. IsFiniteSet(Units(y, f)) /\ Cardinality(Units(y, f)) = f[y]
  BY UnitsCount
<1>5. Cardinality(AllUnits(S, f) \cup Units(y, f))
        = Cardinality(AllUnits(S, f)) + Cardinality(Units(y, f))
            - Cardinality(AllUnits(S, f) \cap Units(y, f))
  BY <1>3, <1>4, FS_Union
<1>6. Cardinality(AllUnits(S, f) \cap Units(y, f)) = 0
  BY <1>2, FS_EmptySet
<1>7. Cardinality(AllUnits(S, f)) \in Nat /\ f[y] \in Nat
  BY <1>3 DEF Total
<1>8. Cardinality(AllUnits(S, f) \cup Units(y, f))
        = Cardinality(AllUnits(S, f)) + f[y]
  BY <1>4, <1>5, <1>6, <1>7
<1>9. QED
  BY <1>1, <1>8 DEF Total

(* Removing a row subtracts its value.                                     *)
LEMMA TotalRemove ==
  ASSUME NEW S, NEW f, NEW y, IsFiniteSet(S), y \in S,
         \A x \in S : f[x] \in Nat
  PROVE  Total(S \ {y}, f) = Total(S, f) - f[y]
<1>1. IsFiniteSet(S \ {y})
  BY FS_RemoveElement
<1>2. Total((S \ {y}) \cup {y}, f) = Total(S \ {y}, f) + f[y]
  BY <1>1, TotalAdd
<1>3. (S \ {y}) \cup {y} = S
  OBVIOUS
<1>4. Total(S \ {y}, f) \in Nat /\ f[y] \in Nat
  BY <1>1, TotalType
<1>5. QED
  BY <1>2, <1>3, <1>4

(* Leaving rows out never increases the sum.                               *)
LEMMA TotalSubset ==
  ASSUME NEW S, NEW f, IsFiniteSet(S), NEW R \in SUBSET S,
         \A x \in S : f[x] \in Nat
  PROVE  Total(R, f) <= Total(S, f)
<1>1. AllUnits(R, f) \in SUBSET AllUnits(S, f)
  BY DEF AllUnits
<1>2. IsFiniteSet(AllUnits(S, f))
  BY TotalType
<1>3. QED
  BY <1>1, <1>2, FS_Subset DEF Total

(* Lowering values never increases the sum.                                *)
LEMMA TotalMonotone ==
  ASSUME NEW S, NEW f, NEW g, IsFiniteSet(S),
         \A x \in S : f[x] \in Nat /\ g[x] \in Nat /\ f[x] <= g[x]
  PROVE  Total(S, f) <= Total(S, g)
<1>1. \A x \in S : Units(x, f) \subseteq Units(x, g)
  BY DEF Units
<1>2. AllUnits(S, f) \in SUBSET AllUnits(S, g)
  BY <1>1 DEF AllUnits
<1>3. IsFiniteSet(AllUnits(S, g))
  BY TotalType
<1>4. QED
  BY <1>2, <1>3, FS_Subset DEF Total

(* The sums over two disjoint sets of rows add up.                         *)
LEMMA TotalUnion ==
  ASSUME NEW S, NEW R, NEW f, IsFiniteSet(S), IsFiniteSet(R), S \cap R = {},
         \A x \in S \cup R : f[x] \in Nat
  PROVE  Total(S \cup R, f) = Total(S, f) + Total(R, f)
<1>1. AllUnits(S \cup R, f) = AllUnits(S, f) \cup AllUnits(R, f)
  BY DEF AllUnits
<1>2. AllUnits(S, f) \cap AllUnits(R, f) = {}
  BY DEF AllUnits, Units
<1>3. /\ IsFiniteSet(AllUnits(S, f)) /\ Total(S, f) \in Nat
      /\ IsFiniteSet(AllUnits(R, f)) /\ Total(R, f) \in Nat
  BY TotalType
<1>4. Cardinality(AllUnits(S, f) \cap AllUnits(R, f)) = 0
  BY <1>2, FS_EmptySet
<1>5. Cardinality(AllUnits(S, f) \cup AllUnits(R, f))
        = Cardinality(AllUnits(S, f)) + Cardinality(AllUnits(R, f))
            - Cardinality(AllUnits(S, f) \cap AllUnits(R, f))
  BY <1>3, FS_Union
<1>6. /\ Cardinality(AllUnits(S, f)) \in Nat
      /\ Cardinality(AllUnits(R, f)) \in Nat
  BY <1>3 DEF Total
<1>7. Cardinality(AllUnits(S, f) \cup AllUnits(R, f))
        = Cardinality(AllUnits(S, f)) + Cardinality(AllUnits(R, f))
  BY <1>4, <1>5, <1>6
<1>8. QED
  BY <1>1, <1>7 DEF Total
-----------------------------------------------------------------------------
(* A busy worker serves a request whose reservation exists.                 *)
Serving == \A p \in Workers :
    stage[p] \in Busy => serving[p] \in Requests /\ status[serving[p]] # "NONE"

LEMMA CapType ==
  ASSUME TypeOK, NEW r \in Requests
  PROVE  ExecutionCap(r) \in Nat /\ ExecutionCap(r) <= reserved[r]
BY PolicyAssumption, ScopeAssumption DEF TypeOK, ExecutionCap, Smaller

LEMMA SentJob ==
  ASSUME NEW j \in Jobs, NEW s \in JobStates
  PROVE  [j EXCEPT !.state = s] \in Jobs
BY DEF Jobs

LEMMA AccountedType ==
  ASSUME TypeOK, NEW r \in Requests
  PROVE  /\ AccountedBytes(r) \in Nat
         /\ job[r].billed <= reserved[r] => job[r].billed <= AccountedBytes(r)
         /\ job[r].billed <= reserved[r] /\ job[r].processed <= reserved[r]
              => AccountedBytes(r) <= reserved[r]
<1>1. /\ job[r].billed \in Nat /\ job[r].processed \in Nat /\ reserved[r] \in Nat
      /\ job[r].reported \subseteq Counters
  BY DEF TypeOK, Jobs
<1>2. /\ Known(r, "processed") \in Nat /\ Known(r, "processed") <= job[r].processed
      /\ Known(r, "billed") \in Nat /\ Known(r, "billed") <= job[r].billed
      /\ job[r].reported = Counters => Known(r, "billed") = job[r].billed
  BY <1>1 DEF Known, Counters
<1> DEFINE actual == Larger(Known(r, "processed"), Known(r, "billed"))
<1>3. /\ actual \in Nat /\ Known(r, "billed") <= actual
      /\ job[r].billed <= reserved[r] /\ job[r].processed <= reserved[r]
           => actual <= reserved[r]
  BY <1>1, <1>2 DEF Larger
<1>4. /\ Larger(reserved[r], actual) \in Nat /\ reserved[r] <= Larger(reserved[r], actual)
      /\ actual <= reserved[r] => Larger(reserved[r], actual) <= reserved[r]
  BY <1>1, <1>3 DEF Larger
<1>5. AccountedBytes(r) = IF job[r].reported = Counters THEN actual
                                                        ELSE Larger(reserved[r], actual)
  BY DEF AccountedBytes
<1> HIDE DEF actual
<1>6. QED
  BY <1>1, <1>2, <1>3, <1>4, <1>5
-----------------------------------------------------------------------------
(* Every step in a form with the served request named.                     *)
LEMMA TypeInit == Init => TypeOK /\ Serving
BY ClockAssumption, ScopeAssumption
   DEF Init, TypeOK, Serving, Times, Statuses, UsageRows, Jobs, JobStates, AtRest, Busy, NoUsage,
       NoJob, Durations, Counters

LEMMA TypeStep == TypeOK /\ Serving /\ [Next]_vars => TypeOK' /\ Serving'
<1> SUFFICES ASSUME TypeOK, Serving, [Next]_vars
             PROVE  TypeOK' /\ Serving'
  OBVIOUS
<1> USE DEF Goto, Rest, ledgerVars, workerVars
<1>1. ASSUME NEW p \in Workers, NEW r \in Requests, Admit(p, r)
      PROVE  TypeOK' /\ Serving'
  BY <1>1, ScopeAssumption, ClockAssumption DEF Admit, TypeOK, Serving, Times, Statuses, Busy, AtRest
<1>2. ASSUME NEW p \in Workers, NEW r \in Requests, AdmitReused(p, r)
      PROVE  TypeOK' /\ Serving'
  BY <1>2 DEF AdmitReused, TypeOK, Serving, Busy, AtRest
<1>3. ASSUME NEW p \in Workers, NEW r \in Requests, Recover(p, r)
      PROVE  TypeOK' /\ Serving'
  BY <1>3 DEF Recover, TypeOK, Serving, Busy, AtRest
<1>4. ASSUME NEW p \in Workers, Release(p)
      PROVE  TypeOK' /\ Serving'
  BY <1>4 DEF Release, TypeOK, Serving, Statuses, Busy, AtRest
<1>5. ASSUME NEW p \in Workers, Claim(p)
      PROVE  TypeOK' /\ Serving'
  <2> DEFINE r == serving[p]
  <2>1. r \in Requests /\ status[r] # "NONE"
    BY <1>5 DEF Claim, Serving, Busy
  <2>2. CASE Claimable(r)
    BY <1>5, <2>1, <2>2 DEF Claim, TypeOK, Serving, Statuses, Busy, AtRest
  <2>3. CASE ~Claimable(r)
    BY <1>5, <2>1, <2>3 DEF Claim, TypeOK, Serving, Statuses, Busy, AtRest
  <2>4. QED
    BY <2>2, <2>3
<1>6. ASSUME NEW p \in Workers, RefuseExecution(p) \/ AwaitFails(p) \/ ObserveFails(p) \/ Crash(p)
      PROVE  TypeOK' /\ Serving'
  BY <1>6 DEF RefuseExecution, AwaitFails, ObserveFails, Crash, TypeOK, Serving, Busy, AtRest
<1>7. ASSUME NEW p \in Workers, Submit(p)
      PROVE  TypeOK' /\ Serving'
  <2>1. serving[p] \in Requests
    BY <1>7 DEF Submit, Serving, Busy
  <2>2. job' \in [Requests -> Jobs]
    <3>1. CASE job[serving[p]].state = "NONE"
      <4>1. job' = [job EXCEPT ![serving[p]].state = "SENT"]
        BY <1>7, <3>1 DEF Submit
      <4>2. [job[serving[p]] EXCEPT !.state = "SENT"] \in Jobs
        BY <2>1, SentJob DEF TypeOK, JobStates
      <4>3. QED
        BY <2>1, <4>1, <4>2 DEF TypeOK
    <3>2. CASE job[serving[p]].state # "NONE"
      BY <1>7, <3>2 DEF Submit, TypeOK
    <3>3. QED
      BY <3>1, <3>2
  <2>3. QED
    <3>1. submissions' \in [Requests -> Nat]
      BY <1>7, <2>1 DEF Submit, TypeOK
    <3>2. stage' \in [Workers -> AtRest \cup Busy]
      BY <1>7 DEF Submit, TypeOK, Busy
    <3>3. QED
      BY <1>7, <2>1, <2>2, <3>1, <3>2 DEF Submit, TypeOK, Serving, Busy
<1>8. ASSUME NEW p \in Workers, Await(p)
      PROVE  TypeOK' /\ Serving'
  BY <1>8 DEF Await, TypeOK, Serving, Busy, AtRest
<1>9. ASSUME NEW p \in Workers, Observe(p)
      PROVE  TypeOK' /\ Serving'
  <2>1. serving[p] \in Requests /\ status[serving[p]] # "NONE"
    BY <1>9 DEF Observe, Serving, Busy
  <2>2. Verdict(serving[p]) \in {"settle", "settleFailed", "recoveryRequired"}
    BY DEF Verdict
  <2>3. QED
    BY <1>9, <2>1, <2>2 DEF Observe, TypeOK, Serving, Busy, AtRest
<1>10. ASSUME NEW p \in Workers, stage[p] \in Busy,
              NEW final \in {"COMPLETED", "FAILED"}, NEW outcome \in {"SUCCEEDED", "FAILED"},
              NEW duration \in Durations,
              SettleWith(p, final, outcome, duration, "idle")
       PROVE  TypeOK' /\ Serving'
  <2> DEFINE r == serving[p]
  <2>1. r \in Requests /\ AccountedBytes(r) \in Nat
    BY <1>10, AccountedType DEF Serving
  <2>2. /\ status' \in [Requests -> Statuses]
        /\ usage' \in [Requests -> UsageRows]
        /\ \A q \in Requests : status[q] # "NONE" => status'[q] # "NONE"
    <3>1. [outcome |-> outcome, accounted |-> AccountedBytes(r),
           duration |-> duration, at |-> now] \in UsageRows
      BY <1>10, <2>1 DEF TypeOK, UsageRows
    <3>2. CASE status[r] = "EXECUTING"
      BY <1>10, <2>1, <3>1, <3>2 DEF SettleWith, Account, TypeOK, Statuses
    <3>3. CASE status[r] # "EXECUTING"
      BY <1>10, <3>3 DEF SettleWith, TypeOK
    <3>4. QED
      BY <3>2, <3>3
  <2>3. QED
    BY <1>10, <2>1, <2>2 DEF SettleWith, TypeOK, Serving, Busy, AtRest
<1>11. ASSUME NEW p \in Workers, Finalize(p) \/ Settle(p) \/ SettleFailed(p)
       PROVE  TypeOK' /\ Serving'
  BY <1>10, <1>11 DEF Finalize, Settle, SettleFailed, Busy, Durations
<1>12. ASSUME NEW r \in Requests, Accept(r)
       PROVE  TypeOK' /\ Serving'
  <2>1. job' \in [Requests -> Jobs]
    BY <1>12, SentJob DEF Accept, TypeOK, JobStates
  <2>2. QED
    BY <1>12, <2>1 DEF Accept, TypeOK, Serving
<1>13. ASSUME NEW r \in Requests, Finish(r)
       PROVE  TypeOK' /\ Serving'
  <2>1. job' \in [Requests -> Jobs]
    BY <1>13, ScopeAssumption DEF Finish, TypeOK, Jobs, JobStates, Counters
  <2>2. QED
    BY <1>13, <2>1 DEF Finish, TypeOK, Serving
<1>14. ASSUME Tick
       PROVE  TypeOK' /\ Serving'
  BY <1>14, ClockAssumption DEF Tick, TypeOK, Serving, Times
<1>15. ASSUME UNCHANGED vars
       PROVE  TypeOK' /\ Serving'
  BY <1>15 DEF vars, TypeOK, Serving
<1>16. QED
  BY <1>1, <1>2, <1>3, <1>4, <1>5, <1>6, <1>7, <1>8, <1>9, <1>11, <1>12, <1>13, <1>14, <1>15
     DEF Next, WorkerStep

(* Every reachable state is well formed, and a busy worker serves an        *)
(* existing reservation.                                                    *)
THEOREM TypeCorrect == Spec => [](TypeOK /\ Serving)
BY TypeInit, TypeStep, PTL DEF Spec
-----------------------------------------------------------------------------
(* The settlement invariant.                                               *)

LEMMA SettlementInit == Init => SettlementInvariant
BY ClockAssumption, ScopeAssumption
   DEF Init, SettlementInvariant, RequestConsistent, WorkerConsistent, OneUnusedClaim,
       Finished, Settled, NoUsage, NoJob, Busy, Times

(* A step that changes only the callers' stages disturbs no request.        *)
LEMMA RequestsKept ==
  ASSUME SettlementInvariant, UNCHANGED <<now, ledgerVars, job, submissions>>
  PROVE  \A r \in Requests : RequestConsistent(r)'
BY DEF SettlementInvariant, RequestConsistent, Finished, Settled, ledgerVars

(* A step that leaves the calls, the jobs and the claims alone disturbs no  *)
(* worker.                                                                  *)
LEMMA WorkersKept ==
  ASSUME SettlementInvariant, TypeOK, UNCHANGED workerVars,
         \A r \in Requests :
            /\ job[r].state \in {"NONE", "SUCCEEDED", "FAILED"} => job'[r].state = job[r].state
            /\ submissions'[r] = submissions[r] /\ status'[r] = status[r]
  PROVE  (\A p \in Workers : WorkerConsistent(p)') /\ OneUnusedClaim'
<1>1. stage' = stage /\ serving' = serving
  BY DEF workerVars
<1>2. OneUnusedClaim'
  BY <1>1 DEF SettlementInvariant, OneUnusedClaim
<1>3. ASSUME NEW p \in Workers PROVE WorkerConsistent(p)'
  <2>1. WorkerConsistent(p)
    BY DEF SettlementInvariant
  <2>2. CASE stage[p] \in Busy
    BY <1>1, <2>1, <2>2 DEF WorkerConsistent
  <2>3. CASE stage[p] \notin Busy
    BY <1>1, <2>3 DEF WorkerConsistent, Busy
  <2>4. QED
    BY <2>2, <2>3
<1>4. QED
  BY <1>2, <1>3

(* One worker moves on without touching a claim: the others keep theirs.    *)
LEMMA WorkerMoves ==
  ASSUME SettlementInvariant, TypeOK, NEW p \in Workers,
         NEW r \in Requests \cup {NoRequest}, NEW next \in AtRest \cup Busy,
         next # "claimed", Goto(p, r, next), UNCHANGED <<job, submissions>>,
         \A q \in Requests : /\ status[q] # "NONE" => status'[q] # "NONE"
                             /\ status[q] = "EXECUTING" /\ job[q].state = "NONE"
                                  => status'[q] = "EXECUTING",
         next \in Busy => r \in Requests /\ status'[r] # "NONE",
         next \in {"finalize", "settle"} => job[r].state = "SUCCEEDED",
         next = "settleFailed" => job[r].state = "FAILED"
  PROVE  (\A q \in Workers : WorkerConsistent(q)') /\ OneUnusedClaim'
<1>1. /\ stage' \in [Workers -> AtRest \cup Busy] /\ stage'[p] = next
      /\ serving'[p] = r
      /\ \A q \in Workers : q # p => stage'[q] = stage[q] /\ serving'[q] = serving[q]
  BY DEF Goto, TypeOK
<1>2. OneUnusedClaim'
  BY <1>1 DEF SettlementInvariant, OneUnusedClaim
<1>3. WorkerConsistent(p)'
  BY <1>1 DEF WorkerConsistent
<1>4. ASSUME NEW q \in Workers, q # p PROVE WorkerConsistent(q)'
  <2>1. WorkerConsistent(q) /\ stage'[q] = stage[q] /\ serving'[q] = serving[q]
    BY <1>1, <1>4 DEF SettlementInvariant
  <2>2. CASE stage[q] \in Busy
    BY <2>1, <2>2 DEF WorkerConsistent
  <2>3. CASE stage[q] \notin Busy
    BY <2>1, <2>3 DEF WorkerConsistent, Busy
  <2>4. QED
    BY <2>2, <2>3
<1>5. QED
  BY <1>2, <1>3, <1>4
LEMMA WorkerRests ==
  ASSUME SettlementInvariant, TypeOK, NEW p \in Workers, NEW next \in AtRest,
         Goto(p, NoRequest, next), UNCHANGED <<job, submissions>>,
         \A q \in Requests : /\ status[q] # "NONE" => status'[q] # "NONE"
                             /\ status[q] = "EXECUTING" /\ job[q].state = "NONE"
                                  => status'[q] = "EXECUTING"
  PROVE  (\A q \in Workers : WorkerConsistent(q)') /\ OneUnusedClaim'
<1>1. next \in AtRest \cup Busy /\ next # "claimed" /\ next \notin Busy
      /\ next \notin {"finalize", "settle", "settleFailed"}
  BY DEF AtRest, Busy
<1>2. NoRequest \in Requests \cup {NoRequest}
  OBVIOUS
<1>3. QED
  BY <1>1, <1>2, WorkerMoves

LEMMA SettlementStep ==
  TypeOK /\ SettlementInvariant /\ [Next]_vars => SettlementInvariant'
<1> SUFFICES ASSUME TypeOK, SettlementInvariant, [Next]_vars
             PROVE  SettlementInvariant'
  OBVIOUS
<1> DEFINE Requests2 == \A r \in Requests : RequestConsistent(r)'
           Workers2 == (\A p \in Workers : WorkerConsistent(p)') /\ OneUnusedClaim'
<1>0. SUFFICES Requests2 /\ Workers2
  BY DEF SettlementInvariant
<1>r. \A r \in Requests : RequestConsistent(r)
  BY DEF SettlementInvariant
<1>w. \A p \in Workers : WorkerConsistent(p)
  BY DEF SettlementInvariant
<1>1. ASSUME NEW p \in Workers, NEW r \in Requests, Admit(p, r)
      PROVE  Requests2 /\ Workers2
  <2>1. PICK est \in Estimates : reserved' = [reserved EXCEPT ![r] = est]
    BY <1>1 DEF Admit
  <2>2. est \in Nat
    BY ScopeAssumption
  <2>3. Requests2
    BY <1>1, <1>r, <2>1, <2>2 DEF Admit, RequestConsistent, Finished, Settled, TypeOK, Jobs
  <2>4. status'[r] = "ACTIVE" /\ \A q \in Requests : q # r => status'[q] = status[q]
    BY <1>1 DEF Admit, TypeOK
  <2>5. Workers2
    BY <1>1, <2>4, WorkerMoves DEF Admit, Busy
  <2>6. QED
    BY <2>3, <2>5
<1>2. ASSUME NEW p \in Workers, NEW r \in Requests, AdmitReused(p, r) \/ Recover(p, r)
      PROVE  Requests2 /\ Workers2
  <2>1. Requests2
    BY <1>2, RequestsKept DEF AdmitReused, Recover
  <2>2. \/ Goto(p, r, "revalidate") /\ status[r] # "NONE"
        \/ Goto(p, r, "observe") /\ status[r] # "NONE"
        \/ Goto(p, NoRequest, "recoveryRequired")
    BY <1>2 DEF AdmitReused, Recover, Rest
  <2>3. UNCHANGED <<job, submissions, status>>
    BY <1>2 DEF AdmitReused, Recover, ledgerVars
  <2>4. Workers2
    BY <2>2, <2>3, WorkerMoves DEF Busy, AtRest
  <2>5. QED
    BY <2>1, <2>4
<1>3. ASSUME NEW p \in Workers, Release(p)
      PROVE  Requests2 /\ Workers2
  <2>1. serving[p] \in Requests
    BY <1>3, <1>w DEF Release, WorkerConsistent, Busy
  <2>2. Requests2
    BY <1>3, <1>r, <2>1 DEF Release, RequestConsistent, Finished, Settled, TypeOK
  <2>3. \A q \in Requests : /\ status[q] # "NONE" => status'[q] # "NONE"
                            /\ status[q] = "EXECUTING" => status'[q] = "EXECUTING"
    BY <1>3, <2>1 DEF Release, TypeOK
  <2>4. Workers2
    <3>1. Goto(p, NoRequest, "idle") /\ UNCHANGED <<job, submissions>>
      BY <1>3 DEF Release, Rest
    <3>2. QED
      BY <2>3, <3>1, WorkerRests DEF AtRest
  <2>5. QED
    BY <2>2, <2>4
<1>4. ASSUME NEW p \in Workers, Claim(p)
      PROVE  Requests2 /\ Workers2
  <2> DEFINE r == serving[p]
  <2>1. r \in Requests
    BY <1>4, <1>w DEF Claim, WorkerConsistent, Busy
  <2>2. CASE ~Claimable(r)
    <3>1. UNCHANGED <<now, ledgerVars, job, submissions, status>> /\ Goto(p, NoRequest, "idle")
      BY <1>4, <2>2 DEF Claim, Rest, ledgerVars
    <3>2. QED
      BY <3>1, RequestsKept, WorkerMoves DEF Busy, AtRest
  <2>3. CASE Claimable(r)
    <3>1. /\ status[r] = "ACTIVE" /\ status' = [status EXCEPT ![r] = "EXECUTING"]
          /\ UNCHANGED <<now, reserved, expiresAt, usage, job, submissions>>
          /\ Goto(p, r, "claimed")
      BY <1>4, <2>3 DEF Claim, Claimable
    <3>2. Requests2
      BY <1>r, <2>1, <3>1 DEF RequestConsistent, Finished, Settled, TypeOK
    <3>3. job[r].state = "NONE" /\ submissions[r] = 0
      BY <1>r, <2>1, <3>1 DEF RequestConsistent
    <3>4. /\ stage'[p] = "claimed" /\ serving'[p] = r
          /\ \A q \in Workers : q # p => stage'[q] = stage[q] /\ serving'[q] = serving[q]
      BY <3>1 DEF Goto, TypeOK
    <3>5. \A q \in Workers : stage[q] = "claimed" => serving[q] # r
      BY <1>w, <3>1 DEF WorkerConsistent
    <3>6. OneUnusedClaim'
      BY <3>4, <3>5 DEF SettlementInvariant, OneUnusedClaim
    <3>7. WorkerConsistent(p)'
      BY <2>1, <3>1, <3>3, <3>4 DEF WorkerConsistent, TypeOK
    <3>8. ASSUME NEW q \in Workers, q # p PROVE WorkerConsistent(q)'
      <4>1. CASE stage[q] \in Busy
        BY <1>w, <2>1, <3>1, <3>4, <3>8, <4>1 DEF WorkerConsistent, TypeOK
      <4>2. CASE stage[q] \notin Busy
        BY <3>4, <3>8, <4>2 DEF WorkerConsistent, Busy
      <4>3. QED
        BY <4>1, <4>2
    <3>9. QED
      BY <3>2, <3>6, <3>7, <3>8
  <2>4. QED
    BY <2>2, <2>3
<1>5. ASSUME NEW p \in Workers, RefuseExecution(p) \/ AwaitFails(p) \/ ObserveFails(p) \/ Crash(p)
      PROVE  Requests2 /\ Workers2
  <2>1. /\ UNCHANGED <<now, ledgerVars, job, submissions, status>>
        /\ Goto(p, NoRequest, "recoveryRequired") \/ Goto(p, NoRequest, "idle")
    BY <1>5 DEF RefuseExecution, AwaitFails, ObserveFails, Crash, Rest, ledgerVars
  <2>2. QED
    BY <2>1, RequestsKept, WorkerMoves DEF Busy, AtRest
<1>6. ASSUME NEW p \in Workers, Submit(p)
      PROVE  Requests2 /\ Workers2
  <2>0. PICK r \in Requests : serving[p] = r
    BY <1>6, <1>w DEF Submit, WorkerConsistent, Busy
  <2>1. /\ status[r] = "EXECUTING" /\ job[r].state = "NONE"
        /\ submissions[r] = 0
    BY <2>0, <1>6, <1>w DEF Submit, WorkerConsistent, Busy
  <2>2. /\ job' = [job EXCEPT ![r].state = "SENT"]
        /\ submissions' = [submissions EXCEPT ![r] = @ + 1]
        /\ stage' = [stage EXCEPT ![p] = "await"]
        /\ UNCHANGED <<now, status, reserved, expiresAt, usage, serving>>
    BY <1>6, <2>0, <2>1 DEF Submit, ledgerVars
  <2>3. /\ job'[r].state = "SENT" /\ job'[r].processed = job[r].processed
        /\ job'[r].billed = job[r].billed /\ job'[r].at = job[r].at
        /\ submissions'[r] = 1
        /\ \A q \in Requests : q # r => job'[q] = job[q] /\ submissions'[q] = submissions[q]
    BY <2>1, <2>2 DEF TypeOK, Jobs
  <2>4. RequestConsistent(r)'
    BY <1>r, <2>1, <2>2, <2>3 DEF RequestConsistent, Finished, Settled, TypeOK, UsageRows
  <2>5. ASSUME NEW q \in Requests, q # r PROVE RequestConsistent(q)'
    BY <1>r, <2>2, <2>3, <2>5 DEF RequestConsistent, Finished, Settled
  <2>6. /\ stage'[p] = "await"
        /\ \A q \in Workers : q # p => stage'[q] = stage[q]
    BY <2>2 DEF TypeOK
  <2>7. OneUnusedClaim'
    BY <2>2, <2>6 DEF SettlementInvariant, OneUnusedClaim
  <2>8. WorkerConsistent(p)'
    BY <2>0, <2>1, <2>2, <2>6 DEF WorkerConsistent
  <2>9. ASSUME NEW q \in Workers, q # p PROVE WorkerConsistent(q)'
    <3>1. WorkerConsistent(q) /\ stage'[q] = stage[q] /\ serving'[q] = serving[q]
      BY <1>w, <2>2, <2>6, <2>9
    <3>2. stage[q] = "claimed" => serving[q] # r
      BY <1>6, <2>0, <2>9 DEF Submit, SettlementInvariant, OneUnusedClaim
    <3>3. CASE stage[q] \in Busy
      BY <2>1, <2>2, <2>3, <3>1, <3>2, <3>3 DEF WorkerConsistent
    <3>4. CASE stage[q] \notin Busy
      BY <3>1, <3>4 DEF WorkerConsistent, Busy
    <3>5. QED
      BY <3>3, <3>4
  <2>10. QED
    BY <2>4, <2>5, <2>7, <2>8, <2>9
<1>7. ASSUME NEW p \in Workers, Await(p)
      PROVE  Requests2 /\ Workers2
  <2>1. /\ UNCHANGED <<now, ledgerVars, job, submissions, status>>
        /\ serving[p] \in Requests /\ status[serving[p]] # "NONE"
        /\ job[serving[p]].state = "SUCCEEDED"
    BY <1>7, <1>w DEF Await, WorkerConsistent, Busy, ledgerVars
  <2>2. Goto(p, serving[p], "finalize")
    BY <1>7 DEF Await, Goto, TypeOK
  <2>3. QED
    BY <2>1, <2>2, RequestsKept, WorkerMoves DEF Busy
<1>8. ASSUME NEW p \in Workers, Observe(p)
      PROVE  Requests2 /\ Workers2
  <2>1. /\ UNCHANGED <<now, ledgerVars, job, submissions, status>>
        /\ serving[p] \in Requests /\ status[serving[p]] # "NONE"
    BY <1>8, <1>w DEF Observe, WorkerConsistent, Busy, ledgerVars
  <2>2. \/ Goto(p, NoRequest, "recoveryRequired")
        \/ Goto(p, serving[p], "settle") /\ job[serving[p]].state = "SUCCEEDED"
        \/ Goto(p, serving[p], "settleFailed") /\ job[serving[p]].state = "FAILED"
    BY <1>8 DEF Observe, Verdict, Rest
  <2>3. QED
    BY <2>1, <2>2, RequestsKept, WorkerMoves DEF Busy, AtRest
<1>9. ASSUME NEW p \in Workers, stage[p] \in Busy,
             NEW final \in {"COMPLETED", "FAILED"}, NEW outcome \in {"SUCCEEDED", "FAILED"},
             NEW duration \in Durations, job[serving[p]].state = outcome,
             SettleWith(p, final, outcome, duration, "idle")
      PROVE  Requests2 /\ Workers2
  <2>1. PICK r \in Requests : serving[p] = r
    BY <1>9, <1>w DEF WorkerConsistent
  <2>2. /\ UNCHANGED <<now, reserved, expiresAt, job, submissions>>
        /\ Goto(p, NoRequest, "idle") \/ Goto(p, NoRequest, "recoveryRequired")
    BY <1>9 DEF SettleWith, Rest
  <2>3. CASE status[r] # "EXECUTING"
    <3>1. UNCHANGED <<status, usage>>
      BY <1>9, <2>1, <2>3 DEF SettleWith
    <3>2. QED
      BY <2>2, <3>1, RequestsKept, WorkerMoves DEF Busy, AtRest, ledgerVars
  <2>4. CASE status[r] = "EXECUTING"
    <3>1. /\ status' = [status EXCEPT ![r] = final]
          /\ usage' = [usage EXCEPT ![r] = [outcome |-> outcome, accounted |-> AccountedBytes(r),
                                            duration |-> duration, at |-> now]]
      BY <1>9, <2>1, <2>4 DEF SettleWith, Account
    <3>2. /\ usage'[r].outcome = outcome /\ usage'[r].accounted = AccountedBytes(r)
          /\ usage'[r].at = now /\ status'[r] = final
          /\ \A q \in Requests : q # r => usage'[q] = usage[q] /\ status'[q] = status[q]
      BY <2>1, <3>1 DEF TypeOK
    <3>3. /\ job[r].billed <= AccountedBytes(r) /\ job[r].at <= now /\ now \in Nat
      BY <1>r, <2>1, AccountedType, ClockAssumption DEF RequestConsistent, TypeOK, Times
    <3>4. RequestConsistent(r)'
      BY <1>9, <1>r, <2>1, <2>2, <2>4, <3>2, <3>3 DEF RequestConsistent, Finished, Settled
    <3>5. ASSUME NEW q \in Requests, q # r PROVE RequestConsistent(q)'
      BY <1>r, <2>2, <3>2, <3>5 DEF RequestConsistent, Finished, Settled
    <3>6. \A q \in Requests : /\ status[q] # "NONE" => status'[q] # "NONE"
                              /\ status[q] = "EXECUTING" /\ job[q].state = "NONE"
                                   => status'[q] = "EXECUTING"
      BY <1>9, <2>1, <3>2
    <3>7. Workers2
      BY <2>2, <3>6, WorkerRests DEF AtRest
    <3>8. QED
      BY <3>4, <3>5, <3>7
  <2>5. QED
    BY <2>3, <2>4
<1>10. ASSUME NEW p \in Workers, Finalize(p) \/ Settle(p) \/ SettleFailed(p)
       PROVE  Requests2 /\ Workers2
  BY <1>9, <1>10, <1>w DEF Finalize, Settle, SettleFailed, WorkerConsistent, Busy, Durations
<1>11. ASSUME NEW r \in Requests, Accept(r) \/ Finish(r)
       PROVE  Requests2 /\ Workers2
  <2>1. /\ job[r].state \in {"SENT", "RUNNING"}
        /\ UNCHANGED <<now, status, reserved, expiresAt, usage, submissions, stage, serving>>
    BY <1>11 DEF Accept, Finish, ledgerVars, workerVars
  <2>2. /\ \A q \in Requests : q # r => job'[q] = job[q]
        /\ job'[r].processed <= reserved[r] /\ job'[r].billed <= reserved[r]
        /\ job'[r].at <= now /\ job'[r].state \in {"RUNNING", "SUCCEEDED", "FAILED"}
        /\ job'[r].state = "RUNNING" => job'[r].processed = 0 /\ job'[r].billed = 0
    <3>1. CASE Accept(r)
      BY <3>1, <1>r DEF Accept, RequestConsistent, Finished, TypeOK, Jobs
    <3>2. CASE Finish(r)
      <4>1. PICK outcome \in {"SUCCEEDED", "FAILED"}, processed \in ByteCounts,
                 billed \in ByteCounts, reported \in Reports :
              /\ processed <= ExecutionCap(r) /\ billed <= ExecutionCap(r)
              /\ job' = [job EXCEPT ![r] = [state |-> outcome, processed |-> processed,
                                            billed |-> billed, reported |-> reported,
                                            at |-> now]]
        BY <3>2 DEF Finish
      <4>2. /\ processed \in Nat /\ billed \in Nat /\ reserved[r] \in Nat /\ now \in Nat
            /\ ExecutionCap(r) \in Nat /\ ExecutionCap(r) <= reserved[r]
        BY ScopeAssumption, ClockAssumption, CapType DEF TypeOK, Times
      <4>3. processed <= reserved[r] /\ billed <= reserved[r]
        BY <4>1, <4>2
      <4>4. QED
        BY <4>1, <4>2, <4>3 DEF TypeOK
    <3>3. QED
      BY <1>11, <3>1, <3>2
  <2>3. RequestConsistent(r)'
    BY <1>r, <2>1, <2>2 DEF RequestConsistent, Finished, Settled, TypeOK, UsageRows
  <2>4. ASSUME NEW q \in Requests, q # r PROVE RequestConsistent(q)'
    BY <1>r, <2>1, <2>2, <2>4 DEF RequestConsistent, Finished, Settled
  <2>5. Workers2
    BY <2>1, <2>2, WorkersKept DEF workerVars
  <2>6. QED
    BY <2>3, <2>4, <2>5
<1>12. ASSUME Tick
       PROVE  Requests2 /\ Workers2
  <2>1. /\ now' = now + 1 /\ now \in Nat
        /\ UNCHANGED <<status, reserved, expiresAt, usage, job, submissions, stage, serving>>
    BY <1>12, ClockAssumption DEF Tick, ledgerVars, workerVars, TypeOK, Times
  <2>2. ASSUME NEW r \in Requests PROVE RequestConsistent(r)'
    <3>1. job[r].at \in Nat /\ usage[r].at \in Nat
      BY ClockAssumption DEF TypeOK, Jobs, UsageRows, Times
    <3>2. QED
      BY <1>r, <2>1, <3>1 DEF RequestConsistent, Finished, Settled
  <2>3. Workers2
    BY <2>1, WorkersKept DEF workerVars
  <2>4. QED
    BY <2>2, <2>3
<1>13. ASSUME UNCHANGED vars
       PROVE  Requests2 /\ Workers2
  <2>1. UNCHANGED <<now, ledgerVars, job, submissions, workerVars, status>>
    BY <1>13 DEF vars, ledgerVars
  <2>2. QED
    BY <2>1, RequestsKept, WorkersKept
<1>14. QED
  BY <1>1, <1>2, <1>3, <1>4, <1>5, <1>6, <1>7, <1>8, <1>10, <1>11, <1>12, <1>13
     DEF Next, WorkerStep

(* Rows, usage and provider jobs agree in every reachable state, however    *)
(* calls, crashes, lost submissions and recoveries interleave.              *)
THEOREM SettlementConsistent == Spec => [](TypeOK /\ SettlementInvariant)
<1>1. Init => TypeOK /\ SettlementInvariant
  BY TypeInit, SettlementInit
<1>2. SettlementInvariant => Serving
  BY DEF SettlementInvariant, WorkerConsistent, Serving
<1>3. TypeOK /\ SettlementInvariant /\ [Next]_vars => (TypeOK /\ SettlementInvariant)'
  BY <1>2, TypeStep, SettlementStep
<1>4. QED
  BY <1>1, <1>3, PTL DEF Spec

(* A settled reservation tells the truth about its job, and an unclaimed or *)
(* released one has none.                                                   *)
THEOREM SettlementIsTrueAlways == Spec => []SettlementIsTrue
<1>1. SettlementInvariant => SettlementIsTrue
  BY DEF SettlementInvariant, RequestConsistent, SettlementIsTrue
<1>2. QED
  BY <1>1, SettlementConsistent, PTL

(* However often a request is admitted, recovered or crashes, it is         *)
(* submitted to the provider at most once.                                  *)
THEOREM SubmittedOnce == Spec => []AtMostOneSubmission
<1>1. SettlementInvariant => AtMostOneSubmission
  BY DEF SettlementInvariant, RequestConsistent, AtMostOneSubmission
<1>2. QED
  BY <1>1, SettlementConsistent, PTL
=============================================================================
