----------------------------- MODULE QueryLedger -----------------------------
(***************************************************************************)
(* What query governance promises, without transactions, workers, leases,  *)
(* provider jobs or recovery: a ledger in which every request holds bytes  *)
(* at most once, spends no more than it held, and only when what has been  *)
(* spent and is still held leaves room in every budget.                    *)
(***************************************************************************)
EXTENDS Integers, FiniteSets, ByteSums

CONSTANTS Requests, Workspaces, WorkspaceOf, WorkspaceDailyBytes, ProjectMonthlyBytes,
          WorkspaceConcurrency, GlobalConcurrency, MaxTime, DayStart(_), MonthStart(_)

VARIABLES now,
          phase,      \* none, held, claimed, spent or freed
          amount,     \* bytes held, then bytes spent
          spentAt

ledger == <<now, phase, amount, spentAt>>

Init ==
    /\ now = 0
    /\ phase = [r \in Requests |-> "none"]
    /\ amount = [r \in Requests |-> 0]
    /\ spentAt = [r \in Requests |-> 0]

Holding(scope) == {r \in scope : phase[r] \in {"held", "claimed"}}
SpentSince(scope, t) == {r \in scope : phase[r] = "spent" /\ spentAt[r] >= t}
Use(scope, t) == Total(SpentSince(scope, t) \cup Holding(scope), amount)

RequestsOf(w) == {r \in Requests : WorkspaceOf[r] = w}

Hold(r, bytes) ==
    LET mine == RequestsOf(WorkspaceOf[r]) IN
    /\ phase[r] = "none"
    /\ phase' = [phase EXCEPT ![r] = "held"]
    /\ amount' = [amount EXCEPT ![r] = bytes]
    /\ UNCHANGED <<now, spentAt>>
    /\ Use(mine, DayStart(now)) + bytes <= WorkspaceDailyBytes
    /\ Use(Requests, MonthStart(now)) + bytes <= ProjectMonthlyBytes
    /\ Cardinality(Holding(mine)) < WorkspaceConcurrency
    /\ Cardinality(Holding(Requests)) < GlobalConcurrency

Take(r) ==
    /\ phase[r] = "held"
    /\ phase' = [phase EXCEPT ![r] = "claimed"]
    /\ UNCHANGED <<now, amount, spentAt>>

Drop(r) ==
    /\ phase[r] = "held"
    /\ phase' = [phase EXCEPT ![r] = "freed"]
    /\ UNCHANGED <<now, amount, spentAt>>

Spend(r) ==
    /\ phase[r] = "claimed"
    /\ \E bytes \in 0 .. amount[r] : amount' = [amount EXCEPT ![r] = bytes]
    /\ phase' = [phase EXCEPT ![r] = "spent"]
    /\ spentAt' = [spentAt EXCEPT ![r] = now]
    /\ UNCHANGED now

(* Time passes and some of what was held but not claimed lapses.            *)
Advance ==
    /\ now < MaxTime
    /\ now' = now + 1
    /\ \E lapsed \in SUBSET {r \in Requests : phase[r] = "held"} :
         phase' = [r \in Requests |-> IF r \in lapsed THEN "freed" ELSE phase[r]]
    /\ UNCHANGED <<amount, spentAt>>

Next ==
    \/ \E r \in Requests : \/ \E bytes \in 0 .. WorkspaceDailyBytes : Hold(r, bytes)
                           \/ Take(r) \/ Drop(r) \/ Spend(r)
    \/ Advance

Spec == Init /\ [][Next]_ledger
=============================================================================
