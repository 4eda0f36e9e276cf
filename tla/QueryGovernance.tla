--------------------------- MODULE QueryGovernance ---------------------------
(***************************************************************************)
(* Governed analytical queries.  Callers admit a compiled query against    *)
(* the byte and concurrency budgets (query_governance_repository, one      *)
(* transaction under the global and the workspace advisory lock each),     *)
(* claim the reservation, submit one deterministic provider job and settle *)
(* what it cost; after a lost answer or a crash another call recovers the  *)
(* same job by its identifier.                                             *)
(*                                                                         *)
(* A request is a request_token: the reservation, the provider job (whose  *)
(* id is made of reservation and token) and the usage row are one each.    *)
(* A worker is one synchronous execute/recover call in some process.       *)
(***************************************************************************)
EXTENDS Integers, FiniteSets, ByteSums

CONSTANTS
    Requests,               \* request tokens
    Workspaces,
    WorkspaceOf,            \* the workspace a request's identity is pinned to
    Workers,
    Estimates,              \* byte estimates the provider's dry run can return
    AutoExecuteBytes, HardBytes, WorkspaceDailyBytes, ProjectMonthlyBytes,
    WorkspaceConcurrency, GlobalConcurrency,     \* QueryPolicy
    ProviderMaximum,        \* the provider's own policy.maximum_bytes
    ByteCounts, Reports,    \* job counters, and which of them a job may report
    LeaseTime,              \* lease_seconds
    MaxTime,                \* bound of the clock
    DayStart(_), MonthStart(_),   \* date_trunc over the UTC clock
    NoRequest

Times == 0 .. MaxTime

ASSUME PolicyAssumption ==
    /\ AutoExecuteBytes \in Nat /\ HardBytes \in Nat
    /\ WorkspaceDailyBytes \in Nat /\ ProjectMonthlyBytes \in Nat
    /\ 1 <= AutoExecuteBytes /\ AutoExecuteBytes <= HardBytes
    /\ HardBytes <= WorkspaceDailyBytes
    /\ WorkspaceDailyBytes <= ProjectMonthlyBytes
    /\ WorkspaceConcurrency \in Nat /\ GlobalConcurrency \in Nat
    /\ 1 <= WorkspaceConcurrency /\ WorkspaceConcurrency <= GlobalConcurrency

ASSUME ScopeAssumption ==
    /\ IsFiniteSet(Requests) /\ NoRequest \notin Requests
    /\ WorkspaceOf \in [Requests -> Workspaces]
    /\ Estimates \subseteq Nat /\ ByteCounts \subseteq Nat
    /\ Reports \subseteq SUBSET {"processed", "billed"}
    /\ ProviderMaximum \in Nat

ASSUME ClockAssumption ==
    /\ MaxTime \in Nat
    /\ LeaseTime \in Nat /\ LeaseTime >= 1
    /\ \A t \in Times : /\ DayStart(t) \in Times /\ DayStart(t) <= t
                        /\ MonthStart(t) \in Times /\ MonthStart(t) <= DayStart(t)
    /\ \A s, t \in Times :
         s <= t => DayStart(s) <= DayStart(t) /\ MonthStart(s) <= MonthStart(t)

VARIABLES
    now,            \* the database clock
    status,         \* reservation status, NONE before the INSERT
    reserved,       \* reserved_bytes
    expiresAt,
    usage,          \* the reservation's usage row
    job,            \* the provider's job
    submissions,    \* how often a job was submitted for the request
    stage, serving  \* what each worker does, for which request

ledgerVars == <<status, reserved, expiresAt, usage>>
workerVars == <<stage, serving>>
vars == <<now, ledgerVars, job, submissions, workerVars>>

Statuses == {"NONE", "ACTIVE", "EXECUTING", "COMPLETED", "FAILED", "RELEASED"}
JobStates == {"NONE", "SENT", "RUNNING", "SUCCEEDED", "FAILED"}
AtRest == {"idle", "recoveryRequired"}
Busy == {"revalidate", "claimed", "await", "finalize", "observe", "settle", "settleFailed"}
Counters == {"processed", "billed"}

(* Job durations come from the job's timestamps, an executor's from its    *)
(* own monotonic clock: the two need not agree.                            *)
Durations == {"job", "wall"}

UsageRows == [outcome : {"NONE", "SUCCEEDED", "FAILED"}, accounted : Nat,
              duration : Durations, at : Times]
Jobs == [state : JobStates, processed : Nat, billed : Nat,
         reported : SUBSET Counters, at : Times]

NoUsage == [outcome |-> "NONE", accounted |-> 0, duration |-> "job", at |-> 0]
NoJob == [state |-> "NONE", processed |-> 0, billed |-> 0, reported |-> {}, at |-> 0]

Larger(a, b) == IF a >= b THEN a ELSE b
Smaller(a, b) == IF a <= b THEN a ELSE b

TypeOK ==
    /\ now \in Times
    /\ status \in [Requests -> Statuses]
    /\ reserved \in [Requests -> Nat]
    /\ expiresAt \in [Requests -> Nat]
    /\ usage \in [Requests -> UsageRows]
    /\ job \in [Requests -> Jobs]
    /\ submissions \in [Requests -> Nat]
    /\ stage \in [Workers -> AtRest \cup Busy]
    /\ serving \in [Workers -> Requests \cup {NoRequest}]

Init ==
    /\ now = 0
    /\ status = [r \in Requests |-> "NONE"]
    /\ reserved = [r \in Requests |-> 0]
    /\ expiresAt = [r \in Requests |-> 0]
    /\ usage = [r \in Requests |-> NoUsage]
    /\ job = [r \in Requests |-> NoJob]
    /\ submissions = [r \in Requests |-> 0]
    /\ stage = [p \in Workers |-> "idle"]
    /\ serving = [p \in Workers |-> NoRequest]
-----------------------------------------------------------------------------
(* The usage snapshot taken under the locks.                               *)

Expired(r) == expiresAt[r] <= now

(* Slip: an EXECUTING reservation drops out when its lease ends.           *)
HeldDuringLease(r) == status[r] \in {"EXECUTING", "ACTIVE"} /\ ~Expired(r)

(* An EXECUTING reservation is held whatever its expiry; an ACTIVE one only *)
(* until it expires.                                                        *)
Held(r) == \/ status[r] = "EXECUTING"
           \/ status[r] = "ACTIVE" /\ ~Expired(r)

HeldAll == {r \in Requests : Held(r)}
HeldIn(w) == {r \in HeldAll : WorkspaceOf[r] = w}

Settled(r) == usage[r].outcome # "NONE"
Accounted == [r \in Requests |-> usage[r].accounted]

SettledToday(w) == {r \in Requests : /\ Settled(r) /\ WorkspaceOf[r] = w
                                     /\ usage[r].at >= DayStart(now)}
SettledThisMonth == {r \in Requests : Settled(r) /\ usage[r].at >= MonthStart(now)}

DailyUse(w) == Total(SettledToday(w), Accounted) + Total(HeldIn(w), reserved)
MonthlyUse == Total(SettledThisMonth, Accounted) + Total(HeldAll, reserved)

(* Slip: the monthly projection forgets what is still reserved.            *)
AdmissibleOnCommitted(w, est) ==
    /\ est <= AutoExecuteBytes
    /\ Cardinality(HeldIn(w)) < WorkspaceConcurrency
    /\ Cardinality(HeldAll) < GlobalConcurrency
    /\ DailyUse(w) + est <= WorkspaceDailyBytes
    /\ Total(SettledThisMonth, Accounted) + est <= ProjectMonthlyBytes

(* decide(): the only decision that writes a reservation is ALLOWED.       *)
Admissible(w, est) ==
    /\ est <= HardBytes
    /\ Cardinality(HeldIn(w)) < WorkspaceConcurrency
    /\ Cardinality(HeldAll) < GlobalConcurrency
    /\ DailyUse(w) + est <= WorkspaceDailyBytes
    /\ MonthlyUse + est <= ProjectMonthlyBytes
    /\ est <= AutoExecuteBytes
-----------------------------------------------------------------------------
(* Steps of execute_governed_query.                                        *)

Goto(p, r, next) ==
    /\ stage' = [stage EXCEPT ![p] = next]
    /\ serving' = [serving EXCEPT ![p] = r]

Rest(p, next) == Goto(p, NoRequest, next)

(* reserve(), new token: the INSERT.  A refused admission, a token whose    *)
(* pinned identity differs and a provider that cannot estimate all return   *)
(* to the caller without writing anything.                                  *)
Admit(p, r) ==
    /\ stage[p] \in AtRest
    /\ status[r] = "NONE"
    /\ \E est \in Estimates :
         /\ Admissible(WorkspaceOf[r], est)
         /\ reserved' = [reserved EXCEPT ![r] = est]
    /\ status' = [status EXCEPT ![r] = "ACTIVE"]
    /\ expiresAt' = [expiresAt EXCEPT ![r] = now + LeaseTime]
    /\ Goto(p, r, "revalidate")
    /\ UNCHANGED <<now, usage, job, submissions>>

(* reserve(), known token with the same identity: the row comes back, also  *)
(* when it has expired.  execute_governed_query goes on only while it is    *)
(* ACTIVE; any other status is QueryRecoveryRequired.                       *)
AdmitReused(p, r) ==
    /\ stage[p] \in AtRest
    /\ status[r] # "NONE"
    /\ IF status[r] = "ACTIVE" THEN Goto(p, r, "revalidate")
                               ELSE Rest(p, "recoveryRequired")
    /\ UNCHANGED <<now, ledgerVars, job, submissions>>

(* The second dry run failed or no longer fits: release().  It accepts an   *)
(* already RELEASED row and raises for every other status but ACTIVE.       *)
Release(p) ==
    /\ stage[p] = "revalidate"
    /\ LET r == serving[p] IN
         IF status[r] = "ACTIVE"
         THEN status' = [status EXCEPT ![r] = "RELEASED"]
         ELSE UNCHANGED status
    /\ Rest(p, "idle")
    /\ UNCHANGED <<now, reserved, expiresAt, usage, job, submissions>>

(* Slips: claim() forgets the lease, or accepts a claimed reservation.      *)
ClaimableAfterLease(r) == status[r] = "ACTIVE"
ClaimableAgain(r) == status[r] \in {"ACTIVE", "EXECUTING"} /\ ~Expired(r)

(* claim(), and the permit made from the row it returns.                    *)
Claimable(r) == status[r] = "ACTIVE" /\ ~Expired(r)

Claim(p) ==
    /\ stage[p] = "revalidate"
    /\ LET r == serving[p] IN
         IF Claimable(r)
         THEN /\ status' = [status EXCEPT ![r] = "EXECUTING"]
              /\ Goto(p, r, "claimed")
         ELSE Rest(p, "idle") /\ UNCHANGED status
    /\ UNCHANGED <<now, reserved, expiresAt, usage, job, submissions>>

ExecutionCap(r) ==
    Smaller(reserved[r], Smaller(AutoExecuteBytes, ProviderMaximum))

(* provider.execute() gives up before it submits: a third dry run failed,   *)
(* or exceeds the cap.                                                      *)
RefuseExecution(p) ==
    /\ stage[p] = "claimed"
    /\ Rest(p, "recoveryRequired")
    /\ UNCHANGED <<now, ledgerVars, job, submissions>>

(* provider.execute() submits under the deterministic job id, once, without *)
(* retry.  The request is on its way; the provider accepts it or it is lost.*)
Submit(p) ==
    /\ stage[p] = "claimed"
    /\ LET r == serving[p] IN
         /\ ExecutionCap(r) >= 1
         /\ \E est \in Estimates : est <= ExecutionCap(r)
         /\ submissions' = [submissions EXCEPT ![r] = @ + 1]
         /\ IF job[r].state = "NONE" THEN job' = [job EXCEPT ![r].state = "SENT"]
                                     ELSE UNCHANGED job
    /\ stage' = [stage EXCEPT ![p] = "await"]
    /\ UNCHANGED <<now, ledgerVars, serving>>

(* job.result() returned and both counters are integers.                    *)
Await(p) ==
    /\ stage[p] = "await"
    /\ job[serving[p]].state = "SUCCEEDED"
    /\ job[serving[p]].reported = Counters
    /\ stage' = [stage EXCEPT ![p] = "finalize"]
    /\ UNCHANGED <<now, ledgerVars, job, submissions, serving>>

(* A timeout, a transport error, a failed job or missing counters.          *)
AwaitFails(p) ==
    /\ stage[p] = "await"
    /\ Rest(p, "recoveryRequired")
    /\ UNCHANGED <<now, ledgerVars, job, submissions>>
-----------------------------------------------------------------------------
(* Settlement: complete() and fail().                                      *)

Known(r, counter) == IF counter \in job[r].reported THEN job[r][counter] ELSE 0

(* Slip: the bill is ignored.                                               *)
ProcessedBytes(r) == Known(r, "processed")

(* Actual bytes when the provider reports both, else at least what was      *)
(* reserved.                                                                *)
AccountedBytes(r) ==
    LET actual == Larger(Known(r, "processed"), Known(r, "billed"))
    IN  IF job[r].reported = Counters THEN actual ELSE Larger(reserved[r], actual)

Account(r, final, outcome, duration) ==
    /\ usage' = [usage EXCEPT ![r] =
                   [outcome |-> outcome, accounted |-> AccountedBytes(r),
                    duration |-> duration, at |-> now]]
    /\ status' = [status EXCEPT ![r] = final]

(* A settled row is returned again when the evidence is the same.  All of   *)
(* it but the duration is the job's, and a finished job does not change.    *)
SameEvidence(r, final, duration) ==
    status[r] = final /\ usage[r].duration = duration

(* Slip: a repeated settlement writes the usage row again.                 *)
ResettleWith(p, final, outcome, duration, done) ==
    /\ Account(serving[p], final, outcome, duration)
    /\ Rest(p, done)
    /\ UNCHANGED <<now, reserved, expiresAt, job, submissions>>

(* complete() or fail() by a worker: EXECUTING settles, the same evidence   *)
(* again is accepted, anything else raises and becomes                      *)
(* QueryRecoveryRequired.                                                   *)
SettleWith(p, final, outcome, duration, done) ==
    LET r == serving[p] IN
    /\ IF status[r] = "EXECUTING" THEN Account(r, final, outcome, duration)
                                  ELSE UNCHANGED <<status, usage>>
    /\ IF status[r] = "EXECUTING" \/ SameEvidence(r, final, duration)
       THEN Rest(p, done)
       ELSE Rest(p, "recoveryRequired")
    /\ UNCHANGED <<now, reserved, expiresAt, job, submissions>>

(* The executor completes with the duration it measured itself.             *)
Finalize(p) ==
    /\ stage[p] = "finalize"
    /\ \E duration \in Durations :
         SettleWith(p, "COMPLETED", "SUCCEEDED", duration, "idle")

(* recover_governed_query reads the reservation and needs it EXECUTING.     *)
Recover(p, r) ==
    /\ stage[p] \in AtRest
    /\ status[r] = "EXECUTING"
    /\ Goto(p, r, "observe")
    /\ UNCHANGED <<now, ledgerVars, job, submissions>>

(* Slips: a job that is not found counts as failed; a failed one is ignored.*)
VerdictAbsentFailed(r) ==
    CASE job[r].state \in {"NONE", "SENT", "FAILED"} -> "settleFailed"
      [] job[r].state = "SUCCEEDED" /\ job[r].reported = Counters -> "settle"
      [] OTHER -> "recoveryRequired"
VerdictIgnoringFailure(r) ==
    IF job[r].state = "SUCCEEDED" /\ job[r].reported = Counters
    THEN "settle" ELSE "recoveryRequired"

(* provider.recover(): an unknown or unfinished job, and a succeeded one    *)
(* without its counters, leave everything held.                             *)
Verdict(r) ==
    CASE job[r].state = "FAILED" -> "settleFailed"
      [] job[r].state = "SUCCEEDED" /\ job[r].reported = Counters -> "settle"
      [] OTHER -> "recoveryRequired"

Observe(p) ==
    /\ stage[p] = "observe"
    /\ LET r == serving[p] IN
         IF Verdict(r) = "recoveryRequired" THEN Rest(p, "recoveryRequired")
                                            ELSE Goto(p, r, Verdict(r))
    /\ UNCHANGED <<now, ledgerVars, job, submissions>>

(* provider.recover() raised.                                               *)
ObserveFails(p) ==
    /\ stage[p] = "observe"
    /\ Rest(p, "recoveryRequired")
    /\ UNCHANGED <<now, ledgerVars, job, submissions>>

Settle(p) ==
    /\ stage[p] = "settle"
    /\ SettleWith(p, "COMPLETED", "SUCCEEDED", "job", "idle")

SettleFailed(p) ==
    /\ stage[p] = "settleFailed"
    /\ SettleWith(p, "FAILED", "FAILED", "job", "idle")

(* The process dies: every transaction it committed stays, nothing else.    *)
Crash(p) ==
    /\ stage[p] \in Busy
    /\ Rest(p, "idle")
    /\ UNCHANGED <<now, ledgerVars, job, submissions>>
-----------------------------------------------------------------------------
(* The provider and the clock.                                             *)

Accept(r) ==
    /\ job[r].state = "SENT"
    /\ job' = [job EXCEPT ![r].state = "RUNNING"]
    /\ UNCHANGED <<now, ledgerVars, submissions, workerVars>>

(* The job ends.  maximum_bytes_billed is the provider's to enforce: no job *)
(* costs more than its cap.  Counters may be missing.                       *)
Finish(r) ==
    /\ job[r].state = "RUNNING"
    /\ \E outcome \in {"SUCCEEDED", "FAILED"}, processed, billed \in ByteCounts,
          reported \in Reports :
         /\ processed <= ExecutionCap(r) /\ billed <= ExecutionCap(r)
         /\ job' = [job EXCEPT ![r] = [state |-> outcome, processed |-> processed,
                                       billed |-> billed, reported |-> reported,
                                       at |-> now]]
    /\ UNCHANGED <<now, ledgerVars, submissions, workerVars>>

Tick ==
    /\ now < MaxTime
    /\ now' = now + 1
    /\ UNCHANGED <<ledgerVars, job, submissions, workerVars>>

WorkerStep(p) ==
    \/ \E r \in Requests : Admit(p, r) \/ AdmitReused(p, r) \/ Recover(p, r)
    \/ Release(p) \/ Claim(p) \/ RefuseExecution(p) \/ Submit(p)
    \/ Await(p) \/ AwaitFails(p) \/ Finalize(p)
    \/ Observe(p) \/ ObserveFails(p) \/ Settle(p) \/ SettleFailed(p)
    \/ Crash(p)

Next ==
    \/ \E p \in Workers : WorkerStep(p)
    \/ \E r \in Requests : Accept(r) \/ Finish(r)
    \/ Tick

Spec == Init /\ [][Next]_vars

(* What the code's scheduling gives: a running call goes on, and a job that *)
(* was accepted ends.  Strong fairness where a call depends on the provider *)
(* or the database answering: they may fail, and the process may crash,     *)
(* again and again, but not on every one of infinitely many attempts.       *)
Continue(p) ==
    \/ Release(p) \/ Claim(p) \/ RefuseExecution(p) \/ Submit(p)
    \/ Await(p) \/ AwaitFails(p) \/ Finalize(p)

Fairness ==
    /\ \A p \in Workers : /\ WF_vars(Continue(p)) /\ SF_vars(Observe(p))
                          /\ SF_vars(Settle(p)) /\ SF_vars(SettleFailed(p))
    /\ \A r \in Requests : WF_vars(Finish(r))

FairSpec == Spec /\ Fairness
-----------------------------------------------------------------------------
(* Properties.                                                             *)

(* What a workspace has spent today together with what it still holds never *)
(* exceeds its daily budget, whatever expires, is released, crashes or is   *)
(* settled late: reserve() checks it once, the other transactions must not  *)
(* break it.                                                                *)
DailyBudgetHolds == \A w \in Workspaces : DailyUse(w) <= WorkspaceDailyBytes

(* The same for the project's month, over all workspaces.                   *)
MonthlyBudgetHolds == MonthlyUse <= ProjectMonthlyBytes

Unfinished(r) == job[r].state \in {"SENT", "RUNNING"}

(* No more queries run at the provider, or may still start to, than the     *)
(* concurrency limits allow, although EXECUTING reservations outlive their  *)
(* lease and ACTIVE ones drop out of the count when it ends.                *)
ConcurrencyHolds ==
    LET busy == {r \in Requests : Held(r) \/ Unfinished(r)}
    IN  /\ Cardinality(busy) <= GlobalConcurrency
        /\ \A w \in Workspaces :
             Cardinality({r \in busy : WorkspaceOf[r] = w}) <= WorkspaceConcurrency

Finished(r) == job[r].state \in {"SUCCEEDED", "FAILED"}
Billed == [r \in Requests |-> job[r].billed]

(* The provider never bills a workspace more in a day than its daily        *)
(* budget, although the bill is only learnt after the fact, by the executor *)
(* or by a recovery days later, and may lack its counters.                  *)
ProviderSpendWithinDaily ==
    \A w \in Workspaces :
        Total({r \in Requests : /\ Finished(r) /\ WorkspaceOf[r] = w
                                /\ job[r].at >= DayStart(now)}, Billed)
          <= WorkspaceDailyBytes

(* A request is submitted to the provider at most once, however often it is *)
(* admitted again, crashes or is recovered.                                 *)
AtMostOneSubmission == \A r \in Requests : submissions[r] <= 1

(* Settlement says what happened: a settled job has ended, with the outcome *)
(* written down and a bill no larger than the bytes accounted for it, and a *)
(* released or never claimed reservation has no job at all.  A recovery     *)
(* that does not find the job must therefore not settle: the submission may *)
(* still arrive.                                                            *)
SettlementIsTrue ==
    \A r \in Requests :
        /\ Settled(r) => /\ job[r].state = usage[r].outcome
                         /\ job[r].billed <= usage[r].accounted
        /\ status[r] \in {"NONE", "ACTIVE", "RELEASED"} => job[r].state = "NONE"

(* The inductive strengthening of SettlementIsTrue and AtMostOneSubmission: *)
(* what each request's row, job and usage say of one another, what the      *)
(* stage of a worker's call proves about the request it serves, and that at *)
(* most one call holds a claim it has not used yet.                         *)
RequestConsistent(r) ==
    /\ status[r] \in {"NONE", "ACTIVE", "RELEASED"}
         => job[r].state = "NONE" /\ submissions[r] = 0
    /\ submissions[r] <= 1
    /\ ~Finished(r) => job[r].processed = 0 /\ job[r].billed = 0
    /\ job[r].processed <= reserved[r] /\ job[r].billed <= reserved[r]
    /\ Settled(r) <=> status[r] \in {"COMPLETED", "FAILED"}
    /\ Settled(r) => /\ job[r].state = usage[r].outcome
                     /\ job[r].billed <= usage[r].accounted
                     /\ job[r].at <= usage[r].at
    /\ job[r].at <= now /\ usage[r].at <= now

WorkerConsistent(p) ==
    LET r == serving[p] IN
    /\ stage[p] \in Busy => r \in Requests /\ status[r] # "NONE"
    /\ stage[p] = "claimed" => /\ status[r] = "EXECUTING"
                               /\ job[r].state = "NONE" /\ submissions[r] = 0
    /\ stage[p] \in {"finalize", "settle"} => job[r].state = "SUCCEEDED"
    /\ stage[p] = "settleFailed" => job[r].state = "FAILED"

OneUnusedClaim ==
    \A p, q \in Workers :
        stage[p] = "claimed" /\ stage[q] = "claimed" /\ serving[p] = serving[q] => p = q

SettlementInvariant ==
    /\ \A r \in Requests : RequestConsistent(r)
    /\ \A p \in Workers : WorkerConsistent(p)
    /\ OneUnusedClaim

(* A usage row is written once: an executor that answers late and any       *)
(* number of concurrent recoveries leave the first settlement as it is.     *)
SettledOnce == [][\A r \in Requests : Settled(r) => usage'[r] = usage[r]]_vars

(* Once the job has ended and its evidence is readable, the reservation is  *)
(* settled in the end, so that neither its bytes nor its slot stay held -   *)
(* provided somebody keeps asking for its recovery.  Nothing in the code    *)
(* does that by itself, so it is a premise and not part of the fairness.    *)
Readable(r) == \/ job[r].state = "FAILED"
               \/ job[r].state = "SUCCEEDED" /\ job[r].reported = Counters

RecoveryIsRetried(r) == SF_vars(\E p \in Workers : Recover(p, r))

EndedJobIsSettled ==
    \A r \in Requests : RecoveryIsRetried(r) => (Readable(r) ~> Settled(r))

(* Leases, workers, crashes, lost submissions and recoveries implement the  *)
(* ledger: an expired reservation has been freed even though its row still  *)
(* says ACTIVE, and nothing freed is ever claimed or spent.                 *)
Phase(r) ==
    CASE status[r] = "NONE" -> "none"
      [] status[r] = "ACTIVE" -> IF Expired(r) THEN "freed" ELSE "held"
      [] status[r] = "RELEASED" -> "freed"
      [] status[r] = "EXECUTING" -> "claimed"
      [] OTHER -> "spent"

Ledger == INSTANCE QueryLedger WITH
    phase <- [r \in Requests |-> Phase(r)],
    amount <- [r \in Requests |-> IF Settled(r) THEN usage[r].accounted ELSE reserved[r]],
    spentAt <- [r \in Requests |-> usage[r].at]

LedgerImplemented == Ledger!Spec
=============================================================================
