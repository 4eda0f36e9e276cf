---------------------- MODULE WarehouseReliability_proofs ----------------------
(***************************************************************************)
(* Theorems about WarehouseReliability, for every set of operations and     *)
(* workers, every number of positions and fences, with and without late     *)
(* submissions: what a publication rests on, that publications form one     *)
(* chain and implement the publication log, and that submitted work stays   *)
(* publishable until an answer about it has been recorded.                  *)
(***************************************************************************)
EXTENDS WarehouseReliability, SequenceTheorems, TLAPS

(* What an intent pins lies within the accepted positions, and the head it  *)
(* pins is identified by its revision.                                      *)
PinsInRange == \A k \in Operations : Exists(k) =>
    /\ intent[k].kind \in AllKinds
    /\ 1 <= intent[k].first /\ intent[k].first <= intent[k].last
    /\ intent[k].last <= registered /\ intent[k].priorPosition <= registered

(* A worker that holds a claim holds it of an existing operation.           *)
Served == \A p \in Workers :
    step[p] # "idle" => grant[p].operation \in Operations /\ Exists(grant[p].operation)

TypeInv == TypeOK /\ PinsInRange /\ Served

LEMMA IntentType ==
  ASSUME TypeOK, NEW k \in Operations, Exists(k)
  PROVE  intent[k] \in Intents
BY DEF TypeOK, Exists

LEMMA EntryType ==
  ASSUME NEW kind \in {"NONE", "PLANNED", "TARGET_RECEIPT"},
         NEW outcome \in Outcomes \cup {"NONE"}, NEW exact \in BOOLEAN, NEW run \in Nat
  PROVE  Entry(kind, outcome, exact, run) \in Entries
BY DEF Entry, Entries

LEMMA LeaseType ==
  ASSUME NEW l \in Leases
  PROVE  /\ [l EXCEPT !.active = FALSE] \in Leases
         /\ [l EXCEPT !.run = "FAILED"] \in Leases
         /\ [l EXCEPT !.run = "FAILED", !.active = FALSE] \in Leases
         /\ [l EXCEPT !.run = "SUCCEEDED", !.active = FALSE] \in Leases
         /\ l.fence \in Nat
BY DEF Leases

(* What Publish appends, and where it puts the checkpoint.                  *)
LEMMA PublishTypes ==
  ASSUME TypeInv, NEW p \in Workers, Publish(p)
  PROVE  LET k == grant[p].operation
             b == intent[k]
             e == [operation |-> k, revision |-> b.priorRevision + 1,
                   previous |-> b.priorHead, position |-> PositionAfter(b)]
         IN  /\ k \in Operations /\ Exists(k) /\ b \in Intents
             /\ PositionAfter(b) \in 0 .. registered
             /\ e \in Publications
             /\ publications' = Append(publications, e)
<1> DEFINE k == grant[p].operation
           b == intent[k]
<1>1. k \in Operations /\ Exists(k)
  BY DEF TypeInv, Served, Publish, Fenced
<1>2. b \in Intents
  BY <1>1, IntentType DEF TypeInv
<1>3. PositionAfter(b) \in 0 .. registered
  BY <1>1, <1>2 DEF TypeInv, TypeOK, PinsInRange, PositionAfter, Intents
<1>4. [operation |-> k, revision |-> b.priorRevision + 1,
       previous |-> b.priorHead, position |-> PositionAfter(b)] \in Publications
  <2>1. b.priorRevision + 1 \in Nat /\ b.priorHead \in Nat
    BY <1>2 DEF Intents
  <2>2. PositionAfter(b) \in Nat
    <3>1. registered \in Nat
      BY DEF TypeInv, TypeOK
    <3>2. QED
      BY <1>3, <3>1
  <2> HIDE DEF k, b
  <2>3. QED
    BY <1>1, <2>1, <2>2 DEF Publications
<1>5. QED
  BY <1>1, <1>2, <1>3, <1>4 DEF Publish
-----------------------------------------------------------------------------
(* Typing.                                                                 *)

LEMMA TypeInit == Init => TypeInv
<1> SUFFICES ASSUME Init PROVE TypeInv
  OBVIOUS
<1>1. TypeOK
  BY ScopeAssumption, EmptySeq
     DEF Init, TypeOK, Leases, Entries, NoEntry, Entry, Proofs, NoProof, Outcomes, JobStates, Grants,
         NoGrant, Executing
<1>2. PinsInRange /\ Served
  BY DEF Init, PinsInRange, Served, Exists
<1>3. QED
  BY <1>1, <1>2 DEF TypeInv

LEMMA TypeStep == TypeInv /\ [Next]_vars => TypeInv'
<1> SUFFICES ASSUME TypeInv, [Next]_vars
             PROVE  TypeInv'
  OBVIOUS
<1> USE DEF evidenceVars, progressVars, workerVars, Goto
<1>1. CASE Register
  <2>1. TypeOK'
    BY <1>1, ScopeAssumption DEF Register, TypeInv, TypeOK
  <2>2. QED
    BY <1>1, <2>1 DEF Register, TypeInv, TypeOK, PinsInRange, Served, Exists, Intents
<1>2. ASSUME NEW k \in Operations, NEW kind \in Kinds,
             NEW first \in 1 .. MaxPosition, NEW last \in 1 .. MaxPosition,
             CreateIntent(k, kind, first, last)
      PROVE  TypeInv'
  <2> DEFINE b == [kind |-> kind, first |-> first, last |-> last,
                   priorHead |-> head.publication, priorRevision |-> head.revision,
                   priorPosition |-> checkpoint.position,
                   priorVersion |-> checkpoint.version]
  <2>1. b \in Intents /\ kind \in AllKinds /\ b.priorPosition <= registered
    BY ScopeAssumption DEF TypeInv, TypeOK, Intents
  <2>2. intent' = [intent EXCEPT ![k] = b]
    BY <1>2 DEF CreateIntent
  <2>3. b # NoIntent
    BY <2>1 DEF NoIntent, AllKinds
  <2>4. TypeOK'
    BY <1>2, <2>1, <2>2 DEF CreateIntent, TypeInv, TypeOK
  <2>5. PinsInRange'
    BY <1>2, <2>1, <2>2, ScopeAssumption DEF CreateIntent, TypeInv, TypeOK, PinsInRange, Exists, Intents
  <2>6. Served'
    BY <1>2, <2>2, <2>3 DEF CreateIntent, TypeInv, TypeOK, Served, Exists
  <2>7. QED
    BY <2>4, <2>5, <2>6 DEF TypeInv
<1>3. ASSUME NEW p \in Workers, NEW k \in Operations, Claim(p, k)
      PROVE  TypeInv'
  <2>1. lease' \in Leases /\ [operation |-> k, fence |-> lease.fence + 1] \in Grants
    BY <1>3 DEF Claim, TypeInv, TypeOK, Leases, Grants
  <2>2. TypeOK'
    BY <1>3, <2>1 DEF Claim, TypeInv, TypeOK
  <2>3. PinsInRange' /\ Served'
    BY <1>3, <2>1 DEF Claim, Claimable, TypeInv, TypeOK, PinsInRange, Served, Exists
  <2>4. QED
    BY <2>2, <2>3 DEF TypeInv
<1>4. CASE Expire
  BY <1>4, LeaseType DEF Expire, TypeInv, TypeOK, PinsInRange, Served, Exists
<1>5. ASSUME NEW p \in Workers, Plan(p)
      PROVE  TypeInv'
  <2>1. Entry("PLANNED", "NONE", FALSE, lease.fence) \in Entries
    BY EntryType, LeaseType DEF TypeInv, TypeOK
  <2>2. TypeOK'
    BY <1>5, <2>1 DEF Plan, TypeInv, TypeOK, Executing
  <2>3. QED
    BY <1>5, <2>2 DEF Plan, Fenced, TypeInv, TypeOK, PinsInRange, Served, Exists
<1>6. ASSUME NEW k, NEW outcome \in Outcomes, NEW exact \in BOOLEAN, RecordReceipt(k, outcome, exact)
      PROVE  /\ stage' \in [Operations -> Entries] /\ lease' \in Leases
             /\ UNCHANGED <<registered, intent, blocked, proof, progressVars, job, grant, lock>>
  <2>1. Entry("TARGET_RECEIPT", outcome, exact, lease.fence) \in Entries
    BY EntryType, LeaseType DEF TypeInv, TypeOK
  <2>2. QED
    BY <1>6, <2>1, LeaseType DEF RecordReceipt, TypeInv, TypeOK
<1>7. ASSUME NEW p \in Workers, RecordAbsence(p)
      PROVE  TypeInv'
  <2>1. /\ stage' \in [Operations -> Entries] /\ lease' \in Leases
        /\ UNCHANGED <<registered, intent, blocked, proof, progressVars, job, grant, lock>>
    BY <1>6, <1>7 DEF RecordAbsence, Outcomes
  <2>2. step' = [step EXCEPT ![p] = "ready"] /\ step[p] = "absent"
    BY <1>7 DEF RecordAbsence, Fenced
  <2>3. QED
    BY <2>1, <2>2 DEF TypeInv, TypeOK, PinsInRange, Served, Exists, Executing
<1>8. ASSUME NEW p \in Workers, RecordSuccess(p)
      PROVE  TypeInv'
  <2>1. /\ stage' \in [Operations -> Entries] /\ lease' \in Leases
        /\ UNCHANGED <<registered, intent, blocked, proof, progressVars, job, grant, lock>>
    BY <1>6, <1>8 DEF RecordSuccess, Outcomes
  <2>2. step' = [step EXCEPT ![p] = "claimed"] /\ step[p] = "applied"
    BY <1>8 DEF RecordSuccess, Fenced
  <2>3. QED
    BY <2>1, <2>2 DEF TypeInv, TypeOK, PinsInRange, Served, Exists, Executing
<1>9. ASSUME NEW p \in Workers, Attest(p)
      PROVE  TypeInv'
  <2>1. /\ stage' \in [Operations -> Entries] /\ lease' \in Leases
        /\ UNCHANGED <<registered, intent, blocked, proof, progressVars, job, grant, lock, step>>
    BY <1>6, <1>9 DEF Attest
  <2>2. QED
    BY <2>1 DEF TypeInv, TypeOK, PinsInRange, Served, Exists
<1>10. ASSUME NEW p \in Workers, Reconcile(p)
       PROVE  TypeInv'
  <2> DEFINE k == grant[p].operation
  <2>1. k \in Operations
    BY <1>10 DEF Reconcile, Fenced, TypeInv, Served
  <2>2. [run |-> lease.fence, passed |-> Passes(stage[k]), receipt |-> stage[k]] \in Proofs
    BY <2>1, LeaseType DEF TypeInv, TypeOK, Proofs, Passes, Entries
  <2>3. proof' \in [Operations -> Proofs]
    BY <1>10, <2>2 DEF Reconcile, TypeInv, TypeOK
  <2>4. blocked' \in [Operations -> {"none", "mismatch", "manual"}]
    BY <1>10 DEF Reconcile, TypeInv, TypeOK
  <2>5. QED
    BY <1>10, <2>3, <2>4 DEF Reconcile, TypeInv, TypeOK, PinsInRange, Served, Exists
<1>11. ASSUME NEW p \in Workers, Publish(p)
       PROVE  TypeInv'
  <2> DEFINE b == intent[grant[p].operation]
             e == [operation |-> grant[p].operation, revision |-> b.priorRevision + 1,
                   previous |-> b.priorHead, position |-> PositionAfter(b)]
  <2>1. /\ b \in Intents /\ PositionAfter(b) \in 0 .. registered
        /\ e \in Publications /\ publications' = Append(publications, e)
    BY <1>11, PublishTypes
  <2>2. /\ head' = [publication |-> Len(publications) + 1,
                    revision |-> IF head.publication = 0 THEN b.priorRevision + 1
                                                         ELSE head.revision + 1]
        /\ checkpoint' = [position |-> PositionAfter(b), version |-> checkpoint.version + 1,
                          publication |-> Len(publications) + 1]
        /\ lease' = [lease EXCEPT !.run = "SUCCEEDED", !.active = FALSE]
        /\ UNCHANGED <<registered, intent, evidenceVars, job, workerVars, lock>>
    BY <1>11 DEF Publish
  <2> HIDE DEF e
  <2>3. publications' \in Seq(Publications) /\ Len(publications) \in Nat
    BY <2>1, AppendProperties, LenProperties DEF TypeInv, TypeOK
  <2>4. /\ head' \in [publication : Nat, revision : Nat]
        /\ checkpoint' \in [position : 0 .. registered', version : Nat, publication : Nat]
    <3>1. /\ b.priorRevision + 1 \in Nat /\ head.revision + 1 \in Nat
          /\ Len(publications) + 1 \in Nat /\ checkpoint.version + 1 \in Nat
      <4>1. b.priorRevision + 1 \in Nat
        BY <2>1 DEF Intents
      <4>2. head.revision + 1 \in Nat /\ checkpoint.version + 1 \in Nat
        BY DEF TypeInv, TypeOK
      <4>3. QED
        BY <2>3, <4>1, <4>2
    <3> HIDE DEF b
    <3>2. head' \in [publication : Nat, revision : Nat]
      BY <2>2, <3>1
    <3>3. checkpoint' \in [position : 0 .. registered', version : Nat, publication : Nat]
      BY <2>1, <2>2, <3>1
    <3>4. QED
      BY <3>2, <3>3
  <2>5. lease' \in Leases
    BY <2>2, LeaseType DEF TypeInv, TypeOK
  <2>6. QED
    BY <2>2, <2>3, <2>4, <2>5 DEF TypeInv, TypeOK, PinsInRange, Served, Exists
<1>12. ASSUME NEW p \in Workers, ManualReview(p)
       PROVE  TypeInv'
  BY <1>12, LeaseType DEF ManualReview, TypeInv, TypeOK, PinsInRange, Served, Exists
<1>13. ASSUME NEW p \in Workers, Lookup(p) \/ EndApply(p) \/ ExecuteFails(p)
       PROVE  TypeInv'
  <2>1. TypeOK'
    BY <1>13 DEF Lookup, EndApply, ExecuteFails, Unlock, TypeInv, TypeOK, Executing
  <2>2. QED
    BY <1>13, <2>1 DEF Lookup, EndApply, ExecuteFails, Fenced, Executing, TypeInv, TypeOK,
                       PinsInRange, Served, Exists
<1>14. ASSUME NEW p \in Workers, StartApply(p)
       PROVE  TypeInv'
  <2>1. job' \in [Operations -> JobStates]
    BY <1>14 DEF StartApply, Fenced, TypeInv, TypeOK, Served, JobStates
  <2>2. TypeOK'
    BY <1>14, <2>1 DEF StartApply, TypeInv, TypeOK, Executing
  <2>3. QED
    BY <1>14, <2>2 DEF StartApply, Fenced, TypeInv, TypeOK, PinsInRange, Served, Exists
<1>15. ASSUME NEW p \in Workers, Leave(p)
       PROVE  TypeInv'
  <2>1. NoGrant \in Grants
    BY DEF NoGrant, Grants
  <2>2. TypeOK'
    BY <1>15, <2>1 DEF Leave, Unlock, TypeInv, TypeOK
  <2>3. QED
    BY <1>15, <2>2 DEF Leave, TypeInv, TypeOK, PinsInRange, Served, Exists
<1>16. ASSUME NEW k \in Operations, Arrive(k) \/ EndJob(k)
       PROVE  TypeInv'
  BY <1>16 DEF Arrive, EndJob, TypeInv, TypeOK, JobStates, PinsInRange, Served, Exists
<1>17. CASE UNCHANGED vars
  BY <1>17 DEF vars, TypeInv, TypeOK, PinsInRange, Served, Exists
<1>18. QED
  BY <1>1, <1>2, <1>3, <1>4, <1>5, <1>7, <1>8, <1>9, <1>10, <1>11, <1>12, <1>13, <1>14, <1>15, <1>16,
     <1>17
     DEF Next, WorkerStep

(* Every reachable state of the protocol is well formed; intents pin only   *)
(* accepted positions, and claims are of existing operations.               *)
THEOREM ProtocolTypeCorrect == Spec => [](TypeOK /\ PinsInRange /\ Served)
BY TypeInit, TypeStep, PTL DEF Spec, TypeInv
-----------------------------------------------------------------------------
(* What a step may do to the lease and the evidence, in the terms of the    *)
(* operation k that does it.  Everything below argues about these seven     *)
(* kinds of steps instead of the actions.                                   *)

SameEvidence == UNCHANGED <<stage, blocked, proof, publications>>

Quiet == UNCHANGED lease /\ SameEvidence

Writes(k) == k \in Operations /\ lease.holder = k /\ lease.active /\ lease.run = "RUNNING"

Claims(k) ==
    /\ k \in Operations /\ Claimable(k)
    /\ lease' = [holder |-> k, fence |-> lease.fence + 1, active |-> TRUE, run |-> "RUNNING"]
    /\ SameEvidence

Lapses == lease' = [lease EXCEPT !.active = FALSE] /\ SameEvidence

Notes(k) ==
    /\ Writes(k)
    /\ \E e \in Entries : /\ stage' = [stage EXCEPT ![k] = e]
                          /\ e.outcome = "SUCCEEDED" => job[k] = "applied"
    /\ lease' \in {lease, [lease EXCEPT !.run = "FAILED", !.active = FALSE]}
    /\ UNCHANGED <<blocked, proof, publications>>

Checks(k) ==
    /\ Writes(k)
    /\ proof' = [proof EXCEPT ![k] = [run |-> lease.fence, passed |-> Passes(stage[k]),
                                      receipt |-> stage[k]]]
    /\ blocked' \in {blocked, [blocked EXCEPT ![k] = "mismatch"]}
    /\ UNCHANGED <<lease, stage, publications>>

Publishes(k) ==
    /\ Writes(k) /\ Proven(k)
    /\ \A j \in Operations : Published(j)' <=> Published(j) \/ j = k
    /\ lease' = [lease EXCEPT !.run = "SUCCEEDED", !.active = FALSE]
    /\ UNCHANGED <<stage, blocked, proof>>

Reviews(k) ==
    /\ Writes(k)
    /\ blocked' = [blocked EXCEPT ![k] = "manual"]
    /\ lease' = [lease EXCEPT !.run = "FAILED"]
    /\ UNCHANGED <<stage, proof, publications>>

(* A success is recorded by whoever has seen the job applied.               *)
AnswerSeen == \A p \in Workers :
    step[p] = "applied" => job[grant[p].operation] = "applied"

LEMMA WriterWrites ==
  ASSUME TypeInv, NEW p \in Workers, NEW from, from # "idle", Fenced(p, from)
  PROVE  Writes(grant[p].operation)
BY DEF Fenced, Writer, Writes, TypeInv, Served

LEMMA PublishedAfter ==
  ASSUME TypeInv, NEW p \in Workers, Publish(p)
  PROVE  \A j \in Operations : Published(j)' <=> Published(j) \/ j = grant[p].operation
<1> DEFINE b == intent[grant[p].operation]
           e == [operation |-> grant[p].operation, revision |-> b.priorRevision + 1,
                 previous |-> b.priorHead, position |-> PositionAfter(b)]
           n == Len(publications)
<1>1. e \in Publications /\ publications' = Append(publications, e)
  BY PublishTypes
<1>2. e.operation = grant[p].operation
  OBVIOUS
<1> HIDE DEF e
<1>3. /\ n \in Nat /\ DOMAIN publications = 1 .. n /\ DOMAIN publications' = 1 .. n + 1
      /\ \A i \in 1 .. n : publications'[i] = publications[i]
      /\ publications'[n + 1] = e
  BY <1>1, AppendProperties, LenProperties DEF TypeInv, TypeOK
<1> HIDE DEF n
<1>4. QED
  BY <1>2, <1>3 DEF Published

LEMMA StepKinds ==
  ASSUME TypeInv, AnswerSeen, [Next]_vars
  PROVE  \/ Quiet \/ Lapses
         \/ \E k \in Operations : \/ Claims(k) \/ Notes(k) \/ Checks(k)
                                  \/ Publishes(k) \/ Reviews(k)
<1> DEFINE Kind == \/ Quiet \/ Lapses
                   \/ \E k \in Operations : \/ Claims(k) \/ Notes(k) \/ Checks(k)
                                            \/ Publishes(k) \/ Reviews(k)
<1> USE DEF evidenceVars, progressVars
<1>1. CASE Register
  BY <1>1 DEF Register, Quiet, SameEvidence
<1>2. CASE \E k \in Operations, kind \in Kinds, first, last \in 1 .. MaxPosition :
             CreateIntent(k, kind, first, last)
  BY <1>2 DEF CreateIntent, Quiet, SameEvidence
<1>3. ASSUME NEW p \in Workers, NEW k \in Operations, Claim(p, k)
      PROVE  Kind
  BY <1>3 DEF Claim, Claims, SameEvidence
<1>4. CASE Expire
  BY <1>4 DEF Expire, Lapses, SameEvidence
<1>5. ASSUME NEW p \in Workers, Plan(p)
      PROVE  Kind
  <2>1. Writes(grant[p].operation)
    BY <1>5, WriterWrites DEF Plan
  <2>2. Entry("PLANNED", "NONE", FALSE, lease.fence) \in Entries
    BY EntryType, LeaseType DEF TypeInv, TypeOK
  <2>3. Entry("PLANNED", "NONE", FALSE, lease.fence).outcome # "SUCCEEDED"
    BY DEF Entry
  <2>4. Notes(grant[p].operation)
    BY <1>5, <2>1, <2>2, <2>3 DEF Plan, Notes
  <2>5. QED
    BY <2>1, <2>4 DEF Writes
<1>6. ASSUME NEW k, Writes(k), NEW outcome \in Outcomes, NEW exact \in BOOLEAN,
             RecordReceipt(k, outcome, exact), outcome = "SUCCEEDED" => job[k] = "applied"
      PROVE  Kind
  <2>1. Entry("TARGET_RECEIPT", outcome, exact, lease.fence) \in Entries
    BY EntryType, LeaseType DEF TypeInv, TypeOK
  <2>2. Entry("TARGET_RECEIPT", outcome, exact, lease.fence).outcome = outcome
    BY DEF Entry
  <2>3. Notes(k)
    BY <1>6, <2>1, <2>2 DEF RecordReceipt, Notes
  <2>4. QED
    BY <1>6, <2>3 DEF Writes
<1>7. ASSUME NEW p \in Workers, RecordAbsence(p)
      PROVE  Kind
  <2>1. Writes(grant[p].operation)
    BY <1>7, WriterWrites DEF RecordAbsence
  <2>2. QED
    BY <1>6, <1>7, <2>1 DEF RecordAbsence, Outcomes
<1>8. ASSUME NEW p \in Workers, RecordSuccess(p)
      PROVE  Kind
  <2>1. Writes(grant[p].operation) /\ job[grant[p].operation] = "applied"
    BY <1>8, WriterWrites DEF RecordSuccess, Fenced, AnswerSeen
  <2>2. QED
    BY <1>6, <1>8, <2>1 DEF RecordSuccess, Outcomes
<1>9. ASSUME NEW p \in Workers, Attest(p)
      PROVE  Kind
  <2>1. Writes(grant[p].operation)
    BY <1>9, WriterWrites DEF Attest
  <2>2. PICK outcome \in Outcomes, exact \in BOOLEAN :
          /\ Truthful(grant[p].operation, outcome)
          /\ RecordReceipt(grant[p].operation, outcome, exact)
    BY <1>9 DEF Attest
  <2>3. outcome = "SUCCEEDED" => job[grant[p].operation] = "applied"
    BY <2>2 DEF Truthful
  <2>4. QED
    BY <1>6, <2>1, <2>2, <2>3
<1>10. ASSUME NEW p \in Workers, Reconcile(p)
       PROVE  Kind
  <2>1. Writes(grant[p].operation)
    BY <1>10, WriterWrites DEF Reconcile
  <2>2. Checks(grant[p].operation)
    BY <1>10, <2>1 DEF Reconcile, Checks
  <2>3. QED
    BY <2>1, <2>2 DEF Writes
<1>11. ASSUME NEW p \in Workers, Publish(p)
       PROVE  Kind
  <2>1. Writes(grant[p].operation)
    BY <1>11, WriterWrites DEF Publish
  <2>2. Publishes(grant[p].operation)
    BY <1>11, <2>1, PublishedAfter DEF Publish, Publishes
  <2>3. QED
    BY <2>1, <2>2 DEF Writes
<1>12. ASSUME NEW p \in Workers, ManualReview(p)
       PROVE  Kind
  <2>1. Writes(grant[p].operation)
    BY <1>12, WriterWrites DEF ManualReview
  <2>2. Reviews(grant[p].operation)
    BY <1>12, <2>1 DEF ManualReview, Reviews
  <2>3. QED
    BY <2>1, <2>2 DEF Writes
<1>13. ASSUME NEW p \in Workers,
              \/ Lookup(p) \/ StartApply(p) \/ EndApply(p) \/ ExecuteFails(p) \/ Leave(p)
       PROVE  Kind
  BY <1>13 DEF Lookup, StartApply, EndApply, ExecuteFails, Leave, Quiet, SameEvidence
<1>14. CASE \E k \in Operations : Arrive(k) \/ EndJob(k)
  BY <1>14 DEF Arrive, EndJob, Quiet, SameEvidence
<1>15. CASE UNCHANGED vars
  BY <1>15 DEF vars, Quiet, SameEvidence
<1>16. QED
  BY <1>1, <1>2, <1>3, <1>4, <1>5, <1>7, <1>8, <1>9, <1>10, <1>11, <1>12, <1>13, <1>14, <1>15
     DEF Next, WorkerStep
-----------------------------------------------------------------------------
(* The lease.                                                              *)

(* When a published operation still holds the lease, its run has ended.     *)
PublishedRunEnded == \A k \in Operations :
    Published(k) /\ lease.holder = k => lease.run = "SUCCEEDED"

(* An operation under manual review keeps the resource without a writer.    *)
ReviewHoldsResource == \A k \in Operations :
    blocked[k] = "manual" => lease.holder = k /\ lease.run # "RUNNING"

LeaseInv == UnresolvedKeepsResource /\ PublishedRunEnded /\ ReviewHoldsResource

(* The job of an operation, once applied, stays so.                         *)
LEMMA AppliedStays ==
  ASSUME TypeInv, [Next]_vars, NEW k \in Operations, job[k] = "applied"
  PROVE  job'[k] = "applied"
<1>1. ASSUME NEW p \in Workers, StartApply(p)
      PROVE  job'[k] = "applied"
  <2>1. grant[p].operation \in Operations
    BY <1>1 DEF StartApply, Fenced, TypeInv, Served
  <2>2. QED
    BY <1>1, <2>1 DEF StartApply, TypeInv, TypeOK
<1>2. ASSUME NEW j \in Operations, Arrive(j) \/ EndJob(j)
      PROVE  job'[k] = "applied"
  BY <1>2 DEF Arrive, EndJob, TypeInv, TypeOK
<1>3. ASSUME NEW p \in Workers, RecordAbsence(p) \/ RecordSuccess(p) \/ Attest(p)
      PROVE  job'[k] = "applied"
  BY <1>3 DEF RecordAbsence, RecordSuccess, Attest, RecordReceipt
<1>4. QED
  BY <1>1, <1>2, <1>3
     DEF Next, WorkerStep, vars, Register, CreateIntent, Claim, Expire, Plan, Reconcile, Publish,
         ManualReview, Lookup, EndApply, ExecuteFails, Leave

LEMMA AnswerSeenStep == TypeInv /\ AnswerSeen /\ [Next]_vars => AnswerSeen'
<1> SUFFICES ASSUME TypeInv, AnswerSeen, [Next]_vars,
                    NEW p \in Workers, step'[p] = "applied"
             PROVE  job'[grant'[p].operation] = "applied"
  BY DEF AnswerSeen
<1> USE DEF Goto
<1>1. CASE UNCHANGED <<step, grant>>
  BY <1>1, AppliedStays DEF AnswerSeen, TypeInv, Served
<1>2. ASSUME NEW q \in Workers,
             \/ Lookup(q) \/ StartApply(q) \/ EndApply(q) \/ Plan(q) \/ ExecuteFails(q)
      PROVE  job'[grant'[p].operation] = "applied"
  <2>1. grant' = grant
    BY <1>2 DEF Lookup, StartApply, EndApply, Plan, ExecuteFails
  <2>2. CASE step[p] = "applied"
    BY <2>1, <2>2, AppliedStays DEF AnswerSeen, TypeInv, Served
  <2>3. CASE step[p] # "applied"
    BY <1>2, <2>1, <2>3
       DEF Lookup, StartApply, EndApply, Plan, ExecuteFails, TypeInv, TypeOK
  <2>4. QED
    BY <2>2, <2>3
<1>3. ASSUME NEW q \in Workers, RecordAbsence(q) \/ RecordSuccess(q)
      PROVE  job'[grant'[p].operation] = "applied"
  <2>1. grant' = grant /\ step[p] = "applied"
    BY <1>3 DEF RecordAbsence, RecordSuccess, RecordReceipt, TypeInv, TypeOK
  <2>2. QED
    BY <2>1, AppliedStays DEF AnswerSeen, TypeInv, Served
<1>4. ASSUME NEW q \in Workers, Attest(q)
      PROVE  job'[grant'[p].operation] = "applied"
  BY <1>1, <1>4 DEF Attest, RecordReceipt
<1>5. ASSUME NEW q \in Workers, (\E k \in Operations : Claim(q, k)) \/ Leave(q)
      PROVE  job'[grant'[p].operation] = "applied"
  <2>1. /\ step[p] = "applied" /\ grant'[p] = grant[p]
    BY <1>5 DEF Claim, Leave, TypeInv, TypeOK
  <2>2. QED
    BY <2>1, AppliedStays DEF AnswerSeen, TypeInv, Served
<1>6. QED
  BY <1>1, <1>2, <1>3, <1>4, <1>5
     DEF Next, WorkerStep, vars, workerVars, Register, CreateIntent, Expire, Reconcile, Publish,
         ManualReview, Arrive, EndJob

LEMMA LeaseStep == TypeInv /\ AnswerSeen /\ LeaseInv /\ [Next]_vars => LeaseInv'
<1> SUFFICES ASSUME TypeInv, AnswerSeen, LeaseInv, [Next]_vars
             PROVE  LeaseInv'
  OBVIOUS
<1>1. lease \in Leases /\ stage \in [Operations -> Entries]
      /\ blocked \in [Operations -> {"none", "mismatch", "manual"}]
      /\ proof \in [Operations -> Proofs] /\ NoOperation \notin Operations
  BY ScopeAssumption DEF TypeInv, TypeOK
<1> USE DEF LeaseInv, UnresolvedKeepsResource, PublishedRunEnded, ReviewHoldsResource
<1>2. CASE Quiet
  BY <1>2 DEF Quiet, SameEvidence, Unresolved, Published
<1>3. CASE Lapses
  <2>1. lease'.holder = lease.holder /\ lease'.run = lease.run
    BY <1>1, <1>3 DEF Lapses, Leases
  <2>2. QED
    BY <1>3, <2>1 DEF Lapses, SameEvidence, Unresolved, Published
<1>4. ASSUME NEW k \in Operations, Claims(k)
      PROVE  LeaseInv'
  <2>1. /\ lease'.holder = k /\ ~Published(k) /\ blocked[k] # "manual"
        /\ lease.holder # k => Superseded(lease.holder)
        /\ UNCHANGED <<stage, blocked, proof, publications>>
    BY <1>4 DEF Claims, Claimable, SameEvidence
  <2>2. \A j \in Operations : Unresolved(j) => j = k
    BY <1>1, <2>1 DEF Superseded
  <2>3. \A j \in Operations : blocked[j] # "manual"
    BY <1>1, <2>1 DEF Superseded
  <2>4. QED
    BY <2>1, <2>2, <2>3 DEF Unresolved, Published
<1>5. ASSUME NEW k \in Operations, Notes(k)
      PROVE  LeaseInv'
  <2>1. lease'.holder = k /\ lease.holder = k /\ lease.run = "RUNNING"
    BY <1>1, <1>5 DEF Notes, Writes, Leases
  <2>2. ~Published(k) /\ \A j \in Operations : blocked[j] # "manual"
    BY <2>1
  <2>3. \A j \in Operations \ {k} : stage'[j] = stage[j]
    BY <1>1, <1>5 DEF Notes
  <2>4. UNCHANGED <<blocked, publications>>
    BY <1>5 DEF Notes
  <2>5. QED
    BY <2>1, <2>2, <2>3, <2>4 DEF Unresolved, Published
<1>6. ASSUME NEW k \in Operations, Checks(k)
      PROVE  LeaseInv'
  <2>1. \A j \in Operations : blocked'[j] = "manual" => blocked[j] = "manual"
    BY <1>1, <1>6 DEF Checks
  <2>2. QED
    BY <1>6, <2>1 DEF Checks, Unresolved, Published
<1>7. ASSUME NEW k \in Operations, Publishes(k)
      PROVE  LeaseInv'
  <2>1. /\ lease.holder = k /\ lease.run = "RUNNING"
        /\ lease'.holder = k /\ lease'.run = "SUCCEEDED"
    BY <1>1, <1>7 DEF Publishes, Writes, Leases
  <2>2. \A j \in Operations : blocked[j] # "manual"
    BY <2>1
  <2>3. QED
    BY <1>7, <2>1, <2>2 DEF Publishes, Unresolved
<1>8. ASSUME NEW k \in Operations, Reviews(k)
      PROVE  LeaseInv'
  <2>1. /\ lease.holder = k /\ lease.run = "RUNNING"
        /\ lease'.holder = k /\ lease'.run = "FAILED"
    BY <1>1, <1>8 DEF Reviews, Writes, Leases
  <2>2. ~Published(k) /\ \A j \in Operations : blocked'[j] = "manual" => j = k
    BY <1>1, <1>8, <2>1 DEF Reviews
  <2>3. QED
    BY <1>8, <2>1, <2>2 DEF Reviews, Unresolved, Published
<1>9. QED
  BY StepKinds, <1>2, <1>3, <1>4, <1>5, <1>6, <1>7, <1>8

LEMMA LeaseInit == Init => AnswerSeen /\ LeaseInv
BY DEF Init, AnswerSeen, LeaseInv, UnresolvedKeepsResource, PublishedRunEnded, ReviewHoldsResource,
       Unresolved, Published, NoEntry, Entry

LEMMA LeaseAlways == Spec => [](TypeInv /\ AnswerSeen /\ LeaseInv)
BY TypeInit, TypeStep, LeaseInit, AnswerSeenStep, LeaseStep, PTL DEF Spec

(* An operation with an unknown or unpublished effect at the target keeps   *)
(* the resource: claim() lets no other operation pass it when its lease     *)
(* expires.                                                                 *)
THEOREM UnresolvedNeverBypassed == Spec => []UnresolvedKeepsResource
BY LeaseAlways, PTL DEF LeaseInv
-----------------------------------------------------------------------------
(* The evidence.                                                           *)

(* A recorded success is one: a passed reconciliation was of a success.     *)
Attested == \A k \in Operations :
    /\ stage[k].outcome = "SUCCEEDED" => job[k] = "applied"
    /\ proof[k].passed => Passes(proof[k].receipt)

EvidenceInv == Attested /\ PublishedWasApplied

LEMMA EvidenceStep ==
  TypeInv /\ AnswerSeen /\ LeaseInv /\ EvidenceInv /\ [Next]_vars => EvidenceInv'
<1> SUFFICES ASSUME TypeInv, AnswerSeen, LeaseInv, EvidenceInv, [Next]_vars
             PROVE  EvidenceInv'
  OBVIOUS
<1>1. /\ stage \in [Operations -> Entries] /\ proof \in [Operations -> Proofs]
      /\ \A j \in Operations : job[j] = "applied" => job'[j] = "applied"
  BY AppliedStays DEF TypeInv, TypeOK
<1>2. ASSUME NEW k \in Operations, Writes(k)
      PROVE  ~Published(k)
  BY <1>2 DEF Writes, LeaseInv, PublishedRunEnded
<1> USE DEF EvidenceInv, Attested, PublishedWasApplied
<1>3. CASE UNCHANGED <<stage, proof, publications>>
  BY <1>1, <1>3 DEF Passes, Published
<1>4. ASSUME NEW k \in Operations, Notes(k)
      PROVE  EvidenceInv'
  <2>1. PICK e \in Entries : /\ stage' = [stage EXCEPT ![k] = e]
                             /\ e.outcome = "SUCCEEDED" => job[k] = "applied"
    BY <1>4 DEF Notes
  <2>2. UNCHANGED <<proof, publications>> /\ ~Published(k)
    BY <1>2, <1>4 DEF Notes
  <2>3. stage'[k] = e /\ \A j \in Operations \ {k} : stage'[j] = stage[j]
    BY <1>1, <2>1
  <2>4. QED
    BY <1>1, <2>1, <2>2, <2>3 DEF Passes, Published
<1>5. ASSUME NEW k \in Operations, Checks(k)
      PROVE  EvidenceInv'
  <2>1. UNCHANGED <<stage, publications>>
    BY <1>5 DEF Checks
  <2>2. /\ proof'[k] = [run |-> lease.fence, passed |-> Passes(stage[k]), receipt |-> stage[k]]
        /\ \A j \in Operations \ {k} : proof'[j] = proof[j]
    BY <1>1, <1>5 DEF Checks
  <2>3. proof'[k].passed => Passes(proof'[k].receipt)
    BY <2>2
  <2>4. QED
    BY <1>1, <2>1, <2>2, <2>3 DEF Passes, Published
<1>6. ASSUME NEW k \in Operations, Publishes(k)
      PROVE  EvidenceInv'
  <2>1. UNCHANGED <<stage, proof>> /\ Passes(stage[k])
    BY <1>6 DEF Publishes, Proven
  <2>2. \A j \in Operations : Published(j)' => Published(j) \/ j = k
    BY <1>6 DEF Publishes
  <2>3. QED
    BY <1>1, <2>1, <2>2 DEF Passes
<1>7. QED
  <2>1. Quiet \/ Lapses \/ (\E k \in Operations : Claims(k) \/ Reviews(k))
          => UNCHANGED <<stage, proof, publications>>
    BY DEF Quiet, Lapses, Claims, Reviews, SameEvidence
  <2>2. QED
    BY StepKinds, <1>3, <1>4, <1>5, <1>6, <2>1

LEMMA EvidenceInit == Init => EvidenceInv
BY DEF Init, EvidenceInv, Attested, PublishedWasApplied, Published, NoEntry, Entry, NoProof

(* Only what the target applied, with the expected result, is published,    *)
(* whoever recovered the lost answer and under whichever fence.             *)
THEOREM PublicationIsTrue == Spec => []PublishedWasApplied
<1>1. TypeInv /\ AnswerSeen /\ LeaseInv /\ EvidenceInv /\ [Next]_vars => EvidenceInv'
  BY EvidenceStep
<1>2. QED
  BY <1>1, LeaseAlways, EvidenceInit, PTL DEF Spec, EvidenceInv

(* Nothing is recorded about a published operation any more.                *)
THEOREM PublishedStaysClosed == Spec => PublishedIsClosed
<1> DEFINE Closed == \A k \in Operations : Published(k) =>
             stage'[k] = stage[k] /\ proof'[k] = proof[k] /\ blocked'[k] = blocked[k]
<1>1. ASSUME TypeInv, AnswerSeen, LeaseInv, [Next]_vars
      PROVE  Closed
  <2>1. /\ stage \in [Operations -> Entries] /\ proof \in [Operations -> Proofs]
        /\ blocked \in [Operations -> {"none", "mismatch", "manual"}]
    BY <1>1 DEF TypeInv, TypeOK
  <2>2. ASSUME NEW k \in Operations, Writes(k)
        PROVE  ~Published(k)
    BY <1>1, <2>2 DEF Writes, LeaseInv, PublishedRunEnded
  <2>3. ASSUME NEW k \in Operations, Notes(k) \/ Checks(k) \/ Reviews(k)
        PROVE  Closed
    BY <2>1, <2>2, <2>3 DEF Notes, Checks, Reviews
  <2>4. Quiet \/ Lapses \/ (\E k \in Operations : Claims(k) \/ Publishes(k)) => Closed
    BY DEF Quiet, Lapses, Claims, Publishes, SameEvidence
  <2>5. QED
    BY <1>1, <2>3, <2>4, StepKinds
<1>2. TypeInv /\ AnswerSeen /\ LeaseInv /\ [Next]_vars => [Closed]_vars
  BY <1>1
<1>3. QED
  BY <1>2, LeaseAlways, PTL DEF Spec, PublishedIsClosed

(* After manual review was asked for one operation, the resource neither    *)
(* hands out another fence nor publishes anything.                          *)
THEOREM ManualReviewIsFinal == Spec => ManualReviewStopsResource
<1> DEFINE Stopped == (\E k \in Operations : blocked[k] = "manual") =>
             publications' = publications /\ lease'.fence = lease.fence
<1>1. ASSUME TypeInv, AnswerSeen, LeaseInv, [Next]_vars
      PROVE  Stopped
  <2> SUFFICES ASSUME NEW k \in Operations, blocked[k] = "manual"
               PROVE  publications' = publications /\ lease'.fence = lease.fence
    OBVIOUS
  <2>1. lease \in Leases /\ lease.holder = k /\ lease.run # "RUNNING"
    BY <1>1 DEF TypeInv, TypeOK, LeaseInv, ReviewHoldsResource
  <2>2. \A j \in Operations : ~Writes(j)
    BY <2>1 DEF Writes
  <2>3. \A j \in Operations : ~Claims(j)
    BY <2>1, ScopeAssumption DEF Claims, Claimable, Superseded
  <2>4. Quiet \/ Lapses
    BY <1>1, <2>2, <2>3, StepKinds DEF Notes, Checks, Publishes, Reviews
  <2>5. QED
    BY <2>1, <2>4 DEF Quiet, Lapses, SameEvidence, Leases
<1>2. TypeInv /\ AnswerSeen /\ LeaseInv /\ [Next]_vars => [Stopped]_vars
  BY <1>1
<1>3. QED
  BY <1>2, LeaseAlways, PTL DEF Spec, ManualReviewStopsResource
-----------------------------------------------------------------------------
(* The chain of publications and the log it implements.                     *)

(* An intent pins a head by publication and revision, which agree as long   *)
(* as head and publications do; only an existing operation is published.    *)
PinsAgree == \A k \in Operations : Exists(k) => intent[k].priorHead = intent[k].priorRevision
PublishedExist == \A k \in Operations : Published(k) => Exists(k)

ChainInv == ProgressIsChain /\ PinsAgree /\ PublishedExist

(* The effect of publish(), with the pins replaced by what they equal.      *)
LEMMA PublishEffect ==
  ASSUME TypeInv, LeaseInv, ChainInv, NEW p \in Workers, Publish(p)
  PROVE  LET k == grant[p].operation
             b == intent[k]
             n == Len(publications)
         IN  /\ k \in Operations /\ Exists(k) /\ ~Published(k)
             /\ n \in Nat /\ DOMAIN publications = 1 .. n /\ DOMAIN publications' = 1 .. n + 1
             /\ Len(publications') = n + 1
             /\ \A i \in 1 .. n : publications'[i] = publications[i]
             /\ publications'[n + 1] = [operation |-> k, revision |-> n + 1, previous |-> n,
                                        position |-> PositionAfter(b)]
             /\ head' = [publication |-> n + 1, revision |-> n + 1]
             /\ checkpoint' = [position |-> PositionAfter(b), version |-> n + 1,
                               publication |-> n + 1]
             /\ b.priorPosition = checkpoint.position
             /\ Advances(b.kind) => b.first = checkpoint.position + 1
             /\ intent' = intent /\ registered' = registered
<1> DEFINE k == grant[p].operation
           b == intent[k]
           n == Len(publications)
           e == [operation |-> k, revision |-> b.priorRevision + 1,
                 previous |-> b.priorHead, position |-> PositionAfter(b)]
<1>1. /\ k \in Operations /\ Exists(k) /\ b \in Intents
      /\ e \in Publications /\ publications' = Append(publications, e)
  BY PublishTypes
<1>2. ~Published(k)
  <2>1. Writes(k)
    BY WriterWrites DEF Publish
  <2>2. QED
    BY <2>1 DEF Writes, LeaseInv, PublishedRunEnded
<1>3. /\ n \in Nat /\ DOMAIN publications = 1 .. n /\ DOMAIN publications' = 1 .. n + 1
      /\ Len(publications') = n + 1
      /\ \A i \in 1 .. n : publications'[i] = publications[i]
      /\ publications'[n + 1] = e
  <2> HIDE DEF e
  <2>1. QED
    BY <1>1, AppendProperties, LenProperties DEF TypeInv, TypeOK
<1>4. /\ head.publication = n /\ head.revision = n /\ checkpoint.version = n
  BY DEF ChainInv, ProgressIsChain
<1>5. /\ b.priorHead = n /\ b.priorVersion = n /\ b.priorPosition = checkpoint.position
      /\ Advances(b.kind) => b.first = b.priorPosition + 1
  BY <1>4 DEF Publish, PinsCurrent
<1>6. b.priorRevision = n
  BY <1>1, <1>5 DEF ChainInv, PinsAgree
<1>7. e = [operation |-> k, revision |-> n + 1, previous |-> n, position |-> PositionAfter(b)]
  BY <1>5, <1>6
<1>8. /\ head' = [publication |-> n + 1,
                  revision |-> IF head.publication = 0 THEN b.priorRevision + 1
                                                       ELSE head.revision + 1]
      /\ checkpoint' = [position |-> PositionAfter(b), version |-> checkpoint.version + 1,
                        publication |-> n + 1]
      /\ intent' = intent /\ registered' = registered
  BY DEF Publish
<1> HIDE DEF e, b, n, k
<1>9. QED
  BY <1>1, <1>2, <1>3, <1>4, <1>5, <1>6, <1>7, <1>8 DEF b, n, k

LEMMA ChainPublish ==
  ASSUME TypeInv, LeaseInv, ChainInv, NEW p \in Workers, Publish(p)
  PROVE  ChainInv'
<1> DEFINE k == grant[p].operation
           b == intent[k]
<1>0. PICK n \in Nat : n = Len(publications)
  BY LenProperties DEF TypeInv, TypeOK
<1>1. /\ k \in Operations /\ Exists(k) /\ ~Published(k)
      /\ DOMAIN publications = 1 .. n /\ DOMAIN publications' = 1 .. n + 1
      /\ Len(publications') = n + 1
      /\ \A i \in 1 .. n : publications'[i] = publications[i]
      /\ publications'[n + 1] = [operation |-> k, revision |-> n + 1, previous |-> n,
                                 position |-> PositionAfter(b)]
      /\ head' = [publication |-> n + 1, revision |-> n + 1]
      /\ checkpoint' = [position |-> PositionAfter(b), version |-> n + 1, publication |-> n + 1]
      /\ b.priorPosition = checkpoint.position
      /\ Advances(b.kind) => b.first = checkpoint.position + 1
      /\ intent' = intent
  BY <1>0, PublishEffect
<1>2. checkpoint.position = PositionBefore(n + 1)
  BY <1>0 DEF ChainInv, ProgressIsChain
<1>3. \A i \in 1 .. n + 1 : PositionBefore(i)' = PositionBefore(i)
  BY <1>1 DEF PositionBefore
<1>4. PositionBefore(n + 2)' = PositionAfter(b)
  BY <1>1 DEF PositionBefore
<1>5. \A i \in 1 .. n : ChainedAt(i)'
  <2> SUFFICES ASSUME NEW i \in 1 .. n
               PROVE  ChainedAt(i)'
    OBVIOUS
  <2>1. ChainedAt(i)
    BY <1>0 DEF ChainInv, ProgressIsChain
  <2>2. publications'[i] = publications[i] /\ PositionBefore(i)' = PositionBefore(i)
    BY <1>1, <1>3
  <2>3. QED
    BY <1>1, <2>1, <2>2 DEF ChainedAt
<1>6. ChainedAt(n + 1)'
  <2>1. PositionBefore(n + 1)' = checkpoint.position
    BY <1>1, <1>2, <1>3
  <2>2. /\ publications'[n + 1].operation = k /\ publications'[n + 1].revision = n + 1
        /\ publications'[n + 1].previous = n
        /\ publications'[n + 1].position = PositionAfter(b)
    BY <1>1
  <2>3. n + 1 - 1 = n
    BY <1>1
  <2>4. /\ Advances(b.kind) => PositionAfter(b) = b.last
        /\ ~Advances(b.kind) => PositionAfter(b) = checkpoint.position
    BY <1>1 DEF PositionAfter
  <2>5. intent'[publications'[n + 1].operation] = b
    BY <1>1, <2>2
  <2> HIDE DEF b, k
  <2>6. QED
    BY <1>1, <2>1, <2>2, <2>3, <2>4, <2>5 DEF ChainedAt
<1>7. \A i, j \in 1 .. n + 1 : publications'[i].operation = publications'[j].operation => i = j
  <2>1. \A i \in 1 .. n : publications'[i].operation # k
    BY <1>1 DEF Published
  <2>2. \A i, j \in 1 .. n : publications'[i].operation = publications'[j].operation => i = j
    BY <1>0, <1>1 DEF ChainInv, ProgressIsChain
  <2>3. publications'[n + 1].operation = k
    BY <1>1
  <2> HIDE DEF k
  <2>4. QED
    BY <1>1, <2>1, <2>2, <2>3
<1>8. ProgressIsChain'
  <2>1. \A i \in 1 .. n + 1 : ChainedAt(i)'
    BY <1>1, <1>5, <1>6
  <2>2. n + 1 + 1 = n + 2
    BY <1>1
  <2>3. QED
    BY <1>1, <1>4, <1>7, <2>1, <2>2 DEF ProgressIsChain
<1>9. PinsAgree' /\ PublishedExist'
  BY <1>1, PublishedAfter DEF ChainInv, PinsAgree, PublishedExist, Exists
<1>10. QED
  BY <1>8, <1>9 DEF ChainInv

LEMMA ChainCreate ==
  ASSUME TypeInv, ChainInv, NEW k \in Operations, NEW kind, NEW first, NEW last,
         CreateIntent(k, kind, first, last)
  PROVE  ChainInv'
<1>1. /\ intent' = [intent EXCEPT ![k] =
                      [kind |-> kind, first |-> first, last |-> last,
                       priorHead |-> head.publication, priorRevision |-> head.revision,
                       priorPosition |-> checkpoint.position,
                       priorVersion |-> checkpoint.version]]
      /\ ~Exists(k) /\ UNCHANGED <<publications, head, checkpoint>>
  BY DEF CreateIntent, Taken, progressVars
<1>2. \A j \in Operations \ {k} : intent'[j] = intent[j]
  BY <1>1 DEF TypeInv, TypeOK
<1>3. ~Published(k)
  BY <1>1 DEF ChainInv, PublishedExist
<1>4. head.publication = head.revision
  BY DEF ChainInv, ProgressIsChain
<1>5. PinsAgree'
  BY <1>1, <1>2, <1>4 DEF ChainInv, PinsAgree, Exists, TypeInv, TypeOK
<1>6. PublishedExist'
  BY <1>1, <1>2, <1>3 DEF ChainInv, PublishedExist, Published, Exists
<1>7. ProgressIsChain'
  <2>1. /\ publications' = publications /\ DOMAIN publications = 1 .. Len(publications)
        /\ \A i \in DOMAIN publications : publications[i].operation \in Operations \ {k}
    <3>1. DOMAIN publications = 1 .. Len(publications)
      BY LenProperties DEF TypeInv, TypeOK
    <3>2. \A i \in DOMAIN publications : publications[i] \in Publications
      BY <3>1, ElementOfSeq DEF TypeInv, TypeOK
    <3>3. \A i \in DOMAIN publications : publications[i].operation \in Operations
      BY <3>2 DEF Publications
    <3>4. QED
      BY <1>1, <1>3, <3>1, <3>3 DEF Published
  <2>2. \A i \in 1 .. Len(publications) :
          intent'[publications[i].operation] = intent[publications[i].operation]
    BY <1>2, <2>1
  <2>3. \A i \in 1 .. Len(publications) : ChainedAt(i)'
    BY <2>1, <2>2 DEF ChainInv, ProgressIsChain, ChainedAt, PositionBefore
  <2>4. QED
    BY <1>1, <2>3 DEF ChainInv, ProgressIsChain, PositionBefore
<1>8. QED
  BY <1>5, <1>6, <1>7 DEF ChainInv

LEMMA OnlyPublishMovesProgress ==
  ASSUME [Next]_vars, \A p \in Workers : ~Publish(p)
  PROVE  UNCHANGED <<publications, head, checkpoint>>
BY DEF Next, WorkerStep, vars, progressVars, Register, CreateIntent, Claim, Expire, Plan,
       Reconcile, ManualReview, Lookup, StartApply, EndApply, ExecuteFails, Leave, Arrive, EndJob,
       RecordAbsence, RecordSuccess, Attest, RecordReceipt

LEMMA ChainStep == TypeInv /\ LeaseInv /\ ChainInv /\ [Next]_vars => ChainInv'
<1> SUFFICES ASSUME TypeInv, LeaseInv, ChainInv, [Next]_vars
             PROVE  ChainInv'
  OBVIOUS
<1>1. CASE \E p \in Workers : Publish(p)
  BY <1>1, ChainPublish
<1>2. CASE \E k \in Operations, kind \in Kinds, first, last \in 1 .. MaxPosition :
             CreateIntent(k, kind, first, last)
  BY <1>2, ChainCreate
<1>3. CASE UNCHANGED <<intent, publications, head, checkpoint>>
  BY <1>3 DEF ChainInv, ProgressIsChain, PinsAgree, PublishedExist, ChainedAt, PositionBefore,
              Published, Exists
<1>4. QED
  BY <1>1, <1>2, <1>3
     DEF Next, WorkerStep, vars, progressVars, Register, Claim, Expire, Plan,
         Reconcile, ManualReview, Lookup, StartApply, EndApply, ExecuteFails, Leave, Arrive, EndJob,
         RecordAbsence, RecordSuccess, Attest, RecordReceipt

LEMMA ChainInit == Init => ChainInv
BY EmptySeq DEF Init, ChainInv, ProgressIsChain, PinsAgree, PublishedExist, PositionBefore, Published, Exists

LEMMA ChainAlways == Spec => [](TypeInv /\ AnswerSeen /\ LeaseInv /\ ChainInv)
BY LeaseAlways, ChainInit, ChainStep, PTL DEF Spec

(* Publications, head and checkpoint form one gap-free chain, whatever      *)
(* races for it; no operation is published twice and normal operations      *)
(* consume the positions in order.                                          *)
THEOREM ProgressStaysChain == Spec => []ProgressIsChain
BY ChainAlways, PTL DEF ChainInv
-----------------------------------------------------------------------------
(* The refinement: publish() consumes or publishes aside, register()        *)
(* accepts, and every other step leaves the log alone.                      *)

(* The order in which operations are published, as a sequence.              *)
LEMMA OrderType ==
  ASSUME NEW s \in Seq(Publications)
  PROVE  LET order == [i \in DOMAIN s |-> s[i].operation] IN
         /\ order \in Seq(Operations) /\ Len(order) = Len(s)
         /\ \A i \in 1 .. Len(s) : order[i] = s[i].operation
<1> DEFINE order == [i \in DOMAIN s |-> s[i].operation]
<1>1. /\ Len(s) \in Nat /\ DOMAIN s = 1 .. Len(s)
      /\ \A i \in 1 .. Len(s) : s[i] \in Publications
  BY LenProperties, ElementOfSeq
<1>2. \A i \in 1 .. Len(s) : s[i].operation \in Operations
  BY <1>1 DEF Publications
<1>3. order \in [1 .. Len(s) -> Operations] /\ \A i \in 1 .. Len(s) : order[i] = s[i].operation
  BY <1>1, <1>2
<1> HIDE DEF order
<1>4. order \in Seq(Operations)
  BY <1>1, <1>3, SeqDef
<1>5. DOMAIN order = 1 .. Len(order) /\ Len(order) \in Nat
  BY <1>4, LenProperties
<1>6. Len(order) = Len(s)
  <2>1. PICK m \in Nat, n \in Nat : m = Len(order) /\ n = Len(s)
    BY <1>1, <1>5
  <2>2. 1 .. m = 1 .. n
    BY <1>3, <1>5, <2>1
  <2>3. (m >= 1 => m \in 1 .. n) /\ (n >= 1 => n \in 1 .. m)
    BY <2>2
  <2>4. m = n
    BY <2>3
  <2>5. QED
    BY <2>1, <2>4
<1>7. QED
  BY <1>3, <1>4, <1>6 DEF order

Order == [i \in DOMAIN publications |-> publications[i].operation]

LEMMA LogInit == Init => Log!Init
<1> SUFFICES ASSUME Init PROVE Log!Init
  OBVIOUS
<1>1. Order = <<>>
  <2>1. publications \in Seq(Publications) /\ Len(publications) = 0
    BY EmptySeq DEF Init
  <2>2. Order \in Seq(Operations) /\ Len(Order) = 0
    BY <2>1, OrderType DEF Order
  <2>3. QED
    BY <2>2, EmptySeq
<1>2. QED
  BY <1>1 DEF Init, Log!Init, Order

LEMMA LogPublish ==
  ASSUME TypeInv, TypeInv', LeaseInv, ChainInv, NEW p \in Workers, Publish(p)
  PROVE  Log!Next
<1> DEFINE k == grant[p].operation
           b == intent[k]
<1>0. PICK n \in Nat : n = Len(publications)
  BY LenProperties DEF TypeInv, TypeOK
<1>1. /\ k \in Operations /\ Exists(k) /\ ~Published(k)
      /\ DOMAIN publications = 1 .. n /\ DOMAIN publications' = 1 .. n + 1
      /\ Len(publications') = n + 1
      /\ \A i \in 1 .. n : publications'[i] = publications[i]
      /\ publications'[n + 1] = [operation |-> k, revision |-> n + 1, previous |-> n,
                                 position |-> PositionAfter(b)]
      /\ checkpoint' = [position |-> PositionAfter(b), version |-> n + 1, publication |-> n + 1]
      /\ b.priorPosition = checkpoint.position
      /\ Advances(b.kind) => b.first = checkpoint.position + 1
      /\ registered' = registered
  BY <1>0, PublishEffect
<1>2. PICK j \in Operations : j = k
  BY <1>1
<1>3. publications'[n + 1].operation = k /\ checkpoint'.position = PositionAfter(b)
  BY <1>1
<1>4. /\ Order \in Seq(Operations) /\ Len(Order) = n
      /\ \A i \in 1 .. n : Order[i] = publications[i].operation
  BY <1>0, OrderType DEF Order, TypeInv, TypeOK
<1>5. \A i \in DOMAIN Order : Order[i] # k
  BY <1>1 DEF Order, Published
<1>6. Order' = Append(Order, k)
  <2> DEFINE t == Append(Order, k)
  <2>1. /\ t \in Seq(Operations) /\ Len(t) = n + 1
        /\ t[n + 1] = k /\ \A i \in 1 .. n : t[i] = Order[i]
    BY <1>1, <1>4, AppendProperties
  <2>2. publications' \in Seq(Publications)
    BY DEF TypeInv, TypeOK
  <2>3. /\ Order' \in Seq(Operations) /\ Len(Order') = n + 1
        /\ \A i \in 1 .. n + 1 : Order'[i] = publications'[i].operation
    BY <1>1, <2>2, OrderType DEF Order
  <2> HIDE DEF t, k
  <2>4. \A i \in 1 .. n + 1 : Order'[i] = t[i]
    BY <1>1, <1>3, <1>4, <2>1, <2>3
  <2>5. Order' = t
    BY <2>1, <2>3, <2>4, SeqEqual
  <2>6. QED
    BY <2>5 DEF t
<1>7. Log!Append1(j)
  BY <1>1, <1>2, <1>5, <1>6 DEF Log!Append1, Order
<1>8. b.last \in Int /\ b.first <= b.last /\ b.last <= registered /\ registered \in Nat
  <2>1. registered \in Nat
    BY ScopeAssumption DEF TypeInv, TypeOK
  <2>2. b \in Intents
    BY <1>1, IntentType DEF TypeInv
  <2>3. b.last \in Int
    BY <2>2 DEF Intents
  <2>4. b.first <= b.last /\ b.last <= registered
    BY <1>1 DEF TypeInv, PinsInRange
  <2>5. QED
    BY <2>1, <2>3, <2>4
<1>9. checkpoint.position \in Nat
  BY <1>8 DEF TypeInv, TypeOK
<1>10. Log!Consume(j) \/ Log!Aside(j)
  <2>1. CASE Advances(b.kind)
    <3>1. b.first = checkpoint.position + 1 /\ checkpoint'.position = b.last
      BY <1>1, <1>3, <2>1 DEF PositionAfter
    <3> HIDE DEF b, k
    <3>2. b.last \in checkpoint.position + 1 .. registered
      BY <1>8, <1>9, <3>1
    <3>3. QED
      BY <1>7, <3>1, <3>2 DEF Log!Consume
  <2>2. CASE ~Advances(b.kind)
    BY <1>1, <1>3, <1>7, <2>2 DEF PositionAfter, Log!Aside
  <2>3. QED
    BY <2>1, <2>2
<1> HIDE DEF b, k
<1>11. QED
  BY <1>10 DEF Log!Next

LEMMA OnlyRegisterAccepts ==
  ASSUME [Next]_vars, ~Register
  PROVE  registered' = registered
BY DEF Next, WorkerStep, vars, CreateIntent, Claim, Expire, Plan, Publish,
       Reconcile, ManualReview, Lookup, StartApply, EndApply, ExecuteFails, Leave, Arrive, EndJob,
       RecordAbsence, RecordSuccess, Attest, RecordReceipt

LEMMA LogStep ==
  TypeInv /\ TypeInv' /\ LeaseInv /\ ChainInv /\ [Next]_vars => [Log!Next]_(Log!log)
<1> SUFFICES ASSUME TypeInv, TypeInv', LeaseInv, ChainInv, [Next]_vars
             PROVE  Log!Next \/ UNCHANGED Log!log
  OBVIOUS
<1>1. CASE \E p \in Workers : Publish(p)
  BY <1>1, LogPublish
<1>2. CASE Register
  BY <1>2 DEF Register, progressVars, Log!Next, Log!Accept
<1>3. CASE (\A p \in Workers : ~Publish(p)) /\ ~Register
  BY <1>3, OnlyPublishMovesProgress, OnlyRegisterAccepts DEF Log!log
<1>4. QED
  BY <1>1, <1>2, <1>3

(* The protocol implements the publication log: whatever crashes, expires   *)
(* and races, readers see operations appended one by one and accepted       *)
(* positions consumed in order, each once.                                  *)
THEOREM LogIsImplemented == Spec => LogImplemented
<1>1. Spec => [](TypeInv /\ LeaseInv /\ ChainInv)
  BY ChainAlways, PTL
<1>2. QED
  BY <1>1, LogInit, LogStep, PTL DEF Spec, LogImplemented, Log!Spec
-----------------------------------------------------------------------------
(* Submitted work.  A fence is given to one worker, so that a writer is     *)
(* alone with its lease, and what it planned is current.  Work that was     *)
(* submitted is unresolved: its operation keeps the resource, so that no    *)
(* other one publishes.  Only an answer that a late submission belies ends  *)
(* that; without late submissions a writer that has not submitted yet has   *)
(* no job, so that "not applied" is true for good.                          *)

FencesDiffer ==
    /\ \A p \in Workers : step[p] # "idle" => grant[p].fence <= lease.fence
    /\ \A p, q \in Workers :
          step[p] # "idle" /\ step[q] # "idle" /\ grant[p].fence = grant[q].fence => p = q

NothingSent == LateSubmissions \/ \A k \in Operations : job[k] # "sent"

NothingToJoin(k) == LateSubmissions \/ job[k] = "none"

Prepares(p) ==
    step[p] \in {"absent", "ready", "planned"} /\ Writer(p) =>
        /\ NothingToJoin(grant[p].operation)
        /\ step[p] = "planned" =>
              stage[grant[p].operation].entry = "PLANNED" /\ PinsCurrent(grant[p].operation)

Submitted(k) ==
    job[k] \in {"sent", "running", "applied"} /\ ~Published(k) =>
        \/ /\ stage[k].entry = "PLANNED" \/ stage[k].outcome \in {"SUCCEEDED", "UNKNOWN"}
           /\ PinsCurrent(k)
        \/ LateSubmissions /\ Receipted(k)

CurrentInv ==
    /\ FencesDiffer /\ NothingSent
    /\ \A p \in Workers : Prepares(p)
    /\ \A k \in Operations : Submitted(k)

(* The lease of a writer is its own, and nobody becomes one but by a claim. *)
Wanes ==
    lease' \in {lease, [lease EXCEPT !.active = FALSE], [lease EXCEPT !.run = "FAILED"],
                [lease EXCEPT !.run = "FAILED", !.active = FALSE],
                [lease EXCEPT !.run = "SUCCEEDED", !.active = FALSE]}

LEMMA WriterLasts ==
  ASSUME TypeOK, Wanes
  PROVE  /\ lease'.fence = lease.fence
         /\ \A p \in Workers : grant'[p] = grant[p] /\ Writer(p)' => Writer(p)
<1>1. lease \in Leases
  BY DEF TypeOK
<1>2. /\ lease'.fence = lease.fence /\ lease'.holder = lease.holder
      /\ lease'.active => lease.active
      /\ lease'.run = "RUNNING" => lease.run = "RUNNING"
  BY <1>1 DEF Wanes, Leases
<1> QED BY <1>2 DEF Writer

LEMMA WriterAlone ==
  ASSUME FencesDiffer, NEW p \in Workers, NEW q \in Workers, Writer(p), Writer(q),
         step[p] # "idle", step[q] # "idle"
  PROVE  p = q
BY DEF FencesDiffer, Writer

(* One worker moves on under the fences that are there.                     *)
LEMMA FencesStay ==
  ASSUME TypeOK, FencesDiffer, Wanes, NEW p \in Workers, NEW next, NEW g,
         step' = [step EXCEPT ![p] = next], grant' = [grant EXCEPT ![p] = g],
         next = "idle" \/ (g = grant[p] /\ step[p] # "idle")
  PROVE  FencesDiffer'
<1>1. lease'.fence = lease.fence
  BY WriterLasts
<1>2. \A q \in Workers : step'[q] # "idle" => step[q] # "idle" /\ grant'[q] = grant[q]
  BY DEF TypeOK
<1> QED BY <1>1, <1>2 DEF FencesDiffer

(* A step of p that leaves jobs, evidence and pins alone.                   *)
LEMMA OthersPrepare ==
  ASSUME TypeOK, Wanes, NEW p \in Workers, \A q \in Workers : Prepares(q),
         \A q \in Workers \ {p} : step'[q] = step[q] /\ grant'[q] = grant[q],
         UNCHANGED <<job, stage, intent, head, checkpoint>>, Prepares(p)'
  PROVE  \A q \in Workers : Prepares(q)'
<1>1. \A q \in Workers \ {p} : Writer(q)' => Writer(q)
  BY WriterLasts
<1>2. \A k : PinsCurrent(k)' = PinsCurrent(k)
  BY DEF PinsCurrent
<1> QED BY <1>1, <1>2 DEF Prepares, NothingToJoin

(* A step of a writer p: nobody else prepares anything.                     *)
LEMMA WriterPrepares ==
  ASSUME TypeOK, FencesDiffer, Wanes, NEW p \in Workers, Writer(p), step[p] # "idle",
         \A q \in Workers \ {p} : step'[q] = step[q] /\ grant'[q] = grant[q], Prepares(p)'
  PROVE  \A q \in Workers : Prepares(q)'
<1>1. \A q \in Workers \ {p} : Writer(q)' => Writer(q)
  BY WriterLasts
<1>2. \A q \in Workers \ {p} : Writer(q) => step[q] = "idle"
  BY WriterAlone
<1> QED BY <1>1, <1>2 DEF Prepares

LEMMA SubmittedStays ==
  ASSUME UNCHANGED <<job, stage, intent, head, checkpoint, publications>>,
         NEW k \in Operations, Submitted(k)
  PROVE  Submitted(k)'
BY DEF Submitted, PinsCurrent, Published, Receipted

LEMMA CurrentStep ==
  TypeInv /\ LeaseInv /\ ChainInv /\ CurrentInv /\ [Next]_vars => CurrentInv'
<1> SUFFICES ASSUME TypeInv, LeaseInv, ChainInv, CurrentInv, [Next]_vars
             PROVE  CurrentInv'
  OBVIOUS
<1>0. /\ TypeOK /\ FencesDiffer /\ NothingSent
      /\ \A p \in Workers : Prepares(p)
      /\ \A k \in Operations : Submitted(k)
      /\ step \in [Workers -> {"idle", "claimed"} \cup Executing] /\ grant \in [Workers -> Grants]
      /\ stage \in [Operations -> Entries] /\ job \in [Operations -> JobStates]
      /\ intent \in [Operations -> Intents \cup {NoIntent}] /\ lease \in Leases
  BY DEF CurrentInv, TypeInv, TypeOK
<1> USE DEF evidenceVars, progressVars, workerVars, Goto
<1>1. ASSUME NEW p \in Workers, step[p] # "idle"
      PROVE  /\ grant[p].operation \in Operations /\ Exists(grant[p].operation)
             /\ Writer(p) => ~Published(grant[p].operation)
  <2>1. grant[p].operation \in Operations /\ Exists(grant[p].operation)
    BY <1>1 DEF TypeInv, Served
  <2> QED BY <2>1 DEF Writer, LeaseInv, PublishedRunEnded
<1>2. ASSUME Wanes, UNCHANGED <<step, grant, job, stage, head, checkpoint, publications>>, NothingSent',
             \A k \in Operations : intent'[k] = intent[k] \/ (PinsCurrent(k)' /\ ~Exists(k))
      PROVE  CurrentInv'
  <2>1. FencesDiffer'
    BY <1>0, <1>2, WriterLasts DEF FencesDiffer
  <2>2. \A k \in Operations : PinsCurrent(k) => PinsCurrent(k)'
    BY <1>2 DEF PinsCurrent
  <2>3. ASSUME NEW p \in Workers PROVE Prepares(p)'
    <3>1. Writer(p)' => Writer(p)
      BY <1>0, <1>2, WriterLasts
    <3>2. step[p] # "idle" => grant[p].operation \in Operations
      BY <1>1
    <3> QED BY <1>0, <1>2, <2>2, <3>1, <3>2 DEF Prepares, NothingToJoin
  <2>4. \A k \in Operations : Submitted(k)'
    BY <1>0, <1>2, <2>2 DEF Submitted, Published, Receipted
  <2> QED BY <1>2, <2>1, <2>3, <2>4 DEF CurrentInv
<1>3. CASE Register \/ Expire
  <2>1. Wanes /\ UNCHANGED <<step, grant, job, stage, head, checkpoint, publications, intent>>
    BY <1>3 DEF Register, Expire, Wanes
  <2> QED BY <1>0, <1>2, <2>1 DEF NothingSent
<1>4. ASSUME NEW k \in Operations, NEW kind \in Kinds,
             NEW first \in 1 .. MaxPosition, NEW last \in 1 .. MaxPosition,
             CreateIntent(k, kind, first, last)
      PROVE  CurrentInv'
  <2>1. /\ Wanes /\ UNCHANGED <<step, grant, job, stage, head, checkpoint, publications>>
        /\ intent' = [intent EXCEPT ![k] =
                        [kind |-> kind, first |-> first, last |-> last,
                         priorHead |-> head.publication, priorRevision |-> head.revision,
                         priorPosition |-> checkpoint.position,
                         priorVersion |-> checkpoint.version]]
        /\ ~Exists(k)
    BY <1>4 DEF CreateIntent, Wanes, Taken
  <2>2. PinsCurrent(k)'
    BY <1>0, <2>1 DEF PinsCurrent
  <2>3. \A j \in Operations \ {k} : intent'[j] = intent[j]
    BY <1>0, <2>1
  <2> QED BY <1>0, <1>2, <2>1, <2>2, <2>3 DEF NothingSent
<1>5. ASSUME NEW p \in Workers, NEW k \in Operations, Claim(p, k)
      PROVE  CurrentInv'
  <2>1. /\ step[p] = "idle" /\ step' = [step EXCEPT ![p] = "claimed"]
        /\ grant' = [grant EXCEPT ![p] = [operation |-> k, fence |-> lease.fence + 1]]
        /\ lease' = [holder |-> k, fence |-> lease.fence + 1, active |-> TRUE, run |-> "RUNNING"]
        /\ UNCHANGED <<job, stage, head, checkpoint, publications, intent>>
    BY <1>5 DEF Claim
  <2>2. lease.fence \in Nat /\ \A q \in Workers : grant[q].fence \in Nat
    BY <1>0 DEF Leases, Grants
  <2>3. /\ step'[p] = "claimed" /\ grant'[p].fence = lease.fence + 1
        /\ lease'.fence = lease.fence + 1
        /\ \A q \in Workers \ {p} : step'[q] = step[q] /\ grant'[q] = grant[q]
    BY <1>0, <2>1
  <2>4. FencesDiffer'
    BY <1>0, <2>2, <2>3 DEF FencesDiffer
  <2>5. \A q \in Workers \ {p} : Writer(q)' => step'[q] = "idle"
    BY <1>0, <2>2, <2>3 DEF Writer, FencesDiffer
  <2>6. \A q \in Workers : Prepares(q)'
    BY <2>3, <2>5 DEF Prepares
  <2> QED BY <1>0, <2>1, <2>4, <2>6, SubmittedStays DEF CurrentInv, NothingSent
<1>6. ASSUME NEW p \in Workers, Plan(p)
      PROVE  CurrentInv'
  <2> DEFINE k == grant[p].operation
  <2>1. /\ step[p] = "ready" /\ Writer(p) /\ PinsCurrent(k)
        /\ stage' = [stage EXCEPT ![k] = Entry("PLANNED", "NONE", FALSE, lease.fence)]
        /\ step' = [step EXCEPT ![p] = "planned"] /\ grant' = grant /\ lease' = lease
        /\ UNCHANGED <<job, intent, head, checkpoint, publications>>
    BY <1>6 DEF Plan, Fenced
  <2>2. k \in Operations
    BY <1>1, <2>1
  <2>3. Wanes /\ grant' = [grant EXCEPT ![p] = grant[p]]
    BY <1>0, <2>1 DEF Wanes
  <2>4. FencesDiffer'
    BY <1>0, <2>1, <2>3, FencesStay
  <2>5. PinsCurrent(k)' /\ stage'[k].entry = "PLANNED" /\ \A j \in Operations \ {k} : stage'[j] = stage[j]
    BY <1>0, <2>1, <2>2 DEF PinsCurrent, Entry
  <2>6. Prepares(p)'
    BY <1>0, <2>1, <2>2, <2>5 DEF Prepares, NothingToJoin
  <2>7. \A q \in Workers \ {p} : step'[q] = step[q] /\ grant'[q] = grant[q]
    BY <1>0, <2>1
  <2>8. \A q \in Workers : Prepares(q)'
    BY <1>0, <2>1, <2>3, <2>6, <2>7, WriterPrepares
  <2>9. \A j \in Operations : Submitted(j)'
    BY <1>0, <2>1, <2>2, <2>5 DEF Submitted, PinsCurrent, Published, Receipted
  <2> QED BY <1>0, <2>1, <2>4, <2>8, <2>9 DEF CurrentInv, NothingSent
<1>7. ASSUME NEW p \in Workers, Writer(p), step[p] # "idle", NEW outcome \in Outcomes, NEW exact,
             RecordReceipt(grant[p].operation, outcome, exact),
             \/ LateSubmissions
             \/ outcome \notin {"FAILED", "NOT_APPLIED"}
             \/ job[grant[p].operation] \notin {"sent", "running", "applied"},
             NEW next, next # "planned", step' = [step EXCEPT ![p] = next],
             next \in {"absent", "ready"} => NothingToJoin(grant[p].operation)
      PROVE  CurrentInv'
  <2> DEFINE k == grant[p].operation
  <2>1. /\ stage' = [stage EXCEPT ![k] = Entry("TARGET_RECEIPT", outcome, exact, lease.fence)]
        /\ lease' \in {lease, [lease EXCEPT !.run = "FAILED", !.active = FALSE]}
        /\ UNCHANGED <<job, intent, head, checkpoint, publications, grant>>
    BY <1>7 DEF RecordReceipt
  <2>2. k \in Operations
    BY <1>1, <1>7
  <2>3. Wanes /\ grant' = [grant EXCEPT ![p] = grant[p]]
    BY <1>0, <2>1 DEF Wanes
  <2>4. FencesDiffer'
    BY <1>0, <1>7, <2>3, FencesStay
  <2>5. stage'[k].outcome = outcome /\ \A j \in Operations \ {k} : stage'[j] = stage[j]
    BY <1>0, <2>1, <2>2 DEF Entry
  <2>6. step'[p] = next /\ \A q \in Workers \ {p} : step'[q] = step[q] /\ grant'[q] = grant[q]
    BY <1>0, <1>7, <2>1
  <2>7. Prepares(p)'
    BY <1>7, <2>1, <2>6 DEF Prepares, NothingToJoin
  <2>8. \A q \in Workers : Prepares(q)'
    BY <1>0, <1>7, <2>3, <2>6, <2>7, WriterPrepares
  <2>9. \A j \in Operations : PinsCurrent(j)' = PinsCurrent(j) /\ Published(j)' = Published(j)
    BY <2>1 DEF PinsCurrent, Published
  <2>10. \A j \in Operations : Submitted(j)'
    BY <1>0, <1>7, <2>1, <2>2, <2>5, <2>9 DEF Submitted, Receipted, Entry, Outcomes
  <2> QED BY <1>0, <2>1, <2>4, <2>8, <2>10 DEF CurrentInv, NothingSent
<1>8. ASSUME NEW p \in Workers, RecordAbsence(p) PROVE CurrentInv'
  <2>1. /\ step[p] = "absent" /\ Writer(p) /\ RecordReceipt(grant[p].operation, "NOT_APPLIED", FALSE)
        /\ step' = [step EXCEPT ![p] = "ready"]
    BY <1>8 DEF RecordAbsence, Fenced
  <2>2. NothingToJoin(grant[p].operation)
    BY <1>0, <2>1 DEF Prepares
  <2> QED BY <1>7, <2>1, <2>2 DEF Outcomes, NothingToJoin
<1>9. ASSUME NEW p \in Workers, RecordSuccess(p) PROVE CurrentInv'
  <2>1. /\ step[p] = "applied" /\ Writer(p) /\ RecordReceipt(grant[p].operation, "SUCCEEDED", TRUE)
        /\ step' = [step EXCEPT ![p] = "claimed"]
    BY <1>9 DEF RecordSuccess, Fenced
  <2> QED BY <1>7, <2>1 DEF Outcomes
<1>10. ASSUME NEW p \in Workers, Attest(p) PROVE CurrentInv'
  <2>1. step[p] = "claimed" /\ Writer(p) /\ step' = step
    BY <1>10 DEF Attest, Fenced
  <2>2. PICK outcome \in Outcomes : \E exact \in BOOLEAN :
          /\ Truthful(grant[p].operation, outcome)
          /\ RecordReceipt(grant[p].operation, outcome, exact)
    BY <1>10 DEF Attest
  <2>3. PICK exact \in BOOLEAN :
          /\ Truthful(grant[p].operation, outcome)
          /\ RecordReceipt(grant[p].operation, outcome, exact)
    BY <2>2
  <2>4. \/ LateSubmissions
        \/ outcome \notin {"FAILED", "NOT_APPLIED"}
        \/ job[grant[p].operation] \notin {"sent", "running", "applied"}
    BY <1>0, <1>1, <2>1, <2>3 DEF Truthful, NothingSent
  <2>5. step' = [step EXCEPT ![p] = "claimed"]
    BY <1>0, <2>1
  <2> QED BY <1>7, <2>1, <2>3, <2>4, <2>5
<1>11. ASSUME NEW p \in Workers, Reconcile(p) \/ ManualReview(p) PROVE CurrentInv'
  <2>1. Wanes /\ UNCHANGED <<step, grant, job, stage, head, checkpoint, publications, intent>>
    BY <1>11 DEF Reconcile, ManualReview, Wanes
  <2> QED BY <1>0, <1>2, <2>1 DEF NothingSent
<1>12. ASSUME NEW p \in Workers, Publish(p) PROVE CurrentInv'
  <2> DEFINE k == grant[p].operation
  <2>1. /\ step[p] = "claimed" /\ Writer(p)
        /\ lease' = [lease EXCEPT !.run = "SUCCEEDED", !.active = FALSE]
        /\ UNCHANGED <<intent, stage, job, step, grant>>
    BY <1>12 DEF Publish, Fenced
  <2>2. Wanes
    BY <2>1 DEF Wanes
  <2>3. FencesDiffer'
    BY <1>0, <2>1, <2>2, WriterLasts DEF FencesDiffer
  <2>4. \A q \in Workers : Prepares(q)'
    <3>1. Prepares(p)'
      BY <2>1 DEF Prepares
    <3> QED BY <1>0, <2>1, <2>2, <3>1, WriterPrepares
  <2>5. ASSUME NEW j \in Operations PROVE Submitted(j)'
    <3>1. SUFFICES ASSUME job[j] \in {"sent", "running", "applied"}, ~Published(j)',
                             ~(LateSubmissions /\ Receipted(j))
                      PROVE  FALSE
      BY <2>1 DEF Submitted, Receipted
    <3>2. ~Published(j) /\ j # k
      BY <1>12, <3>1, PublishedAfter
    <3>3. Unresolved(j)
      BY <1>0, <3>1, <3>2 DEF Submitted, Unresolved
    <3>4. lease.holder = j /\ lease.holder = k
      BY <2>1, <3>3 DEF LeaseInv, UnresolvedKeepsResource, Writer
    <3> QED BY <3>2, <3>4
  <2> QED BY <1>0, <2>1, <2>3, <2>4, <2>5 DEF CurrentInv, NothingSent
<1>13. ASSUME NEW p \in Workers, NEW next, step' = [step EXCEPT ![p] = next], step[p] # "idle", next # "planned",
              next \in {"absent", "ready"} => NothingToJoin(grant[p].operation),
              NEW g, grant' = [grant EXCEPT ![p] = g], next # "idle" => g = grant[p],
              UNCHANGED <<lease, job, stage, intent, head, checkpoint, publications>>
       PROVE  CurrentInv'
  <2>1. Wanes
    BY <1>13 DEF Wanes
  <2>2. FencesDiffer'
    BY <1>0, <1>13, <2>1, FencesStay
  <2>3. /\ step'[p] = next /\ grant'[p] = g
        /\ \A q \in Workers \ {p} : step'[q] = step[q] /\ grant'[q] = grant[q]
    BY <1>0, <1>13
  <2>4. Prepares(p)'
    BY <1>13, <2>3 DEF Prepares, NothingToJoin
  <2>5. \A q \in Workers : Prepares(q)'
    BY <1>0, <1>13, <2>1, <2>3, <2>4, OthersPrepare
  <2> QED BY <1>0, <1>13, <2>2, <2>5, SubmittedStays DEF CurrentInv, NothingSent
<1>14. ASSUME NEW p \in Workers, Lookup(p) \/ EndApply(p) \/ ExecuteFails(p) \/ Leave(p) PROVE CurrentInv'
  <2>1. /\ step[p] # "idle"
        /\ UNCHANGED <<lease, job, stage, intent, head, checkpoint, publications>>
    BY <1>14 DEF Lookup, Fenced, EndApply, ExecuteFails, Leave, Executing
  <2>2. CASE Lookup(p)
    <3>1. grant' = [grant EXCEPT ![p] = grant[p]]
      BY <1>0, <2>2 DEF Lookup
    <3>2. \/ step' = [step EXCEPT ![p] = "applied"]
          \/ /\ NothingToJoin(grant[p].operation)
             /\ step' = [step EXCEPT ![p] = "ready"] \/ step' = [step EXCEPT ![p] = "absent"]
      BY <1>0, <1>1, <2>1, <2>2 DEF Lookup, NothingSent, NothingToJoin
    <3> QED BY <1>13, <2>1, <3>1, <3>2
  <2>3. CASE EndApply(p) \/ ExecuteFails(p)
    <3>1. /\ grant' = [grant EXCEPT ![p] = grant[p]]
          /\ step' = [step EXCEPT ![p] = "applied"] \/ step' = [step EXCEPT ![p] = "claimed"]
      BY <1>0, <2>3 DEF EndApply, ExecuteFails
    <3> QED BY <1>13, <2>1, <3>1
  <2>4. CASE Leave(p)
    BY <1>13, <2>1, <2>4 DEF Leave
  <2> QED BY <1>14, <2>2, <2>3, <2>4
<1>15. ASSUME NEW p \in Workers, StartApply(p) PROVE CurrentInv'
  <2> DEFINE k == grant[p].operation
  <2>1. /\ step[p] = "planned" /\ Writer(p) /\ grant' = grant /\ lease' = lease
        /\ UNCHANGED <<stage, intent, head, checkpoint, publications>>
    BY <1>15 DEF StartApply, Fenced
  <2>2. /\ k \in Operations /\ NothingToJoin(k) /\ stage[k].entry = "PLANNED" /\ PinsCurrent(k)
    BY <1>0, <1>1, <2>1 DEF Prepares
  <2>3. PICK next \in {"applying", "applied"} : step' = [step EXCEPT ![p] = next]
    BY <1>15 DEF StartApply
  <2>4. \A j \in Operations \ {k} : job'[j] = job[j]
    BY <1>0, <1>15, <2>2 DEF StartApply
  <2>5. Wanes /\ grant' = [grant EXCEPT ![p] = grant[p]]
    BY <1>0, <2>1 DEF Wanes
  <2>6. FencesDiffer'
    BY <1>0, <2>1, <2>3, <2>5, FencesStay
  <2>7. step'[p] = next /\ \A q \in Workers \ {p} : step'[q] = step[q] /\ grant'[q] = grant[q]
    BY <1>0, <2>1, <2>3
  <2>8. Prepares(p)'
    BY <2>7 DEF Prepares
  <2>9. \A q \in Workers : Prepares(q)'
    BY <1>0, <2>1, <2>5, <2>7, <2>8, WriterPrepares
  <2>10. \A j \in Operations : Submitted(j)'
    BY <1>0, <2>1, <2>2, <2>4 DEF Submitted, PinsCurrent, Published, Receipted
  <2>11. NothingSent'
    BY <1>0, <1>15, <2>2, <2>4 DEF NothingSent, NothingToJoin, StartApply
  <2> QED BY <2>6, <2>9, <2>10, <2>11 DEF CurrentInv
<1>16. ASSUME NEW k \in Operations, Arrive(k) \/ EndJob(k) PROVE CurrentInv'
  <2>1. /\ job[k] \in {"sent", "running"} /\ job'[k] \in {"running", "applied", "failed"}
        /\ \A j \in Operations \ {k} : job'[j] = job[j]
        /\ UNCHANGED <<lease, step, grant, stage, intent, head, checkpoint, publications>>
    BY <1>0, <1>16 DEF Arrive, EndJob
  <2>2. FencesDiffer' /\ NothingSent'
    BY <1>0, <2>1 DEF FencesDiffer, NothingSent
  <2>3. \A p \in Workers : Prepares(p)'
    BY <1>0, <1>1, <2>1 DEF Prepares, NothingToJoin, Writer, PinsCurrent
  <2>4. \A j \in Operations : Submitted(j)'
    BY <1>0, <2>1 DEF Submitted, PinsCurrent, Published, Receipted
  <2> QED BY <2>2, <2>3, <2>4 DEF CurrentInv
<1>17. CASE UNCHANGED vars
  <2>1. Wanes /\ UNCHANGED <<step, grant, job, stage, head, checkpoint, publications, intent>>
    BY <1>17 DEF vars, Wanes
  <2> QED BY <1>0, <1>2, <2>1 DEF NothingSent
<1> QED
  BY <1>3, <1>4, <1>5, <1>6, <1>8, <1>9, <1>10, <1>11, <1>12, <1>14, <1>15, <1>16, <1>17
     DEF Next, WorkerStep

LEMMA CurrentInit == Init => CurrentInv
BY DEF Init, CurrentInv, FencesDiffer, NothingSent, Prepares, Submitted

(* Work that was submitted and has not failed finds the head and the        *)
(* checkpoint it pinned, so that publish does not lose its compare-and-swap *)
(* after the target has been changed; where submissions can outlive their   *)
(* caller, it can fail to only if an answer about it has been recorded.     *)
THEOREM SubmittedWorkIsCurrent == Spec => []SubmittedStaysCurrent
<1>1. TypeInv /\ LeaseInv /\ ChainInv /\ CurrentInv /\ [Next]_vars => CurrentInv'
  BY CurrentStep
<1>2. CurrentInv => SubmittedStaysCurrent
  BY DEF CurrentInv, Submitted, SubmittedStaysCurrent
<1>3. QED
  BY <1>1, <1>2, CurrentInit, ChainAlways, PTL DEF Spec
=============================================================================
