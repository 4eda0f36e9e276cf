------------------------- MODULE WarehouseReliability -------------------------
(***************************************************************************)
(* The durable warehouse protocol (warehouse_reliability_service) and the  *)
(* provider execution that drives it (warehouse_provider_service.execute), *)
(* for one resource generation and its PRIMARY source mapping.             *)
(*                                                                         *)
(* An operation is a request key with its immutable intent.  Every service *)
(* call is one transaction under the row lock of the model version, so it  *)
(* is one action; only the target's apply() runs inside a transaction that *)
(* stays open meanwhile.  A worker holds what a claim returned: operation, *)
(* run and fence.  Each claim makes one run and the next fence, so that a  *)
(* fence also names its run.                                               *)
(***************************************************************************)
EXTENDS Integers, Sequences, FiniteSets

CONSTANTS
    Operations,         \* request keys
    Workers,
    Kinds,              \* the operation kinds callers ask for
    MaxPosition,        \* bound: published source states
    MaxFence,           \* bound: claims on the resource
    LateSubmissions,    \* may a submission outlive the caller that sent it?
    NoOperation, NoWorker

AllKinds == {"INITIAL_LOAD", "INCREMENTAL", "REPLAY", "BACKFILL", "REBUILD"}

ASSUME ScopeAssumption ==
    /\ Kinds \subseteq AllKinds
    /\ MaxPosition \in Nat /\ MaxFence \in Nat
    /\ LateSubmissions \in BOOLEAN
    /\ NoOperation \notin Operations /\ NoWorker \notin Workers

VARIABLES
    registered,     \* accepted manifests of the mapping, at positions 1, 2, ...
    intent,         \* the immutable intent of each operation
    lease,          \* the resource's writer lease with the status of its run
    stage,          \* latest PLANNED or TARGET_RECEIPT entry of each operation
    blocked,        \* latest BLOCKED entry
    proof,          \* latest reconciliation
    publications, head, checkpoint,
    job,            \* the target's apply job, named by the application token
    step, grant,    \* what each worker does, with which claim
    lock            \* the worker whose transaction holds the model version

evidenceVars == <<stage, blocked, proof>>
progressVars == <<publications, head, checkpoint>>
workerVars == <<step, grant>>
vars == <<registered, intent, lease, evidenceVars, progressVars, job, workerVars, lock>>

Outcomes == {"SUCCEEDED", "FAILED", "UNKNOWN", "NOT_APPLIED"}
JobStates == {"none", "sent", "running", "applied", "failed"}
Executing == {"absent", "ready", "planned", "applying", "applied"}

Intents == [kind : AllKinds, first : Nat, last : Nat, priorHead : Nat,
            priorRevision : Nat, priorPosition : Nat, priorVersion : Nat]
NoIntent == [kind |-> "NONE", first |-> 0, last |-> 0, priorHead |-> 0,
             priorRevision |-> 0, priorPosition |-> 0, priorVersion |-> 0]

(* exact: the receipt's result equals the one the intent expects.           *)
Entries == [entry : {"NONE", "PLANNED", "TARGET_RECEIPT"},
            outcome : Outcomes \cup {"NONE"}, exact : BOOLEAN, run : Nat]
Entry(kind, outcome, exact, run) ==
    [entry |-> kind, outcome |-> outcome, exact |-> exact, run |-> run]
NoEntry == Entry("NONE", "NONE", FALSE, 0)

Proofs == [run : Nat, passed : BOOLEAN, receipt : Entries]
NoProof == [run |-> 0, passed |-> FALSE, receipt |-> NoEntry]

Leases == [holder : Operations \cup {NoOperation}, fence : Nat, active : BOOLEAN,
           run : {"NONE", "RUNNING", "SUCCEEDED", "FAILED"}]
Grants == [operation : Operations \cup {NoOperation}, fence : Nat]
NoGrant == [operation |-> NoOperation, fence |-> 0]

Publications == [operation : Operations, revision : Nat, previous : Nat, position : Nat]

TypeOK ==
    /\ registered \in 0 .. MaxPosition
    /\ intent \in [Operations -> Intents \cup {NoIntent}]
    /\ lease \in Leases
    /\ stage \in [Operations -> Entries]
    /\ blocked \in [Operations -> {"none", "mismatch", "manual"}]
    /\ proof \in [Operations -> Proofs]
    /\ publications \in Seq(Publications)
    /\ head \in [publication : Nat, revision : Nat]
    /\ checkpoint \in [position : 0 .. registered, version : Nat, publication : Nat]
    /\ job \in [Operations -> JobStates]
    /\ step \in [Workers -> {"idle", "claimed"} \cup Executing]
    /\ grant \in [Workers -> Grants]
    /\ lock \in Workers \cup {NoWorker}

Init ==
    /\ registered = 0
    /\ intent = [k \in Operations |-> NoIntent]
    /\ lease = [holder |-> NoOperation, fence |-> 0, active |-> FALSE, run |-> "NONE"]
    /\ stage = [k \in Operations |-> NoEntry]
    /\ blocked = [k \in Operations |-> "none"]
    /\ proof = [k \in Operations |-> NoProof]
    /\ publications = <<>>
    /\ head = [publication |-> 0, revision |-> 0]
    /\ checkpoint = [position |-> 0, version |-> 0, publication |-> 0]
    /\ job = [k \in Operations |-> "none"]
    /\ step = [p \in Workers |-> "idle"]
    /\ grant = [p \in Workers |-> NoGrant]
    /\ lock = NoWorker
-----------------------------------------------------------------------------
(* Accepted manifests and intents.                                         *)

(* register(): the first publication of the source chain that has no        *)
(* manifest yet gets the next position.                                     *)
Register ==
    /\ lock = NoWorker
    /\ registered < MaxPosition
    /\ registered' = registered + 1
    /\ UNCHANGED <<intent, lease, evidenceVars, progressVars, job, workerVars, lock>>

Exists(k) == intent[k] # NoIntent
Published(k) == \E i \in DOMAIN publications : publications[i].operation = k

Advances(kind) == kind \in {"INITIAL_LOAD", "INCREMENTAL", "REBUILD"}

(* dispatch_key: the request key counts only for REPLAY and BACKFILL.       *)
SameDispatch(k, kind, first, last) ==
    /\ Exists(k)
    /\ intent[k].kind = kind /\ intent[k].first = first /\ intent[k].last = last
    /\ kind \notin {"REPLAY", "BACKFILL"}

(* Both keys are unique: create_intent returns or refuses what is there.    *)
Taken(k, kind, first, last) ==
    Exists(k) \/ \E other \in Operations : SameDispatch(other, kind, first, last)

Startable(kind, first, last) ==
    /\ kind = "REBUILD" => checkpoint.position = 0
    /\ kind = "REPLAY" => last <= checkpoint.position
    /\ kind \in {"INITIAL_LOAD", "INCREMENTAL"} => first = checkpoint.position + 1
    /\ kind \in {"INITIAL_LOAD", "REBUILD"} => first = 1

(* create_intent(): a new intent pins the head and the checkpoint.          *)
CreateIntent(k, kind, first, last) ==
    /\ lock = NoWorker
    /\ first <= last /\ last <= registered
    /\ ~Taken(k, kind, first, last)
    /\ Startable(kind, first, last)
    /\ intent' = [intent EXCEPT ![k] =
                    [kind |-> kind, first |-> first, last |-> last,
                     priorHead |-> head.publication, priorRevision |-> head.revision,
                     priorPosition |-> checkpoint.position,
                     priorVersion |-> checkpoint.version]]
    /\ UNCHANGED <<registered, lease, evidenceVars, progressVars, job, workerVars, lock>>

PinsCurrent(k) ==
    /\ intent[k].priorHead = head.publication
    /\ intent[k].priorPosition = checkpoint.position
    /\ intent[k].priorVersion = checkpoint.version
-----------------------------------------------------------------------------
(* Leases and fences.                                                      *)

(* What happened at the target is unknown, or happened and is unpublished.  *)
Unresolved(k) ==
    /\ ~Published(k)
    /\ stage[k].entry = "PLANNED" \/ stage[k].outcome \in {"SUCCEEDED", "UNKNOWN"}

(* Slips: an answer of the target is not thought to be in the way; manual   *)
(* review stops only the operation it was asked for.                        *)
SupersededWhenAnswered(k) ==
    k # NoOperation => blocked[k] # "manual" /\ stage[k].entry # "PLANNED"
SupersededUnlessUnresolved(k) == k # NoOperation => ~Unresolved(k)

(* Another operation's expired lease may be taken over.                     *)
Superseded(k) == k # NoOperation => blocked[k] # "manual" /\ ~Unresolved(k)

Claimable(k) ==
    /\ Exists(k) /\ ~Published(k) /\ blocked[k] # "manual"
    /\ ~lease.active
    /\ lease.holder # k => Superseded(lease.holder)

(* claim(): the abandoned run fails, a new one runs under the next fence.   *)
Claim(p, k) ==
    /\ lock = NoWorker
    /\ step[p] = "idle"
    /\ Claimable(k)
    /\ lease.fence < MaxFence
    /\ lease' = [holder |-> k, fence |-> lease.fence + 1, active |-> TRUE,
                 run |-> "RUNNING"]
    /\ grant' = [grant EXCEPT ![p] = [operation |-> k, fence |-> lease.fence + 1]]
    /\ step' = [step EXCEPT ![p] = "claimed"]
    /\ UNCHANGED <<registered, intent, evidenceVars, progressVars, job, lock>>

Expire ==
    /\ lease.active
    /\ lease' = [lease EXCEPT !.active = FALSE]
    /\ UNCHANGED <<registered, intent, evidenceVars, progressVars, job, workerVars, lock>>

(* Slip: the fence is not compared.                                        *)
UnfencedWriter(p) ==
    /\ lease.active /\ lease.run = "RUNNING"
    /\ lease.holder = grant[p].operation

Writer(p) ==
    /\ lease.active /\ lease.run = "RUNNING"
    /\ lease.holder = grant[p].operation /\ lease.fence = grant[p].fence

(* A call of worker p that begins with _writer, under the version lock.     *)
Fenced(p, from) == lock = NoWorker /\ step[p] = from /\ Writer(p)

Goto(p, next) == step' = [step EXCEPT ![p] = next]
-----------------------------------------------------------------------------
(* plan, record_receipt, reconcile, publish, manual_review.                *)

Receipted(k) == stage[k].entry = "TARGET_RECEIPT"

RetrySafe(k) ==
    stage[k].entry = "NONE" \/ stage[k].outcome \in {"FAILED", "NOT_APPLIED"}

Plan(p) ==
    LET k == grant[p].operation IN
    /\ Fenced(p, "ready")
    /\ RetrySafe(k) /\ PinsCurrent(k)
    /\ stage' = [stage EXCEPT ![k] = Entry("PLANNED", "NONE", FALSE, lease.fence)]
    /\ Goto(p, "planned")
    /\ UNCHANGED <<registered, intent, lease, blocked, proof, progressVars, job, grant, lock>>

(* A known failure ends the run and the lease.                              *)
RecordReceipt(k, outcome, exact) ==
    /\ stage[k].entry # "NONE"
    /\ stage' = [stage EXCEPT ![k] = Entry("TARGET_RECEIPT", outcome, exact, lease.fence)]
    /\ lease' = IF outcome = "FAILED" THEN [lease EXCEPT !.run = "FAILED", !.active = FALSE]
                                      ELSE lease
    /\ UNCHANGED <<registered, intent, blocked, proof, progressVars, job, grant, lock>>

Passes(receipt) == receipt.outcome = "SUCCEEDED" /\ receipt.exact

Reconcile(p) ==
    LET k == grant[p].operation IN
    /\ Fenced(p, "claimed")
    /\ Receipted(k)
    /\ proof' = [proof EXCEPT ![k] = [run |-> lease.fence, passed |-> Passes(stage[k]),
                                      receipt |-> stage[k]]]
    /\ blocked' = IF Passes(stage[k]) THEN blocked ELSE [blocked EXCEPT ![k] = "mismatch"]
    /\ UNCHANGED <<registered, intent, lease, stage, progressVars, job, workerVars, lock>>

(* Slip: an older proof is good enough.                                    *)
ProvenOnce(k) == proof[k].passed

(* The latest reconciliation passed, under this fence, on the latest entry. *)
Proven(k) ==
    /\ proof[k].passed /\ proof[k].run = lease.fence
    /\ Receipted(k) /\ proof[k].receipt = stage[k]

(* Slips: the checkpoint follows whatever was processed, or lies past it.  *)
PositionProcessed(b) == b.last
PositionPastEnd(b) == IF Advances(b.kind) THEN b.last + 1 ELSE b.priorPosition

PositionAfter(b) == IF Advances(b.kind) THEN b.last ELSE b.priorPosition

Publish(p) ==
    LET k == grant[p].operation
        b == intent[k]
        id == Len(publications) + 1
    IN
    /\ Fenced(p, "claimed")
    /\ Proven(k) /\ PinsCurrent(k)
    /\ Advances(b.kind) => b.first = b.priorPosition + 1
    /\ head.publication # 0 => head.revision = b.priorRevision
    /\ publications' = Append(publications,
                              [operation |-> k, revision |-> b.priorRevision + 1,
                               previous |-> b.priorHead, position |-> PositionAfter(b)])
    /\ head' = [publication |-> id, revision |-> IF head.publication = 0
                                                 THEN b.priorRevision + 1
                                                 ELSE head.revision + 1]
    /\ checkpoint' = [position |-> PositionAfter(b), version |-> checkpoint.version + 1,
                      publication |-> id]
    /\ lease' = [lease EXCEPT !.run = "SUCCEEDED", !.active = FALSE]
    /\ UNCHANGED <<registered, intent, evidenceVars, job, workerVars, lock>>

ManualReview(p) ==
    /\ Fenced(p, "claimed")
    /\ blocked' = [blocked EXCEPT ![grant[p].operation] = "manual"]
    /\ lease' = [lease EXCEPT !.run = "FAILED"]
    /\ UNCHANGED <<registered, intent, stage, proof, progressVars, job, workerVars, lock>>

(* record_receipt() called by a target adapter: what it attests is true,    *)
(* except that a submission still on its way looks like none.               *)
Truthful(k, outcome) ==
    CASE outcome = "SUCCEEDED" -> job[k] = "applied"
      [] outcome = "FAILED" -> job[k] = "failed"
      [] outcome = "NOT_APPLIED" -> job[k] \in {"none", "sent"}
      [] OTHER -> TRUE

Attest(p) ==
    LET k == grant[p].operation IN
    /\ Fenced(p, "claimed")
    /\ \E outcome \in Outcomes, exact \in BOOLEAN :
         /\ Truthful(k, outcome)
         /\ exact => outcome = "SUCCEEDED"
         /\ RecordReceipt(k, outcome, exact)
    /\ UNCHANGED step
-----------------------------------------------------------------------------
(* ProviderService.execute.                                                *)

(* First transaction: the token is looked up.  A running job and a failed   *)
(* one raise.  The last transaction only verifies a candidate found applied.*)
Lookup(p) ==
    LET k == grant[p].operation IN
    /\ Fenced(p, "claimed")
    /\ \/ job[k] = "applied" /\ Goto(p, "applied")
       \/ /\ job[k] \in {"none", "sent"}
          /\ Goto(p, IF stage[k].entry = "NONE" THEN "ready" ELSE "absent")
    /\ UNCHANGED <<registered, intent, lease, evidenceVars, progressVars, job, grant, lock>>

(* An earlier plan is uncertainty: its absence is recorded before planning. *)
RecordAbsence(p) ==
    /\ Fenced(p, "absent")
    /\ RecordReceipt(grant[p].operation, "NOT_APPLIED", FALSE)
    /\ Goto(p, "ready")

(* Last transaction, open until the target has answered.  The job id is the *)
(* token's: a second submission joins the first.  The call may fail before  *)
(* it reaches the provider.                                                 *)
StartApply(p) ==
    LET k == grant[p].operation IN
    /\ Fenced(p, "planned")
    /\ \/ job[k] = "applied" /\ Goto(p, "applied") /\ UNCHANGED <<job, lock>>
       \/ /\ job[k] \in {"none", "sent"}
          /\ \E sent \in {"running", job[k]} \cup (IF LateSubmissions THEN {"sent"} ELSE {}) :
               job' = [job EXCEPT ![k] = sent]
          /\ Goto(p, "applying")
          /\ lock' = p
    /\ UNCHANGED <<registered, intent, lease, evidenceVars, progressVars, grant>>

EndApply(p) ==
    /\ step[p] = "applying"
    /\ job[grant[p].operation] = "applied"
    /\ Goto(p, "applied")
    /\ lock' = NoWorker
    /\ UNCHANGED <<registered, intent, lease, evidenceVars, progressVars, job, grant>>

RecordSuccess(p) ==
    /\ Fenced(p, "applied")
    /\ RecordReceipt(grant[p].operation, "SUCCEEDED", TRUE)
    /\ Goto(p, "claimed")

Unlock(p) == lock' = IF lock = p THEN NoWorker ELSE lock

(* execute() raises: a timeout, a lost answer, a drifted pin, a fence.      *)
ExecuteFails(p) ==
    /\ step[p] \in Executing
    /\ Goto(p, "claimed")
    /\ Unlock(p)
    /\ UNCHANGED <<registered, intent, lease, evidenceVars, progressVars, job, grant>>

(* The worker is done with its claim or its process dies: an open           *)
(* transaction rolls back and frees the version.                            *)
Leave(p) ==
    /\ step[p] # "idle"
    /\ Goto(p, "idle")
    /\ grant' = [grant EXCEPT ![p] = NoGrant]
    /\ Unlock(p)
    /\ UNCHANGED <<registered, intent, lease, evidenceVars, progressVars, job>>
-----------------------------------------------------------------------------
(* The provider.                                                           *)

Arrive(k) ==
    /\ job[k] = "sent"
    /\ job' = [job EXCEPT ![k] = "running"]
    /\ UNCHANGED <<registered, intent, lease, evidenceVars, progressVars, workerVars, lock>>

EndJob(k) ==
    /\ job[k] = "running"
    /\ \E outcome \in {"applied", "failed"} : job' = [job EXCEPT ![k] = outcome]
    /\ UNCHANGED <<registered, intent, lease, evidenceVars, progressVars, workerVars, lock>>

WorkerStep(p) ==
    \/ \E k \in Operations : Claim(p, k)
    \/ Lookup(p) \/ RecordAbsence(p) \/ Plan(p) \/ StartApply(p) \/ EndApply(p)
    \/ RecordSuccess(p) \/ Reconcile(p)
    \/ Attest(p) \/ ManualReview(p) \/ Publish(p)
    \/ ExecuteFails(p) \/ Leave(p)

Next ==
    \/ Register
    \/ \E k \in Operations, kind \in Kinds, first, last \in 1 .. MaxPosition :
         CreateIntent(k, kind, first, last)
    \/ \E p \in Workers : WorkerStep(p)
    \/ \E k \in Operations : Arrive(k) \/ EndJob(k)
    \/ Expire

Spec == Init /\ [][Next]_vars
-----------------------------------------------------------------------------
(* Properties.                                                             *)

(* The head and the checkpoint, each updated by a statement of its own,     *)
(* always describe the last publication.  Publications form one chain       *)
(* without gaps or forks; no operation is in it twice; the normal ones      *)
(* process positions 1, 2, ... in order, each once, and a replay or a       *)
(* backfill leaves the position where it was.                               *)
PositionBefore(i) == IF i = 1 THEN 0 ELSE publications[i - 1].position

ChainedAt(i) ==
    LET b == intent[publications[i].operation] IN
    /\ publications[i].revision = i /\ publications[i].previous = i - 1
    /\ IF Advances(b.kind)
       THEN b.first = PositionBefore(i) + 1 /\ publications[i].position = b.last
       ELSE publications[i].position = PositionBefore(i)

ProgressIsChain ==
    LET n == Len(publications) IN
    /\ head = [publication |-> n, revision |-> n]
    /\ checkpoint = [position |-> PositionBefore(n + 1), version |-> n, publication |-> n]
    /\ \A i \in 1 .. n : ChainedAt(i)
    /\ \A i, j \in 1 .. n : publications[i].operation = publications[j].operation => i = j

(* An operation whose effect at the target is uncertain, or known and not   *)
(* yet published, keeps the resource: it is the lease's holder, so that no  *)
(* other operation gets past it by waiting for the lease to expire.         *)
UnresolvedKeepsResource ==
    \A k \in Operations : Unresolved(k) => lease.holder = k

(* What is published was applied at the target, with the result its intent  *)
(* expects, and nothing recorded later says otherwise - also when the       *)
(* answer was lost and another worker recovered it under another fence.     *)
PublishedWasApplied ==
    \A k \in Operations :
        Published(k) => /\ job[k] = "applied"
                        /\ stage[k].outcome = "SUCCEEDED" /\ stage[k].exact

(* Work that has been submitted and not failed can still be published: the  *)
(* head and the checkpoint are the ones its intent pinned, so that publish  *)
(* never loses its compare-and-swap after the target has been changed.      *)
(* Where a submission can outlive its caller, only work the protocol has    *)
(* recorded an answer about can be behind: "not applied", said before the   *)
(* submission arrived, gives up the resource.                               *)
SubmittedStaysCurrent ==
    \A k \in Operations :
        job[k] \in {"sent", "running", "applied"} /\ ~Published(k) =>
            PinsCurrent(k) \/ (LateSubmissions /\ Receipted(k))

(* A published operation is closed: no worker that still holds an old claim *)
(* of it, and no later claim, adds a receipt, a reconciliation or a block.  *)
PublishedIsClosed ==
    [][\A k \in Operations : Published(k) =>
         stage'[k] = stage[k] /\ proof'[k] = proof[k] /\ blocked'[k] = blocked[k]]_vars

(* Manual review stops the resource for every operation: nothing is claimed *)
(* or published any more.                                                   *)
ManualReviewStopsResource ==
    [][(\E k \in Operations : blocked[k] = "manual") =>
         publications' = publications /\ lease'.fence = lease.fence]_vars

(* When an intent has lost the race for its pins, its positions can be      *)
(* dispatched again under a request key nobody has used.                    *)
Lost(k) == Exists(k) /\ ~Published(k) /\ ~PinsCurrent(k) /\ ~Unresolved(k)

LosingIntentCanBeReplaced ==
    \A k, fresh \in Operations :
        LET b == intent[k] IN
        Lost(k) /\ ~Exists(fresh) /\ Startable(b.kind, b.first, b.last)
          => ~Taken(fresh, b.kind, b.first, b.last)

(* The protocol implements an append-only log of publications that consumes *)
(* accepted positions in order and each of them once.                       *)
Log == INSTANCE PublicationLog WITH
    accepted <- registered,
    consumed <- checkpoint.position,
    published <- [i \in DOMAIN publications |-> publications[i].operation]

LogImplemented == Log!Spec
=============================================================================
