------------------------ MODULE IncrementalApplication ------------------------
(***************************************************************************)
(* Applying the deliveries of one dataset to its trusted state             *)
(* (append_application_service, incremental_application_service,           *)
(* incremental_policy_service, snapshot_context_service and the archive).  *)
(* A state is the set of deliveries whose rows its engine merged; Silver   *)
(* of every delivery is there when the model starts.                       *)
(*                                                                         *)
(* The dataset lock and the lifecycle lock of the upload are held on       *)
(* connections of their own: either can be lost while the worker goes on   *)
(* (adr-0001: "session locks require a live connection").                  *)
(***************************************************************************)
EXTENDS Integers, Sequences, FiniteSets

CONSTANTS
    Uploads, Workers,
    Strategies,         \* load strategies an owner may save
    RuleTables,         \* which rule version Silver of each upload ran under
    ExactRules,         \* the rule versions that declare exact decimals
    ExactEnabled,       \* the test gate of exact APPEND
    MaxPolicies, MaxStates, MaxFaults   \* bounds

ASSUME ApplicationAssumption ==
    /\ IsFiniteSet(Uploads)
    /\ Strategies \subseteq {"APPEND", "UPSERT", "SNAPSHOT"}
    /\ RuleTables \subseteq [Uploads -> Nat \ {0}]
    /\ ExactRules \subseteq Nat
    /\ ExactEnabled \in BOOLEAN
    /\ {MaxPolicies, MaxStates, MaxFaults} \subseteq Nat

VARIABLES
    rulesOf,            \* data_quality_runs: the approved rule version of each upload
    policies,           \* dataset_load_policies: the strategy of each version
    declared,           \* snapshot_delivery_contexts
    application,        \* delivery_applications
    manifests,          \* delivery_manifests: uploads that have one
    states,             \* dataset_state_versions
    head,               \* datasets.current_state_id
    archived,
    at, job, held,      \* workers: place, upload and the session locks they hold
    base, candidate,    \* workers: the head they read, the state they staged
    overtaken,          \* history: archived by or beside a request without its lock, too late
    faults

tables == <<rulesOf, policies, declared, application, manifests, states, head, archived>>
workers == <<at, job, held, base, candidate>>
applicationVars == <<tables, workers, overtaken, faults>>

Unapplied == [status |-> "ABSENT", policy |-> 0, result |-> 0]
InTry == {"running", "manifested", "read", "staged", "checked", "lost"}

Init ==
    /\ rulesOf \in RuleTables
    /\ policies = <<>> /\ states = <<>> /\ head = 0
    /\ declared = [u \in Uploads |-> FALSE]
    /\ application = [u \in Uploads |-> Unapplied]
    /\ manifests = {} /\ archived = {}
    /\ at = [w \in Workers |-> "idle"]
    /\ job = [w \in Workers |-> 0]
    /\ held = [w \in Workers |-> {}]
    /\ base = [w \in Workers |-> 0]
    /\ candidate = [w \in Workers |-> 0]
    /\ overtaken = {}
    /\ faults = 0
-----------------------------------------------------------------------------
Exact(u) == rulesOf[u] \in ExactRules
ManifestVersion(u) == IF Exact(u) THEN 2 ELSE 1

Published(s) == states[s].status = "PUBLISHED"
Source(s) == states[s].upload

(* What the rows of a state come from: the engine keeps what it was given.  *)
Contents(s) == IF s = 0 THEN {} ELSE states[s].contents

(* selected_policy: the pinned one, else the latest.                        *)
SelectedPolicy(u) == IF application[u].policy # 0 THEN application[u].policy ELSE Len(policies)

DatasetFree == \A w \in Workers : "dataset" \notin held[w]
LifecycleFree(u) == \A w \in Workers : ~("lifecycle" \in held[w] /\ job[w] = u)

Fault == faults < MaxFaults /\ faults' = faults + 1
Goto(w, place) == at' = [at EXCEPT ![w] = place]

Leave(w) ==
    /\ Goto(w, "idle")
    /\ job' = [job EXCEPT ![w] = 0]
    /\ held' = [held EXCEPT ![w] = {}]
    /\ base' = [base EXCEPT ![w] = 0]
    /\ candidate' = [candidate EXCEPT ![w] = 0]
-----------------------------------------------------------------------------
(* save_policy: a new version until the first state is published.           *)
PolicyChangeable(expected) == expected = Len(policies) /\ head = 0

SavePolicy(strategy, expected) ==
    /\ DatasetFree
    /\ Len(policies) < MaxPolicies
    /\ Len(policies) > 0 => policies[Len(policies)] # strategy
    /\ PolicyChangeable(expected)
    /\ policies' = Append(policies, strategy)
    /\ UNCHANGED <<rulesOf, declared, application, manifests, states, head, archived, workers, overtaken, faults>>

DeclareSnapshot(u) ==
    /\ DatasetFree /\ LifecycleFree(u)
    /\ u \notin archived
    /\ policies # <<>> /\ policies[Len(policies)] = "SNAPSHOT"
    /\ ~declared[u] /\ application[u].status = "ABSENT"
    /\ declared' = [declared EXCEPT ![u] = TRUE]
    /\ UNCHANGED <<rulesOf, policies, application, manifests, states, head, archived, workers, overtaken, faults>>

(* prepare_application for a delivery that is not pinned yet.               *)
Preparable(u) ==
    LET p == SelectedPolicy(u) IN
    /\ head # 0 => states[head].policy = p
    /\ policies[p] = "SNAPSHOT" => declared[u]

Prepared(u) ==
    IF application[u].status = "ABSENT"
    THEN [application EXCEPT ![u] = [status |-> "PREPARED", policy |-> SelectedPolicy(u), result |-> 0]]
    ELSE application

(* apply_incremental up to prepare_application, under both locks. The owner *)
(* may call it outside of continue_processing and its delivery lock.        *)
BeginApply(w, u) ==
    /\ at[w] = "idle"
    /\ DatasetFree /\ LifecycleFree(u)
    /\ policies # <<>>
    /\ application[u].status # "SUCCESS"
    /\ u \notin archived
    /\ application[u].status = "ABSENT" => Preparable(u)
    /\ application' = Prepared(u)
    /\ Goto(w, "prepared")
    /\ job' = [job EXCEPT ![w] = u]
    /\ held' = [held EXCEPT ![w] = {"dataset", "lifecycle"}]
    /\ UNCHANGED <<rulesOf, policies, declared, manifests, states, head, archived, base, candidate, overtaken, faults>>

(* pinned_exact_rules and the gate raise before the application is RUNNING. *)
Gate(u) == Exact(u) => policies[application[u].policy] = "APPEND" /\ ExactEnabled

RefuseExact(w) ==
    /\ at[w] = "prepared"
    /\ ~Gate(job[w])
    /\ Leave(w)
    /\ UNCHANGED <<tables, overtaken, faults>>

(* The publishing transaction holds the row of its application.             *)
RowFree(w, u) == \A other \in Workers \ {w} : ~(at[other] = "checked" /\ job[other] = u)

(* The table refuses to change an application that is SUCCESS.              *)
SetApplication(u, status) ==
    /\ application[u].status # "SUCCESS"
    /\ application' = [application EXCEPT ![u].status = status]

StartApply(w) ==
    /\ at[w] = "prepared"
    /\ Gate(job[w])
    /\ RowFree(w, job[w])
    /\ SetApplication(job[w], "RUNNING")
    /\ Goto(w, "running")
    /\ UNCHANGED <<rulesOf, policies, declared, manifests, states, head, archived, job, held, base, candidate, overtaken, faults>>

(* The first manifest of an application stays; later runs verify it.        *)
DeliveryManifest(w) ==
    /\ at[w] = "running"
    /\ manifests' = manifests \cup {job[w]}
    /\ Goto(w, "manifested")
    /\ UNCHANGED <<rulesOf, policies, declared, application, states, head, archived, job, held, base, candidate, overtaken, faults>>

(* Slip: an exact state is extended under other rules.                      *)
SameFormat(u) == head # 0 => states[head].version = ManifestVersion(u)

(* current_state: the policy of the head, its manifest version and, for an  *)
(* exact state, the rule version of its last delivery.                      *)
Compatible(u) ==
    head # 0 =>
        /\ states[head].policy = application[u].policy
        /\ states[head].version = ManifestVersion(u)
        /\ Exact(u) => rulesOf[Source(head)] = rulesOf[u]

ReadHead(w) ==
    /\ at[w] = "manifested"
    /\ Compatible(job[w])
    /\ base' = [base EXCEPT ![w] = head]
    /\ Goto(w, "read")
    /\ UNCHANGED <<tables, job, held, candidate, overtaken, faults>>

(* The engine runs and the candidate is written, then its row inserted.     *)
Stage(w) ==
    LET u == job[w] IN
    /\ at[w] = "read"
    /\ Len(states) < MaxStates
    /\ states' = Append(states, [upload |-> u, previous |-> base[w], policy |-> application[u].policy,
                                 version |-> ManifestVersion(u), status |-> "STAGED",
                                 contents |-> Contents(base[w]) \cup {u}])
    /\ candidate' = [candidate EXCEPT ![w] = Len(states) + 1]
    /\ Goto(w, "staged")
    /\ UNCHANGED <<rulesOf, policies, declared, application, manifests, head, archived, job, held, base, overtaken, faults>>

(* Slip: the head is not compared with the one the candidate was built on.  *)
HeadCompatible(s) == head # 0 => states[head].policy = states[s].policy

(* _publish_metadata: the head must be the one the candidate was built on.  *)
HeadUnchanged(s) ==
    /\ head = states[s].previous
    /\ head # 0 => states[head].policy = states[s].policy

(* Slip: only the locks keep an archived delivery out.                      *)
StillRunning(u) == application[u].status = "RUNNING"

Publishable(u) == application[u].status = "RUNNING" /\ u \notin archived

(* The publishing transaction begins: it takes the row of the application,  *)
(* and reads the archive mark without taking the row that has it.           *)
RequireActive(w) ==
    /\ at[w] = "staged"
    /\ RowFree(w, job[w])
    /\ Publishable(job[w])
    /\ Goto(w, "checked")
    /\ UNCHANGED <<tables, job, held, base, candidate, overtaken, faults>>

Publish(w) ==
    LET u == job[w]
        s == candidate[w] IN
    /\ at[w] = "checked"
    /\ HeadUnchanged(s)
    /\ states' = [states EXCEPT ![s].status = "PUBLISHED"]
    /\ head' = s
    /\ application' = [application EXCEPT ![u].status = "SUCCESS", ![u].result = s]
    /\ \/ Leave(w) /\ UNCHANGED faults
       \/ Goto(w, "lost") /\ Fault /\ UNCHANGED <<job, held, base, candidate>>
    /\ UNCHANGED <<rulesOf, policies, declared, manifests, archived, overtaken>>

(* The update to RUNNING is refused for an application another worker       *)
(* published meanwhile.                                                     *)
Stuck(w) ==
    \/ at[w] = "prepared" /\ application[job[w]].status = "SUCCESS"
    \/ at[w] = "lost"
    \/ at[w] = "manifested" /\ ~Compatible(job[w])
    \/ at[w] = "staged" /\ ~Publishable(job[w])
    \/ at[w] = "checked" /\ ~HeadUnchanged(candidate[w])

(* Slip: a lost answer turns the published application FAILED.              *)
AlwaysFailed(u) == [application EXCEPT ![u].status = "FAILED"]

FailedUnlessSuccess(u) ==
    IF application[u].status = "SUCCESS" THEN application
    ELSE [application EXCEPT ![u].status = "FAILED"]

(* The except block of apply_incremental.                                   *)
ApplyFails(w) ==
    /\ \/ at[w] \in InTry
       \/ at[w] = "prepared" /\ Gate(job[w])
    /\ \/ Stuck(w) /\ UNCHANGED faults
       \/ Fault
    /\ RowFree(w, job[w])
    /\ application' = FailedUnlessSuccess(job[w])
    /\ Leave(w)
    /\ UNCHANGED <<rulesOf, policies, declared, manifests, states, head, archived, overtaken>>

CrashApply(w) == at[w] # "idle" /\ Fault /\ Leave(w) /\ UNCHANGED <<tables, overtaken>>

LoseLock(w) ==
    /\ Fault
    /\ \E lock \in held[w] : held' = [held EXCEPT ![w] = @ \ {lock}]
    /\ UNCHANGED <<tables, at, job, base, candidate, overtaken>>
-----------------------------------------------------------------------------
(* application_context: a delivery its policy or the head keeps out.        *)
Blocked(u) ==
    /\ policies # <<>>
    /\ LET p == SelectedPolicy(u) IN
       \/ policies[p] = "SNAPSHOT" /\ ~declared[u]
       \/ head # 0 /\ states[head].policy # p

(* archive_delivery, for deliveries between Silver and Gold: the lock and   *)
(* the context, and later the update that reads neither of them again.      *)
BeginArchive(w, u) ==
    /\ at[w] = "idle"
    /\ LifecycleFree(u)
    /\ u \notin archived
    /\ application[u].status = "RUNNING" => Blocked(u)
    /\ Goto(w, "archiving")
    /\ job' = [job EXCEPT ![w] = u]
    /\ held' = [held EXCEPT ![w] = {"lifecycle"}]
    /\ UNCHANGED <<tables, base, candidate, overtaken, faults>>

(* The archive comes too late for a publication that has looked at the mark *)
(* and has not committed. This takes a lock that one of the two has lost.   *)
Overtaken(w) ==
    {u \in {job[w]} : \E other \in Workers :
        at[other] = "checked" /\ job[other] = u /\ "lifecycle" \notin held[w] \cap held[other]}

Archive(w) ==
    /\ at[w] = "archiving"
    /\ archived' = archived \cup {job[w]}
    /\ overtaken' = overtaken \cup Overtaken(w)
    /\ Leave(w)
    /\ UNCHANGED <<rulesOf, policies, declared, application, manifests, states, head, faults>>
-----------------------------------------------------------------------------
Apply(w) ==
    \/ StartApply(w) \/ DeliveryManifest(w) \/ ReadHead(w) \/ Stage(w) \/ RequireActive(w)
    \/ ApplyFails(w) \/ RefuseExact(w)

Unpublished(w) ==
    \/ Apply(w) \/ Archive(w) \/ CrashApply(w) \/ LoseLock(w)
    \/ \E u \in Uploads : BeginApply(w, u) \/ BeginArchive(w, u)

Owner ==
    \/ \E strategy \in Strategies, expected \in 0 .. MaxPolicies : SavePolicy(strategy, expected)
    \/ \E u \in Uploads : DeclareSnapshot(u)

Next ==
    \/ \E w \in Workers : Unpublished(w) \/ Publish(w)
    \/ Owner

Spec == Init /\ [][Next]_applicationVars
-----------------------------------------------------------------------------
ApplicationTypeOK ==
    /\ policies \in Seq(Strategies)
    /\ declared \in [Uploads -> BOOLEAN]
    /\ application \in [Uploads -> [status : {"ABSENT", "PREPARED", "RUNNING", "FAILED", "SUCCESS"},
                                    policy : 0 .. Len(policies), result : 0 .. Len(states)]]
    /\ manifests \subseteq Uploads /\ archived \subseteq Uploads /\ overtaken \subseteq Uploads
    /\ states \in Seq([upload : Uploads, previous : Nat, policy : 1 .. Len(policies), version : {1, 2},
                       status : {"STAGED", "PUBLISHED"}, contents : SUBSET Uploads])
    /\ head \in 0 .. Len(states)
    /\ at \in [Workers -> {"idle", "prepared", "archiving"} \cup InTry]
    /\ job \in [Workers -> {0} \cup Uploads]
    /\ held \in [Workers -> SUBSET {"dataset", "lifecycle"}]
    /\ base \in [Workers -> 0 .. Len(states)]
    /\ candidate \in [Workers -> 0 .. Len(states)]

(* A delivery whose application is SUCCESS stays in the current state,      *)
(* whatever workers that lost their locks stage and publish.                *)
NoLostDelivery == \A u \in Uploads : application[u].status = "SUCCESS" => u \in Contents(head)

(* The published states of a dataset are one chain that ends in its head,   *)
(* under one policy and manifest version, an exact chain under one rule     *)
(* version ("V1/V2 delivery mixing is forbidden").                          *)
PublishedIsChain ==
    \A s \in DOMAIN states : Published(s) =>
        /\ s = head \/ \E t \in DOMAIN states : Published(t) /\ states[t].previous = s
        /\ states[s].policy = states[head].policy /\ states[s].version = states[head].version
        /\ states[s].version = 2 => rulesOf[Source(s)] = rulesOf[Source(head)]

(* An application is SUCCESS exactly when one of its candidates, and only   *)
(* one, was published: retries and lost answers publish no second one.      *)
AppliedOnce ==
    \A u \in Uploads :
        {s \in DOMAIN states : Published(s) /\ Source(s) = u}
            = IF application[u].status = "SUCCESS" THEN {application[u].result} ELSE {}

(* An archived delivery becomes the head only where the archive overtook a  *)
(* publication between its look at the mark (require_active reads it without *)
(* a row lock) and its commit, and only where the publisher or the archiver *)
(* had lost the lifecycle lock; a publisher that lost it earlier than the   *)
(* archive is stopped by the mark.                                          *)
ArchivedStaysOut ==
    [][head' # head /\ Source(head)' \in archived => Source(head)' \in overtaken]_applicationVars
=============================================================================
