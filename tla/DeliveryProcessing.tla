-------------------------- MODULE DeliveryProcessing --------------------------
(***************************************************************************)
(* Bronze, rule approval, Silver and Gold for the deliveries of a          *)
(* workspace (processing_service, delivery_execution_service,              *)
(* delivery_lifecycle_service, dataset_processing_service,                 *)
(* business_rule_service and the repositories they call). A dataset with a *)
(* load policy also applies each delivery between Silver and Gold, which   *)
(* changes none of these tables: see IncrementalApplication.               *)
(*                                                                         *)
(* A schema hash is a function of the bytes, so that a dataset and a file  *)
(* name the file's association with its dataset version.  Each advisory    *)
(* lock is held on an idle connection of its own, which can be lost while  *)
(* its worker goes on (adr-0001: "session locks require a live             *)
(* connection"); two history variables record where this let a second      *)
(* request into a block.                                                   *)
(***************************************************************************)
EXTENDS Integers, Sequences, FiniteSets

CONSTANTS
    Uploads,            \* upload ids, in the order they were made
    Files, Datasets, Workers, Questions,
    SchemaOf, QuestionsOf,  \* what profiling finds in the bytes of a file
    Governed,           \* datasets with a load policy
    AllRejected,        \* files none of whose rows passes the rules
    Stages,             \* what callers of continue_processing ask for
    Deliveries,         \* the upload_requests tables to start from
    MaxAttempts,        \* bound: rows of processing_attempts, for each of those tables
    MaxRuleVersion,     \* bound: changed submissions for a dataset version
    MaxFaults           \* bound: crashes, errors, lost acknowledgements and locks, per table

ASSUME DeliveryAssumption ==
    /\ Uploads \subseteq Nat \ {0} /\ IsFiniteSet(Uploads)
    /\ IsFiniteSet(Files) /\ IsFiniteSet(Datasets)
    /\ QuestionsOf \in [Files -> SUBSET Questions]
    /\ Governed \subseteq Datasets
    /\ AllRejected \subseteq Files
    /\ Stages \subseteq {"BOTH", "SILVER", "GOLD"}
    /\ \A table \in Deliveries : table \in [Uploads -> [file : Files, dataset : Datasets]]
    /\ MaxAttempts \in [Deliveries -> Nat] /\ MaxRuleVersion \in Nat /\ MaxFaults \in [Deliveries -> Nat]

VARIABLES
    upload,             \* upload_requests: the bytes and the dataset of each upload
    archived,           \* upload_requests.archived_at is set
    file,               \* physical_files and dataset_profiles
    version,            \* dataset_versions with the draft answers
    policies,           \* approved_rule_policies
    association,        \* dataset_version_files
    attempts, dqRuns, goldRuns,
    at, job, want, attempt, \* the requests being served
    held,               \* the session locks a request still holds
    source, recovery,   \* the Silver and the Gold run it read before it opened Gold
    sharedLifecycles,   \* history: uploads locked while a request that lost the lock went on
    sharedDeliveries,   \* history: the same of associations and their delivery lock
    faults              \* how many of the bounded faults have happened

uploads == <<upload, archived>>
rules == <<version, policies>>
runs == <<dqRuns, goldRuns>>
tables == <<uploads, file, rules, association, attempts, runs>>
plan == <<source, recovery>>
request == <<job, want, held, plan>>
workers == <<at, attempt, request>>
shared == <<sharedLifecycles, sharedDeliveries>>
vars == <<tables, workers, shared, faults>>

Schemas == {SchemaOf[f] : f \in Files}
Versions == Datasets \X Schemas
Associations == Datasets \X Files
VersionOf(a) == <<a[1], SchemaOf[a[2]]>>
AssociationOf(u) == <<upload[u].dataset, upload[u].file>>

Terminal == {"SUCCESS", "SUCCESS_WITH_WARNINGS"}
Finalized == {"READY_FOR_SILVER", "SILVER_PROCESSING", "SILVER_FAILED", "READY_FOR_GOLD",
              "GOLD_PROCESSING", "GOLD_FAILED"} \cup Terminal
Statuses == {"ABSENT", "UPLOADED", "AWAITING_RULES"} \cup Finalized
Inspecting == {"inspect", "bronze", "profile", "associate", "initialise", "complete", "available"}
Continuing == {"silver", "silver_reuse", "silver_open", "silver_running", "silver_lost",
               "gold", "gold_skip", "gold_reuse", "gold_open", "gold_running", "gold_lost"}
Inside == Inspecting \cup Continuing \cup {"archiving", "archive"}

NoVersion == [number |-> 0, rules |-> 0, approved |-> 0, answers |-> [q \in Questions |-> "NONE"]]

TypeOK ==
    /\ archived \in [Uploads -> BOOLEAN]
    /\ file \in [Files -> [schema : BOOLEAN, profiled : BOOLEAN, status : {"UPLOADED", "FAILED"}]]
    /\ version \in [Versions -> [number : Nat, rules : Nat, approved : Nat,
                                 answers : [Questions -> {"NONE", "YES", "NO"}]]]
    /\ association \in [Associations -> [status : Statuses, pin : Nat, reused : BOOLEAN]]
    /\ policies \in [Versions -> [0 .. MaxRuleVersion -> SUBSET Questions]]
    /\ attempts \in Seq([file : Files, association : Associations \cup {<<>>},
                         stage : {"BRONZE", "SILVER", "GOLD"},
                         status : {"PROCESSING", "SUCCESS", "FAILED", "CRASHED"}])
    /\ dqRuns \in Seq([association : Associations, attempt : Nat, rules : Nat, valid : BOOLEAN])
    /\ goldRuns \in Seq([association : Associations, dq : Nat, attempt : Nat])
    /\ at \in [Workers -> {"idle", "started"} \cup Inside]
    /\ job \in [Workers -> {0} \cup Uploads]
    /\ want \in [Workers -> {"BOTH", "SILVER", "GOLD", "ASSOCIATED", "PENDING"}]
    /\ attempt \in [Workers -> 0 .. Len(attempts)]
    /\ held \in [Workers -> SUBSET {"dataset", "lifecycle", "delivery"}]
    /\ source \in [Workers -> 0 .. Len(dqRuns)]
    /\ recovery \in [Workers -> 0 .. Len(goldRuns)]
    /\ sharedLifecycles \subseteq Uploads /\ sharedDeliveries \subseteq Associations

Init ==
    /\ upload \in Deliveries
    /\ archived = [u \in Uploads |-> FALSE]
    /\ file = [f \in Files |-> [schema |-> FALSE, profiled |-> FALSE, status |-> "UPLOADED"]]
    /\ version = [v \in Versions |-> NoVersion]
    /\ policies = [v \in Versions |-> [n \in 0 .. MaxRuleVersion |-> {}]]
    /\ association = [a \in Associations |-> [status |-> "ABSENT", pin |-> 0, reused |-> FALSE]]
    /\ attempts = <<>> /\ dqRuns = <<>> /\ goldRuns = <<>>
    /\ at = [w \in Workers |-> "idle"]
    /\ job = [w \in Workers |-> 0]
    /\ want = [w \in Workers |-> "BOTH"]
    /\ attempt = [w \in Workers |-> 0]
    /\ held = [w \in Workers |-> {}]
    /\ source = [w \in Workers |-> 0]
    /\ recovery = [w \in Workers |-> 0]
    /\ sharedLifecycles = {} /\ sharedDeliveries = {}
    /\ faults = 0
-----------------------------------------------------------------------------
(* Repository reads and writes.                                            *)

ActiveAttempt(f) == {i \in DOMAIN attempts : attempts[i].file = f /\ attempts[i].status = "PROCESSING"}
ActiveOf(a) == {i \in ActiveAttempt(a[2]) : attempts[i].association = a}
ActiveBronze(f) == {i \in ActiveAttempt(f) : attempts[i].stage = "BRONZE"}

(* One PROCESSING attempt per file: the partial unique index refuses more.  *)
CreateAttempt(w, f, a, stage) ==
    /\ ActiveAttempt(f) = {}
    /\ attempts' = Append(attempts, [file |-> f, association |-> a, stage |-> stage,
                                     status |-> "PROCESSING"])
    /\ attempt' = [attempt EXCEPT ![w] = Len(attempts) + 1]

CompleteAttempt(i, status) == attempts' = [attempts EXCEPT ![i].status = status]

SetStatus(a, status) == association' = [association EXCEPT ![a].status = status]

Successful(i, stage) == attempts[i].stage = stage /\ attempts[i].status = "SUCCESS"

Latest(rows) == IF rows = {} THEN 0 ELSE CHOOSE i \in rows : \A j \in rows : j <= i

(* Slip: the rows of failed attempts count, and the first one is taken.     *)
FirstDqRun(a) ==
    LET rows == {i \in DOMAIN dqRuns : dqRuns[i].association = a} IN
    IF rows = {} THEN 0 ELSE CHOOSE i \in rows : \A j \in rows : i <= j

LatestDqRun(a) ==
    Latest({i \in DOMAIN dqRuns : dqRuns[i].association = a /\ Successful(dqRuns[i].attempt, "SILVER")})

(* Slip: only runs of successful attempts are looked for.                   *)
SuccessfulPublications(a, dq) ==
    {i \in DOMAIN goldRuns : goldRuns[i].association = a /\ goldRuns[i].dq = dq
                              /\ Successful(goldRuns[i].attempt, "GOLD")}

GoldPublications(a, dq) == {i \in DOMAIN goldRuns : goldRuns[i].association = a /\ goldRuns[i].dq = dq}
SuccessfulGoldRun(a, dq) == Latest({i \in GoldPublications(a, dq) : Successful(goldRuns[i].attempt, "GOLD")})
GoldPublication(a, dq) == Latest(GoldPublications(a, dq))

(* Rule version 0, or one never approved, has no snapshot.                  *)
ApprovedPolicy(v, n) == policies[v][n]
Pinned(a) == ApprovedPolicy(VersionOf(a), association[a].pin)

(* generate_rule_suggestions raises without the stored profiles and their    *)
(* summary: rule reuse and rule review have no questions for such a file.    *)
HasProfiles(f) == file[f].profiled
Suggested(f) == QuestionsOf[f]

(* An answer decides its rule.                                              *)
ActiveRules(v) == {q \in Questions : version[v].answers[q] = "YES"}
-----------------------------------------------------------------------------
(* Requests and the locks they hold.                                       *)

(* Slip: only a running archive counts as a holder.                        *)
LifecycleOfArchive(u) ==
    \A w \in Workers : ~("lifecycle" \in held[w] /\ job[w] = u /\ at[w] \notin Inspecting \cup Continuing)

LifecycleFree(u) == \A w \in Workers : ~("lifecycle" \in held[w] /\ job[w] = u)
(* Slip: the lock is keyed by the upload, whose lifecycle is locked anyway. *)
DeliveryFreeOfOthers(a) == TRUE

DeliveryFree(a) == \A w \in Workers : ~("delivery" \in held[w] /\ AssociationOf(job[w]) = a)

(* A dataset without a load policy is not locked by a continuation.         *)
DatasetFree(d) == \A w \in Workers : ~("dataset" \in held[w] /\ upload[job[w]].dataset = d)

LostLifecycle(w, u) == at[w] \in Inside /\ job[w] = u /\ "lifecycle" \notin held[w]
LostDelivery(w, a) == at[w] \in Continuing /\ AssociationOf(job[w]) = a /\ "delivery" \notin held[w]

(* History: a lock is taken while a request that has lost it goes on.       *)
TakeLifecycle(u) ==
    /\ LifecycleFree(u)
    /\ sharedLifecycles' = sharedLifecycles \cup {t \in {u} : \E w \in Workers : LostLifecycle(w, t)}
TakeDelivery(a) ==
    /\ DeliveryFree(a)
    /\ sharedDeliveries' = sharedDeliveries \cup {b \in {a} : \E w \in Workers : LostDelivery(w, b)}

Fault == faults < MaxFaults[upload] /\ faults' = faults + 1

Goto(w, place) == at' = [at EXCEPT ![w] = place]

Enter(w, u, place, stage, locks) ==
    /\ at' = [at EXCEPT ![w] = place]
    /\ job' = [job EXCEPT ![w] = u]
    /\ want' = [want EXCEPT ![w] = stage]
    /\ held' = [held EXCEPT ![w] = locks]
    /\ attempt' = [attempt EXCEPT ![w] = 0]
    /\ source' = [source EXCEPT ![w] = 0]
    /\ recovery' = [recovery EXCEPT ![w] = 0]

(* A request ends, by returning or by an exception.                         *)
Leave(w) == Enter(w, 0, "idle", "BOTH", {})

(* A process dies: its session locks go, what it committed stays.           *)
Crash(w) == at[w] # "idle" /\ Fault /\ Leave(w) /\ UNCHANGED <<tables, shared>>

(* The connection of a lock breaks. An archive that has taken the delivery  *)
(* lock writes on that connection, and is covered by Crash.                 *)
LoseLock(w) ==
    /\ Fault
    /\ \E lock \in held[w] :
        /\ ~(at[w] = "archive" /\ lock = "delivery")
        /\ held' = [held EXCEPT ![w] = @ \ {lock}]
    /\ UNCHANGED <<tables, shared, at, attempt, job, want, plan>>
-----------------------------------------------------------------------------
(* Bronze.                                                                 *)

(* active_delivery, and the first reads of start_processing.                *)
BeginBronze(w, u, caller) ==
    /\ TakeLifecycle(u)
    /\ ~archived[u]
    /\ Enter(w, u, IF file[upload[u].file].schema THEN "associate" ELSE "inspect", caller, {"lifecycle"})
    /\ UNCHANGED <<faults, tables, sharedDeliveries>>

(* start_processing returns: process_pending goes on with the delivery. The *)
(* unlock raises when the lock's connection is gone.                        *)
EndBronze(w) ==
    IF want[w] = "PENDING" /\ "lifecycle" \in held[w] THEN Enter(w, job[w], "started", "BOTH", {})
    ELSE Leave(w)

OpenBronze(w) ==
    /\ at[w] = "inspect"
    /\ Len(attempts) < MaxAttempts[upload]
    /\ LET f == upload[job[w]].file IN
       \/ /\ CreateAttempt(w, f, <<>>, "BRONZE")
          /\ Goto(w, "bronze")
          /\ UNCHANGED request
       \/ /\ ActiveAttempt(f) # {}
          /\ Leave(w)
          /\ UNCHANGED attempts
    /\ UNCHANGED <<faults, shared, uploads, file, rules, association, runs>>

SaveSchema(w) ==
    /\ at[w] = "bronze"
    /\ file' = [file EXCEPT ![upload[job[w]].file].schema = TRUE]
    /\ Goto(w, "profile")
    /\ UNCHANGED <<faults, shared, uploads, rules, association, attempts, runs, attempt, request>>

(* The profiles and their summary are two commits: rule suggestions want     *)
(* both, and the first alone is nothing to them.                            *)
SaveProfiles(w) ==
    /\ at[w] = "profile"
    /\ file' = [file EXCEPT ![upload[job[w]].file].profiled = TRUE]
    /\ Goto(w, "associate")
    /\ UNCHANGED <<faults, shared, uploads, rules, association, attempts, runs, attempt, request>>

(* resolve_dataset_version_by_id numbers a new version under the dataset's   *)
(* row lock; no reader can tell the version alone from one with the file.   *)
NextVersion(v) ==
    IF version[v].number > 0 THEN version
    ELSE [version EXCEPT ![v].number =
            Cardinality({other \in Versions : other[1] = v[1] /\ version[other].number > 0}) + 1]

AssignFile(w) ==
    LET a == AssociationOf(job[w]) IN
    /\ at[w] = "associate"
    /\ version' = NextVersion(VersionOf(a))
    /\ association' = IF association[a].status = "ABSENT"
                      THEN [association EXCEPT ![a].status = "UPLOADED"] ELSE association
    /\ Goto(w, "initialise")
    /\ UNCHANGED <<faults, shared, uploads, file, policies, attempts, runs, attempt, request>>

(* Slip: an approved version is reused without looking at the questions.    *)
ApprovedRules(a) ==
    LET v == version[VersionOf(a)] IN v.rules > 0 /\ v.approved = v.rules

(* approved_rules_cover_questions and the column check of rule_reuse.       *)
RulesReusable(a) ==
    LET v == version[VersionOf(a)] IN
    /\ v.rules > 0 /\ v.approved = v.rules
    /\ ActiveRules(VersionOf(a)) # {}
    /\ \A q \in Suggested(a[2]) : v.answers[q] # "NONE"

Initialised(a) ==
    IF RulesReusable(a)
    THEN [status |-> "READY_FOR_SILVER", pin |-> version[VersionOf(a)].rules, reused |-> TRUE]
    ELSE [association[a] EXCEPT !.status = "AWAITING_RULES"]

Undecided(a) == association[a].status \in {"UPLOADED", "AWAITING_RULES"}

InitialiseRules(w) ==
    LET a == AssociationOf(job[w]) IN
    /\ at[w] = "initialise"
    /\ Undecided(a) => HasProfiles(a[2])
    /\ association' = IF Undecided(a) THEN [association EXCEPT ![a] = Initialised(a)] ELSE association
    /\ IF attempt[w] = 0 THEN EndBronze(w)
       ELSE Goto(w, "complete") /\ UNCHANGED <<attempt, request>>
    /\ UNCHANGED <<faults, shared, uploads, file, rules, attempts, runs>>

CompleteBronze(w) ==
    /\ at[w] = "complete"
    /\ CompleteAttempt(attempt[w], "SUCCESS")
    /\ Goto(w, "available")
    /\ UNCHANGED <<faults, shared, uploads, file, rules, association, runs, attempt, request>>

FileAvailable(w) ==
    /\ at[w] = "available"
    /\ file' = [file EXCEPT ![upload[job[w]].file].status = "UPLOADED"]
    /\ EndBronze(w)
    /\ UNCHANGED <<faults, shared, uploads, rules, association, attempts, runs>>

(* The except block, when there is an attempt. The status of the file is    *)
(* written after the attempt and is lost with a process that dies between.  *)
BronzeHandler(w) ==
    /\ IF attempt[w] = 0 THEN UNCHANGED <<attempts, file>>
       ELSE /\ CompleteAttempt(attempt[w], "FAILED")
            /\ file' \in {file, [file EXCEPT ![upload[job[w]].file].status = "FAILED"]}
    /\ Leave(w)
    /\ UNCHANGED <<shared, uploads, rules, association, runs>>

(* An exception: the database, the storage, or the version another request   *)
(* created meanwhile.                                                       *)
BronzeFails(w) == at[w] \in Inspecting \ {"inspect"} /\ Fault /\ BronzeHandler(w)

(* Rule suggestions raise for a file without profiles.                      *)
NoSuggestions(w) ==
    LET a == AssociationOf(job[w]) IN
    /\ at[w] = "initialise"
    /\ Undecided(a) /\ ~HasProfiles(a[2])
    /\ BronzeHandler(w)
    /\ UNCHANGED faults
-----------------------------------------------------------------------------
(* Rule review: one transaction under the row lock of the version.         *)

RuleMutation(a) ==
    \A i \in DOMAIN attempts :
        ~(attempts[i].status = "PROCESSING" /\ attempts[i].association # <<>>
          /\ VersionOf(attempts[i].association) = VersionOf(a))

(* Slip: only a first answer makes a new rule version.                     *)
NewAnswers(v, given) == \E q \in DOMAIN given : version[v].answers[q] = "NONE"

Changes(v, given) == \E q \in DOMAIN given : version[v].answers[q] # given[q]

SubmitAnswers(a, given) ==
    LET v == VersionOf(a) IN
    /\ RuleMutation(a)
    /\ association[a].status = "AWAITING_RULES" /\ HasProfiles(a[2])
    /\ DOMAIN given \subseteq Suggested(a[2])
    /\ Changes(v, given) => version[v].rules < MaxRuleVersion
    /\ version' = [version EXCEPT
            ![v].answers = [q \in Questions |-> IF q \in DOMAIN given THEN given[q] ELSE @[q]],
            ![v].rules = IF Changes(v, given) THEN @ + 1 ELSE @]
    /\ UNCHANGED <<faults, shared, uploads, file, policies, association, attempts, runs, workers>>

(* A snapshot is inserted once for a rule version.                          *)
Snapshot(v) ==
    IF ApprovedPolicy(v, version[v].rules) = {}
    THEN [policies[v] EXCEPT ![version[v].rules] = ActiveRules(v)]
    ELSE policies[v]

Finalize(a) ==
    LET v == VersionOf(a) IN
    /\ RuleMutation(a)
    /\ association[a].status = "AWAITING_RULES" /\ HasProfiles(a[2])
    /\ \A q \in Suggested(a[2]) : version[v].answers[q] # "NONE"
    /\ ActiveRules(v) # {}
    /\ version' = [version EXCEPT ![v].approved = version[v].rules]
    /\ policies' = [policies EXCEPT ![v] = Snapshot(v)]
    /\ association' = [association EXCEPT ![a] =
            [status |-> "READY_FOR_SILVER", pin |-> version[v].rules, reused |-> FALSE]]
    /\ UNCHANGED <<faults, shared, uploads, file, attempts, runs, workers>>
-----------------------------------------------------------------------------
(* Silver and Gold.                                                        *)

(* Slip: the stage itself taken for the status of its failure.              *)
BareStatus(stage) == stage

FailedStatus(stage) == IF stage = "SILVER" THEN "SILVER_FAILED" ELSE "GOLD_FAILED"

(* delivery_lock: what an earlier holder left PROCESSING has crashed.       *)
Recover(a) ==
    IF ActiveOf(a) = {} THEN UNCHANGED <<attempts, association>>
    ELSE LET i == CHOOSE i \in ActiveOf(a) : TRUE IN
         /\ CompleteAttempt(i, "CRASHED")
         /\ IF association[a].status \in Terminal THEN UNCHANGED association
            ELSE SetStatus(a, FailedStatus(attempts[i].stage))

(* An archived delivery ends here, with its attempt recovered; a finished   *)
(* one too, unless it has yet to be applied to its dataset.                 *)
BeginContinue(w, u, stage) ==
    LET a == AssociationOf(u) IN
    /\ association[a].status # "ABSENT"
    /\ TakeLifecycle(u) /\ TakeDelivery(a) /\ DatasetFree(a[1])
    /\ Recover(a)
    /\ IF archived[u] \/ (a[1] \notin Governed /\ association[a].status \in Terminal)
       THEN Leave(w)
       ELSE Enter(w, u, IF stage = "GOLD" THEN "gold" ELSE "silver", stage,
                  {"lifecycle", "delivery"} \cup (IF a[1] \in Governed THEN {"dataset"} ELSE {}))
    /\ UNCHANGED <<faults, uploads, file, rules, runs>>

(* run_gold_processing reads everything again.                              *)
AfterSilver(w) ==
    IF want[w] = "SILVER" THEN Leave(w)
    ELSE Goto(w, "gold") /\ attempt' = [attempt EXCEPT ![w] = 0] /\ UNCHANGED request

SilverDone(a) ==
    LatestDqRun(a) # 0 /\ dqRuns[LatestDqRun(a)].rules = association[a].pin

(* Slip: every delivery past rule review is sent back to Gold.              *)
Reviewed(status) == status \in Finalized

BehindGold(status) == status \in {"READY_FOR_SILVER", "SILVER_FAILED", "SILVER_PROCESSING"}

(* What a stage reads before its first write is read in one step.           *)
FindSilver(w) ==
    LET a == AssociationOf(job[w]) IN
    /\ at[w] = "silver"
    /\ Pinned(a) # {}
    /\ SilverDone(a)
    /\ IF BehindGold(association[a].status)
       THEN Goto(w, "silver_reuse") /\ UNCHANGED <<attempt, request>>
       ELSE AfterSilver(w)
    /\ UNCHANGED <<faults, shared, tables>>

ReuseSilver(w) ==
    /\ at[w] = "silver_reuse"
    /\ SetStatus(AssociationOf(job[w]), "READY_FOR_GOLD")
    /\ AfterSilver(w)
    /\ UNCHANGED <<faults, shared, uploads, file, rules, attempts, runs>>

SilverAllowed(a) ==
    /\ Pinned(a) # {}
    /\ association[a].status \in {"READY_FOR_SILVER", "SILVER_FAILED", "READY_FOR_GOLD", "GOLD_FAILED"}

PlanSilver(w) ==
    LET a == AssociationOf(job[w]) IN
    /\ at[w] = "silver"
    /\ ~SilverDone(a)
    /\ SilverAllowed(a)
    /\ Goto(w, "silver_open")
    /\ UNCHANGED <<faults, shared, tables, attempt, request>>

OpenSilver(w) ==
    LET a == AssociationOf(job[w]) IN
    /\ at[w] = "silver_open"
    /\ Len(attempts) < MaxAttempts[upload]
    /\ CreateAttempt(w, a[2], a, "SILVER")
    /\ SetStatus(a, "SILVER_PROCESSING")
    /\ Goto(w, "silver_running")
    /\ UNCHANGED <<faults, shared, uploads, file, rules, runs, request>>

RefuseSilver(w) ==
    LET a == AssociationOf(job[w]) IN
    /\ \/ at[w] = "silver" /\ (SilverDone(a) => Pinned(a) = {}) /\ ~SilverAllowed(a)
       \/ at[w] = "silver_open" /\ ActiveAttempt(a[2]) # {}
    /\ Leave(w)
    /\ UNCHANGED <<faults, shared, tables>>

(* The success transaction. It does not look whether the attempt is still   *)
(* PROCESSING; the pin is what it was, for rules are pinned once.           *)
RecordSilver(w) ==
    LET a == AssociationOf(job[w]) IN
    /\ at[w] = "silver_running"
    /\ dqRuns' = Append(dqRuns, [association |-> a, attempt |-> attempt[w],
                                 rules |-> association[a].pin, valid |-> a[2] \notin AllRejected])
    /\ CompleteAttempt(attempt[w], "SUCCESS")
    /\ SetStatus(a, "READY_FOR_GOLD")
    /\ UNCHANGED <<shared, uploads, file, rules, goldRuns>>

PublishSilver(w) == RecordSilver(w) /\ AfterSilver(w) /\ UNCHANGED faults

(* It commits and its acknowledgement is lost: the handler sees an error.   *)
LoseSilver(w) ==
    /\ RecordSilver(w)
    /\ Fault
    /\ Goto(w, "silver_lost")
    /\ UNCHANGED <<attempt, request>>

(* The failure transaction of a stage.                                      *)
Fails(w, status) ==
    /\ CompleteAttempt(attempt[w], "FAILED")
    /\ SetStatus(AssociationOf(job[w]), status)
    /\ Leave(w)
    /\ UNCHANGED <<shared, uploads, file, rules, runs>>

SilverFails(w) == at[w] = "silver_running" /\ Fault /\ Fails(w, "SILVER_FAILED")
SilverLost(w) == at[w] = "silver_lost" /\ Fails(w, "SILVER_FAILED") /\ UNCHANGED faults

(* Gold builds on the latest Silver of the pinned rules.                    *)
GoldSource(a) == IF SilverDone(a) /\ Pinned(a) # {} THEN LatestDqRun(a) ELSE 0

FindEmpty(w) ==
    LET a == AssociationOf(job[w]) IN
    /\ at[w] = "gold"
    /\ GoldSource(a) # 0
    /\ ~dqRuns[GoldSource(a)].valid
    /\ Goto(w, "gold_skip")
    /\ UNCHANGED <<faults, shared, tables, attempt, request>>

SkipGold(w) ==
    /\ at[w] = "gold_skip"
    /\ SetStatus(AssociationOf(job[w]), "SUCCESS_WITH_WARNINGS")
    /\ Leave(w)
    /\ UNCHANGED <<faults, shared, uploads, file, rules, attempts, runs>>

(* apply_incremental raised: Gold is not reached.                           *)
ApplyFails(w) ==
    /\ at[w] = "gold"
    /\ upload[job[w]].dataset \in Governed
    /\ Leave(w)
    /\ UNCHANGED <<faults, shared, tables>>

(* The expected artifacts are planned from the profiles.                    *)
Plannable(a) == GoldSource(a) # 0 /\ dqRuns[GoldSource(a)].valid /\ file[a[2]].profiled

FindGold(w) ==
    LET a == AssociationOf(job[w]) IN
    /\ at[w] = "gold"
    /\ Plannable(a)
    /\ SuccessfulGoldRun(a, GoldSource(a)) # 0
    /\ IF association[a].status = "SUCCESS" THEN Leave(w)
       ELSE Goto(w, "gold_reuse") /\ UNCHANGED <<attempt, request>>
    /\ UNCHANGED <<faults, shared, tables>>

ReuseGold(w) ==
    /\ at[w] = "gold_reuse"
    /\ SetStatus(AssociationOf(job[w]), "SUCCESS")
    /\ Leave(w)
    /\ UNCHANGED <<faults, shared, uploads, file, rules, attempts, runs>>

GoldAllowed(a) ==
    /\ Plannable(a)
    /\ association[a].status \in {"READY_FOR_GOLD", "GOLD_FAILED"}
    /\ ActiveOf(a) = {}

(* A publication that an earlier attempt left behind is to be taken over.   *)
PlanGold(w) ==
    LET a == AssociationOf(job[w]) IN
    /\ at[w] = "gold"
    /\ GoldAllowed(a)
    /\ SuccessfulGoldRun(a, GoldSource(a)) = 0
    /\ source' = [source EXCEPT ![w] = GoldSource(a)]
    /\ recovery' = [recovery EXCEPT ![w] = GoldPublication(a, GoldSource(a))]
    /\ Goto(w, "gold_open")
    /\ UNCHANGED <<faults, shared, tables, attempt, job, want, held>>

OpenGold(w) ==
    LET a == AssociationOf(job[w]) IN
    /\ at[w] = "gold_open"
    /\ Len(attempts) < MaxAttempts[upload]
    /\ CreateAttempt(w, a[2], a, "GOLD")
    /\ SetStatus(a, "GOLD_PROCESSING")
    /\ Goto(w, "gold_running")
    /\ UNCHANGED <<faults, shared, uploads, file, rules, runs, request>>

RefuseGold(w) ==
    LET a == AssociationOf(job[w]) IN
    /\ \/ at[w] = "gold" /\ GoldSource(a) = 0
       \/ /\ at[w] = "gold" /\ GoldSource(a) # 0
          /\ dqRuns[GoldSource(a)].valid
          /\ SuccessfulGoldRun(a, GoldSource(a)) = 0 \/ ~Plannable(a)
          /\ ~GoldAllowed(a)
       \/ at[w] = "gold_open" /\ ActiveAttempt(a[2]) # {}
    /\ Leave(w)
    /\ UNCHANGED <<faults, shared, tables>>

(* What was read before the attempt is what the transaction writes.         *)
RecordGold(w, a) ==
    IF recovery[w] # 0
    THEN goldRuns' = [goldRuns EXCEPT ![recovery[w]].attempt = attempt[w]]
    ELSE goldRuns' = Append(goldRuns, [association |-> a, dq |-> source[w], attempt |-> attempt[w]])

PublishesGold(w) ==
    LET a == AssociationOf(job[w]) IN
    /\ at[w] = "gold_running"
    /\ RecordGold(w, a)
    /\ CompleteAttempt(attempt[w], "SUCCESS")
    /\ SetStatus(a, "SUCCESS")
    /\ UNCHANGED <<shared, uploads, file, rules, dqRuns>>

PublishGold(w) == PublishesGold(w) /\ Leave(w) /\ UNCHANGED faults
LoseGold(w) ==
    PublishesGold(w) /\ Fault /\ Goto(w, "gold_lost") /\ UNCHANGED <<attempt, request>>

GoldFails(w) == at[w] = "gold_running" /\ Fault /\ Fails(w, "GOLD_FAILED")
GoldLost(w) == at[w] = "gold_lost" /\ Fails(w, "GOLD_FAILED") /\ UNCHANGED faults
-----------------------------------------------------------------------------
(* Archive and the pending batch.                                          *)

(* read_processing_context: the status a reader sees.                       *)
ContextStatus(u) ==
    LET f == upload[u].file
        a == AssociationOf(u) IN
    IF ActiveBronze(f) # {} THEN "BRONZE_PROCESSING"
    ELSE IF association[a].status # "ABSENT" THEN association[a].status
    ELSE IF file[f].status = "FAILED" THEN "BRONZE_FAILED"
    ELSE "READY_TO_PROCESS"

Processing == {"BRONZE_PROCESSING", "SILVER_PROCESSING", "GOLD_PROCESSING"}

BeginArchive(w, u) ==
    /\ ~archived[u]
    /\ TakeLifecycle(u)
    /\ ContextStatus(u) \notin Processing
    /\ Enter(w, u, "archiving", IF association[AssociationOf(u)].status = "ABSENT"
                                THEN "BOTH" ELSE "ASSOCIATED", {"lifecycle"})
    /\ UNCHANGED <<faults, tables, sharedDeliveries>>

(* The context may be stale here: the lock and the attempts are read again. *)
Archivable(w, u) ==
    /\ want[w] = "ASSOCIATED" => DeliveryFree(AssociationOf(u)) /\ ActiveOf(AssociationOf(u)) = {}
    /\ ActiveBronze(upload[u].file) = {}

CheckArchive(w) ==
    /\ at[w] = "archiving"
    /\ IF Archivable(w, job[w])
       THEN /\ Goto(w, "archive")
            /\ held' = IF want[w] = "ASSOCIATED" THEN [held EXCEPT ![w] = @ \cup {"delivery"}] ELSE held
            /\ UNCHANGED <<attempt, job, want, plan>>
       ELSE Leave(w)
    /\ UNCHANGED <<faults, shared, tables>>

(* The update is a statement of its own: nothing read before is read again. *)
Archive(w) ==
    /\ at[w] = "archive"
    /\ archived' = [archived EXCEPT ![job[w]] = TRUE]
    /\ Leave(w)
    /\ UNCHANGED <<faults, shared, upload, file, rules, association, attempts, runs>>

Eligible(u) ==
    /\ ~archived[u]
    /\ \/ ContextStatus(u) = "READY_TO_PROCESS"
       \/ ContextStatus(u) \in {"READY_FOR_SILVER", "READY_FOR_GOLD"} /\ Pinned(AssociationOf(u)) # {}

(* process_pending serves the eligible deliveries of a dataset one by one,  *)
(* each as a request of its own, and keeps nothing between two of them.     *)
Pending(w, u) ==
    \/ Eligible(u) /\ association[AssociationOf(u)].status = "ABSENT" /\ BeginBronze(w, u, "PENDING")
    \/ Eligible(u) /\ BeginContinue(w, u, "BOTH")

(* One that was eligible when they were listed: its delivery lock recovers  *)
(* an attempt, and the check under it finds the delivery failed.            *)
PendingRecovers(w, u) ==
    LET a == AssociationOf(u) IN
    /\ association[a].status # "ABSENT" /\ ~archived[u]
    /\ TakeDelivery(a)
    /\ ActiveOf(a) # {}
    /\ Recover(a)
    /\ UNCHANGED <<faults, sharedLifecycles, uploads, file, rules, runs, workers>>

(* After Bronze: continue, if the rules of its version were reused.         *)
ContinueStarted(w) ==
    /\ at[w] = "started"
    /\ \/ Eligible(job[w]) /\ BeginContinue(w, job[w], "BOTH")
       \/ /\ ~Eligible(job[w]) \/ ~LifecycleFree(job[w]) \/ ~DeliveryFree(AssociationOf(job[w]))
             \/ ~DatasetFree(upload[job[w]].dataset)
          /\ Leave(w) /\ UNCHANGED <<faults, shared, tables>>
-----------------------------------------------------------------------------
Request(w, u) ==
    /\ at[w] = "idle"
    /\ \/ BeginBronze(w, u, "BOTH")
       \/ \E stage \in Stages : BeginContinue(w, u, stage)
       \/ Pending(w, u) \/ PendingRecovers(w, u)
       \/ BeginArchive(w, u)

Submission(a) ==
    \E qs \in SUBSET Questions \ {{}} : \E given \in [qs -> {"YES", "NO"}] : SubmitAnswers(a, given)

Next ==
    \/ \E w \in Workers, u \in Uploads : Request(w, u)
    \/ \E w \in Workers :
        \/ OpenBronze(w) \/ SaveSchema(w) \/ SaveProfiles(w) \/ AssignFile(w)
        \/ InitialiseRules(w) \/ NoSuggestions(w) \/ CompleteBronze(w) \/ FileAvailable(w)
        \/ BronzeFails(w) \/ ContinueStarted(w)
        \/ FindSilver(w) \/ ReuseSilver(w) \/ PlanSilver(w) \/ OpenSilver(w) \/ RefuseSilver(w)
        \/ PublishSilver(w) \/ SilverFails(w) \/ LoseSilver(w) \/ SilverLost(w) \/ ApplyFails(w)
        \/ FindEmpty(w) \/ SkipGold(w) \/ FindGold(w) \/ ReuseGold(w)
        \/ PlanGold(w) \/ OpenGold(w) \/ RefuseGold(w)
        \/ PublishGold(w) \/ GoldFails(w) \/ LoseGold(w) \/ GoldLost(w)
        \/ CheckArchive(w) \/ Archive(w) \/ Crash(w) \/ LoseLock(w)
    \/ \E a \in Associations : Finalize(a) \/ Submission(a)

Spec == Init /\ [][Next]_vars
-----------------------------------------------------------------------------
(* While a request holds its delivery lock its attempt stays PROCESSING, in  *)
(* the face of recoveries and of requests that run the same stage of the     *)
(* same delivery after they lost the lock (delivery_lock).                  *)
LiveAttemptIsNotRecovered ==
    \A w \in Workers :
        at[w] \in {"silver_running", "gold_running"} /\ "delivery" \in held[w] =>
            /\ attempts[attempt[w]].status = "PROCESSING"
            /\ attempts[attempt[w]].association = AssociationOf(job[w])

(* No request works on an archived delivery, though archive decides on a    *)
(* context it read before and writes after its last check; it takes a lost  *)
(* lifecycle lock, taken by a second request meanwhile, to break this.      *)
ArchivedIsIdle ==
    \A w \in Workers :
        at[w] \in Inspecting \cup Continuing /\ archived[job[w]] => job[w] \in sharedLifecycles

(* A delivery is SUCCESS only on a Gold run of a Silver run under the rules *)
(* it was pinned to, whatever was submitted, retried or reused meanwhile    *)
(* and even when requests that lost their lock published beside it; without *)
(* those, both attempts are successful.                                     *)
SuccessHasLineage ==
    \A a \in Associations :
        association[a].status = "SUCCESS" =>
            \E i \in DOMAIN goldRuns :
                /\ goldRuns[i].association = a
                /\ dqRuns[goldRuns[i].dq].valid
                /\ dqRuns[goldRuns[i].dq].rules = association[a].pin
                /\ \/ a \in sharedDeliveries
                   \/ /\ Successful(goldRuns[i].attempt, "GOLD")
                      /\ Successful(dqRuns[goldRuns[i].dq].attempt, "SILVER")

(* Retries after a crash, a failure or a lost acknowledgement publish Gold  *)
(* into the run that is there ("recovery does not insert a second run");    *)
(* only requests that go on without the delivery's lock insert two.         *)
OneGoldRunPerSilver ==
    \A i, j \in DOMAIN goldRuns :
        goldRuns[i].dq = goldRuns[j].dq => i = j \/ goldRuns[i].association \in sharedDeliveries

(* The approved snapshot of the current rule version is what the draft says:*)
(* every delivery that reuses the approval runs the rules under review.     *)
ApprovalIsTheDraft ==
    \A v \in Versions :
        version[v].approved > 0 /\ version[v].approved = version[v].rules =>
            policies[v][version[v].rules] = ActiveRules(v)

(* A delivery that reuses an approval has an answer to every question its   *)
(* own profile raises, also when the answers were given for another         *)
(* delivery and are edited later (approved_rules_cover_questions).          *)
ReusedIsAnswered ==
    \A a \in Associations :
        association[a].reused =>
            \A q \in Suggested(a[2]) : version[VersionOf(a)].answers[q] # "NONE"

(* start_processing takes the bytes for done with Bronze when they have a   *)
(* schema hash; the profiles rule review draws its questions from are saved *)
(* after it.                                                                *)
AssociatedIsProfiled ==
    \A w \in Workers : at[w] = "associate" => file[upload[job[w]].file].profiled

(* "Successful contexts do not regress on repeated continuation or Bronze": *)
(* only the worker that published and lost the answer takes it back, or one *)
(* that went on without the delivery's lock while another had it.           *)
SuccessStays ==
    [][\A a \in Associations :
        association[a].status \in Terminal /\ association'[a].status # association[a].status =>
            \/ a \in sharedDeliveries
            \/ \E w \in Workers : at[w] = "gold_lost" /\ AssociationOf(job[w]) = a]_vars
=============================================================================
