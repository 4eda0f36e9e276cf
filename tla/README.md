# Verification of the data workspace's protocols

The repository is a Python service (FastAPI, psycopg on PostgreSQL, S3, BigQuery)
with a React frontend. Its users upload deliveries of a dataset, process them
(Bronze, rule review, Silver, Gold), apply them to a versioned dataset state, publish
those states to a warehouse target, and ask metrics and governed queries of it. Most of
its lines transform data; what can go wrong between its transactions - several
workers, locks and leases, lost answers, crashes, heads that move - sits in a few protocols,
and in a few engines whose result depends on the order in which evidence arrives. Those are
what is modelled here: thirteen modules of model, two of them abstract specifications, checked by nine passing runs and three that show
where the code departs from a document of its own, and forty-six theorems for every value of the constants.

## 1. Inventory

| Component | State it keeps | Operations | Hard because | Correct when | Modelled in |
|---|---|---|---|---|---|
| Query governance (`app/query_governance`, `db/query_governance_repository.py`, `services/query_governance_service.py`, `governed_query_service.py`, `query_recovery_service.py`, migration 0032) | reservations, usage rows; the provider's job | reserve, claim, complete, fail, release, recover | several processes, leases on the database clock, lost answers, crashes between transactions, bills learnt later | budgets and slots are never oversubscribed; one submission; one, truthful settlement | `QueryGovernance` |
| Warehouse reliability (`services/warehouse_reliability_service.py`, migration 0031) and provider execution (`services/warehouse_provider_service.py`, `warehouse/providers/bigquery.py`) | accepted manifests, intents, leases and fences, journal, reconciliations, publications, head, checkpoint; the target's journal and jobs | register, create_intent, claim, plan, record_receipt, reconcile, publish, manual_review; execute | stale workers, unknown outcomes at the target, races for the head | publications form one chain; unresolved work is never bypassed; what is published was applied | `WarehouseReliability` |
| Upload sessions (`services/upload_session_service.py`, `file_service.py`) | sessions, physical files, staging and raw objects | initiate, complete, register_file | same bytes twice, failure after completion, S3 outside the transaction | completion is idempotent; an uploaded file has its object | `UploadSession` |
| Delivery coordination (`services/delivery_execution_service.py`, `delivery_lifecycle_service.py`, `dataset_processing_service.py`) | advisory locks, archive marks | continue_processing, process_pending, archive | three try-locks, orphan attempts | an archived delivery is not worked on; the attempt of a worker that holds its lock is never recovered | `DeliveryProcessing` |
| Processing pipeline (`services/processing_service.py` and its repositories) | attempts, statuses, DQ and Gold runs | Bronze, Silver, Gold | crash, failure, lost acknowledgement and retry per stage | a success has its lineage, once | `DeliveryProcessing` |
| Business rules (`services/business_rule_service.py`, `rule_reuse_service.py`) | answers, rule versions, snapshots, pins | submit, finalize, reuse | edited while deliveries are pinned to them | a pinned delivery runs what was approved, and nothing unanswered | `DeliveryProcessing` |
| Incremental application (`services/append_application_service.py`, `incremental_application_service.py`) | policies, applications, manifests, dataset states, dataset head | save policy, declare snapshot, prepare, apply, publish | session locks that can be lost, a crash with a RUNNING row and a staged state, archive | no delivery lost or applied twice; states are a chain | `IncrementalApplication` |
| Dataset analytics and exact Gold (`services/dataset_analytics_service.py`, `exact_gold_*.py`) | Gold runs, pointer, freshness, approvals, pins | refresh; approve, prepare, pin, publish | the head moves during a build | fresh analytics are those of the head; published Gold is final | `CumulativeGold` |
| Append, upsert, snapshot engines (`processing/*_engine.py`), source evidence and fact planning (`warehouse/source_evidence.py`, `fact_planning.py`) | trusted rows; accepted manifests; facts | merge, extract, compile | late, repeated, missing and reappearing rows; replay | the facts are the trusted rows | `TrustedFacts` |
| SCD engines, repair, fact references (`warehouse/scd*.py`, `fact_resolution.py`, `fact_reresolution.py`, `inferred_members.py`) | member histories, references, handles | plan, repair, resolve, infer, complete, re-resolve | late and correcting evidence | histories do not overlap and say what the evidence says; references hold | `DimensionHistory` |
| Serving materialization (`warehouse/serving_materialization.py`, migration 0034) | serving tables, load jobs, evidence | materialize_current_publication | the head moves between two transactions with target work between | evidence only for tables that hold the publication | `MetricServing` |
| Metric refresh, rollout, shadow comparison (`services/workspace_analytics_service.py`, `metric_*_service.py`) | result rows, the execution lock | refresh_analytics | dead and raced coordinators, moving publications | a result is the metric of the states in its plan | `MetricServing` |
| Metric SQL compiler | none | compile | - | - | token and eligibility only, in `MetricServing` |
| Warehouse modeling lifecycle; relationships, semantics, questions, charts; authentication, ownership adoption; API, frontend | configuration and read models | CRUD, reads | little concurrency of their own | - | not modelled, section 8 |

How they interact. An upload gives a physical file to a dataset; its association goes through Bronze, rules, Silver and
Gold. In a dataset with a load policy each delivery is also applied, between Silver and Gold,
and publishes a dataset state. `register` turns the chain of published states into accepted manifests at
positions 1, 2, ...; `create_intent` pins a range of them and the resource's head and
checkpoint; `ProviderService.execute` applies them at the target under a claimed lease, planned by the
fact and dimension planners; `publish` moves head and checkpoint. A publication is materialized into a
serving table; a metric query compiled for the served tables goes through `execute_governed_query`,
with a request token that is a digest of plan and publication pins, and is compared with what Pandas
computed over the Gold of the same states.

The list of hazards, each at its line with the properties that cover it or the reason why none does, is
`hazards` in `PROJECT.json`.

## 2. Modules

| Module | Models |
|---|---|
| `ByteSums` | `SUM(bytes)` over a set of rows, as the cardinality of a set of units, so that it can be proved about without recursion |
| `QueryGovernance` | the governance protocol, its callers, the provider's job and the clock |
| `QueryLedger` | what governance promises: an abstract ledger without leases, workers or jobs |
| `WarehouseReliability` | the warehouse protocol of one resource generation, with the provider execution that drives it |
| `PublicationLog` | what that protocol promises its readers |
| `UploadSession` | upload sessions beside direct uploads |
| `DeliveryProcessing` | the stages, rules, locks and archive of a workspace's deliveries |
| `IncrementalApplication` | policies, applications and states of one dataset |
| `CumulativeGold` | extends it with the analytics built from its head, of both formats |
| `TrustedFacts` | deliveries merged into trusted rows, their evidence, and the facts planned from it |
| `DimensionHistory` | member histories from accepted events, and the references of facts to them |
| `WarehouseModels` | composes the two: a resource is a FACT or a DIMENSION |
| `MetricServing` | composes publications, serving tables, dataset states and metric refreshes |
| `QueryGovernance_proofs`, `QueryBudget_proofs` | theorems about governance: settlement; budgets, concurrency, the ledger |
| `WarehouseReliability_proofs` | theorems about the warehouse protocol |
| `CumulativeGold_proofs` | theorems about applications, dataset states and their analytics |
| `UploadSession_proofs`, `DeliveryProcessing_proofs`, `MetricServing_proofs` | theorems about those modules |
| `WarehouseModels_proofs` | theorems about histories, references and facts |
| `MC*` | constants and symmetry of the small instances |

### QueryGovernance

A *request* is a request token. It has one reservation row (`status`, `reserved`,
`expiresAt`), at most one `usage` row and one provider `job`, because the job id is
made of reservation id and token. A *worker* is one synchronous call in some
process; `stage` is where it stands between two transactions and `serving` which
request it holds.

| Code | Actions |
|---|---|
| `reserve` under the global and the workspace advisory lock | `Admit`, `AdmitReused` |
| second dry run, `release` | `Release` |
| `claim` | `Claim` |
| `provider.execute`: third dry run; submit once; `result()` | `RefuseExecution`; `Submit`; `Await`, `AwaitFails` |
| `complete` by the executor | `Finalize` |
| `recover_governed_query`: read and permit; `provider.recover`; settle | `Recover`; `Observe`, `ObserveFails`; `Settle`, `SettleFailed` |
| process death, the provider, the clock | `Crash`; `Accept`, `Finish`; `Tick` |

Each repository function is one transaction under its locks, hence one action.
Provider calls are steps of their own: the submission leaves the process (`SENT`),
the provider may accept it any time later (`Accept`), and a caller that gave up does
not take it back. `Held`, `SettledToday`, `SettledThisMonth` are the WHERE clauses
of the usage snapshot; `Admissible` is `decide`. Only ALLOWED writes a reservation,
so the other decisions are the absence of the step. Two identities of duration are
kept (`job`, `wall`) because `complete` compares it.

Data left out: SQL text, rows, identity pins (a token with another identity is
refused), ownership (a refusal), confidence of the estimate and row limits (a
refusal). The provider is trusted for one thing, and the model says so in `Finish`: a job
is not billed more than the `maximum_bytes_billed` it was submitted with. The
day and month of the database clock are the operators `DayStart` and `MonthStart`, assumed
monotone and nested.

### WarehouseReliability

An *operation* is a request key with its intent. Every service call takes the row
lock of the model version (`lock` is the worker that holds it), so it is one
action. `ProviderService.execute` is three transactions with target calls in and between them:
`Lookup`; `RecordAbsence`, `Plan`; `StartApply` ... `EndApply` (its transaction
stays open while the target works, and only a crash or an error ends it early);
`RecordSuccess`; then `Reconcile`. A claim creates one run and the next fence, so a fence
stands for its run in `stage` and `proof`. The journal is kept as what the code reads
of it: the latest PLANNED or TARGET_RECEIPT entry (`stage`), the latest BLOCKED
entry (`blocked`), and the latest reconciliation (`proof`). `Expire` lets a lease end at any time.
`Attest` is `record_receipt` by any other adapter, whose attestations are `Truthful`;
a submission still under way looks like none to it, as it does to `Lookup`.

Left out: approval, ownership and configuration drift, archived resources (they
only refuse), the recomputation of the expected result (a receipt says whether it is `exact`), the
load job and staging tables inside `apply` (the same token, the same transaction),
several source mappings (the code has one PRIMARY source). Serving evidence is in `MetricServing`.

**Late submissions.** `apply` sends its job and can lose the connection before the provider accepted
it. With `LateSubmissions = TRUE` such a job (`sent`) may arrive any time after its caller
has failed; with FALSE it arrives at once or never. `WRProtocol` has TRUE. Under
FALSE, `SubmittedStaysCurrent` says that submitted work never loses the pins it was planned
under. Under TRUE there is one way for it to lose them, and the property says which: a worker
sends, fails and loses its lease; the next one finds no token and no job and records
NOT_APPLIED; another operation may now take the resource over and publish; then the first
submission arrives and is applied, with pins that are stale for good. Nothing wrong is published
(`PublishedWasApplied`, `ProgressIsChain` hold), but if its operation is claimed again, its success is
recorded and holds the resource, which then only manual review ends. So submitted work that is behind has
an answer recorded about it (`Receipted`), in every behaviour. BigQuery gives no bound on the delay of an
accepted-later request, so this is listed as a hazard; no document of the repository says
otherwise. `WRCurrent` checks the property under FALSE, where it is strongest; the theorem covers both settings.

### UploadSession

A *content* stands for its hash and bytes; a session announces a content and a file name, and
`staging` has a session when its staged object is what it announced. A worker is one call, `at` its place between
two calls of database or store. `complete` is `BeginComplete` (row lock and early return), `VerifyObject`,
`FindByHash`, `PromoteObject`, `InsertFile` (a transaction of its own), `CompleteSession`, `CleanUp`; an exception
frees the row (`CompletionFails`) and `FailSession` records it in the second transaction. `register_file` is
`BeginUpload`, `CreateFile`, `UploadObject`, `StoreFile`, `UploadFails`. A fault is an error of database or
store, an answer lost after a commit, or a crash. Not modelled: the upload_requests row of a direct upload,
authorization, and content changed while a still valid presigned URL is used after verification.

### DeliveryProcessing

A worker is one request. `at` names the block it stands in, `held` the session locks it still has. Each advisory lock is held on an idle connection of
its own, so that `LoseLock` can take it from a request that goes on (adr-0001:75); a try-lock is free when nobody holds it (`LifecycleFree`, `DatasetFree`, `DeliveryFree`). Two
history variables, `sharedLifecycles` and `sharedDeliveries`, record where somebody took a lock while a request that had lost it went on (`TakeLifecycle`, `TakeDelivery`): the only
exceptions of the properties that rest on exclusion. `LiveAttemptIsNotRecovered` has none, but speaks of a worker that holds its lock: one that lost it is recovered like a dead one, since nobody can tell them apart.

| Code | Actions |
|---|---|
| `start_processing`, `run_bronze` | `OpenBronze`, `SaveSchema`, `SaveProfiles`, `AssignFile`, `InitialiseRules` or `NoSuggestions` (a file without profiles raises), `CompleteBronze`, `FileAvailable`, `BronzeFails` |
| `process_pending` | one `Request` per eligible delivery, `ContinueStarted` |
| `continue_processing`, `delivery_lock` | `Request` (with `BeginContinue`, `Recover`) |
| `run_silver_processing` | `FindSilver`, `ReuseSilver`, `PlanSilver`, `OpenSilver`, `RefuseSilver`, `PublishSilver`, `SilverFails`; `LoseSilver`, `SilverLost` when the success commits and its acknowledgement is lost |
| `apply_incremental` raising in a governed dataset | `ApplyFails` (its success changes none of these tables) |
| `run_gold_processing` | `FindEmpty`, `SkipGold`, `FindGold`, `ReuseGold`, `PlanGold`, `OpenGold`, `RefuseGold`, `PublishGold`, `GoldFails`, `LoseGold`, `GoldLost` |
| `submit_business_rule_answers`, `finalize_business_rules` | `Submission`, `Finalize` |
| `archive_delivery` | `BeginArchive` (the lock and the context), `CheckArchive` (the delivery lock and the attempts), `Archive` (the update) |

Each repository transaction is one step; the reads before the first write of a stage are one step, and the write is another, so that it may meet what has changed. Data left out: the content of profiles and rules (a file asks a set of questions, an answer is
YES or NO), reports, artifacts other than by their run. `process_pending` is one request per delivery because it
keeps nothing between two of them. `update_business_rule_answer` has no caller. The statuses that a governed delivery's
reader sees on top of these (`DATASET_UPDATE_*`, `READY_TO_APPLY`) follow from `IncrementalApplication`.

### IncrementalApplication and CumulativeGold

A state is the set of deliveries whose rows its engine merged; `states`, `head`, `application`, `manifests` are the
tables. The locks are held on connections of their own, so `LoseLock` takes one away from a
worker that goes on: what keeps the head right then is only `_publish_metadata`. `apply_incremental` is `BeginApply`,
`StartApply` (or `RefuseExact`), `DeliveryManifest`, `ReadHead`, `Stage`, `RequireActive` (the publishing transaction takes the row of its application and reads the archive mark), `Publish`
(its commit) and, from its except block, `ApplyFails`; the owner may `SavePolicy` and `DeclareSnapshot`. An archive is `BeginArchive` (lock and context) and `Archive` (the update): the history variable `overtaken`
has the deliveries whose archive committed between those two steps of a publication. `POST .../apply` calls it without the delivery lock (`api/incremental.py:44`), so that only the lifecycle lock stands between it and an archive. Rules of a delivery are its Silver's rule version; versions in `ExactRules` declare exact
decimals and give manifest version 2.

`CumulativeGold` extends it: publishing a state also makes the analytics stale. A *refresher* is a request of format
1 (`BeginRefresh`, `ReuseRun` / `OpenRun`, `PublishRun`, `RefreshFails`, `SourceMoved`) or of the exact format 2 (`PrepareExact`, `RecheckExact`, `PinExact`,
`BeginPublishExact`, `PublishExact`, `RefuseExactGold`); `Approve` and `InsertExactRun` are the owner's. `Alone` says that the applying
workers' steps change nothing of Gold.

### TrustedFacts, DimensionHistory, WarehouseModels

`ApplyDelivery` takes any delivery of the small instance - what it says of each key (nothing, a row, a repeated or a contradicted row), whether
it is a complete or partial, normal, correcting or backfilling snapshot, and whether Silver withheld rows of it - merges it by the engine of the policy and appends its
evidence as a manifest. `Consume` plans the next manifests over the published facts and moves the checkpoint, `Replay` plans consumed ones again,
`Backfill` any range of accepted ones, also beyond the checkpoint, which stays (`warehouse_reliability_service.py:156-171`). A plan that
refuses one event refuses all, as the code raises. The grain of the facts is the business key.

In `DimensionHistory` an accepted event has a member, an effective time, tracked and other attributes and a mode. A version is named by the time it is valid
from, as its surrogate key is. `ConsumeEvent` is `compile_dimension` with `plan_scd1`, `plan_scd2` or `plan_repair` and `apply_plan`; `ReplayEvent` plans consumed evidence again; `Resolve`, `Infer`, `Complete`,
`Rebind` are `resolve_fact`, `plan_inference`, `plan_completion`, `plan_reresolution`. These four have no caller in the services of this
commit: they are the reference layer that its tests drive, and are modelled as such.

`WarehouseModels` composes the two as `model_adapter` does: by the type of the approved context.

### MetricServing

Data is abstracted to what can go wrong with it: a state is the sequence of key sets that its deliveries changed, a row is
the number of the delivery that changed it last, a metric's value is the rows it reads. So two values are equal only if they come from equal rows, and every
mixture of snapshots shows. Publications and states appear in one step each (`Accept`, `RefreshGold`,
`PublishIncremental`, `PublishHistory`): how they come about is `WarehouseReliability` and `CumulativeGold`. The steps of
materialization are `Capture`, `Load` (table and load job), `RunLoad` (the provider), `Await`, `Record`; those of a refresh
`BeginRefresh`, `PandasResult` in `Result`, `BindSources` or `Ineligible`, `AskWarehouse`, `Refused`, `Commit`, `EndRefresh`, `LoseLock`.

The composition relies on two facts that are checked elsewhere: that the warehouse holds at a position the rows of the state at that position
(`FactsMirrorRows`), and that Gold marked fresh is that of its state (`FreshIsCurrent`). Governance is here the set of used tokens (`asked`):
`AtMostOneSubmission` is why that suffices.

What a published batch may change differs by the kind of the model (`Compiles`). A fact refuses an event that is older than its published state
(`FactCompiles`, `fact_planning.py:460-466`). A member of a dimension does so too, except for a delivery declared as a CORRECTION:
`providers/planning.py:87-88` pins it to the digest of whatever is published, and `scd1.py:21-32` then asks for no order
(`DimensionCompiles`). The constants `Dimensions` and `Corrections` say which datasets and deliveries these are.

So two kinds of publication are not the state their source vector pins, and `ServedIsPinned` and `NoFalseMismatch` name both.
A BACKFILL beyond the checkpoint publishes rows that are newer (`Ahead`). The REPLAY of a consumed CORRECTION publishes its older values again, under the checkpoint's
pin, and the newer change of the member is then in no row of the served table (`Rewound`); only these members differ. For both a comparison can say MISMATCH although neither
engine is wrong. The refresh then falls back to Pandas, which is why `ResultIsOfItsPlan` needs no exception. A replayed correction lasts until a
newer change of the member is published: later normal events compare with the highest accepted order, which a correction keeps
(`docs/phase11c-scd-engine.md:61`, which also says that a correction "can explicitly restate SCD1 current values from older accepted evidence"
and is "not replay or backfill orchestration"; nothing in the code keeps a replay away from it).

## 3. Runs

No run checks deadlock: requests, clock, positions, fences, faults and runs are bounded and callers
may simply stop asking, so every behaviour of an instance ends somewhere.
All violations of safety would be found before that.

| Run | Instance | Shows |
|---|---|---|
| `QGBudget` | 3 requests, 2 in one workspace and 1 in another, 1 worker at a time, 2 slots, leases of 1 tick, days of 1 tick in months of 2, daily budget 2, monthly 3 | daily and monthly budget, the provider's bill within the daily budget, concurrency counting jobs that outlive their callers, refinement of `QueryLedger` |
| `QGRaces` | 1 request, 2 workers, `FairSpec` | one submission, a truthful settlement written once, and liveness: an ended, readable job is settled in the end |
| `WRProtocol` | 2 operations of every kind, 2 workers, 1 position, 2 fences, late submissions | chain, unresolved work, publication, manual review |
| `WRCurrent` | 2 operations, 2 workers, INCREMENTAL and BACKFILL, 1 position, 3 fences, no late submissions | submitted work stays publishable (its strongest case); refinement of `PublicationLog` |
| `WRLosingIntent` | INCREMENTAL and REPLAY | *violated*: finding 1 |
| `DPLifecycle` | 2 uploads: 2 files of a dataset, 1 file in 2 datasets, or 1 file sent twice; 2 workers; 5 attempts without a fault for two files, else 4 attempts and 1 fault; 2 rule versions; one governed dataset; one file whose rows are all rejected | the pipeline's locks, lineage, recovery, rules and archive |
| `DPProfiles` | as `DPLifecycle` | *violated*: finding 3 |
| `IAState` | 2 uploads, 2 workers, 2 refreshers, APPEND and SNAPSHOT, 2 policies, 3 states, 1 fault, exact and plain rules | the dataset head and its analytics |
| `USUploads` | 2 sessions and direct uploads, 2 workers, 1 content, 2 names, 1 fault, `FairSpec` | the registry of files, and liveness of a repeated completion |
| `WMModels` | facts: 2 keys, 2 values, 2 times, 3 deliveries, 2 publications; dimensions: 1 member, 2 tracked and 2 other values, 3 instants, 3 events, every SCD type | the engines, which late deliveries never make forget what is newer, their composition into facts, histories and references |
| `WMLateArrival` | SCD2, 1 member, 4 instants, 4 events | *violated*: finding 2 |
| `MSServing` | 1 dataset, a dimension whose first delivery is a CORRECTION, 2 keys, 2 histories of two overlapping deliveries, 2 publications, 1 materializer, 2 refreshers, 2 attempts, 1 fault, SHADOW and PRIMARY | served tables, comparison and promotion of metrics, also after a BACKFILL ahead and the REPLAY of a correction |

Why these bounds.

- *Governance*: a budget is broken by two requests that each fit alone; estimates 1 and
2 against budgets 2 and 3 make one pair fit and another not, and the third request is of a workspace whose own day has room when the project's month has not. A lease of one
tick expires in every run, and a day of one tick lets a job be billed on one
day and settled on the next. One worker suffices where the question is about rows, since
a worker can crash, leave its request behind and serve the other; races within one request have their
own run with two calls (an executor and a recovery, or two recoveries). In `QGBudget` jobs report billed bytes only, so that its settlements are failures with
partial counters and expiries; `QGRaces` settles successes too, and the budget theorems cover every report.
- *Warehouse protocol*: a stale worker and a takeover by another operation need a second claim; a writer
that ignores its fence overtakes submitted work only from the third claim on, so `WRCurrent` has three; two operations and two workers make every
pair of roles. Publication chains of two revisions contain a predecessor. With one position there is no gap to leave and no order to break: that positions are consumed in
order, each once, rests on the theorems `ProgressStaysChain` and `LogIsImplemented`.
- *Deliveries*: two requests meet in every lock; the three tables of uploads are the ways in which two deliveries share a file, a version or an
association; an attempt is one stage of one delivery, so that four attempts are a whole delivery with one retry after a crash or a failure, or the Bronze of two and a Silver with its retry, and five take one of two files through every stage while the other one moves its rules; one fault is enough for each hazard listed, as its consequences need no second.
- *States*: a race for the head needs two candidates of one base, a third state a successor; the second policy makes pinned applications old. One fault at a time; the theorems have any number.
- *Uploads*: one content, because different bytes never meet; two names, because raw objects are named by hash and name.
- *Facts*: a key that is inserted, missing and back needs three deliveries, one late row needs two times; two publications are a plan, or a backfill, and a replay or a plan over it.
- *Dimensions*: a closed interval with evidence before, inside and after it needs three events and three instants. All tracked
values beyond two behave like the second.
- *Serving*: two publications make one that is not the head any more, two overlapping deliveries rows of both in one table; two refreshers a dead
coordinator and its successor. One dataset: what is bound to a second dataset is bound in the same transaction and by the same pins. No publication without rows. One delivery of the dimension is a correction and the other is not,
so that both ways of `DimensionCompiles` to take a change occur; what a fact refuses is covered by the theorems.

The theorems of section 6 remove the bounds for the properties they state.

Symmetry: workers, refreshers, operations of the warehouse, keys and values, and the two requests of one workspace are interchangeable model values: no
action or property names one. Runs with liveness use no symmetry.

Every property is also run against a mutated definition (`mutants` in
`PROJECT.json`): each is a slip one could make in the mapped code - a lease compared in the wrong sum, a
dropped fence, the head compared only by format, a staged object thrown away after a failure - and TLC must then find the property violated. The mutated
forms stand beside the definitions, marked "Slip".

The type invariants (`TypeOK` of `QueryGovernance`, `WarehouseReliability` and `DeliveryProcessing`, `ApplicationTypeOK`, `GoldTypeOK`, `UploadTypeOK`),
`SettlementInvariant` and `PublishedIsClosed` are proved, for every instance, and not run.

## 4. Fairness

Two runs need it. `QueryGovernance!FairSpec` assumes that a running call continues (weak fairness of each
worker's own steps), that an accepted job ends (the provider's timeout), and that a recovery that
is made again and again does not fail or crash every single time (strong fairness of its three steps). It does not assume that anybody asks:
the code has no scheduler for recovery, it runs when a caller does. `EndedJobIsSettled` therefore has repeated requests (`RecoveryIsRetried`) as premise.
There is no fairness for `Accept`: a submission may be lost.

`UploadSession!FairSpec` assumes that a running call continues and that a client repeats the completion of its upload whenever it could be
started (strong fairness, because the row may be locked by another call in between; the service tells the client to retry the same upload_request_id). Nothing
makes a client send its object again, so `PutObject` is not fair and the property starts from a staged object. Faults are bounded.

Not promised, because the code gives no way: a reservation claimed by a process that died before
it submitted stays EXECUTING, since each recovery finds no job and leaves it; a token whose
reservation expired or was released is not admitted again; a Bronze attempt of a dead worker stays
PROCESSING, since it has no association by which a delivery lock could recover it, and keeps its file from every later stage; a serving load that
failed keeps its job id, so that its publication is never served.

## 5. Abstract specifications

`QueryLedger` (requests reserve bytes, are released or settled, within budgets) is implemented by `QueryGovernance` (`LedgerImplemented`, in `QGBudget`), with reserved bytes mapped to
the held rows and time to the database clock. `PublicationLog` (positions are accepted, consumed in order or published aside) is implemented by `WarehouseReliability` (`LogImplemented`, in
`WRCurrent`). Both refinements are also proved (section 6). Both are written without workers, leases and receipts: what a reader of the tables may count on. `PublicationLog` and `QueryLedger` stand for no code of their own.

## 6. Proofs

All constants are arbitrary in the theorems: any number of requests, workers, deliveries, keys, values, positions, faults. The assumptions are those of the modules, and TLC evaluates
them in each run of their module: `PolicyAssumption` (the checks of `QueryPolicy`), `ScopeAssumption`, `ClockAssumption` (monotone day and month) of `QueryGovernance`, `ScopeAssumption` of `WarehouseReliability`,
and one per other module that says that bounds are naturals, that identifiers are what their tables allow (an upload is a positive number) and that choices come
from the code's enumerations, with finite sets of uploads, files and datasets where the proofs count them. Bounds stay in the theorems, as arbitrary numbers.
No theorem has a hypothesis of its own.

Few of the properties are inductive. What each proof adds is the point of it, and follows here.

*Governance* (`QueryGovernance_proofs`, `QueryBudget_proofs`).
- `TypeCorrect`: `TypeOK`, with the fact that a busy worker serves a request.
- `SettlementConsistent`: `SettlementIsTrue` needs `SettlementInvariant`: per request, what row, job and
  usage say of each other; per worker, what its stage proves about its request (a
  worker about to settle has seen the job end, a worker with an unused claim has an EXECUTING
  request without a job); and that two workers never hold an unused claim of one request.
  `SettlementIsTrueAlways` and `SubmittedOnce` follow from it.
- `DailyBudgetAlwaysHolds`, `MonthlyBudgetAlwaysHolds`: settled plus held bytes fit, at every time. An admission adds exactly what `Admissible` checked; a settlement moves a request from the held to the
  settled set with no more bytes than were held (by `SettlementInvariant` the job is within the
  cap, the cap within the reservation); the clock only removes rows from the sums; everything else leaves
  the sums or makes them smaller. The laws of sums over changing sets come first in `QueryGovernance_proofs`.
- `ProviderSpendIsBudgeted`: a job that ended today is booked today in full, or is unsettled and still reserved with at least its bill (`FinishedIsAccounted`). So the bill of a day
  is at most the use that the daily budget bounds, although the job and its settlement may lie on different days.
- `ConcurrencyAlwaysHolds`: held requests are within the limits, and every unfinished job belongs to an EXECUTING
  request, which is held.
- `SettlementIsFinal`: only an EXECUTING request is settled, and a settled one is not EXECUTING.
- `GovernanceImplementsLedger`: admissions are the ledger's reservations, claims its claims, releases and settlements its ends; the clock lets reservations lapse; every other step stutters. A row that is claimed after its lease ended would come
  back from the freed ones: that `Claimable` looks at the lease is what the refinement needs.

*Warehouse* (`WarehouseReliability_proofs`). Late submissions may happen or not in all of these.
- `ProtocolTypeCorrect`: `TypeOK`, with pins within the accepted positions and claims only of existing operations (`TypeInv`).
- `UnresolvedNeverBypassed`: the model has eighteen actions, but `StepKinds` sorts their effect on lease and journal
  into seven (quiet, claim, expiry, journal entry, reconciliation, publication, review), and only a worker that passes
  `Writer` makes the last four (`WriterWrites`). `LeaseInv` strengthens the property: the unresolved operation holds the lease, a published
  operation's run has ended, and an operation under manual review holds the resource with no run left. So no other operation can pass `Superseded`.
- `PublishedStaysClosed`, `ManualReviewIsFinal` follow step by step from `LeaseInv`: a writer's operation is neither published nor under review.
- `PublicationIsTrue`: a successful, exact receipt is only written while the job is applied (`AnswerSeen`: a worker in stage `applied` has seen it), an
  applied job stays applied, a passed reconciliation copies its receipt, and `publish` compares that copy with the latest
  entry (`EvidenceInv`).
- `ProgressStaysChain`: with `PinsAgree` (an intent pins publication and revision of one head) the compare-and-swaps of `publish` force what it appends to
  be number n + 1 after n (`PublishEffect`); `PublishedExist` says that a new intent does not change what was published.
- `LogIsImplemented`: `Register` is `Accept`, `Publish` is `Consume` or `Aside`, and every other step stutters.
- `SubmittedWorkIsCurrent`: fences of running claims differ, so that one worker at most passes `Writer`; what that one
  planned is current when it submits (`Prepares`); from then on its operation is unresolved and keeps the resource, so that nobody else publishes, until
  an answer other than success or uncertainty is recorded (`Submitted`). Without late submissions a writer that has not submitted has no job (`NothingToJoin`), so that such
  an answer is never recorded of a job that is to come; with them it can be, and the property says no more than that it was recorded.

*Dataset states and analytics* (`CumulativeGold_proofs`). The theorems about the application hold for `IncrementalApplication` alone and beside analytics.
- `ApplicationTypeCorrect`: types, that a running request serves an application, that applications are pinned.
- `NothingIsLost`, `StatesAreChain`, `EachAppliedOnce`: one invariant, `ChainInv`. Locks are no part of it, since they can be lost. A state is what its predecessor holds and its own delivery, and fits its predecessor in format and rules (`RowInv`); a worker
  between reading the head and publishing works on a base that its delivery fits, and publishes its own candidate (`WorkInv`); the head is
  published, or nothing is (`HeadInv`). What makes a publication extend the chain is the comparison with the head inside its transaction.
- `ArchivedIsNotPublished`: `CheckInv` says of the publishing transactions that have looked at the archive mark that there is one per delivery (they hold the row of the application), that the application still runs, and that
  an archive since then is in `overtaken`. The lifecycle lock has one holder, which is why an archive beside a transaction whose lock is intact does not exist.
- `GoldTypeCorrect`, `AnalyticsAreCurrent`, `GoldIsFinal`: a run has the format of its state (`RunInv`), approvals are of exact states (`ApprovalInv`), a request works on a run of the state it started from
  (`RequestInv`), and fresh analytics are a successful run over the head (`FreshInv`), since whatever moves the head makes them stale in the same transaction.

*Uploads* (`UploadSession_proofs`). `UploadInv`: the row lock of a session has one holder and the session is open (`LockInv`), bytes are in the store before a row names
them (`BytesInv`), and who is about to report a new file made it (`NewInv`). `UploadedBytesExist`, `NewIsTheCreator` and `CompletedUploadStands` follow.

*Deliveries* (`DeliveryProcessing_proofs`). Locks can be lost, so `DeliveryInv` keeps apart what holds whatever is lost and what needs a delivery that was never shared.
- `ControlInv`: a lock has one holder; two requests stand in the same block only of an upload in `sharedLifecycles` or an association in `sharedDeliveries`; nobody is inside an archived delivery but there. From it: `ArchivedDeliveryIsIdle`.
- `WorkInv`, of every delivery: a Silver or Gold row keeps the association of the attempt that wrote it, and Silver is under the pinned rules (`RowsInv`); requests have attempts of their own (`AttemptsApart`); what a request
  read before it opened a stage is of its delivery, and its attempt is PROCESSING while it holds the delivery lock (`Knows`); a finished delivery was built (`Finished`). From it: `LiveAttemptIsSafe` and the first half of `SuccessIsTrue`.
- `SoleInv`, of deliveries outside of `sharedDeliveries`: the one request at work owns the status (`Owns`), a success has successful attempts and a Silver run one Gold run (`Sole`). From it: `GoldIsPublishedOnce`, `SuccessIsKept` and the other
  half of `SuccessIsTrue`.
- `RuleInv`: no snapshot is ahead of its version's number and the current one is the draft (`DraftInv`); a delivery that reuses rules has a profile (`ReuseInv`). From it: `SnapshotIsTheDraft`, `ReusedRulesCover`.

  A step changes the rows of at most one association (`Kept` for the others), which is what keeps the case analysis over all stages in hand.

*Serving and metrics* (`MetricServing_proofs`). What the newest publication of a lineage that holds a key says of it is the newest change of the key in the lineage, or a correction of a dimension
(`Wins`), and the lineage reaches every change its pin covers (`Reaches`): so the overlay of a publication holds, for every key that was not taken back, a change that is no older than the newest one its pin
covers (`HoldsItsPin`). For a publication that is not ahead of its pin the two coincide, which is `ServingIsPinned` once tables are known to be empty or the overlay of their
publication (`ServingInv`). A bound query reads publications with evidence that pin the very states of its plan, so that a mismatch is explained by a publication ahead of its pin or by a member taken back
(`RefreshInv`; an explanation lasts, since publications are only appended, `ExplainedStays`): `MismatchIsADefect`. `StoredResultIsPandas` needs in addition that the promoted
answer was compared equal with the attempt's own Pandas result. Which datasets are dimensions and which of their deliveries are corrections are parameters, so that all three cover facts, dimensions and both.

*Histories, references and facts* (`WarehouseModels_proofs`).
- `HistoriesAreEvidence`: `EvidenceInv` says that the versions of a member do not overlap, one is open and none is missing after the first, and what the state knows of the accepted evidence. Forward planning
  closes the tail, a repair splits or fills one interval or precedes all of them, each in a lemma of its own.
- `SkippedReferencesHold`: a reference shows the version that the state it pins had at its time (`ReferenceInv`), and the affected ranges of two states cover every time at which their versions differ (`RangesCover`).
- `FactsAlwaysMirrorRows`: the property plans the unconsumed manifests, a computation over data of any length. `Run` is that computation as a function; the lemmas say that it exists, extends by one
  manifest, does not look beyond its range, and can be cut and composed (`RunProceeds`, `RunIsLocal`, `RunIsCut`). `Reached` is what the manifests make of no facts, position by position: the history
  of every key. `TrustedInv`: the history mirrors the rows at its end, and every published fact is `InStep` with the checkpoint: the point of the history that the checkpoint or its own later position stands for, unless an event was leapt over.
  Any accepted plan keeps a fact in step (`PlanInStep`), a plan of the next manifests moves it to the new checkpoint and leaps over nothing (`PlanPasses`), and without a leap it is accepted (`PlanAccepts`). A merge appends evidence that takes facts mirroring the old rows to facts mirroring the new ones (`MergeIsEvidence`, by the outcomes of the three engines).
- `ReplaysChangeNothing`: a consumed event is a retry or is refused (`TakesOn`), so an accepted replay ends where it began. `LateDeliveriesNeverRewind` is a case analysis of the engines' outcomes, given that no row holds from after the boundary.

Only model-checked: the liveness properties `EndedJobIsSettled` and `RetriedUploadCompletes`, since the temporal backend has no rule for ENABLED and so none for fairness; and what the three violation runs
refute. The library's induction theorems take an operator as parameter, which no installed prover instantiates; the inductions over runs, maxima and overlays are therefore proofs by a least counterexample
in a set (`WFMin` on the naturals). No module uses a RECURSIVE operator: recursion is a recursive function.

## 7. Findings

1. *Losing intent* (`WRLosingIntent`). `docs/phase11e-warehouse-reliability.md:350` tells the loser of a
   head or checkpoint race to create a new intent. For INITIAL_LOAD, INCREMENTAL and REBUILD the
   dispatch key leaves out the request key and is unique, so the old intent with its stale pins comes back; only another range of manifests
   gets past it.
2. *Late arrival* (`WMLateArrival`). `docs/phase11d-late-data-resolution.md:61` says that histories that learnt the same evidence in different
   orders agree in their as-of values. An unchanged observation leaves no boundary, and late evidence for a closed interval fills it to the next boundary: x at 1, x at 3, y at 4, then y
   late at 2 gives y on [2,4), though x was accepted for 3. In order, the value at 3 is x. `HistoryIsEvidence` (each version starts where evidence says so) holds all the same.
3. *Half a Bronze* (`DPProfiles`). `processing_service.py:94` takes a file that has a schema hash for one that has completed Bronze. The hash is committed before the profiles
   (`:172`, `:177`); a failure or a crash between the two leaves the hash, and the next delivery of the same bytes, or a repeated request, is associated without profiles. Then the initialisation of its rules
   raises ValueError (`rule_suggestion_service.py:11-21`, through `rule_reuse_service.py:43`), and the delivery stays UPLOADED: Bronze is never run again for these bytes, and every retry ends the same way (`NoSuggestions`).

## 8. Not modelled

- *Data transformations*: parsing, typing, profiling, mart and chart building, exact arithmetic, hashing, SQL text of metrics, questions and analytics, AI prompts. Their errors are
not errors of order, and their state spaces are data.
- *Warehouse modeling lifecycle, authentication, ownership adoption, workspaces, relationships*: single transactions under a row lock, otherwise CRUD. The protocols see an approved
version, an owner and an unarchived resource; each check of them only refuses.
- *HTTP API, frontend*: handlers over the services; what a handler chooses (the stage it asks for) is an input of `DeliveryProcessing`.
- *Within modelled components*: several source mappings; the staging tables inside `apply`; metrics over joined datasets in the instance of `MetricServing`; an explicit recovery of a shadow query, which no
service calls; content of a staged object changed under a still valid presigned URL between hash and copy; incomplete Gold metadata of earlier versions of the program,
recovered into the same run like any publication left behind; `finalize_presigned_upload` and `update_business_rule_answer`, which have no caller.
- *Known refusals*: the fact planner refuses a replay or a backfill that touches a key changed later. A backfill beyond the checkpoint that publishes an event of a key before an earlier one was
consumed stops the chain: every later plan of the next manifests raises "accepted order conflict" (`fact_planning.py:466-472`), and nothing takes the backfill back. `FactsMirrorRows` states it exactly (`LeaptOver`);
`docs/phase11e-warehouse-reliability.md:230-233` promises of a backfill only that it does not change the normal source position, which holds. A backfilled UNCHANGED event of a key that is inactive in what was consumed, and active again
by an event leapt over, is taken over an inactive fact. A late accepted event in the open interval of
a dimension refuses its whole manifest, so that the chain stops until a correction. These have no promise to break.
- *Replays of corrections*: `ReplayIsIdentity` is about facts. A consumed correction of a dimension that is replayed does change it: see `MetricServing`, where it is modelled for SCD1. A member of an SCD2 dimension is published as its whole timeline, and
its repair answers a known boundary with ALREADY_APPLIED or a CORRECTION in place (`DimensionHistory`); that its served timeline is the pinned one is not stated.
- *A late executor*: when a recovery has settled a job first, the executor's own completion conflicts (it measured another duration), and it is told to recover a
reservation that is settled already. The model has the path; the accounting stays right (`SettledOnce`).

## 9. Plan

Done: the models of governance, warehouse reliability, uploads, deliveries, rules and archive, application and cumulative Gold, engines, facts and histories, serving and metrics; the type
invariants, safety invariants and action properties of all of them as theorems. Left, in this order:

1. An abstract specification of a dataset's state (deliveries are applied, in some order, each once; analytics are those of a past or the present state), implemented by `CumulativeGold`.
2. An abstract specification of a delivery's pipeline (received, reviewed, silver, gold, archived), implemented by `DeliveryProcessing` through its attempts, locks and retries.
3. `MetricServing` with more than one materializer, and with a fact beside the dimension, in its run, now that the theorems say where to look.
4. The warehouse modeling lifecycle, the largest component without a model.
