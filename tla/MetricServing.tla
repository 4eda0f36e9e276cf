---------------------------- MODULE MetricServing ----------------------------
(***************************************************************************)
(* Where the warehouse meets the metrics.  An operator materializes the     *)
(* current publication of a dataset's warehouse resource into a serving     *)
(* table of its own (warehouse_provider_service.py, providers/bigquery.py)  *)
(* and records a receipt for it.  A metric refresh computes its plan with   *)
(* Pandas over the Gold of the datasets' current states and, when the       *)
(* rollout allows it, asks BigQuery the same question over the serving      *)
(* tables (workspace_analytics_service.py, metric_shadow_service.py,        *)
(* metric_rollout_service.py).  Datasets and their publications move on     *)
(* between any two of these steps.                                          *)
(*                                                                          *)
(* The data is abstracted to what can go wrong with it: a state is the      *)
(* sequence of the key sets that its deliveries changed, a row is the       *)
(* number of the delivery that changed it last, and a metric's value is the *)
(* rows it reads, so that two values are equal only if they come from equal *)
(* rows.  A dataset's accepted deliveries, states and manifests share one   *)
(* numbering.  What the publication protocol does to get a publication is   *)
(* WarehouseReliability; here a publication appears in one step.            *)
(***************************************************************************)
EXTENDS Naturals, Sequences, FiniteSetsExt, Functions

CONSTANTS
    Datasets,        \* what one metric plan reads: its fact and its dimension
    Dimensions,      \* those of them that are published as a dimension
    Corrections,     \* the deliveries <<dataset, number>> of kind CORRECTION
    Keys,            \* identities of rows
    Histories,       \* bound: the sequences of deliveries, each a set of changed keys
    MaxPublications, \* bound: publications of a resource
    Materializers,   \* calls of materialize_current_publication
    Refreshers,      \* calls of refresh_analytics
    Rollouts,        \* settings of the two rollout flags
    MaxAttempts,     \* bound: metric result rows
    MaxFaults        \* bound: lost answers, failed jobs, crashes, lost locks

ASSUME BoundsAssumption ==
    /\ Dimensions \subseteq Datasets /\ Corrections \subseteq Datasets \X Nat
    /\ Histories \subseteq Seq(SUBSET Keys)
    /\ {MaxPublications, MaxAttempts, MaxFaults} \subseteq Nat
    /\ Rollouts \subseteq {"PANDAS", "SHADOW", "PRIMARY"}

VARIABLES
    states,    \* dataset -> the key sets its accepted deliveries changed
    gold,      \* dataset -> the newest state with FRESH Gold, or 0
    chain,     \* dataset -> the publications of its resource
    tables,    \* identity of a materialization -> rows of its serving table
    loads,     \* identity of a materialization -> state of its load job
    receipts,  \* dataset -> publications with serving evidence
    work,      \* materializer -> what it holds between its steps
    refresh,   \* refresher -> what it holds between its steps
    lock,      \* holders of the workspace's execution lock: at most one
    results,   \* the rows of workspace_metric_results, oldest first
    asked,     \* request tokens of queries that were claimed
    rollout,   \* the rollout flags of the process
    faults     \* faults so far

warehouseVars == <<chain, tables, loads, receipts, work>>
metricVars == <<refresh, lock, results, asked>>
vars == <<states, gold, warehouseVars, metricVars, rollout, faults>>

Current(d) == Len(states[d])
HeadOf(d) == Len(chain[d])

(* The rows of state n: each key with the last delivery that changed it.    *)
ChangedIn(d, first, last) == UNION {states[d][i] : i \in first .. last}
Changes(d, k, first, last) == {i \in first .. last : k \in states[d][i]}
LastChange(d, k, first, last) == Max(Changes(d, k, first, last))
Rows(d, first, last) ==
    [k \in ChangedIn(d, first, last) |-> LastChange(d, k, first, last)]
Content(d, n) == Rows(d, 1, n)

-----------------------------------------------------------------------------
(* Datasets and publications: the environment of this module.               *)

(* An accepted delivery publishes the next state; its Gold is refreshed     *)
(* later, by its own request.                                               *)
Accept(d, history) ==
    /\ Current(d) < Len(history) /\ states[d] = SubSeq(history, 1, Current(d))
    /\ states' = [states EXCEPT ![d] = SubSeq(history, 1, Current(d) + 1)]
    /\ UNCHANGED <<gold, warehouseVars, metricVars, rollout, faults>>

RefreshGold(d) ==
    /\ gold[d] # Current(d)
    /\ gold' = [gold EXCEPT ![d] = Current(d)]
    /\ UNCHANGED <<states, warehouseVars, metricVars, rollout, faults>>

(* The checkpoint stands in the source vector of the last publication: only *)
(* INCREMENTAL moves it, REPLAY and BACKFILL pin the state it stood at.     *)
Checkpoint(d) == IF chain[d] = <<>> THEN 0 ELSE chain[d][HeadOf(d)].pin
Ahead(d, p) == \E i \in 1 .. p : chain[d][i].last > chain[d][p].pin

Publish(d, first, last, pin) ==
    /\ HeadOf(d) < MaxPublications
    /\ chain' = [chain EXCEPT ![d] = Append(@,
         [pin |-> pin, last |-> last, rows |-> Rows(d, first, last)])]
    /\ UNCHANGED <<states, gold, tables, loads, receipts, work, metricVars, rollout, faults>>

(* The publications from p back to the first, and the rows each one wrote.  *)
Lineage(p) == 1 .. p
Candidate(d, i) == chain[d][i].rows
Holding(d, p, k) == {i \in Lineage(p) : k \in DOMAIN Candidate(d, i)}

(* Slip: the lineage is overlaid oldest first.                              *)
FirstWins(d, p, k) == Min(Holding(d, p, k))

(* The newest publication of the lineage that holds a key wins.             *)
NewestWins(d, p, k) == Max(Holding(d, p, k))

CompleteState(d, p) ==
    [k \in UNION {DOMAIN Candidate(d, i) : i \in Lineage(p)} |->
        Candidate(d, NewestWins(d, p, k))[k]]

Corrects(d, i) == <<d, i>> \in Corrections

(* A fact is not taken back behind its published state, and one that has    *)
(* none is inserted by its first change.                                    *)
FactCompiles(d, k, changes, prior) ==
    IF k \in DOMAIN prior
    THEN \A i \in changes : i >= prior[k]
    ELSE k \notin ChangedIn(d, 1, Min(changes) - 1)

(* A member of a dimension keeps the newest order it ever had.  A normal    *)
(* change must be newer, or repeat the change that was applied last; a      *)
(* CORRECTION is given the digest of whatever is published and no order is  *)
(* asked of it.                                                             *)
DimensionCompiles(d, k, changes, prior) ==
    k \in DOMAIN prior =>
      \A i \in changes :
        \/ Corrects(d, i)
        \/ \A p \in Holding(d, HeadOf(d), k) : i > Candidate(d, p)[k]
        \/ i = prior[k] /\ i = Min(changes)

(* A batch compiles against the published state of the keys it changes.     *)
Compiles(d, first, last) ==
    LET prior == CompleteState(d, HeadOf(d))
    IN  \A k \in ChangedIn(d, first, last) :
          IF d \in Dimensions
          THEN DimensionCompiles(d, k, Changes(d, k, first, last), prior)
          ELSE FactCompiles(d, k, Changes(d, k, first, last), prior)

PublishIncremental(d, last) ==
    /\ last > Checkpoint(d)
    /\ Compiles(d, Checkpoint(d) + 1, last)
    /\ Publish(d, Checkpoint(d) + 1, last, last)

(* REPLAY stays at or before the checkpoint, BACKFILL need not.             *)
PublishHistory(d, first, last) ==
    /\ Compiles(d, first, last)
    /\ Publish(d, first, last, Checkpoint(d))

-----------------------------------------------------------------------------
(* materialize_current_publication                                          *)

Idle == [at |-> "idle"]

(* Token, load job and serving table are named by the pins of the one       *)
(* publication they belong to.                                              *)
Identity(d, p) == [dataset |-> d, publication |-> p]
Identities == [dataset : Datasets, publication : 1 .. MaxPublications]

(* The immutable request: all rows of the publication, not just its own.    *)
Request(d, p) == [at |-> "captured", id |-> Identity(d, p), rows |-> CompleteState(d, p)]

(* Transaction 1: the head, its pins and its lineage.  Lineage is immutable,*)
(* so the rows read from it afterwards are those of this moment.            *)
Capture(m, d) ==
    /\ work[m] = Idle
    /\ chain[d] # <<>>
    /\ work' = [work EXCEPT ![m] = Request(d, HeadOf(d))]
    /\ UNCHANGED <<states, gold, chain, tables, loads, receipts, metricVars, rollout, faults>>

NoJob(id) == id \notin DOMAIN loads
With(f, id, value) == [x \in DOMAIN f \union {id} |-> IF x = id THEN value ELSE f[x]]
CreateTable(id) == IF id \in DOMAIN tables THEN tables ELSE With(tables, id, <<>>)
SubmitJob(id) == With(loads, id, "RUNNING")

(* The publication's own table is created if absent.  Its load job is       *)
(* submitted once, and not at all if there is nothing to load.  The answer  *)
(* may be lost, and the job with it.                                        *)
Load(m) ==
    LET w == work[m]
        needed == NoJob(w.id) /\ w.rows # <<>>
    IN  /\ w.at = "captured"
        /\ tables' = CreateTable(w.id)
        /\ \/ /\ loads' = IF needed THEN SubmitJob(w.id) ELSE loads
              /\ work' = [work EXCEPT ![m].at = "loading"]
              /\ UNCHANGED faults
           \/ /\ faults < MaxFaults
              /\ faults' = faults + 1
              /\ needed
              /\ loads' \in {loads, SubmitJob(w.id)}
              /\ work' = [work EXCEPT ![m] = Idle]
        /\ UNCHANGED <<states, gold, chain, receipts, metricVars, rollout>>

(* The provider runs a load job: WRITE_EMPTY fills an empty table or fails. *)
RunLoad(id) ==
    /\ ~NoJob(id) /\ loads[id] = "RUNNING"
    /\ \/ /\ tables[id] = <<>>
          /\ tables' = [tables EXCEPT ![id] = CompleteState(id.dataset, id.publication)]
          /\ loads' = [loads EXCEPT ![id] = "DONE"]
          /\ UNCHANGED faults
       \/ /\ faults < MaxFaults
          /\ faults' = faults + 1
          /\ loads' = [loads EXCEPT ![id] = "FAILED"]
          /\ UNCHANGED tables
    /\ UNCHANGED <<states, gold, chain, receipts, work, metricVars, rollout>>

Succeeded(id) == loads[id] = "DONE"
ReadServing(id) == tables[id]

(* The job has succeeded, if there is one, and an independent read returns  *)
(* the requested rows.                                                      *)
Verified(w) ==
    /\ NoJob(w.id) \/ Succeeded(w.id)
    /\ ReadServing(w.id) = w.rows

(* Otherwise (still running at the timeout, failed, other rows) the call    *)
(* fails and may be repeated.                                               *)
Await(m) ==
    /\ work[m].at = "loading"
    /\ work' = [work EXCEPT ![m] =
         IF Verified(@) THEN [@ EXCEPT !.at = "verified"] ELSE Idle]
    /\ UNCHANGED <<states, gold, chain, tables, loads, receipts, metricVars, rollout, faults>>

StillHead(id) == HeadOf(id.dataset) = id.publication

(* Transaction 2: the receipt is recorded only for the current head.        *)
Record(m) ==
    LET id == work[m].id
    IN  /\ work[m].at = "verified"
        /\ receipts' = IF StillHead(id)
                       THEN [receipts EXCEPT ![id.dataset] = @ \union {id.publication}]
                       ELSE receipts
        /\ work' = [work EXCEPT ![m] = Idle]
        /\ UNCHANGED <<states, gold, chain, tables, loads, metricVars, rollout, faults>>

-----------------------------------------------------------------------------
(* refresh_analytics                                                        *)

Plan == [d \in Datasets |-> Current(d)]
Compilable == \A d \in Datasets : Current(d) > 0 /\ gold[d] = Current(d)

Fresh(plan) == {r \in 1 .. Len(results) :
                  results[r].status = "FRESH" /\ results[r].plan = plan}

Interrupted ==
    [r \in 1 .. Len(results) |->
        IF results[r].status = "COMPUTING"
        THEN [results[r] EXCEPT !.status = "FAILED"] ELSE results[r]]

NoAnswer == <<>>
Ended == [at |-> "ended"]

(* One workspace lock; a FRESH result of the same plan is reused; attempts  *)
(* of dead coordinators are closed; a new attempt is inserted.              *)
BeginRefresh(c) ==
    /\ refresh[c] = Idle /\ lock = {}
    /\ Compilable /\ Fresh(Plan) = {}
    /\ Len(results) < MaxAttempts
    /\ lock' = {c}
    /\ results' = Append(Interrupted,
         [plan |-> Plan, status |-> "COMPUTING", output |-> NoAnswer])
    /\ refresh' = [refresh EXCEPT ![c] =
         [at |-> "computed", plan |-> Plan, attempt |-> Len(results) + 1,
          outcome |-> "NONE", token |-> NoAnswer, answer |-> NoAnswer]]
    /\ UNCHANGED <<states, gold, warehouseVars, asked, rollout, faults>>

(* The metric's value is the rows it reads; the form is how the public      *)
(* result writes it (the scale of a decimal, the type of a number).         *)
Result(rows, form) == [rows |-> rows, form |-> form]

(* Pandas reads the Gold of exactly the states of the plan.                 *)
GoldRows(plan) == [d \in Datasets |-> Content(d, plan[d])]
PandasResult(plan) == Result(GoldRows(plan), "public")

(* The input is invalid or over a limit: the attempt fails.                 *)
FailAttempt(c) ==
    LET r == refresh[c].attempt
    IN  /\ refresh[c].at = "computed" /\ refresh[c].outcome = "NONE"
        /\ results' = IF results[r].status = "COMPUTING"
                      THEN [results EXCEPT ![r].status = "FAILED"] ELSE results
        /\ refresh' = [refresh EXCEPT ![c] = Ended]
        /\ UNCHANGED <<states, gold, warehouseVars, lock, asked, rollout, faults>>

(* The joined row of a resource's current publication: the state its source *)
(* vector pins, and its serving evidence if there is any.                   *)
PinnedState(d) == chain[d][HeadOf(d)].pin
Served(d) == HeadOf(d) \in receipts[d]
HasBinding(d) == chain[d] # <<>>

(* Slip: the current publication is used whatever state it pins.            *)
BoundServed(d, plan) == HasBinding(d) /\ Served(d)

(* A dataset is bound to its current publication only, which must pin the   *)
(* state of the plan and have evidence.                                     *)
Bindable(d, plan) ==
    /\ HasBinding(d)
    /\ PinnedState(d) = plan[d]
    /\ Served(d)

(* The request token is the digest of the plan and of the pins.             *)
Token(plan) == [plan |-> plan, pins |-> [d \in Datasets |-> HeadOf(d)]]

ShadowPlace == IF rollout = "PRIMARY" THEN "computed" ELSE "committed"
Shadowing(c) ==
    rollout # "PANDAS" /\ refresh[c].at = ShadowPlace /\ refresh[c].outcome = "NONE"

(* All datasets are bound in one transaction.                               *)
BindSources(c) ==
    /\ Shadowing(c)
    /\ \A d \in Datasets : Bindable(d, refresh[c].plan)
    /\ refresh' = [refresh EXCEPT ![c].at = "bound", ![c].token = Token(refresh[c].plan)]
    /\ UNCHANGED <<states, gold, warehouseVars, lock, results, asked, rollout, faults>>

(* A refused, lost or ineligible query leaves the result to Pandas, with    *)
(* whatever code: these outcomes are one.                                   *)
Unanswered(c) ==
    [refresh EXCEPT ![c].at = ShadowPlace, ![c].outcome = "UNANSWERED", ![c].token = NoAnswer]

(* A binding is missing, or the definition or the numbers are not portable. *)
Ineligible(c) ==
    /\ Shadowing(c)
    /\ refresh' = Unanswered(c)
    /\ UNCHANGED <<states, gold, warehouseVars, lock, results, asked, rollout, faults>>

(* The compiled query reads the tables of the bound publications, whatever  *)
(* the heads are by then.                                                   *)
ServingRows(token) == [d \in Datasets |-> tables[Identity(d, token.pins[d])]]

(* Decoding keeps the value and may write it in another form than Pandas.   *)
Decoded(token, form) == Result(ServingRows(token), form)

(* Exact comparison of the values, whatever their form.                     *)
Compared(token) ==
    IF ServingRows(token) = GoldRows(token.plan) THEN "MATCH" ELSE "MISMATCH"

(* A refresh that only observes keeps the evidence and no answer.           *)
Answered(c, form) ==
    LET token == refresh[c].token
    IN  [refresh EXCEPT ![c].at = ShadowPlace, ![c].outcome = Compared(token),
                        ![c].answer = IF rollout = "PRIMARY" THEN Decoded(token, form) ELSE NoAnswer]

(* The governed query succeeds, or its answer is lost or does not decode;   *)
(* either way its token is used up.                                         *)
AskWarehouse(c) ==
    LET token == refresh[c].token
    IN  /\ refresh[c].at = "bound"
        /\ token \notin asked
        /\ asked' = asked \union {token}
        /\ \/ /\ \E form \in {"public", "other"} : refresh' = Answered(c, form)
              /\ UNCHANGED faults
           \/ /\ faults < MaxFaults
              /\ faults' = faults + 1
              /\ refresh' = Unanswered(c)
        /\ UNCHANGED <<states, gold, warehouseVars, lock, results, rollout>>

(* A token that was used is not executed again; a fresh one may be refused. *)
Refused(c) ==
    /\ refresh[c].at = "bound"
    /\ refresh' = Unanswered(c)
    /\ UNCHANGED <<states, gold, warehouseVars, lock, results, asked, rollout, faults>>

(* Slip: an equal value is promoted in whatever form it came.               *)
Matched(c) == refresh[c].outcome = "MATCH"

(* The warehouse result is promoted only after a match and only if it is    *)
(* also written like the result it replaces.                                *)
Promotable(c) ==
    /\ refresh[c].outcome = "MATCH"
    /\ refresh[c].answer = PandasResult(refresh[c].plan)

Output(c) == IF Promotable(c) THEN refresh[c].answer ELSE PandasResult(refresh[c].plan)

ReadyToCommit(c) ==
    /\ refresh[c].at = "computed"
    /\ rollout = "PRIMARY" => refresh[c].outcome # "NONE"

(* The result is stored FRESH, unless a coordinator that took over has      *)
(* closed the attempt: finished rows are immutable.                         *)
Commit(c) ==
    LET r == refresh[c].attempt
    IN  /\ ReadyToCommit(c)
        /\ results' = IF results[r].status = "COMPUTING"
                      THEN [results EXCEPT ![r].status = "FRESH", ![r].output = Output(c)]
                      ELSE results
        /\ refresh' = [refresh EXCEPT ![c] =
             IF results[r].status = "COMPUTING" /\ rollout = "SHADOW"
             THEN [@ EXCEPT !.at = "committed"] ELSE Ended]
        /\ UNCHANGED <<states, gold, warehouseVars, lock, asked, rollout, faults>>

Finished(c) ==
    \/ refresh[c] = Ended
    \/ refresh[c].at = "committed" /\ refresh[c].outcome # "NONE"

EndRefresh(c) ==
    /\ Finished(c)
    /\ refresh' = [refresh EXCEPT ![c] = Idle]
    /\ lock' = lock \ {c}
    /\ UNCHANGED <<states, gold, warehouseVars, results, asked, rollout, faults>>

(* The coordinator dies, or only the connection that holds its lock does.   *)
LoseLock(c) ==
    /\ faults < MaxFaults
    /\ refresh[c] # Idle /\ c \in lock
    /\ lock' = {}
    /\ faults' = faults + 1
    /\ refresh' \in {refresh, [refresh EXCEPT ![c] = Idle]}
    /\ UNCHANGED <<states, gold, warehouseVars, results, asked, rollout>>

-----------------------------------------------------------------------------
Init ==
    /\ states = [d \in Datasets |-> <<>>]
    /\ gold = [d \in Datasets |-> 0]
    /\ chain = [d \in Datasets |-> <<>>]
    /\ tables = <<>>
    /\ loads = <<>>
    /\ receipts = [d \in Datasets |-> {}]
    /\ work = [m \in Materializers |-> Idle]
    /\ refresh = [c \in Refreshers |-> Idle]
    /\ lock = {}
    /\ results = <<>>
    /\ asked = {}
    /\ rollout \in Rollouts
    /\ faults = 0

Source(d) ==
    \/ \E history \in Histories : Accept(d, history)
    \/ RefreshGold(d)
    \/ \E last \in 1 .. Current(d) : PublishIncremental(d, last)
    \/ \E last \in 1 .. Current(d) : \E first \in 1 .. last : PublishHistory(d, first, last)

Materialize(m) ==
    \/ \E d \in Datasets : Capture(m, d)
    \/ Load(m)
    \/ Await(m)
    \/ Record(m)

Refresh(c) ==
    \/ BeginRefresh(c)
    \/ FailAttempt(c)
    \/ BindSources(c)
    \/ Ineligible(c)
    \/ AskWarehouse(c)
    \/ Refused(c)
    \/ Commit(c)
    \/ EndRefresh(c)
    \/ LoseLock(c)

Next ==
    \/ \E d \in Datasets : Source(d)
    \/ \E m \in Materializers : Materialize(m)
    \/ \E id \in Identities : RunLoad(id)
    \/ \E c \in Refreshers : Refresh(c)

Spec == Init /\ [][Next]_vars

-----------------------------------------------------------------------------
(* Members that were taken back and not published again: the newest         *)
(* publication of the lineage that holds them brought a correction, over a  *)
(* later change in an older publication.                                    *)
TakesBack(d, i, k) ==
    /\ d \in Dimensions /\ Corrects(d, Candidate(d, i)[k])
    /\ \E h \in Holding(d, i, k) : Candidate(d, h)[k] > Candidate(d, i)[k]

Rewound(d, p) ==
    {k \in Keys : \E i \in Holding(d, p, k) :
        TakesBack(d, i, k) /\ \A j \in Holding(d, p, k) : j <= i}

(* A publication with a receipt is served whole and unmixed: its table      *)
(* holds exactly the rows of the state it pins, for good, whoever published,*)
(* materialized or retried meanwhile.  Two kinds of publication are not the *)
(* state they pin: one that follows a BACKFILL beyond the checkpoint, whose *)
(* rows are newer, and one that follows the replay of a CORRECTION of a     *)
(* dimension, which differs only in the members taken back.           *)
ServedIsPinned ==
    \A d \in Datasets : \A p \in receipts[d] :
        LET table == tables[Identity(d, p)]
            state == Content(d, chain[d][p].pin)
        IN  \/ Ahead(d, p)
            \/ /\ DOMAIN table = DOMAIN state
               /\ \A k \in DOMAIN state \ Rewound(d, p) : table[k] = state[k]

(* A comparison never fails because something moved between plan, binding   *)
(* and query: Pandas and the warehouse are asked about the same rows.  A    *)
(* MISMATCH therefore means a defect of one of the two, or a publication    *)
(* that is ahead of its pin or holds members that were taken back.          *)
NoFalseMismatch ==
    \A c \in Refreshers :
        refresh[c] \notin {Idle, Ended} /\ refresh[c].outcome = "MISMATCH" =>
            \E d \in Datasets : LET p == refresh[c].token.pins[d]
                                IN  Ahead(d, p) \/ Rewound(d, p) # {}

(* A result stored as FRESH is the metric of the states in its plan,        *)
(* whichever engine computed it, however many refreshes raced, died or lost *)
(* their lock and whatever was published ahead meanwhile; a reader is shown *)
(* it only while the plan of the current states is that plan.               *)
ResultIsOfItsPlan ==
    \A r \in 1 .. Len(results) : results[r].status = "FRESH" =>
        results[r].output = PandasResult(results[r].plan)
=============================================================================
