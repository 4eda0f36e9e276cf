---------------------------- MODULE TrustedFacts ----------------------------
(***************************************************************************)
(* From deliveries to facts.  A delivery of keyed rows is merged into the   *)
(* trusted state of a dataset by the engine of its policy (append_engine,   *)
(* upsert_engine, snapshot_engine); what the merge accepted is evidence     *)
(* (source_evidence) and becomes a manifest of the mapping's chain; the     *)
(* FACT planner (fact_planning) consumes manifests over the facts that the  *)
(* published revisions hold.  The grain of the facts is the business key.   *)
(***************************************************************************)
EXTENDS Integers, Sequences

CONSTANTS
    Keys, Values,
    MaxTime,            \* bound: event and snapshot times are 1 .. MaxTime
    MaxDeliveries,      \* bound: deliveries applied
    MaxRevisions        \* bound: publications of the fact resource

ASSUME TrustedAssumption == MaxTime \in Nat \ {0} /\ MaxDeliveries \in Nat /\ MaxRevisions \in Nat

VARIABLES
    policy,             \* load strategy, event time configured, snapshots dated
    rows,               \* trusted state by business key
    boundary,           \* snapshot_boundary_at, 0 when there is none
    manifests,          \* accepted manifests, by position
    consumed,           \* checkpoint position of the fact resource
    revisions           \* candidates of its publications: the facts each touched

trustedVars == <<policy, rows, boundary, manifests>>
factVars == <<consumed, revisions>>

Contents == [value : Values, time : 1 .. MaxTime]
NoRow == [value |-> "NONE", time |-> 0, active |-> FALSE, effective |-> 0]
Row(content, active, effective) ==
    [value |-> content.value, time |-> content.time, active |-> active, effective |-> effective]

(* A timed policy times its snapshots too.                                  *)
Policies == {p \in [strategy : {"APPEND", "UPSERT", "SNAPSHOT"}, timed : BOOLEAN, dated : BOOLEAN] :
                /\ p.dated => p.strategy = "SNAPSHOT"
                /\ p.strategy = "SNAPSHOT" /\ p.timed => p.dated}

TrustedInit ==
    /\ policy \in Policies
    /\ rows = [k \in Keys |-> NoRow]
    /\ boundary = 0
    /\ manifests = <<>>
    /\ consumed = 0
    /\ revisions = <<>>

Known(k) == rows[k] # NoRow
Same(row, content) == row.value = content.value /\ row.time = content.time

(* What a delivery says of a key: nothing, one row (repeated or not), or    *)
(* rows that contradict each other.                                         *)
Incoming == {{}} \cup {{c} : c \in Contents} \cup {Contents}

Deliveries ==
    {d \in [incoming : [Keys -> Incoming],
            effective : 0 .. MaxTime,
            coverage : {"COMPLETE", "PARTIAL"},
            kind : {"NORMAL", "CORRECTION", "BACKFILL"},
            withheld : BOOLEAN] :          \* Silver itself rejected rows
        /\ d.effective > 0 <=> policy.dated
        /\ policy.strategy # "SNAPSHOT" =>
               d.coverage = "PARTIAL" /\ d.kind = "NORMAL" /\ ~d.withheld
        /\ d.coverage = "PARTIAL" => ~d.withheld
        /\ ~policy.timed => \A k \in Keys : \A c \in Contents : d.incoming[k] = {c} => c.time = 1}
-----------------------------------------------------------------------------
(* The engines: the outcome of each key of a delivery.                      *)

Only(contents) == CHOOSE c \in contents : TRUE
Conflicting(d, k) == d.incoming[k] = Contents

AppendOutcome(d, k) ==
    LET content == Only(d.incoming[k]) IN
    IF Conflicting(d, k) THEN "REJECTED"
    ELSE IF ~Known(k) THEN "INSERTED"
    ELSE IF Same(rows[k], content) THEN "DUPLICATE" ELSE "REJECTED"

(* The comparison of upsert_rows; only a correction replaces equal times.   *)
UpsertOutcome(d, k, correction) ==
    LET old == rows[k]
        new == Only(d.incoming[k])
    IN
    IF Conflicting(d, k) THEN "REJECTED"
    ELSE IF ~Known(k) THEN "INSERTED"
    ELSE IF policy.timed /\ new.time < old.time THEN "STALE"
    ELSE IF Same(old, new) THEN "UNCHANGED"
    ELSE IF policy.timed /\ new.time = old.time /\ ~correction THEN "REJECTED"
    ELSE "UPDATED"

(* Slip: the boundary of the last snapshot is not compared.                 *)
OlderThanNone(d) == FALSE

Older(d) == d.effective # 0 /\ boundary # 0 /\ d.effective < boundary
EqualTime(d) == d.effective # 0 /\ d.effective = boundary
Correction(d) == EqualTime(d) /\ d.kind = "CORRECTION"

(* snapshot_rows refines that outcome by the snapshot's effective time.     *)
SnapshotOutcome(d, k) ==
    LET base == UpsertOutcome(d, k, Correction(d))
        inactive == Known(k) /\ ~rows[k].active
    IN
    IF base = "REJECTED" THEN "REJECTED"
    ELSE IF policy.timed /\ Only(d.incoming[k]).time > d.effective THEN "REJECTED"
    ELSE IF Older(d) THEN "STALE"
    ELSE IF EqualTime(d) /\ ~Correction(d) /\ (base \in {"INSERTED", "UPDATED"} \/ inactive)
         THEN "REJECTED"
    ELSE IF base = "STALE" \/ (Known(k) /\ rows[k].effective > d.effective) THEN "STALE"
    ELSE IF inactive THEN "REACTIVATED" ELSE base

Outcome(d, k) ==
    CASE d.incoming[k] = {} -> "ABSENT"
      [] d.incoming[k] # {} /\ policy.strategy = "APPEND" -> AppendOutcome(d, k)
      [] d.incoming[k] # {} /\ policy.strategy = "UPSERT" -> UpsertOutcome(d, k, FALSE)
      [] d.incoming[k] # {} /\ policy.strategy = "SNAPSHOT" -> SnapshotOutcome(d, k)

(* Absence counts only in a complete, newer, normal and clean snapshot.     *)
Deactivates(d) ==
    /\ d.coverage = "COMPLETE" /\ d.kind = "NORMAL"
    /\ ~Older(d) /\ ~EqualTime(d) /\ ~d.withheld
    /\ \A k \in Keys : Outcome(d, k) # "REJECTED"

Dropped(d, k) ==
    policy.strategy = "SNAPSHOT" /\ Deactivates(d) /\ d.incoming[k] = {} /\ rows[k].active

Accepted == {"INSERTED", "UPDATED", "UNCHANGED", "REACTIVATED"}

(* The candidate's row of a key.                                            *)
Merged(d, k) ==
    LET outcome == Outcome(d, k)
        old == rows[k]
        content == Only(d.incoming[k])
    IN
    IF Dropped(d, k) THEN Row(old, FALSE, d.effective)
    ELSE IF outcome \in {"INSERTED", "UPDATED", "REACTIVATED"} THEN Row(content, TRUE, d.effective)
    ELSE IF outcome = "UNCHANGED" /\ policy.strategy = "SNAPSHOT" THEN Row(old, TRUE, d.effective)
    ELSE old

(* Slip: a key that comes back is evidence of an update.                    *)
ReappearanceIsUpdate(d, k) ==
    IF Dropped(d, k) THEN "DEACTIVATED"
    ELSE IF Outcome(d, k) = "REACTIVATED" THEN "UPDATED" ELSE Outcome(d, k)

(* extract(): the accepted outcomes, and the rows this delivery deactivated.*)
Evidenced(d, k) == IF Dropped(d, k) THEN "DEACTIVATED" ELSE Outcome(d, k)

Evidence(d) ==
    LET touched == {k \in Keys : Evidenced(d, k) \in Accepted \cup {"DEACTIVATED"}} IN
    [k \in touched |-> [outcome |-> Evidenced(d, k),
                        value |-> Merged(d, k).value, time |-> Merged(d, k).time]]

(* A delivery is applied, published and registered in the mapping's chain.  *)
ApplyDelivery ==
    /\ Len(manifests) < MaxDeliveries
    /\ \E d \in Deliveries :
        /\ rows' = [k \in Keys |-> Merged(d, k)]
        /\ boundary' = IF d.effective > boundary THEN d.effective ELSE boundary
        /\ manifests' = Append(manifests, Evidence(d))
    /\ UNCHANGED <<policy, factVars>>
-----------------------------------------------------------------------------
(* The FACT planner.                                                        *)

NoFact == [value |-> "NONE", time |-> 0, active |-> FALSE, position |-> 0]

(* _prior(): the newest published revision that holds a fact of the key.    *)
Prior(k) ==
    LET holding == {i \in DOMAIN revisions : k \in DOMAIN revisions[i]} IN
    IF holding = {} THEN NoFact
    ELSE revisions[CHOOSE i \in holding : \A j \in holding : j <= i][k]

Facts == [k \in Keys |-> Prior(k)]

(* Slip: the order of accepted events is not compared.                      *)
AnyPosition(fact, position) == TRUE

Newer(fact, position) == fact = NoFact \/ position > fact.position

(* The event was applied already: its id, checksum and position are known.  *)
ExactRetry(fact, position) == fact # NoFact /\ fact.position = position

Admits(fact, event) ==
    LET same == fact.value = event.value /\ fact.time = event.time IN
    CASE event.outcome = "INSERTED" -> fact = NoFact
      [] event.outcome = "UPDATED" -> fact.active
      [] event.outcome = "UNCHANGED" -> fact # NoFact /\ same
      [] event.outcome = "DEACTIVATED" -> fact.active /\ same
      [] event.outcome = "REACTIVATED" -> fact # NoFact /\ ~fact.active

NextFact(fact, event, position) ==
    [value |-> event.value, time |-> event.time, position |-> position,
     active |-> CASE event.outcome = "DEACTIVATED" -> FALSE
                  [] event.outcome = "UNCHANGED" -> fact.active
                  [] OTHER -> TRUE]

(* One manifest over the facts; a refused event refuses the whole plan.     *)
ConsumeManifest(plan, position) ==
    LET events == manifests[position]
        news == {k \in DOMAIN events : ~ExactRetry(plan.facts[k], position)}
    IN
    [ok |-> plan.ok /\ \A k \in news : /\ Newer(plan.facts[k], position)
                                       /\ Admits(plan.facts[k], events[k]),
     facts |-> [k \in Keys |-> IF k \in news THEN NextFact(plan.facts[k], events[k], position)
                                             ELSE plan.facts[k]]]

(* compile_fact(): the manifests first .. last, in the order of positions.  *)
CompileFact(first, last) ==
    LET after[position \in first - 1 .. last] ==
            IF position < first THEN [ok |-> TRUE, facts |-> Facts]
            ELSE ConsumeManifest(after[position - 1], position)
    IN
    after[last]

Touched(first, last) == UNION {DOMAIN manifests[i] : i \in first .. last}

(* The published candidate holds the affected identities.                   *)
PublishFacts(first, last) ==
    LET plan == CompileFact(first, last) IN
    /\ plan.ok
    /\ Len(revisions) < MaxRevisions
    /\ revisions' = Append(revisions, [k \in Touched(first, last) |-> plan.facts[k]])

(* INCREMENTAL: the next manifests, and the checkpoint moves past them.     *)
Consume ==
    /\ \E last \in consumed + 1 .. Len(manifests) :
        /\ PublishFacts(consumed + 1, last)
        /\ consumed' = last
    /\ UNCHANGED trustedVars

(* REPLAY: consumed manifests once more; the checkpoint stays.              *)
Replay ==
    /\ \E first \in 1 .. consumed : \E last \in first .. consumed : PublishFacts(first, last)
    /\ UNCHANGED <<trustedVars, consumed>>

(* BACKFILL: any contiguous accepted range, also beyond the checkpoint,     *)
(* which stays.                                                             *)
Backfill ==
    /\ \E first \in DOMAIN manifests : \E last \in first .. Len(manifests) : PublishFacts(first, last)
    /\ UNCHANGED <<trustedVars, consumed>>

TrustedNext == ApplyDelivery \/ Consume \/ Replay \/ Backfill
-----------------------------------------------------------------------------
(* A backfill has published a later event of the key than one that normal   *)
(* progress has still to consume.                                           *)
LeaptOver(k) == \E i \in consumed + 1 .. Facts[k].position - 1 : k \in DOMAIN manifests[i]

(* What is accepted can be consumed, and consuming it makes the facts what  *)
(* the trusted state is: no key lost, kept active or left behind, whichever *)
(* engine merged, however the manifests were batched, and whatever was      *)
(* replayed or backfilled behind it.  The planner refuses exactly where a   *)
(* backfill leapt over an event; what it accepts is the trusted state.      *)
FactsMirrorRows ==
    LET plan == CompileFact(consumed + 1, Len(manifests)) IN
    /\ plan.ok <=> \A k \in Keys : ~LeaptOver(k)
    /\ plan.ok => \A k \in Keys : /\ plan.facts[k].active = rows[k].active
                                  /\ Known(k) <=> plan.facts[k] # NoFact
                                  /\ Known(k) => Same(plan.facts[k], rows[k])

(* Protection against late arrivals: neither the event time of a row nor    *)
(* the time it holds from ever goes back, whether a late delivery brings    *)
(* the row or leaves it out.                                                *)
LateDeliveryNeverRewinds ==
    [][\A k \in Keys :
            /\ rows'[k].effective >= rows[k].effective
            /\ policy.timed => rows'[k].time >= rows[k].time]_rows

(* "It preserves deterministic result/key semantics": a replay that the     *)
(* planner takes publishes a revision and changes no fact, as does a        *)
(* backfill of what was consumed; also when other keys were leapt ahead.    *)
ReplayIsIdentity == [][Replay => Facts' = Facts]_factVars
=============================================================================
