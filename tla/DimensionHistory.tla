-------------------------- MODULE DimensionHistory --------------------------
(***************************************************************************)
(* Dimension members: the SCD1 and SCD2 planners, the repair of a history   *)
(* by late accepted evidence (plan_repair), and the references of facts     *)
(* that are resolved and re-resolved against the histories                  *)
(* (fact_resolution, fact_reresolution, inferred_members).                  *)
(*                                                                          *)
(* A version is named by the time it is valid from, as its surrogate key    *)
(* is; the only version of an SCD1 member is valid from 0.  compile_dimension *)
(* pins a correction to the very state it plans over, and raises unless the *)
(* plan's code is OK.  A BACKFILL delivery differs from a NORMAL one in the *)
(* name of a refusal only, so it has no mode of its own here.               *)
(***************************************************************************)
EXTENDS Integers, Sequences

CONSTANTS
    Members,
    Tracked, Untracked, \* values of the tracked and of the other attributes
    Types,              \* types of the configurations, of ScdTypes
    MaxInstant,         \* bound: effective times are 1 .. MaxInstant
    MaxEvents,          \* bound: accepted events of the mapping
    FactTimes           \* event times of the facts that refer to a member

ScdTypes == {"SCD1", "SCD1_UNTIMED", "SCD2"}

ASSUME DimensionAssumption ==
    /\ MaxInstant \in Nat \ {0} /\ MaxEvents \in Nat
    /\ Types \subseteq ScdTypes /\ FactTimes \subseteq 1 .. MaxInstant

VARIABLES
    config,             \* scd_type, and whether missing members are inferred
    events,             \* accepted events that a plan took, by position
    history,            \* member states
    handles,            \* provisional members: NONE, INFERRED or RESOLVED
    references          \* resolutions of the facts, and the state they pin

dimensionVars == <<config, events, history, handles, references>>

Instants == 1 .. MaxInstant
Open == MaxInstant + 1
NoState == [versions |-> {}, observed |-> 0, order |-> 0, last |-> 0]
Unresolved == [status |-> "NONE", version |-> 0, state |-> NoState, handle |-> "NONE"]

Events == [member : Members, time : Instants, tracked : Tracked, other : Untracked,
           mode : {"NORMAL", "CORRECTION"}]

DimensionInit ==
    /\ config \in [scd : Types, infers : BOOLEAN]
    /\ events = <<>>
    /\ history = [m \in Members |-> NoState]
    /\ handles = [m \in Members |-> "NONE"]
    /\ references = [m \in Members |-> [t \in FactTimes |-> Unresolved]]

Version(from, to, e) == [from |-> from, to |-> to, tracked |-> e.tracked, other |-> e.other]
SameTracked(v, e) == v.tracked = e.tracked
SameOther(v, e) == v.other = e.other
At(state, t) == {v \in state.versions : v.from <= t /\ t < v.to}
OpenVersion(state) == CHOOSE v \in state.versions : v.to = Open
-----------------------------------------------------------------------------
(* The planners: the code of the plan and the state it leads to.            *)

Plan(code, state) == [code |-> code, state |-> state]
Unchanged(state) == Plan("OK", state)
Greater(a, b) == IF a > b THEN a ELSE b

(* finish(): versions changed forward, and what was observed of the event.  *)
Finish(state, versions, e, position) ==
    Plan("OK", [versions |-> versions,
                observed |-> IF config.scd = "SCD1_UNTIMED" THEN 0 ELSE Greater(state.observed, e.time),
                order |-> Greater(state.order, position),
                last |-> position])

(* ordering(): by time when the type has one, else by accepted position.    *)
Order(state, e, position) ==
    IF config.scd = "SCD1_UNTIMED" THEN position - state.order ELSE e.time - state.observed

PlanScd1(state, e, position) ==
    LET differs == ~SameTracked(OpenVersion(state), e) \/ ~SameOther(OpenVersion(state), e)
        order == Order(state, e, position)
        forward == e.mode = "CORRECTION" \/ order > 0 \/ (order = 0 /\ ~differs)
    IN
    IF state = NoState THEN Finish(state, {Version(0, Open, e)}, e, position)
    ELSE IF state.last = position THEN Unchanged(state)
    ELSE IF forward THEN Finish(state, {Version(0, Open, e)}, e, position)
    ELSE Plan(IF order < 0 THEN "STALE_SCD1_EVENT" ELSE "SAME_TIME_CONFLICT", state)

Exact(v, e) == v.from = e.time /\ SameTracked(v, e) /\ SameOther(v, e)

(* plan_scd2: forward of all that was observed of the member, or a          *)
(* correction at the start of its current version.                          *)
PlanScd2(state, e, position) ==
    LET tail == OpenVersion(state)
        others == state.versions \ {tail}
        correction == e.mode = "CORRECTION" /\ e.time = tail.from
        tied == e.time \in {tail.from, state.observed}
    IN
    IF state = NoState THEN Finish(state, {Version(e.time, Open, e)}, e, position)
    ELSE IF \/ state.last = position
            \/ e.time < state.observed /\ \E v \in state.versions : Exact(v, e)
         THEN Unchanged(state)
    ELSE IF tied /\ ~SameTracked(tail, e) /\ ~correction THEN Plan("SAME_TIME_CONFLICT", state)
    ELSE IF e.time < state.observed /\ ~correction THEN Plan("HISTORICAL_REPAIR_REQUIRED", state)
    ELSE IF correction \/ SameTracked(tail, e)
         THEN Finish(state, others \cup {Version(tail.from, Open, e)}, e, position)
    ELSE Finish(state, others \cup {[tail EXCEPT !.to = e.time], Version(e.time, Open, e)}, e, position)

(* Slip: the predecessor keeps its end.                                     *)
KeepEnd(v, t) == v

Shorten(v, t) == [v EXCEPT !.to = t]

(* A late event splits the version that holds at its time, or precedes the  *)
(* first.  Neither touches what was observed forward.                       *)
Split(state, v, e) ==
    Plan("OK", [state EXCEPT !.versions =
        (@ \ {v}) \cup {Shorten(v, e.time), Version(e.time, v.to, e)}])

Prepend(state, e) ==
    LET first == CHOOSE v \in state.versions : \A w \in state.versions : v.from <= w.from IN
    Plan("OK", [state EXCEPT !.versions = @ \cup {Version(e.time, first.from, e)}])

(* An event at a boundary is known, deferred, a conflict or a correction.   *)
AtBoundary(state, v, e) ==
    IF Exact(v, e) \/ (e.mode = "NORMAL" /\ SameTracked(v, e)) THEN Unchanged(state)
    ELSE IF e.mode = "NORMAL" THEN Plan("SAME_TIME_CONFLICT", state)
    ELSE Plan("OK", [state EXCEPT !.versions = (@ \ {v}) \cup {Version(v.from, v.to, e)}])

PlanRepair(state, e, position) ==
    LET exact == {v \in state.versions : v.from = e.time}
        containing == At(state, e.time)
        holds == CHOOSE v \in containing : TRUE
    IN
    IF state = NoState THEN PlanScd2(state, e, position)
    ELSE IF state.last = position THEN Unchanged(state)
    ELSE IF exact # {} THEN AtBoundary(state, holds, e)
    ELSE IF e.time > state.observed THEN PlanScd2(state, e, position)
    ELSE IF containing = {} THEN Prepend(state, e)
    ELSE IF SameTracked(holds, e) THEN Unchanged(state)
    ELSE IF holds.to = Open THEN Plan("OBSERVATION_COVERAGE_REQUIRED", state)
    ELSE Split(state, holds, e)
-----------------------------------------------------------------------------
(* compile_dimension of one event over the published state of its member,   *)
(* and apply_plan.                                                          *)
Take(e, position, plan) ==
    /\ plan.code = "OK"
    /\ history' = [history EXCEPT ![e.member] = plan.state]

Planned(e, position) ==
    IF config.scd = "SCD2" THEN PlanRepair(history[e.member], e, position)
    ELSE PlanScd1(history[e.member], e, position)

NextEvents == {e \in Events : config.scd = "SCD1_UNTIMED" => e.time = 1}

ConsumeEvent ==
    /\ Len(events) < MaxEvents
    /\ \E e \in NextEvents :
        /\ Take(e, Len(events) + 1, Planned(e, Len(events) + 1))
        /\ events' = Append(events, e)
    /\ UNCHANGED <<config, handles, references>>

(* A REPLAY plans consumed evidence again, over what is published now.      *)
ReplayEvent ==
    /\ \E p \in DOMAIN events : Take(events[p], p, Planned(events[p], p))
    /\ UNCHANGED <<config, events, handles, references>>
-----------------------------------------------------------------------------
(* resolve_fact: what a fact of this time refers to.                        *)
Resolution(m, t) ==
    LET state == history[m]
        found == At(state, t)
        status == IF state = NoState
                  THEN CASE handles[m] = "INFERRED" -> "INFERRED_REFERENCE"
                         [] handles[m] = "RESOLVED" -> "MEMBER_NOT_FOUND"
                         [] OTHER -> IF config.infers THEN "INFERRED_MEMBER_REQUIRED" ELSE "MEMBER_NOT_FOUND"
                  ELSE IF config.scd # "SCD2" THEN "CURRENT_MEMBER_ONLY"
                  ELSE IF found = {} THEN "NO_VERSION_AT_EVENT_TIME" ELSE "RESOLVED"
    IN
    [status |-> status,
     version |-> IF status = "RESOLVED" THEN (CHOOSE v \in found : TRUE).from ELSE 0,
     state |-> state, handle |-> handles[m]]

Resolve(m, t) ==
    /\ references[m][t] = Unresolved
    /\ references' = [references EXCEPT ![m][t] = Resolution(m, t)]
    /\ UNCHANGED <<config, events, history, handles>>

(* plan_inference: the handle that a fact leaves for a missing member.      *)
Infer(m, t) ==
    /\ Resolution(m, t).status = "INFERRED_MEMBER_REQUIRED"
    /\ handles' = [handles EXCEPT ![m] = "INFERRED"]
    /\ UNCHANGED <<config, events, history, references>>

(* plan_completion: real evidence of the member resolves its handle, by the *)
(* forward planners only.                                                   *)
Complete ==
    /\ Len(events) < MaxEvents
    /\ \E e \in NextEvents :
        LET state == history[e.member]
            position == Len(events) + 1
        IN
        /\ handles[e.member] = "INFERRED"
        /\ Take(e, position, IF config.scd = "SCD2" THEN PlanScd2(state, e, position)
                             ELSE PlanScd1(state, e, position))
        /\ handles' = [handles EXCEPT ![e.member] = "RESOLVED"]
        /\ events' = Append(events, e)
    /\ UNCHANGED <<config, references>>

Bounds(state) == {v.from : v \in state.versions} \cup {v.to : v \in state.versions}

(* Slip: the new boundaries cut no range.                                   *)
OldBounds(before, after) == Bounds(before)

Cuts(before, after) == Bounds(before) \cup Bounds(after)

(* affected_ranges: the instants whose range shows another version.         *)
Affected(before, after) ==
    {t \in Instants :
        \E start \in Cuts(before, after) :
            /\ start <= t
            /\ \A cut \in Cuts(before, after) : cut <= t => cut <= start
            /\ {[v EXCEPT !.to = 0] : v \in At(before, start)}
               # {[v EXCEPT !.to = 0] : v \in At(after, start)}}

(* plan_reresolution of references that were resolved against one state,    *)
(* and apply_reresolution.  One outside of the ranges is left as it was.    *)
Rebind(m, times) ==
    /\ times # {} /\ \A t \in times : references[m][t] # Unresolved
    /\ \A s, t \in times : /\ references[m][s].state = references[m][t].state
                           /\ references[m][s].handle = references[m][t].handle
    /\ references' = [references EXCEPT ![m] = [t \in FactTimes |->
           IF t \in times /\ (config.scd # "SCD2" \/ t \in Affected(@[t].state, history[m]))
           THEN Resolution(m, t) ELSE @[t]]]
    /\ UNCHANGED <<config, events, history, handles>>
-----------------------------------------------------------------------------
DimensionNext ==
    \/ ConsumeEvent \/ ReplayEvent \/ Complete
    \/ \E m \in Members, t \in FactTimes : Resolve(m, t) \/ Infer(m, t)
    \/ \E m \in Members, times \in SUBSET FactTimes : Rebind(m, times)

DimensionSpec == DimensionInit /\ [][DimensionNext]_dimensionVars
-----------------------------------------------------------------------------
Told(m) == {events[p] : p \in {q \in DOMAIN events : events[q].member = m}}

IsTimeline(state) ==
    /\ \E v \in state.versions : v.to = Open
    /\ \A v \in state.versions : v.from < v.to
    /\ \A v, w \in state.versions : v = w \/ v.to <= w.from \/ w.to <= v.from

IsNewest(m, e) ==
    \A f \in Told(m) : f.mode = "NORMAL" /\ f.time <= e.time

(* Whatever the order in which forward, late, replayed and correcting       *)
(* evidence arrives, the versions of a member never overlap, exactly one is *)
(* open, each starts where accepted evidence says that it does and with     *)
(* those values, and without corrections the newest evidence is current.    *)
HistoryIsEvidence ==
    \A m \in Members : history[m] # NoState =>
        /\ IsTimeline(history[m])
        /\ \A v \in history[m].versions :
               \E e \in Told(m) : /\ v.from \in {0, e.time}
                                      /\ SameTracked(v, e)
                                      /\ config.scd # "SCD2" => SameOther(v, e)
        /\ config.scd # "SCD1_UNTIMED" =>
               \A e \in Told(m) : IsNewest(m, e) => SameTracked(OpenVersion(history[m]), e)

(* A fact that re-resolution would skip, since it lies outside of the        *)
(* ranges in which the member changed after the state that its reference    *)
(* pins, still refers to the version that holds at its time, however many   *)
(* repairs, corrections and earlier re-resolutions lie between.             *)
SkippedReferencesAreCurrent ==
    \A m \in Members, t \in FactTimes :
        LET reference == references[m][t] IN
        reference # Unresolved /\ t \notin Affected(reference.state, history[m]) =>
            reference.version = Resolution(m, t).version

(* In whatever order evidence that was not corrected arrives, the value of  *)
(* a member at an instant is that of its latest evidence until then, as     *)
(* when it arrives in its own order: phase11d-late-data-resolution.md,      *)
(* section 8, says that histories of different prior knowledge can differ   *)
(* in their versions "while their as-of business values agree".             *)
AsOfValuesAgree ==
    \A m \in Members, t \in Instants :
        LET known == {e \in Told(m) : e.time <= t} IN
        /\ \A e \in Told(m) : e.mode = "NORMAL"
        /\ \A e, f \in Told(m) : e.time = f.time => e = f
        =>
        \A e \in known, v \in At(history[m], t) :
            (\A f \in known : f.time <= e.time) => SameTracked(v, e)
=============================================================================
