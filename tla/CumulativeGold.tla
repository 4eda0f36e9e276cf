---------------------------- MODULE CumulativeGold ----------------------------
(***************************************************************************)
(* Analytics of the trusted state of a dataset: the refresh of format 1    *)
(* (dataset_analytics_service) and the approved, pinned and published      *)
(* exact format 2 (exact_gold_approval_service, _candidate_service,        *)
(* _publish_service), beside the applications that move the head.          *)
(***************************************************************************)
EXTENDS IncrementalApplication

CONSTANTS
    Refreshers,         \* requests that refresh or publish analytics
    Scales,             \* AVG scales an owner may approve
    MaxBuilds           \* bound: exact candidates built

ASSUME GoldAssumption == Scales \subseteq Nat \ {0} /\ MaxBuilds \in Nat

VARIABLES
    goldRuns,           \* dataset_gold_runs
    pointer,            \* datasets.current_gold_run_id
    freshness,          \* datasets.state_analytics_status
    approvals,          \* exact_gold_avg_policies: the scale approved for a state
    builds,             \* exact candidates in the artifact store
    place, source, run, hand, refreshing \* requests: the refresh lock is refreshing

applied == <<tables, workers, overtaken>>
gold == <<goldRuns, pointer, freshness, approvals, builds>>
refreshers == <<place, source, run, hand, refreshing>>
goldVars == <<gold, refreshers>>
vars == <<applicationVars, goldVars>>

GoldInit ==
    /\ Init
    /\ goldRuns = <<>> /\ pointer = 0 /\ freshness = "NONE" /\ builds = <<>>
    /\ approvals = [s \in 1 .. MaxStates |-> 0]
    /\ place = [r \in Refreshers |-> "idle"]
    /\ source = [r \in Refreshers |-> 0]
    /\ run = [r \in Refreshers |-> 0]
    /\ hand = [r \in Refreshers |-> 0]
    /\ refreshing = [r \in Refreshers |-> FALSE]
-----------------------------------------------------------------------------
RunOf(s, version) == {i \in DOMAIN goldRuns : goldRuns[i].source = s /\ goldRuns[i].build = version}

To(r, there) == place' = [place EXCEPT ![r] = there]

End(r) ==
    /\ To(r, "idle")
    /\ source' = [source EXCEPT ![r] = 0]
    /\ run' = [run EXCEPT ![r] = 0]
    /\ hand' = [hand EXCEPT ![r] = 0]
    /\ refreshing' = [refreshing EXCEPT ![r] = FALSE]

RefreshLock(r) == (\A other \in Refreshers : ~refreshing[other]) /\ refreshing' = [refreshing EXCEPT ![r] = TRUE]

(* The head moves: a trigger makes the analytics stale.                     *)
PublishState(w) ==
    /\ Publish(w)
    /\ freshness' = "STALE"
    /\ UNCHANGED <<goldRuns, pointer, approvals, builds, refreshers>>

(* The preflight of refresh_analytics and verify_legacy_gold_source.        *)
BeginRefresh(r) ==
    /\ place[r] = "idle"
    /\ RefreshLock(r)
    /\ head # 0 /\ states[head].version = 1
    /\ source' = [source EXCEPT ![r] = head]
    /\ To(r, "preflight")
    /\ UNCHANGED <<applied, gold, run, hand, faults>>

Reopened(i) == [goldRuns EXCEPT ![i].status = "REFRESHING"]
NewRun(s, build) == Append(goldRuns, [source |-> s, build |-> build, status |-> "REFRESHING",
                                      scale |-> approvals[s], pin |-> 0])

ReuseRun(r) ==
    \E i \in RunOf(source[r], 1) :
        /\ place[r] = "preflight" /\ head = source[r]
        /\ goldRuns[i].status = "SUCCESS"
        /\ pointer' = i /\ freshness' = "FRESH"
        /\ End(r)
        /\ UNCHANGED <<applied, goldRuns, approvals, builds, faults>>

OpenRun(r) ==
    LET existing == RunOf(source[r], 1) IN
    /\ place[r] = "preflight" /\ head = source[r]
    /\ \A i \in existing : goldRuns[i].status # "SUCCESS"
    /\ \/ \E i \in existing : goldRuns' = Reopened(i) /\ run' = [run EXCEPT ![r] = i]
       \/ /\ existing = {}
          /\ goldRuns' = NewRun(head, 1)
          /\ run' = [run EXCEPT ![r] = Len(goldRuns) + 1]
    /\ freshness' = "REFRESHING"
    /\ To(r, "building")
    /\ UNCHANGED <<applied, pointer, approvals, builds, source, hand, refreshing, faults>>

(* Slip: whatever was built last is what readers get.                       *)
Newest(i) == goldRuns[i].source \in 1 .. head

(* publish_gold: a historical completion moves neither pointer nor status.  *)
Current(i) == goldRuns[i].source = head

PublishRun(r) ==
    LET i == run[r] IN
    /\ place[r] = "building"
    /\ goldRuns[i].status # "SUCCESS"
    /\ goldRuns' = [goldRuns EXCEPT ![i].status = "SUCCESS"]
    /\ pointer' = IF Current(i) THEN i ELSE pointer
    /\ freshness' = IF Current(i) THEN "FRESH" ELSE freshness
    /\ \/ End(r) /\ UNCHANGED faults
       \/ To(r, "published") /\ Fault /\ UNCHANGED <<source, run, hand, refreshing>>
    /\ UNCHANGED <<applied, approvals, builds>>

(* Slip: a failure after the publication takes the freshness back.          *)
AnyOutcome(i) == TRUE

Regressible(i) == goldRuns[i].status # "SUCCESS"

(* The except block: a durable success is kept, a moved head not touched.   *)
RefreshFails(r) ==
    LET i == run[r] IN
    /\ place[r] \in {"building", "published"}
    /\ \/ goldRuns[i].status = "SUCCESS" /\ UNCHANGED faults
       \/ Fault
    /\ IF Regressible(i)
       THEN /\ goldRuns' = [goldRuns EXCEPT ![i].status = "FAILED"]
            /\ freshness' = IF head = source[r] THEN "FAILED" ELSE freshness
       ELSE UNCHANGED <<goldRuns, freshness>>
    /\ End(r)
    /\ UNCHANGED <<applied, pointer, approvals, builds>>

(* "Trusted state changed during Gold preflight", and its exact siblings.   *)
SourceMoved(r) ==
    /\ place[r] \in {"preflight", "preparing", "prepared", "validating"}
    /\ head # source[r]
    /\ End(r)
    /\ UNCHANGED <<applied, gold, faults>>
-----------------------------------------------------------------------------
(* Exact Gold, format 2. The run itself is inserted by its tests.           *)

(* One immutable approval for a state: a second one must say the same.      *)
Approve(scale) ==
    /\ head # 0 /\ states[head].version = 2
    /\ approvals[head] = 0
    /\ approvals' = [approvals EXCEPT ![head] = scale]
    /\ UNCHANGED <<applied, goldRuns, pointer, freshness, builds, refreshers, faults>>

InsertExactRun ==
    /\ head # 0 /\ approvals[head] # 0
    /\ RunOf(head, 2) = {}
    /\ goldRuns' = NewRun(head, 2)
    /\ UNCHANGED <<applied, pointer, freshness, approvals, builds, refreshers, faults>>

(* _load_pins: the current state and its run.                               *)
LoadPins(r, statuses, i) ==
    /\ i \in RunOf(head, 2)
    /\ goldRuns[i].status \in statuses
    /\ source' = [source EXCEPT ![r] = head]
    /\ run' = [run EXCEPT ![r] = i]

PrepareExact(r) ==
    /\ place[r] = "idle"
    /\ Len(builds) < MaxBuilds
    /\ \E i \in DOMAIN goldRuns :
        /\ LoadPins(r, {"REFRESHING"}, i)
        /\ builds' = Append(builds, i)
        /\ hand' = [hand EXCEPT ![r] = Len(builds) + 1]
    /\ To(r, "preparing")
    /\ UNCHANGED <<applied, goldRuns, pointer, freshness, approvals, refreshing, faults>>

(* The recheck after the storage: the caller gets the candidate.            *)
RecheckExact(r) ==
    /\ place[r] = "preparing" /\ head = source[r]
    /\ goldRuns[run[r]].status = "REFRESHING"
    /\ To(r, "prepared")
    /\ UNCHANGED <<applied, gold, source, run, hand, refreshing, faults>>

(* Slip: the candidate pinned last wins.                                    *)
Repinnable(i, c) == goldRuns[i].status = "REFRESHING"

(* "Different Exact Gold candidate already pinned".                         *)
Pinnable(i, c) == goldRuns[i].status = "REFRESHING" /\ goldRuns[i].pin \in {0, c}

PinExact(r) ==
    /\ place[r] = "prepared" /\ head = source[r]
    /\ Pinnable(run[r], hand[r])
    /\ goldRuns' = [goldRuns EXCEPT ![run[r]].pin = hand[r]]
    /\ End(r)
    /\ UNCHANGED <<applied, pointer, freshness, approvals, builds, faults>>

RefuseExactGold(r) ==
    /\ \/ place[r] = "preparing" /\ goldRuns[run[r]].status # "REFRESHING"
       \/ place[r] = "prepared" /\ ~Pinnable(run[r], hand[r])
    /\ End(r)
    /\ UNCHANGED <<applied, gold, faults>>

BeginPublishExact(r) ==
    /\ place[r] = "idle"
    /\ RefreshLock(r)
    /\ \E i \in DOMAIN goldRuns :
        /\ LoadPins(r, {"REFRESHING", "SUCCESS"}, i)
        /\ goldRuns[i].pin # 0
        /\ hand' = [hand EXCEPT ![r] = goldRuns[i].pin]
    /\ To(r, "validating")
    /\ UNCHANGED <<applied, gold, faults>>

(* A run that is SUCCESS already is confirmed and nothing is written.       *)
PublishExact(r) ==
    LET i == run[r] IN
    /\ place[r] = "validating" /\ head = source[r]
    /\ goldRuns[i].pin = hand[r]
    /\ goldRuns[i].status = "SUCCESS" => pointer = i /\ freshness = "FRESH"
    /\ goldRuns' = [goldRuns EXCEPT ![i].status = "SUCCESS"]
    /\ pointer' = i /\ freshness' = "FRESH"
    /\ End(r)
    /\ UNCHANGED <<applied, approvals, builds, faults>>

CrashRefresh(r) == place[r] # "idle" /\ Fault /\ End(r) /\ UNCHANGED <<applied, gold>>

LoseRefreshLock(r) ==
    /\ refreshing[r] /\ Fault
    /\ refreshing' = [refreshing EXCEPT ![r] = FALSE]
    /\ UNCHANGED <<applied, gold, place, source, run, hand>>
-----------------------------------------------------------------------------
Alone(step) == step /\ UNCHANGED goldVars

GoldNext ==
    \/ \E w \in Workers :
        \/ \E u \in Uploads : Alone(BeginApply(w, u)) \/ Alone(BeginArchive(w, u))
        \/ Alone(Archive(w)) \/ Alone(RequireActive(w))
        \/ Alone(StartApply(w)) \/ Alone(DeliveryManifest(w)) \/ Alone(ReadHead(w)) \/ Alone(Stage(w))
        \/ Alone(ApplyFails(w)) \/ Alone(RefuseExact(w)) \/ Alone(CrashApply(w)) \/ Alone(LoseLock(w))
        \/ PublishState(w)
    \/ \E strategy \in Strategies, expected \in 0 .. MaxPolicies : Alone(SavePolicy(strategy, expected))
    \/ \E u \in Uploads : Alone(DeclareSnapshot(u))
    \/ \E r \in Refreshers :
        \/ BeginRefresh(r) \/ ReuseRun(r) \/ OpenRun(r) \/ PublishRun(r) \/ RefreshFails(r)
        \/ SourceMoved(r) \/ CrashRefresh(r) \/ LoseRefreshLock(r)
        \/ PrepareExact(r) \/ RecheckExact(r) \/ PinExact(r) \/ RefuseExactGold(r)
        \/ BeginPublishExact(r) \/ PublishExact(r)
    \/ InsertExactRun
    \/ \E scale \in Scales : Approve(scale)

GoldSpec == GoldInit /\ [][GoldNext]_vars
-----------------------------------------------------------------------------
GoldTypeOK ==
    /\ ApplicationTypeOK
    /\ goldRuns \in Seq([source : DOMAIN states, build : {1, 2}, scale : {0} \cup Scales,
                         status : {"REFRESHING", "SUCCESS", "FAILED"}, pin : 0 .. Len(builds)])
    /\ pointer \in 0 .. Len(goldRuns)
    /\ freshness \in {"NONE", "STALE", "REFRESHING", "FRESH", "FAILED"}
    /\ approvals \in [1 .. MaxStates -> {0} \cup Scales]
    /\ builds \in Seq(DOMAIN goldRuns)
    /\ place \in [Refreshers -> {"idle", "preflight", "building", "published", "preparing", "prepared", "validating"}]
    /\ source \in [Refreshers -> 0 .. Len(states)]
    /\ run \in [Refreshers -> 0 .. Len(goldRuns)]
    /\ hand \in [Refreshers -> 0 .. Len(builds)]
    /\ refreshing \in [Refreshers -> BOOLEAN]

(* FRESH analytics were built from the state that is the head now, however  *)
(* long the build took and whatever was published meanwhile.                *)
FreshIsCurrent ==
    freshness = "FRESH" =>
        /\ goldRuns[pointer].status = "SUCCESS" /\ goldRuns[pointer].source = head
        /\ goldRuns[pointer].build = states[head].version

(* Published Gold is immutable: a late failure, a second refresh or a       *)
(* second candidate changes neither its status nor its artifacts, and an    *)
(* exact run publishes a candidate of its own that was pinned first.        *)
PublishedGoldIsFinal ==
    [][/\ \A i \in DOMAIN goldRuns : goldRuns[i].status = "SUCCESS" => goldRuns'[i] = goldRuns[i]
       /\ \A i \in DOMAIN goldRuns : goldRuns[i].pin # 0 => goldRuns'[i].pin = goldRuns[i].pin]_vars
=============================================================================
