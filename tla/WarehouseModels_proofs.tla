------------------------ MODULE WarehouseModels_proofs ------------------------
(***************************************************************************)
(* Theorems about WarehouseModels, for every set of members, values, keys   *)
(* and times.  Part one, DimensionHistory: the versions of a member are a   *)
(* timeline of accepted evidence, and what re-resolution skips is current.  *)
(* Part two, TrustedFacts: the planned facts are the trusted rows, replays  *)
(* change nothing, and late deliveries rewind nothing.                      *)
(***************************************************************************)
EXTENDS WarehouseModels, WellFoundedInduction, TLAPS

VersionSet == [from : 0 .. MaxInstant, to : 1 .. Open, tracked : Tracked, other : Untracked]
States == [versions : SUBSET VersionSet, observed : Nat, order : Nat, last : Nat]

(* Versions do not overlap, one is open, and none is missing after the      *)
(* first: a late event that no version contains precedes all of them.       *)
Timeline(V) ==
    /\ \E v \in V : v.to = Open
    /\ \A v \in V : v.from < v.to
    /\ \A v, w \in V : v = w \/ v.to <= w.from \/ w.to <= v.from
    /\ \A v \in V, t \in Instants : v.from <= t => \E w \in V : w.from <= t /\ t < w.to

Shape(V) ==
    IF config.scd = "SCD2" THEN \A v \in V : v.from \in Instants
    ELSE \E v \in V : V = {v} /\ v.from = 0 /\ v.to = Open

MemberState(s) == s \in States /\ (s = NoState \/ (Timeline(s.versions) /\ Shape(s.versions)))

AllNormal(told) == \A f \in told : f.mode = "NORMAL"
Timed == config.scd # "SCD1_UNTIMED"

(* What a state keeps of the evidence that was accepted of its member.      *)
Attests(v, f) ==
    v.from \in {0, f.time} /\ SameTracked(v, f) /\ (config.scd # "SCD2" => SameOther(v, f))

Knows(s, told) ==
    /\ s = NoState => told = {}
    /\ \A v \in s.versions : \E f \in told : Attests(v, f)
    /\ s # NoState /\ Timed =>
         /\ \A f \in told : f.time <= s.observed
         /\ \E f \in told : f.time = s.observed
         /\ AllNormal(told) => \A f \in told : f.time = s.observed => SameTracked(OpenVersion(s), f)

EvidenceInv ==
    /\ config \in [scd : ScdTypes, infers : BOOLEAN]
    /\ events \in Seq(Events)
    /\ history = [m \in Members |-> history[m]]
    /\ \A m \in Members : /\ MemberState(history[m]) /\ Knows(history[m], Told(m))
                          /\ history[m].last <= Len(events)

VersionAt(s, t) ==
    IF config.scd = "SCD2" /\ At(s, t) # {} THEN (CHOOSE v \in At(s, t) : TRUE).from ELSE 0

(* A reference shows the version that the state it pins had at its time.    *)
ReferenceInv ==
    /\ references = [m \in Members |-> references[m]]
    /\ \A m \in Members : references[m] = [t \in FactTimes |-> references[m][t]]
    /\ \A m \in Members, t \in FactTimes :
         \/ references[m][t] = Unresolved
         \/ /\ MemberState(references[m][t].state)
            /\ references[m][t].version = VersionAt(references[m][t].state, t)
-----------------------------------------------------------------------------
(* Timelines.                                                               *)

LEMMA OpenIs ==
  ASSUME NEW V \in SUBSET VersionSet, Timeline(V)
  PROVE  LET tail == CHOOSE v \in V : v.to = Open IN
         /\ tail \in V /\ tail.to = Open
         /\ \A v \in V : v.to = Open => v = tail
         /\ \A v \in V : v = tail \/ v.to <= tail.from
<1> DEFINE tail == CHOOSE v \in V : v.to = Open
<1>0. Open \in Nat /\ \A v \in V : v.from \in Nat /\ v.to \in Nat /\ v.to <= Open
  BY DimensionAssumption DEF VersionSet, Open
<1>1. tail \in V /\ tail.to = Open
  BY DEF Timeline
<1> HIDE DEF tail
<1>2. ASSUME NEW v \in V PROVE v = tail \/ v.to <= tail.from
  BY <1>0, <1>1 DEF Timeline
<1>3. ASSUME NEW v \in V, v.to = Open PROVE v = tail
  BY <1>0, <1>1, <1>2, <1>3 DEF Timeline
<1> QED BY <1>1, <1>2, <1>3 DEF tail

LEMMA OnlyOne ==
  ASSUME NEW v \in VersionSet, v.to = Open
  PROVE  Timeline({v})
BY DimensionAssumption DEF Timeline, VersionSet, Open, Instants

LEMMA ReplaceKeeps ==
  ASSUME NEW V \in SUBSET VersionSet, Timeline(V), NEW v \in V,
         NEW w \in VersionSet, w.from = v.from, w.to = v.to
  PROVE  Timeline((V \ {v}) \cup {w})
<1> DEFINE W == (V \ {v}) \cup {w}
<1>0. \A x \in VersionSet : x.from \in Int /\ x.to \in Int
  BY DimensionAssumption DEF VersionSet, Open
<1>1. \E x \in W : x.to = Open
  BY DEF Timeline
<1>2. \A x \in W : x.from < x.to
  BY DEF Timeline
<1>3. ASSUME NEW x \in W, NEW y \in W PROVE x = y \/ x.to <= y.from \/ y.to <= x.from
  BY DEF Timeline
<1>4. ASSUME NEW x \in W, NEW t \in Instants, x.from <= t
      PROVE  \E y \in W : y.from <= t /\ t < y.to
  <2>1. \E x2 \in V : x2.from <= t
    BY <1>4
  <2>2. PICK y \in V : y.from <= t /\ t < y.to
    BY <2>1 DEF Timeline
  <2> QED BY <2>2
<1> QED BY <1>1, <1>2, <1>3, <1>4 DEF Timeline

LEMMA SplitKeeps ==
  ASSUME NEW V \in SUBSET VersionSet, Timeline(V), NEW v \in V, NEW t \in Instants,
         v.from < t, t < v.to,
         NEW u \in VersionSet, u.from = v.from, u.to = t,
         NEW w \in VersionSet, w.from = t, w.to = v.to
  PROVE  Timeline((V \ {v}) \cup {u, w})
<1> DEFINE W == (V \ {v}) \cup {u, w}
<1>0. t \in Int /\ \A x \in VersionSet : x.from \in Int /\ x.to \in Int
  BY DimensionAssumption DEF VersionSet, Open, Instants
<1>1. \E x \in W : x.to = Open
  BY DEF Timeline
<1>2. \A x \in W : x.from < x.to
  BY DEF Timeline
<1>3. ASSUME NEW x \in W, NEW y \in W PROVE x = y \/ x.to <= y.from \/ y.to <= x.from
  <2>1. \A z \in V : z = v \/ z.to <= v.from \/ v.to <= z.from
    BY DEF Timeline
  <2>2. \A z \in V \ {v} : z.to <= u.from \/ u.to <= z.from
    BY <1>0, <2>1
  <2>3. \A z \in V \ {v} : z.to <= w.from \/ w.to <= z.from
    BY <1>0, <2>1
  <2>4. CASE x \in V \ {v} /\ y \in V \ {v}
    BY <2>4 DEF Timeline
  <2>5. CASE x \in {u, w} /\ y \in {u, w}
    BY <1>0, <2>5
  <2> QED BY <2>2, <2>3, <2>4, <2>5
<1>4. ASSUME NEW x \in W, NEW i \in Instants, x.from <= i
      PROVE  \E y \in W : y.from <= i /\ i < y.to
  <2>0. i \in Int
    BY DEF Instants
  <2>1. \E x2 \in V : x2.from <= i
    BY <1>0, <1>4, <2>0
  <2>2. PICK y \in V : y.from <= i /\ i < y.to
    BY <2>1 DEF Timeline
  <2>3. CASE y = v
    BY <1>0, <2>0, <2>2, <2>3
  <2> QED BY <2>2, <2>3
<1> QED BY <1>1, <1>2, <1>3, <1>4 DEF Timeline

(* The earliest version exists.                                             *)
LEMMA FirstIs ==
  ASSUME NEW V \in SUBSET VersionSet, V # {}
  PROVE  LET first == CHOOSE v \in V : \A w \in V : v.from <= w.from IN
         first \in V /\ \A w \in V : first.from <= w.from
<1> DEFINE less == {q \in Nat \X Nat : q[1] < q[2]}
           starts == {v.from : v \in V}
<1>1. IsWellFoundedOn(less, Nat)
  BY NatLessThanWellFounded DEF OpToRel
<1>2. starts \subseteq Nat /\ starts # {}
  BY DimensionAssumption DEF VersionSet
<1> HIDE DEF less
<1>3. PICK g \in starts : \A h \in starts : ~(<<h, g>> \in less)
  BY <1>1, <1>2, WFMin
<1> USE DEF less
<1>4. PICK v \in V : g = v.from
  OBVIOUS
<1>5. \A w \in V : v.from <= w.from
  <2> TAKE w \in V
  <2>1. w.from \in starts /\ w.from \in Nat /\ g \in Nat
    BY <1>2
  <2>2. ~(<<w.from, g>> \in less)
    BY <1>3, <2>1
  <2> QED BY <1>4, <2>1, <2>2
<1> QED BY <1>5

LEMMA PrependKeeps ==
  ASSUME NEW V \in SUBSET VersionSet, Timeline(V), NEW first \in V, \A v \in V : first.from <= v.from,
         NEW t \in Instants, t < first.from,
         NEW w \in VersionSet, w.from = t, w.to = first.from
  PROVE  Timeline(V \cup {w})
<1> DEFINE W == V \cup {w}
<1>0. t \in Int /\ \A x \in VersionSet : x.from \in Int /\ x.to \in Int
  BY DimensionAssumption DEF VersionSet, Open, Instants
<1>1. \E x \in W : x.to = Open
  BY DEF Timeline
<1>2. \A x \in W : x.from < x.to
  BY DEF Timeline
<1>3. ASSUME NEW x \in W, NEW y \in W PROVE x = y \/ x.to <= y.from \/ y.to <= x.from
  BY DEF Timeline
<1>4. ASSUME NEW x \in W, NEW i \in Instants, x.from <= i
      PROVE  \E y \in W : y.from <= i /\ i < y.to
  <2>0. i \in Int
    BY DEF Instants
  <2>1. CASE i < first.from
    BY <1>0, <1>4, <2>0, <2>1
  <2>2. CASE first.from <= i
    <3>1. PICK y \in V : y.from <= i /\ i < y.to
      BY <2>2 DEF Timeline
    <3> QED BY <3>1
  <2> QED BY <1>0, <2>0, <2>1, <2>2
<1> QED BY <1>1, <1>2, <1>3, <1>4 DEF Timeline
-----------------------------------------------------------------------------
(* What each kind of plan makes of a member.                                *)

EffectTypes(e, position, told) ==
    e \in Events /\ position \in Nat \ {0} /\ told \in SUBSET Events /\ config.scd \in ScdTypes

(* A plan's state is a member state that keeps the evidence and the event.  *)
Holds(new, e, told) == new # NoState /\ MemberState(new) /\ Knows(new, told \cup {e})

LEMMA StateParts ==
  ASSUME NEW s, MemberState(s), s # NoState
  PROVE  LET tail == OpenVersion(s) IN
         /\ s \in States /\ s.versions \in SUBSET VersionSet
         /\ Timeline(s.versions) /\ Shape(s.versions)
         /\ tail \in s.versions /\ tail.to = Open
         /\ \A v \in s.versions : v.to = Open => v = tail
         /\ \A v \in s.versions : v = tail \/ v.to <= tail.from
<1>1. s \in States /\ s.versions \in SUBSET VersionSet /\ Timeline(s.versions) /\ Shape(s.versions)
  BY DEF MemberState, States
<1> QED BY <1>1, OpenIs DEF OpenVersion

LEMMA VersionType ==
  ASSUME NEW e \in Events, NEW from \in 0 .. MaxInstant, NEW to \in 1 .. Open
  PROVE  LET w == Version(from, to, e) IN
         /\ w \in VersionSet /\ w.from = from /\ w.to = to
         /\ SameTracked(w, e) /\ SameOther(w, e)
BY DEF Version, VersionSet, Events, SameTracked, SameOther

LEMMA Started ==
  ASSUME NEW s, MemberState(s), NEW told \in SUBSET Events, Knows(s, told), s # NoState, Timed
  PROVE  s.observed \in Nat /\ \A v \in s.versions : v.from <= s.observed
<1>1. s.observed \in Nat
  BY DEF MemberState, States
<1>2. ASSUME NEW v \in s.versions PROVE v.from <= s.observed
  <2>1. PICK f \in told : Attests(v, f)
    BY DEF Knows
  <2>2. f.time \in Nat /\ f.time <= s.observed
    BY DEF Knows, Events, Instants
  <2> QED BY <1>1, <2>1, <2>2 DEF Attests
<1> QED BY <1>1, <1>2

(* What the new state must keep to know the old evidence and the event.     *)
LEMMA EvidenceKept ==
  ASSUME NEW s, MemberState(s), s # NoState, NEW new, MemberState(new), new # NoState,
         NEW e, NEW position, NEW told, EffectTypes(e, position, told), Knows(s, told),
         \A v \in new.versions :
            \/ config.scd = "SCD2" /\ \E u \in s.versions : u.from = v.from /\ u.tracked = v.tracked
            \/ v \in s.versions
            \/ Attests(v, e),
         Timed => new.observed = Greater(s.observed, e.time),
         Timed /\ e.mode = "NORMAL" /\ e.time >= s.observed => SameTracked(OpenVersion(new), e),
         Timed /\ e.mode = "NORMAL" /\ e.time <= s.observed =>
            OpenVersion(new).tracked = OpenVersion(s).tracked
  PROVE  Holds(new, e, told)
<1> DEFINE told2 == told \cup {e}
<1>1. ASSUME NEW v \in new.versions PROVE \E f \in told2 : Attests(v, f)
  <2>1. CASE Attests(v, e)
    BY <2>1
  <2>2. CASE v \in s.versions
    BY <2>2 DEF Knows
  <2>3. CASE config.scd = "SCD2" /\ \E u \in s.versions : u.from = v.from /\ u.tracked = v.tracked
    <3>1. PICK u \in s.versions : u.from = v.from /\ u.tracked = v.tracked
      BY <2>3
    <3>2. PICK f \in told : Attests(u, f)
      BY DEF Knows
    <3> QED BY <2>3, <3>1, <3>2 DEF Attests, SameTracked
  <2> QED BY <2>1, <2>2, <2>3
<1>2. ASSUME Timed
      PROVE  /\ \A f \in told2 : f.time <= new.observed
             /\ \E f \in told2 : f.time = new.observed
             /\ AllNormal(told2) => \A f \in told2 : f.time = new.observed => SameTracked(OpenVersion(new), f)
  <2>0. /\ s.observed \in Nat /\ e.time \in Nat /\ \A f \in told : f.time \in Nat
        /\ new.observed = IF s.observed > e.time THEN s.observed ELSE e.time
    BY <1>2 DEF MemberState, States, EffectTypes, Events, Instants, Greater
  <2>1. \A f \in told : f.time <= s.observed
    BY <1>2 DEF Knows
  <2>2. PICK g \in told : g.time = s.observed
    BY <1>2 DEF Knows
  <2>3. \A f \in told2 : f.time <= new.observed
    BY <2>0, <2>1
  <2>4. \E f \in told2 : f.time = new.observed
    BY <2>0, <2>2
  <2>5. ASSUME AllNormal(told2), NEW f \in told2, f.time = new.observed
        PROVE  SameTracked(OpenVersion(new), f)
    <3>1. e.mode = "NORMAL" /\ AllNormal(told)
      BY <2>5 DEF AllNormal
    <3>2. CASE f = e
      BY <1>2, <2>0, <2>5, <3>1, <3>2
    <3>3. CASE f \in told
      <4>1. f.time = s.observed /\ e.time <= s.observed
        BY <2>0, <2>1, <2>5, <3>3
      <4>2. SameTracked(OpenVersion(s), f)
        BY <1>2, <3>1, <3>3, <4>1 DEF Knows
      <4> QED BY <1>2, <3>1, <4>1, <4>2 DEF SameTracked
    <3> QED BY <3>2, <3>3
  <2> QED BY <2>3, <2>4, <2>5
<1> QED BY <1>1, <1>2 DEF Holds, Knows

(* The first evidence of a member.                                          *)
LEMMA FirstEvidence ==
  ASSUME NEW e, NEW position, NEW told, EffectTypes(e, position, told), Knows(NoState, told),
         NEW from, from = IF config.scd = "SCD2" THEN e.time ELSE 0
  PROVE  Holds(Finish(NoState, {Version(from, Open, e)}, e, position).state, e, told)
<1> DEFINE w == Version(from, Open, e)
           observed == IF config.scd = "SCD1_UNTIMED" THEN 0 ELSE Greater(0, e.time)
           new == [versions |-> {w}, observed |-> observed, order |-> Greater(0, position), last |-> position]
<1>0. e.time \in Nat /\ e.time \in 1 .. MaxInstant /\ from \in 0 .. MaxInstant /\ Open \in 1 .. Open
      /\ e \in Events /\ told = {}
  BY DimensionAssumption DEF EffectTypes, Events, Instants, Open, Knows
<1>1. Finish(NoState, {w}, e, position).state = new
  BY DEF Finish, Plan, NoState
<1>2. w \in VersionSet /\ w.from = from /\ w.to = Open /\ SameTracked(w, e) /\ SameOther(w, e)
  BY <1>0, VersionType
<1> HIDE DEF w
<1>3. observed \in Nat /\ Greater(0, position) \in Nat /\ (Timed => observed = e.time)
  BY <1>0 DEF Greater, EffectTypes, Timed
<1> HIDE DEF observed
<1>4. new \in States /\ new.versions = {w} /\ new.observed = observed /\ new # NoState
  BY <1>2, <1>3 DEF States, NoState, EffectTypes
<1> HIDE DEF new
<1>5. Timeline({w}) /\ Shape({w})
  BY <1>0, <1>2, OnlyOne DEF Shape, Instants
<1>6. MemberState(new) /\ OpenVersion(new) = w
  BY <1>2, <1>4, <1>5 DEF MemberState, OpenVersion
<1>7. Attests(w, e)
  BY <1>0, <1>2 DEF Attests
<1>8. Knows(new, told \cup {e})
  BY <1>0, <1>2, <1>3, <1>4, <1>6, <1>7 DEF Knows
<1> QED BY <1>1, <1>4, <1>6, <1>8 DEF Holds, w

(* A plan that changes nothing.                                             *)
LEMMA UnchangedHolds ==
  ASSUME NEW s, MemberState(s), s # NoState,
         NEW e, NEW position, NEW told, EffectTypes(e, position, told), Knows(s, told),
         \/ e \in told
         \/ Timed => /\ e.time <= s.observed
                     /\ e.mode = "NORMAL" /\ e.time = s.observed => SameTracked(OpenVersion(s), e)
  PROVE  Holds(s, e, told)
<1>1. CASE e \in told
  <2>1. told \cup {e} = told
    BY <1>1
  <2> QED BY <2>1 DEF Holds
<1>2. CASE Timed => /\ e.time <= s.observed
                    /\ e.mode = "NORMAL" /\ e.time = s.observed => SameTracked(OpenVersion(s), e)
  <2>1. s.observed \in Nat /\ e.time \in Nat
    BY DEF MemberState, States, EffectTypes, Events, Instants
  <2>2. Timed => s.observed = Greater(s.observed, e.time)
    BY <1>2, <2>1 DEF Greater
  <2>3. Timed /\ e.mode = "NORMAL" /\ e.time >= s.observed => SameTracked(OpenVersion(s), e)
    BY <1>2, <2>1
  <2> QED BY <2>2, <2>3, EvidenceKept
<1> QED BY <1>1, <1>2

(* finish() of a planner, over other versions.                              *)
LEMMA FinishType ==
  ASSUME NEW s, MemberState(s), s # NoState,
         NEW e, NEW position, NEW told, EffectTypes(e, position, told),
         NEW V \in SUBSET VersionSet, Timeline(V), Shape(V), NEW w \in V, w.to = Open
  PROVE  LET new == Finish(s, V, e, position).state IN
         /\ MemberState(new) /\ new # NoState /\ new.versions = V /\ new.last = position
         /\ Timed => new.observed = Greater(s.observed, e.time)
         /\ OpenVersion(new) = w
<1> DEFINE observed == IF config.scd = "SCD1_UNTIMED" THEN 0 ELSE Greater(s.observed, e.time)
           new == [versions |-> V, observed |-> observed, order |-> Greater(s.order, position), last |-> position]
<1>1. Finish(s, V, e, position).state = new
  BY DEF Finish, Plan
<1>2. observed \in Nat /\ Greater(s.order, position) \in Nat /\ position \in Nat
  BY DEF MemberState, States, EffectTypes, Events, Instants, Greater
<1>3. Timed => observed = Greater(s.observed, e.time)
  BY DEF Timed
<1> HIDE DEF observed
<1>4. V # {}
  BY DEF Timeline
<1>5. new \in States /\ new.versions = V /\ new.observed = observed /\ new.last = position /\ new # NoState
  BY <1>2, <1>4 DEF States, NoState
<1> HIDE DEF new
<1>6. OpenVersion(new) = w
  BY <1>5, OpenIs DEF OpenVersion
<1> QED BY <1>1, <1>3, <1>5, <1>6 DEF MemberState
-----------------------------------------------------------------------------
(* The planners.                                                            *)

LEMMA Scd1Holds ==
  ASSUME NEW s, MemberState(s), NEW e, NEW position, NEW told,
         EffectTypes(e, position, told), Knows(s, told), config.scd # "SCD2",
         s.last = position => e \in told, PlanScd1(s, e, position).code = "OK"
  PROVE  LET new == PlanScd1(s, e, position).state IN
         Holds(new, e, told) /\ new.last \in {s.last, position}
<1> DEFINE plan == PlanScd1(s, e, position)
           w == Version(0, Open, e)
           V == {w}
<1>1. CASE s = NoState
  <2>1. plan = Finish(NoState, V, e, position)
    BY <1>1 DEF PlanScd1
  <2>2. plan.state.last = position
    BY <2>1 DEF Finish, Plan
  <2> QED BY <1>1, <2>1, <2>2, FirstEvidence
<1>2. CASE s # NoState /\ s.last = position
  <2>1. plan.state = s
    BY <1>2 DEF PlanScd1, Unchanged, Plan
  <2> QED BY <1>2, <2>1, UnchangedHolds
<1>3. CASE s # NoState /\ s.last # position
  <2> DEFINE differs == ~SameTracked(OpenVersion(s), e) \/ ~SameOther(OpenVersion(s), e)
             order == Order(s, e, position)
             new == Finish(s, V, e, position).state
  <2>1. /\ e.mode = "CORRECTION" \/ order > 0 \/ (order = 0 /\ ~differs)
        /\ plan = Finish(s, V, e, position)
    BY <1>3 DEF PlanScd1, Plan
  <2> HIDE DEF plan
  <2>2. w \in VersionSet /\ w.from = 0 /\ w.to = Open /\ SameTracked(w, e) /\ SameOther(w, e)
    BY DimensionAssumption, VersionType DEF Open, EffectTypes
  <2> HIDE DEF w
  <2>3. V \in SUBSET VersionSet /\ w \in V /\ Timeline(V) /\ Shape(V)
    BY <2>2, OnlyOne DEF Shape
  <2>3only. V = {w}
    OBVIOUS
  <2> HIDE DEF V
  <2>4. /\ MemberState(new) /\ new # NoState /\ new.versions = V /\ new.last = position
        /\ Timed => new.observed = Greater(s.observed, e.time)
        /\ OpenVersion(new) = w
    BY <1>3, <2>2, <2>3, FinishType
  <2>5. Attests(w, e)
    BY <2>2 DEF Attests
  <2>6. ASSUME Timed, e.mode = "NORMAL", e.time <= s.observed
        PROVE  OpenVersion(new).tracked = OpenVersion(s).tracked
    <3>1. order = e.time - s.observed /\ e.time \in Nat /\ s.observed \in Nat
      BY <2>6 DEF Timed, Order, MemberState, States, EffectTypes, Events, Instants
    <3>2. ~differs
      BY <2>1, <2>6, <3>1
    <3> QED BY <2>2, <2>4, <3>2 DEF SameTracked
  <2>7. Holds(new, e, told)
    BY <1>3, <2>2, <2>3only, <2>4, <2>5, <2>6, EvidenceKept
  <2> QED BY <2>1, <2>4, <2>7 DEF V, w, plan
<1> QED BY <1>1, <1>2, <1>3

LEMMA Scd2Holds ==
  ASSUME NEW s, MemberState(s), NEW e, NEW position, NEW told,
         EffectTypes(e, position, told), Knows(s, told), config.scd = "SCD2",
         s.last = position => e \in told, PlanScd2(s, e, position).code = "OK"
  PROVE  LET new == PlanScd2(s, e, position).state IN
         Holds(new, e, told) /\ new.last \in {s.last, position}
<1> DEFINE plan == PlanScd2(s, e, position)
           tail == OpenVersion(s)
           others == s.versions \ {tail}
           correction == e.mode = "CORRECTION" /\ e.time = tail.from
           exact == \E v \in s.versions : Exact(v, e)
<1>0. e \in Events /\ e.time \in Nat /\ e.time \in Instants /\ e.time \in 0 .. MaxInstant
  BY DimensionAssumption DEF EffectTypes, Events, Instants
<1>1. CASE s = NoState
  <2>1. plan = Finish(NoState, {Version(e.time, Open, e)}, e, position)
    BY <1>1 DEF PlanScd2
  <2>2. plan.state.last = position
    BY <2>1 DEF Finish, Plan
  <2> QED BY <1>1, <2>1, <2>2, FirstEvidence
<1>2. CASE s # NoState
  <2>1. /\ s.versions \in SUBSET VersionSet /\ Timeline(s.versions) /\ Shape(s.versions)
        /\ tail \in s.versions /\ tail.to = Open /\ tail \in VersionSet
        /\ \A v \in s.versions : v.to = Open => v = tail
    BY <1>2, StateParts
  <2>2. s.observed \in Nat /\ tail.from \in Nat /\ tail.from <= s.observed /\ Timed
        /\ Open \in 1 .. Open /\ tail.from \in 0 .. MaxInstant /\ Open \in Nat /\ e.time < Open
    <3>1. Timed
      BY DEF Timed
    <3>2. s.observed \in Nat /\ \A v \in s.versions : v.from <= s.observed
      BY <1>2, <3>1, Started DEF EffectTypes
    <3> QED BY <1>0, <2>1, <3>1, <3>2, DimensionAssumption DEF VersionSet, Open, Instants
  <2>3. CASE s.last = position \/ (e.time < s.observed /\ exact)
    <3>1. plan.state = s
      BY <1>2, <2>3 DEF PlanScd2, Unchanged, Plan
    <3>2. CASE s.last = position
      BY <1>2, <3>1, <3>2, UnchangedHolds
    <3>3. CASE e.time < s.observed
      <4>1. e.time <= s.observed /\ e.time # s.observed
        BY <1>0, <2>2, <3>3
      <4> QED BY <1>2, <3>1, <4>1, UnchangedHolds
    <3> QED BY <2>3, <3>2, <3>3
  <2>4. CASE ~(s.last = position \/ (e.time < s.observed /\ exact))
    <3>1. /\ ~(e.time \in {tail.from, s.observed} /\ ~SameTracked(tail, e) /\ ~correction)
          /\ ~(e.time < s.observed /\ ~correction)
          /\ plan = IF correction \/ SameTracked(tail, e)
                    THEN Finish(s, others \cup {Version(tail.from, Open, e)}, e, position)
                    ELSE Finish(s, others \cup {[tail EXCEPT !.to = e.time], Version(e.time, Open, e)},
                                e, position)
      BY <1>2, <2>4 DEF PlanScd2, Plan
    <3>2. CASE correction \/ SameTracked(tail, e)
      <4> DEFINE w == Version(tail.from, Open, e)
                 V == others \cup {w}
                 new == Finish(s, V, e, position).state
      <4>1. w \in VersionSet /\ w.from = tail.from /\ w.to = Open /\ SameTracked(w, e)
        BY <1>0, <2>2, VersionType
      <4> HIDE DEF w
      <4>2. V \in SUBSET VersionSet /\ Timeline(V)
        BY <2>1, <4>1, ReplaceKeeps
      <4>3. Shape(V)
        BY <2>1, <4>1 DEF Shape
      <4>4. w \in V
        OBVIOUS
      <4> HIDE DEF V
      <4>5. /\ MemberState(new) /\ new # NoState /\ new.versions = V /\ new.last = position
            /\ Timed => new.observed = Greater(s.observed, e.time)
            /\ OpenVersion(new) = w
        BY <1>2, <4>1, <4>2, <4>3, <4>4, FinishType
      <4> HIDE DEF new
      <4>6. ASSUME NEW v \in new.versions
            PROVE  \/ \E u \in s.versions : u.from = v.from /\ u.tracked = v.tracked
                   \/ v \in s.versions
                   \/ Attests(v, e)
        <5>1. CASE v # w
          BY <4>5, <4>6, <5>1 DEF V
        <5>2. CASE v = w /\ SameTracked(tail, e)
          BY <2>1, <4>1, <5>2 DEF SameTracked
        <5>3. CASE v = w /\ correction
          BY <4>1, <5>3 DEF Attests
        <5> QED BY <3>2, <5>1, <5>2, <5>3
      <4>7. e.mode = "NORMAL" => OpenVersion(new).tracked = OpenVersion(s).tracked
        BY <3>2, <4>1, <4>5 DEF SameTracked
      <4>8. Holds(new, e, told)
        BY <1>2, <4>1, <4>5, <4>6, <4>7, EvidenceKept
      <4>9. plan.state = new
        BY <3>1, <3>2 DEF new, V, w
      <4> QED BY <4>5, <4>8, <4>9
    <3>3. CASE ~(correction \/ SameTracked(tail, e))
      <4> DEFINE w == Version(e.time, Open, e)
                 u == [tail EXCEPT !.to = e.time]
                 V == others \cup {u, w}
                 new == Finish(s, V, e, position).state
      <4>0. s.observed < e.time /\ tail.from < e.time
        BY <1>0, <2>2, <3>1, <3>3
      <4>1. w \in VersionSet /\ w.from = e.time /\ w.to = Open /\ SameTracked(w, e)
        BY <1>0, <2>2, VersionType
      <4>2. u \in VersionSet /\ u.from = tail.from /\ u.to = e.time /\ u.tracked = tail.tracked
        BY <1>0, <2>1, <2>2 DEF VersionSet, Instants
      <4> HIDE DEF w, u
      <4>3. V \in SUBSET VersionSet /\ Timeline(V)
        BY <1>0, <2>1, <2>2, <4>0, <4>1, <4>2, SplitKeeps
      <4>4. Shape(V)
        BY <1>0, <2>1, <4>1, <4>2 DEF Shape
      <4>5. w \in V
        OBVIOUS
      <4> HIDE DEF V
      <4>6. /\ MemberState(new) /\ new # NoState /\ new.versions = V /\ new.last = position
            /\ Timed => new.observed = Greater(s.observed, e.time)
            /\ OpenVersion(new) = w
        BY <1>2, <4>1, <4>3, <4>4, <4>5, FinishType
      <4> HIDE DEF new
      <4>7. ASSUME NEW v \in new.versions
            PROVE  \/ \E x \in s.versions : x.from = v.from /\ x.tracked = v.tracked
                   \/ v \in s.versions
                   \/ Attests(v, e)
        <5>1. CASE v \notin {u, w}
          BY <4>6, <4>7, <5>1 DEF V
        <5>2. CASE v = u
          BY <2>1, <4>2, <5>2
        <5>3. CASE v = w
          BY <4>1, <5>3 DEF Attests
        <5> QED BY <5>1, <5>2, <5>3
      <4>8. ~(e.time <= s.observed)
        BY <1>0, <2>2, <4>0
      <4>9. Holds(new, e, told)
        BY <1>2, <4>1, <4>6, <4>7, <4>8, EvidenceKept
      <4>10. plan.state = new
        BY <3>1, <3>3 DEF new, V, w, u
      <4> QED BY <4>6, <4>9, <4>10
    <3> QED BY <3>2, <3>3
  <2> QED BY <2>3, <2>4
<1> QED BY <1>1, <1>2

(* A repair changes versions, and nothing of what was observed forward.     *)
LEMMA RepairType ==
  ASSUME NEW s, MemberState(s), s # NoState,
         NEW V \in SUBSET VersionSet, Timeline(V), Shape(V), NEW w \in V, w.to = Open
  PROVE  LET new == [s EXCEPT !.versions = V] IN
         /\ MemberState(new) /\ new # NoState /\ new.versions = V /\ new.last = s.last
         /\ new.observed = s.observed /\ OpenVersion(new) = w
<1> DEFINE new == [s EXCEPT !.versions = V]
<1>1. s \in States
  BY DEF MemberState
<1>2. V # {}
  BY DEF Timeline
<1>3. new \in States /\ new.versions = V /\ new.observed = s.observed /\ new.last = s.last /\ new # NoState
  BY <1>1, <1>2 DEF States, NoState
<1> HIDE DEF new
<1>4. OpenVersion(new) = w
  BY <1>3, OpenIs DEF OpenVersion
<1> QED BY <1>3, <1>4 DEF MemberState, new

LEMMA RepairHolds ==
  ASSUME NEW s, MemberState(s), NEW e, NEW position, NEW told,
         EffectTypes(e, position, told), Knows(s, told), config.scd = "SCD2",
         s.last = position => e \in told, PlanRepair(s, e, position).code = "OK"
  PROVE  LET new == PlanRepair(s, e, position).state IN
         Holds(new, e, told) /\ new.last \in {s.last, position}
<1> DEFINE plan == PlanRepair(s, e, position)
           tail == OpenVersion(s)
           exact == {v \in s.versions : v.from = e.time}
           containing == At(s, e.time)
           holds == CHOOSE v \in containing : TRUE
<1>0. e \in Events /\ e.time \in Nat /\ e.time \in Instants /\ e.time \in 0 .. MaxInstant
  BY DimensionAssumption DEF EffectTypes, Events, Instants
<1>1. CASE s = NoState \/ (s.last # position /\ exact = {} /\ e.time > s.observed)
  <2>1. plan = PlanScd2(s, e, position)
    BY <1>1 DEF PlanRepair
  <2> QED BY <2>1, Scd2Holds
<1>2. CASE s # NoState /\ s.last = position
  <2>1. plan.state = s
    BY <1>2 DEF PlanRepair, Unchanged, Plan
  <2> QED BY <1>2, <2>1, UnchangedHolds
<1>3. CASE /\ s # NoState /\ s.last # position
           /\ exact # {} \/ ~(e.time > s.observed)
  <2>1. /\ s.versions \in SUBSET VersionSet /\ Timeline(s.versions) /\ Shape(s.versions)
        /\ tail \in s.versions /\ tail.to = Open /\ tail \in VersionSet
        /\ \A v \in s.versions : v.to = Open => v = tail
        /\ \A v \in s.versions : v = tail \/ v.to <= tail.from
    BY <1>3, StateParts
  <2>2. /\ s.observed \in Nat /\ Timed /\ \A v \in s.versions : v.from <= s.observed
        /\ \A v \in VersionSet : v.from \in Nat /\ v.to \in Nat /\ v.from \in 0 .. MaxInstant /\ v.to \in 1 .. Open
        /\ Open \in Nat /\ e.time < Open
    <3>1. Timed
      BY DEF Timed
    <3>2. s.observed \in Nat /\ \A v \in s.versions : v.from <= s.observed
      BY <1>3, <3>1, Started DEF EffectTypes
    <3> QED BY <1>0, <3>1, <3>2, DimensionAssumption DEF VersionSet, Open, Instants
  <2>3. \A v \in containing : v \in s.versions /\ v.from <= e.time /\ e.time < v.to
    BY DEF At
  <2>4. \A v, w \in containing : v = w
    BY <1>0, <2>1, <2>2, <2>3 DEF Timeline
  <2>5. e.time <= s.observed
    BY <1>0, <1>3, <2>2
  (* What was last observed forward is in the open version.                 *)
  <2>6. e.time = s.observed => tail \in containing
    BY <1>0, <2>1, <2>2 DEF At
  <2>7. exact \subseteq containing
    BY <1>0, <2>1, <2>2 DEF At, Timeline
  <2> HIDE DEF containing, tail
  <2>8. containing # {} => holds \in containing /\ \A v \in containing : v = holds
    BY <2>4
  <2> HIDE DEF holds
  <2>9. ASSUME containing # {}, SameTracked(holds, e) PROVE Holds(s, e, told)
    <3>1. e.time = s.observed => SameTracked(tail, e)
      BY <2>6, <2>8, <2>9
    <3>2. OpenVersion(s) = tail
      BY DEF tail
    <3> QED BY <1>3, <2>5, <3>1, <3>2, UnchangedHolds
  <2>10. CASE exact # {}
    <3>1. plan = AtBoundary(s, holds, e) /\ holds \in exact
      BY <1>3, <2>7, <2>8, <2>10 DEF PlanRepair, holds, containing
    <3>2. holds \in s.versions /\ holds \in VersionSet /\ holds.from = e.time
      BY <2>1, <3>1
    <3>3. CASE Exact(holds, e) \/ (e.mode = "NORMAL" /\ SameTracked(holds, e))
      <4>1. plan.state = s /\ SameTracked(holds, e)
        BY <3>1, <3>3 DEF AtBoundary, Unchanged, Plan, Exact
      <4> QED BY <2>7, <2>9, <2>10, <4>1
    <3>4. CASE ~(Exact(holds, e) \/ (e.mode = "NORMAL" /\ SameTracked(holds, e)))
      <4> DEFINE w == Version(holds.from, holds.to, e)
                 V == (s.versions \ {holds}) \cup {w}
                 new == [s EXCEPT !.versions = V]
      <4>1. e.mode # "NORMAL" /\ plan.state = new
        BY <3>1, <3>4 DEF AtBoundary, Plan
      <4>2. w \in VersionSet /\ w.from = holds.from /\ w.to = holds.to /\ SameTracked(w, e)
        BY <1>0, <2>2, <3>2, VersionType
      <4> HIDE DEF w
      <4>3. V \in SUBSET VersionSet /\ Timeline(V)
        BY <2>1, <3>2, <4>2, ReplaceKeeps
      <4>4. Shape(V)
        BY <2>1, <3>2, <4>2 DEF Shape
      <4>5. \E x \in V : x.to = Open
        BY <4>3 DEF Timeline
      <4>6. \A v \in V : v \in s.versions \/ v = w
        OBVIOUS
      <4> HIDE DEF V
      <4>7. /\ MemberState(new) /\ new # NoState /\ new.versions = V /\ new.last = s.last
            /\ new.observed = s.observed
        BY <1>3, <4>3, <4>4, <4>5, RepairType
      <4> HIDE DEF new
      <4>8. Attests(w, e)
        BY <3>2, <4>2 DEF Attests
      <4>9. s.observed = Greater(s.observed, e.time)
        BY <1>0, <2>2, <2>5 DEF Greater
      <4>10. Holds(new, e, told)
        BY <1>3, <4>1, <4>6, <4>7, <4>8, <4>9, EvidenceKept
      <4> QED BY <4>1, <4>7, <4>10
    <3> QED BY <3>3, <3>4
  (* A late event keeps the open version.                                   *)
  <2>11. ASSUME e.time < s.observed, NEW V \in SUBSET VersionSet, Timeline(V), Shape(V), tail \in V,
                NEW w, Attests(w, e),
                \A v \in V : v = w \/ \E x \in s.versions : x.from = v.from /\ x.tracked = v.tracked
         PROVE  LET new == [s EXCEPT !.versions = V] IN Holds(new, e, told) /\ new.last = s.last
    <3> DEFINE new == [s EXCEPT !.versions = V]
    <3>0. tail.to = Open /\ OpenVersion(s) = tail
      BY <2>1 DEF tail
    <3>1. /\ MemberState(new) /\ new # NoState /\ new.versions = V /\ new.last = s.last
          /\ new.observed = s.observed /\ OpenVersion(new) = tail
      BY <1>3, <2>11, <3>0, RepairType
    <3> HIDE DEF new
    <3>2. s.observed = Greater(s.observed, e.time) /\ ~(e.time >= s.observed)
      BY <1>0, <2>2, <2>11 DEF Greater
    <3>3. Holds(new, e, told)
      BY <1>3, <2>11, <3>0, <3>1, <3>2, EvidenceKept
    <3> QED BY <3>1, <3>3 DEF new
  <2>12. CASE exact = {} /\ containing = {}
    <3> DEFINE first == CHOOSE v \in s.versions : \A w \in s.versions : v.from <= w.from
               w == Version(e.time, first.from, e)
               V == s.versions \cup {w}
    <3>1. plan.state = [s EXCEPT !.versions = V]
      BY <1>3, <2>5, <2>12, <1>0, <2>2 DEF PlanRepair, Prepend, Plan, containing
    <3>2. first \in s.versions /\ \A v \in s.versions : first.from <= v.from
      BY <2>1, FirstIs
    <3> HIDE DEF first
    <3>3. e.time < first.from
      BY <1>0, <2>1, <2>2, <2>12, <3>2 DEF Timeline, At, containing
    <3>4. w \in VersionSet /\ w.from = e.time /\ w.to = first.from /\ SameTracked(w, e)
      <4>1. first.from \in 1 .. Open
        BY <1>0, <2>1, <2>2, <3>2, <3>3, DimensionAssumption DEF Open
      <4> QED BY <1>0, <4>1, VersionType
    <3> HIDE DEF w
    <3>5. V \in SUBSET VersionSet /\ Timeline(V)
      BY <1>0, <2>1, <3>2, <3>3, <3>4, PrependKeeps
    <3>6. Shape(V)
      BY <1>0, <2>1, <3>4 DEF Shape
    <3>7. Attests(w, e)
      BY <3>4 DEF Attests
    <3>8. e.time < s.observed
      BY <1>0, <2>2, <2>5, <2>6, <2>12
    <3>9. tail \in V /\ \A v \in V : v = w \/ v \in s.versions
      BY <2>1 DEF tail
    <3> HIDE DEF V
    <3> QED BY <2>11, <3>1, <3>5, <3>6, <3>7, <3>8, <3>9
  <2>13. CASE exact = {} /\ containing # {}
    <3>1. holds \in s.versions /\ holds \in VersionSet /\ holds.from <= e.time /\ e.time < holds.to
          /\ holds.from < e.time
      BY <1>0, <2>1, <2>2, <2>3, <2>8, <2>13
    <3>2. CASE SameTracked(holds, e)
      <4>1. plan.state = s
        BY <1>0, <1>3, <2>2, <2>5, <2>13, <3>2 DEF PlanRepair, Unchanged, Plan, holds, containing
      <4> QED BY <2>9, <2>13, <3>2, <4>1
    <3>3. CASE ~SameTracked(holds, e)
      <4> DEFINE u == Shorten(holds, e.time)
                 w == Version(e.time, holds.to, e)
                 V == (s.versions \ {holds}) \cup {u, w}
      <4>1. holds.to # Open /\ plan.state = [s EXCEPT !.versions = V]
        BY <1>0, <1>3, <2>2, <2>5, <2>13, <3>3 DEF PlanRepair, Split, Plan, holds, containing
      <4>2. w \in VersionSet /\ w.from = e.time /\ w.to = holds.to /\ SameTracked(w, e)
        BY <1>0, <2>2, <3>1, VersionType
      <4>3. u \in VersionSet /\ u.from = holds.from /\ u.to = e.time /\ u.tracked = holds.tracked
        BY <1>0, <2>2, <3>1 DEF Shorten, VersionSet
      <4> HIDE DEF u, w
      <4>4. V \in SUBSET VersionSet /\ Timeline(V)
        BY <1>0, <2>1, <3>1, <4>2, <4>3, SplitKeeps
      <4>5. Shape(V)
        BY <1>0, <2>1, <3>1, <4>2, <4>3 DEF Shape
      <4>6. Attests(w, e)
        BY <4>2 DEF Attests
      <4>7. e.time < s.observed
        <5>1. ASSUME e.time = s.observed PROVE FALSE
          <6>1. tail = holds /\ tail.to = Open
            BY <2>1, <2>6, <2>8, <5>1 DEF tail
          <6> QED BY <4>1, <6>1
        <5> QED BY <1>0, <2>2, <2>5, <5>1
      <4>8. tail \in V
        BY <2>1, <4>1 DEF tail
      <4>9. ASSUME NEW v \in V
            PROVE  v = w \/ \E x \in s.versions : x.from = v.from /\ x.tracked = v.tracked
        BY <3>1, <4>3
      <4> HIDE DEF V
      <4> QED BY <2>11, <4>1, <4>4, <4>5, <4>6, <4>7, <4>8, <4>9
    <3> QED BY <3>2, <3>3
  <2> QED BY <2>10, <2>12, <2>13
<1> QED BY <1>1, <1>2, <1>3
-----------------------------------------------------------------------------
(* The steps.                                                               *)

LEMMA PlannedHolds ==
  ASSUME EvidenceInv, NEW e \in Events, NEW position \in Nat \ {0}, NEW plan,
         history[e.member].last = position => e \in Told(e.member),
         plan.code = "OK",
         \/ plan = Planned(e, position)
         \/ plan = IF config.scd = "SCD2" THEN PlanScd2(history[e.member], e, position)
                   ELSE PlanScd1(history[e.member], e, position)
  PROVE  /\ Holds(plan.state, e, Told(e.member))
         /\ plan.state.last \in {history[e.member].last, position}
<1> DEFINE s == history[e.member]
           told == Told(e.member)
<1>1. e.member \in Members
  BY DEF Events
<1>2. MemberState(s) /\ Knows(s, told) /\ config.scd \in ScdTypes
  BY <1>1 DEF EvidenceInv
<1>3. told \in SUBSET Events
  BY DEF EvidenceInv, Told
<1>4. EffectTypes(e, position, told)
  BY <1>2, <1>3 DEF EffectTypes
<1>5. CASE config.scd = "SCD2"
  <2>1. plan = PlanRepair(s, e, position) \/ plan = PlanScd2(s, e, position)
    BY <1>5 DEF Planned
  <2> QED BY <1>2, <1>4, <1>5, <2>1, RepairHolds, Scd2Holds
<1>6. CASE config.scd # "SCD2"
  <2>1. plan = PlanScd1(s, e, position)
    BY <1>6 DEF Planned
  <2> QED BY <1>2, <1>4, <1>6, <2>1, Scd1Holds
<1> QED BY <1>5, <1>6

(* An accepted event is told of its member alone.                           *)
LEMMA ToldAppends ==
  ASSUME events \in Seq(Events), NEW e \in Events, events' = Append(events, e)
  PROVE  /\ events' \in Seq(Events) /\ Len(events') = Len(events) + 1
         /\ Told(e.member)' = Told(e.member) \cup {e}
         /\ \A m \in Members : m # e.member => Told(m)' = Told(m)
<1>1. /\ events' \in Seq(Events) /\ Len(events') = Len(events) + 1 /\ Len(events) \in Nat
      /\ events'[Len(events) + 1] = e
      /\ \A p \in 1 .. Len(events) : events'[p] = events[p]
      /\ DOMAIN events = 1 .. Len(events) /\ DOMAIN events' = 1 .. Len(events) + 1
  OBVIOUS
<1>2. ASSUME NEW m, NEW f
      PROVE  (f \in Told(m)') <=> (f \in Told(m) \/ (f = e /\ e.member = m))
  <2>1. (f \in Told(m)') <=> (\E p \in DOMAIN events' : events'[p].member = m /\ f = events'[p])
    BY DEF Told
  <2>2. (f \in Told(m)) <=> (\E p \in DOMAIN events : events[p].member = m /\ f = events[p])
    BY DEF Told
  <2>3. \A p \in 1 .. Len(events) + 1 : p \in 1 .. Len(events) \/ p = Len(events) + 1
    BY <1>1
  <2>4. Len(events) + 1 \in DOMAIN events'
    BY <1>1
  <2>5. \A p \in DOMAIN events : p \in DOMAIN events' /\ events'[p] = events[p]
    BY <1>1
  <2> QED BY <1>1, <2>1, <2>2, <2>3, <2>4, <2>5
<1>3. Told(e.member)' = Told(e.member) \cup {e}
  BY <1>2
<1>4. ASSUME NEW m \in Members, m # e.member PROVE Told(m)' = Told(m)
  <2>1. \A f : (f \in Told(m)') <=> (f \in Told(m))
    BY <1>2, <1>4
  <2>2. PICK A, B : A = Told(m)' /\ B = Told(m)
    OBVIOUS
  <2>3. \A f : f \in A <=> f \in B
    BY <2>1, <2>2
  <2>4. A = B
    BY <2>3
  <2> QED BY <2>2, <2>4
<1> QED BY <1>1, <1>3, <1>4

LEMMA TakenHolds ==
  ASSUME EvidenceInv, NEW e \in Events, NEW new, config' = config,
         history' = [history EXCEPT ![e.member] = new],
         \/ events' = Append(events, e)
         \/ events' = events /\ e \in Told(e.member),
         Holds(new, e, Told(e.member)), new.last <= Len(events')
  PROVE  EvidenceInv'
<1>1. e.member \in Members /\ events \in Seq(Events)
  BY DEF Events, EvidenceInv
<1>2. /\ events' \in Seq(Events) /\ Len(events) <= Len(events') /\ Len(events) \in Nat /\ Len(events') \in Nat
      /\ Told(e.member)' = Told(e.member) \cup {e}
      /\ \A m \in Members : m # e.member => Told(m)' = Told(m)
  <2>1. CASE events' = Append(events, e)
    <3>1. /\ events' \in Seq(Events) /\ Len(events') = Len(events) + 1
          /\ Told(e.member)' = Told(e.member) \cup {e}
          /\ \A m \in Members : m # e.member => Told(m)' = Told(m)
      BY <1>1, <2>1, ToldAppends
    <3> QED BY <1>1, <3>1
  <2>2. CASE events' = events /\ e \in Told(e.member)
    <3>1. \A m : Told(m)' = Told(m)
      BY <2>2 DEF Told
    <3> QED BY <1>1, <2>2, <3>1
  <2> QED BY <2>1, <2>2
<1>3. /\ history' = [m \in Members |-> history'[m]] /\ history'[e.member] = new
      /\ \A m \in Members : m # e.member => history'[m] = history[m]
  BY <1>1 DEF EvidenceInv
<1>4. ASSUME NEW s PROVE /\ MemberState(s)' <=> MemberState(s)
                         /\ \A told : Knows(s, told)' <=> Knows(s, told)
  BY DEF MemberState, Shape, Knows, Attests, Timed, AllNormal, OpenVersion, Timeline, States
<1>5. ASSUME NEW m \in Members
      PROVE  MemberState(history[m])' /\ Knows(history[m], Told(m))' /\ history'[m].last <= Len(events')
  <2>1. PICK s, told : s = history'[m] /\ told = Told(m)'
    OBVIOUS
  <2>2. MemberState(s) /\ Knows(s, told) /\ s.last <= Len(events')
    <3>1. CASE m = e.member
      BY <1>2, <1>3, <2>1, <3>1 DEF Holds
    <3>2. CASE m # e.member
      <4>1. s = history[m] /\ told = Told(m) /\ s.last \in Nat
        BY <1>2, <1>3, <2>1, <3>2 DEF EvidenceInv, MemberState, States
      <4> QED BY <1>2, <4>1 DEF EvidenceInv
    <3> QED BY <3>1, <3>2
  <2>3. MemberState(s)' /\ Knows(s, told)'
    BY <1>4, <2>2
  <2>4. MemberState(history[m])'
    BY <2>1, <2>3 DEF MemberState, Shape
  <2>5. Knows(history[m], Told(m))'
    BY <2>1, <2>3 DEF Knows, Attests, Timed, OpenVersion
  <2> QED BY <2>1, <2>2, <2>4, <2>5
<1> QED BY <1>2, <1>3, <1>5 DEF EvidenceInv

LEMMA EvidenceStays ==
  ASSUME EvidenceInv, UNCHANGED <<config, events, history>>
  PROVE  EvidenceInv'
<1>1. \A m : Told(m)' = Told(m)
  BY DEF Told
<1>2. ASSUME NEW s PROVE /\ MemberState(s)' <=> MemberState(s)
                         /\ \A told : Knows(s, told)' <=> Knows(s, told)
  BY DEF MemberState, Shape, Knows, Attests, Timed, AllNormal, OpenVersion, Timeline, States
<1>3. ASSUME NEW m \in Members PROVE MemberState(history[m])' /\ Knows(history[m], Told(m))'
  <2>1. PICK s, told : s = history[m] /\ told = Told(m)
    OBVIOUS
  <2>2. MemberState(s)' /\ Knows(s, told)'
    BY <1>2, <2>1 DEF EvidenceInv
  <2>3. MemberState(history[m])'
    BY <2>1, <2>2 DEF MemberState, Shape
  <2>4. Knows(history[m], Told(m))'
    BY <1>1, <2>1, <2>2 DEF Knows, Attests, Timed, OpenVersion
  <2> QED BY <2>3, <2>4
<1> QED BY <1>3 DEF EvidenceInv

LEMMA EvidenceStep ==
  ASSUME EvidenceInv, DimensionNext \/ UNCHANGED dimensionVars
  PROVE  EvidenceInv'
<1>0. Len(events) \in Nat /\ Len(events) + 1 \in Nat \ {0} /\ events \in Seq(Events)
  BY DEF EvidenceInv
(* The position of a new event is later than every event planned before.    *)
<1>1. ASSUME NEW e \in Events, NEW plan, Take(e, Len(events) + 1, plan), config' = config,
             events' = Append(events, e),
             \/ plan = Planned(e, Len(events) + 1)
             \/ plan = IF config.scd = "SCD2" THEN PlanScd2(history[e.member], e, Len(events) + 1)
                       ELSE PlanScd1(history[e.member], e, Len(events) + 1)
      PROVE  EvidenceInv'
  <2>1. plan.code = "OK" /\ history' = [history EXCEPT ![e.member] = plan.state]
    BY <1>1 DEF Take
  <2>2. history[e.member].last <= Len(events) /\ history[e.member].last \in Nat
    BY DEF EvidenceInv, MemberState, States, Events
  <2>3. Holds(plan.state, e, Told(e.member)) /\ plan.state.last \in {history[e.member].last, Len(events) + 1}
    BY <1>0, <1>1, <2>1, <2>2, PlannedHolds
  <2>4. plan.state.last <= Len(events')
    BY <1>0, <1>1, <2>2, <2>3
  <2> QED BY <1>1, <2>1, <2>3, <2>4, TakenHolds
<1>2. CASE ConsumeEvent
  <2>1. PICK e \in NextEvents : /\ Take(e, Len(events) + 1, Planned(e, Len(events) + 1))
                                /\ events' = Append(events, e)
    BY <1>2 DEF ConsumeEvent
  <2> QED BY <1>1, <1>2, <2>1 DEF ConsumeEvent, NextEvents
<1>3. CASE Complete
  <2>1. PICK e \in NextEvents :
          /\ Take(e, Len(events) + 1,
                  IF config.scd = "SCD2" THEN PlanScd2(history[e.member], e, Len(events) + 1)
                  ELSE PlanScd1(history[e.member], e, Len(events) + 1))
          /\ events' = Append(events, e)
    BY <1>3 DEF Complete
  <2> QED BY <1>1, <1>3, <2>1 DEF Complete, NextEvents
<1>4. CASE ReplayEvent
  <2>1. PICK p \in DOMAIN events : Take(events[p], p, Planned(events[p], p))
    BY <1>4 DEF ReplayEvent
  <2>2. PICK e \in Events : e = events[p]
    BY <1>0, <2>1
  <2> DEFINE plan == Planned(e, p)
  <2>3. plan.code = "OK" /\ history' = [history EXCEPT ![e.member] = plan.state]
    BY <2>1, <2>2 DEF Take
  <2>4. e \in Told(e.member) /\ p \in Nat \ {0} /\ p <= Len(events)
    BY <1>0, <2>1, <2>2 DEF Told
  <2> HIDE DEF plan
  <2>5. Holds(plan.state, e, Told(e.member)) /\ plan.state.last \in {history[e.member].last, p}
    BY <2>3, <2>4, PlannedHolds DEF plan
  <2>6. history[e.member].last <= Len(events)
    BY DEF EvidenceInv, Events
  <2>7. plan.state.last <= Len(events') /\ events' = events /\ config' = config
    BY <1>4, <2>4, <2>5, <2>6 DEF ReplayEvent
  <2> QED BY <2>3, <2>4, <2>5, <2>7, TakenHolds
<1>5. CASE \/ \E m \in Members, t \in FactTimes : Resolve(m, t) \/ Infer(m, t)
           \/ \E m \in Members, times \in SUBSET FactTimes : Rebind(m, times)
           \/ UNCHANGED dimensionVars
  BY <1>5, EvidenceStays DEF Resolve, Infer, Rebind, dimensionVars
<1> QED BY <1>2, <1>3, <1>4, <1>5 DEF DimensionNext
-----------------------------------------------------------------------------
(* References.                                                              *)

LEMMA ResolutionShows ==
  ASSUME NEW m, NEW t
  PROVE  Resolution(m, t).state = history[m] /\ Resolution(m, t).version = VersionAt(history[m], t)
<1>1. history[m] = NoState => At(history[m], t) = {}
  BY DEF NoState, At
<1>2. CASE history[m] = NoState
  BY <1>1, <1>2 DEF Resolution, VersionAt
<1>3. CASE history[m] # NoState
  BY <1>3 DEF Resolution, VersionAt
<1> QED BY <1>2, <1>3

LEMMA ReferenceStep ==
  ASSUME EvidenceInv, EvidenceInv', ReferenceInv, DimensionNext \/ UNCHANGED dimensionVars
  PROVE  ReferenceInv'
<1>1. config' = config
  BY DEF DimensionNext, ConsumeEvent, ReplayEvent, Complete, Resolve, Infer, Rebind, dimensionVars
<1>2. ASSUME NEW s PROVE /\ MemberState(s)' <=> MemberState(s)
                         /\ \A t : VersionAt(s, t)' = VersionAt(s, t)
  BY <1>1 DEF MemberState, Shape, Timeline, States, VersionAt, At
<1> DEFINE Shows(r, t) == r = Unresolved \/ (MemberState(r.state) /\ r.version = VersionAt(r.state, t))
<1>3. \A m \in Members, t \in FactTimes : Shows(references[m][t], t)
  BY DEF ReferenceInv
<1>4. \A m \in Members, t \in FactTimes : Shows(Resolution(m, t), t)
  <2> SUFFICES ASSUME NEW m \in Members, NEW t \in FactTimes PROVE Shows(Resolution(m, t), t)
    OBVIOUS
  <2>1. MemberState(history[m])
    BY DEF EvidenceInv
  <2> QED BY <2>1, ResolutionShows
<1>5. ASSUME references' = [m \in Members |-> references'[m]],
             \A m \in Members : references'[m] = [t \in FactTimes |-> references'[m][t]],
             \A m \in Members, t \in FactTimes : references'[m][t] \in {references[m][t], Resolution(m, t)}
      PROVE  ReferenceInv'
  <2>1. ASSUME NEW m \in Members, NEW t \in FactTimes
        PROVE  \/ references'[m][t] = Unresolved
               \/ /\ MemberState(references[m][t].state)'
                  /\ references'[m][t].version = VersionAt(references[m][t].state, t)'
    <3>1. PICK r : r = references'[m][t] /\ Shows(r, t)
      BY <1>3, <1>4, <1>5
    <3>2. PICK s : s = r.state
      OBVIOUS
    <3>3. r = Unresolved \/ (MemberState(s)' /\ r.version = VersionAt(s, t)')
      BY <1>2, <3>1, <3>2
    <3> QED BY <3>1, <3>2, <3>3 DEF MemberState, Shape, VersionAt, At
  <2> QED BY <1>5, <2>1 DEF ReferenceInv
<1>6. CASE references' = references
  BY <1>5, <1>6 DEF ReferenceInv
<1>7. ASSUME NEW m \in Members, NEW t \in FactTimes, Resolve(m, t) PROVE ReferenceInv'
  BY <1>5, <1>7 DEF Resolve, ReferenceInv
<1>8. ASSUME NEW m \in Members, NEW times \in SUBSET FactTimes, Rebind(m, times) PROVE ReferenceInv'
  <2> DEFINE new == [t \in FactTimes |->
               IF t \in times /\ (config.scd # "SCD2" \/ t \in Affected(references[m][t].state, history[m]))
               THEN Resolution(m, t) ELSE references[m][t]]
  <2>1. references' = [references EXCEPT ![m] = new]
    BY <1>8 DEF Rebind, ReferenceInv
  <2>2. new = [t \in FactTimes |-> new[t]] /\ \A t \in FactTimes : new[t] \in {references[m][t], Resolution(m, t)}
    OBVIOUS
  <2> HIDE DEF new
  <2> QED BY <1>5, <2>1, <2>2 DEF ReferenceInv
<1> QED BY <1>6, <1>7, <1>8 DEF DimensionNext, ConsumeEvent, ReplayEvent, Complete, Infer, dimensionVars

(* A bounded set of cuts has a last one.                                    *)
LEMMA LastIs ==
  ASSUME NEW S \in SUBSET Nat, S # {}, NEW n \in Nat, \A i \in S : i <= n
  PROVE  \E x \in S : \A y \in S : y <= x
<1> DEFINE less == {q \in Nat \X Nat : q[1] < q[2]}
           gaps == {n - i : i \in S}
<1>1. IsWellFoundedOn(less, Nat)
  BY NatLessThanWellFounded DEF OpToRel
<1>2. gaps \subseteq Nat /\ gaps # {}
  <2>1. PICK i \in S : TRUE
    OBVIOUS
  <2>2. n - i \in gaps
    OBVIOUS
  <2>3. \A j \in S : n - j \in Nat
    OBVIOUS
  <2> QED BY <2>2, <2>3
<1> HIDE DEF less
<1>3. PICK g \in gaps : \A h \in gaps : ~(<<h, g>> \in less)
  BY <1>1, <1>2, WFMin
<1> USE DEF less
<1>4. PICK i \in S : g = n - i
  OBVIOUS
<1>5. ASSUME NEW j \in S PROVE j <= i
  <2>1. n - j \in gaps /\ n - j \in Nat /\ g \in Nat
    BY <1>2
  <2>2. ~(<<n - j, g>> \in less)
    BY <2>1, <1>3
  <2> QED BY <2>1, <2>2, <1>4
<1> QED BY <1>5

(* Outside of the affected ranges both states show the same version: the    *)
(* start of its range is the last boundary that either of them has until    *)
(* then, and no version of either starts or ends within the range.          *)
LEMMA RangesCover ==
  ASSUME config.scd \in ScdTypes, NEW before, NEW after, MemberState(before), MemberState(after),
         NEW t \in Instants, t \notin Affected(before, after)
  PROVE  VersionAt(before, t) = VersionAt(after, t)
<1> DEFINE cuts == {c \in Cuts(before, after) : c <= t}
           Blind(S) == {[v EXCEPT !.to = 0] : v \in S}
           Parts(s) == /\ \A v \in s.versions : v \in VersionSet
                       /\ \A v, w \in s.versions : v = w \/ v.to <= w.from \/ w.to <= v.from
<1>1. Parts(before) /\ Parts(after)
  <2>1. ASSUME NEW s, MemberState(s) PROVE Parts(s)
    <3>1. s \in States
      BY <2>1 DEF MemberState
    <3>2. CASE s = NoState
      BY <3>2 DEF NoState
    <3>3. CASE s # NoState
      BY <2>1, <3>1, <3>3 DEF MemberState, States, Timeline
    <3> QED BY <3>2, <3>3
  <2> QED BY <2>1
<1>2. /\ t \in Nat /\ Open \in Nat
      /\ \A v \in VersionSet : v.from \in Nat /\ v.to \in Nat
  BY DimensionAssumption DEF Instants, VersionSet, Open
<1>3. /\ \A v \in before.versions : v.from \in Cuts(before, after) /\ v.to \in Cuts(before, after)
      /\ \A v \in after.versions : v.from \in Cuts(before, after) /\ v.to \in Cuts(before, after)
      /\ Cuts(before, after) \subseteq Nat
  BY <1>1, <1>2 DEF Cuts, Bounds
<1>4. CASE cuts = {}
  <2>1. At(before, t) = {} /\ At(after, t) = {}
    BY <1>3, <1>4 DEF At
  <2> QED BY <2>1 DEF VersionAt
<1>5. CASE cuts # {}
  <2>1. PICK start \in cuts : \A c \in cuts : c <= start
    BY <1>2, <1>3, <1>5, LastIs
  <2>2. start \in Cuts(before, after) /\ start <= t /\ start \in Nat
        /\ \A c \in Cuts(before, after) : c <= t => c <= start
    BY <1>3, <2>1
  <2>3. Blind(At(before, start)) = Blind(At(after, start))
    BY <2>2 DEF Affected
  <2>4. ASSUME NEW s \in {before, after} PROVE At(s, start) = At(s, t)
    <3>1. \A v \in s.versions : /\ v.from \in Cuts(before, after) /\ v.to \in Cuts(before, after)
                                /\ v.from \in Nat /\ v.to \in Nat
      BY <1>3, <2>4
    <3>2. \A v \in s.versions : (v.from <= start /\ start < v.to) <=> (v.from <= t /\ t < v.to)
      BY <1>2, <2>2, <3>1
    <3> QED BY <3>2 DEF At
  <2>5. ASSUME NEW s \in {before, after}, NEW v \in At(s, t)
        PROVE  VersionAt(s, t) = IF config.scd = "SCD2" THEN v.from ELSE 0
    <3>1. \A w \in At(s, t) : w = v
      BY <1>1, <1>2, <2>5 DEF At
    <3> QED BY <2>5, <3>1 DEF VersionAt
  <2>6. ASSUME NEW v \in At(before, t) PROVE \E w \in At(after, t) : w.from = v.from
    <3>1. [v EXCEPT !.to = 0] \in Blind(At(after, start))
      BY <2>3, <2>4, <2>6
    <3>2. PICK w \in At(after, t) : [v EXCEPT !.to = 0] = [w EXCEPT !.to = 0]
      BY <2>4, <3>1
    <3>3. v \in VersionSet /\ w \in VersionSet
      BY <1>1, <2>6, <3>2 DEF At
    <3>4. [v EXCEPT !.to = 0].from = v.from /\ [w EXCEPT !.to = 0].from = w.from
      BY <3>3 DEF VersionSet
    <3> QED BY <3>2, <3>4
  <2>7. ASSUME At(before, t) = {} PROVE At(after, t) = {}
    <3>1. Blind(At(after, start)) = {}
      BY <2>3, <2>4, <2>7
    <3> QED BY <2>4, <3>1
  <2>8. CASE At(before, t) = {}
    BY <2>7, <2>8 DEF VersionAt
  <2>9. CASE At(before, t) # {}
    <3>1. PICK v \in At(before, t) : TRUE
      BY <2>9
    <3>2. PICK w \in At(after, t) : w.from = v.from
      BY <2>6
    <3> QED BY <2>5, <3>2
  <2> QED BY <2>8, <2>9
<1> QED BY <1>4, <1>5
-----------------------------------------------------------------------------
(* The specification.                                                       *)

LEMMA DimensionStart ==
  ASSUME DimensionInit
  PROVE  EvidenceInv /\ ReferenceInv
<1>1. config \in [scd : ScdTypes, infers : BOOLEAN]
  BY DimensionAssumption DEF DimensionInit
<1>2. events \in Seq(Events) /\ Len(events) = 0 /\ \A m : Told(m) = {}
  BY DEF DimensionInit, Told
<1>3. NoState \in States /\ NoState.last = 0 /\ NoState.versions = {}
  BY DEF NoState, States
<1>4. ASSUME NEW m \in Members
      PROVE  MemberState(history[m]) /\ Knows(history[m], Told(m)) /\ history[m].last <= Len(events)
  <2>1. history[m] = NoState
    BY DEF DimensionInit
  <2> QED BY <1>2, <1>3, <2>1 DEF MemberState, Knows
<1>5. history = [m \in Members |-> history[m]]
  BY DEF DimensionInit
<1>6. ReferenceInv
  BY DEF DimensionInit, ReferenceInv
<1> QED BY <1>1, <1>2, <1>4, <1>5, <1>6 DEF EvidenceInv

LEMMA DimensionAlways == Spec => [](EvidenceInv /\ ReferenceInv)
<1>1. Init => EvidenceInv /\ ReferenceInv
  BY DimensionStart DEF Init
<1>2. (EvidenceInv /\ ReferenceInv) /\ [CompilePlan]_<<trustedVars, factVars, dimensionVars, context>>
        => (EvidenceInv /\ ReferenceInv)'
  <2> SUFFICES ASSUME EvidenceInv, ReferenceInv,
                      [CompilePlan]_<<trustedVars, factVars, dimensionVars, context>>
               PROVE  EvidenceInv' /\ ReferenceInv'
    OBVIOUS
  <2>1. DimensionNext \/ UNCHANGED dimensionVars
    BY DEF CompilePlan
  <2>2. EvidenceInv'
    BY <2>1, EvidenceStep
  <2> QED BY <2>1, <2>2, ReferenceStep
<1> QED BY <1>1, <1>2, PTL DEF Spec

(* Whatever the order in which forward, late, replayed and correcting       *)
(* evidence of a member arrives (compile_dimension, plan_repair and         *)
(* plan_completion), its versions are disjoint and one of them is open,     *)
(* each starts at accepted evidence and has its values, and the newest      *)
(* evidence, if nothing was corrected, is current.                          *)
THEOREM HistoriesAreEvidence == Spec => []HistoryIsEvidence
<1>1. EvidenceInv => HistoryIsEvidence
  <2> SUFFICES ASSUME EvidenceInv, NEW m \in Members, history[m] # NoState
               PROVE  /\ IsTimeline(history[m])
                      /\ \A v \in history[m].versions :
                             \E e \in Told(m) : /\ v.from \in {0, e.time}
                                                /\ SameTracked(v, e)
                                                /\ config.scd # "SCD2" => SameOther(v, e)
                      /\ config.scd # "SCD1_UNTIMED" =>
                             \A e \in Told(m) : IsNewest(m, e) => SameTracked(OpenVersion(history[m]), e)
    BY DEF HistoryIsEvidence
  <2>1. MemberState(history[m]) /\ Knows(history[m], Told(m))
    BY DEF EvidenceInv
  <2>2. IsTimeline(history[m])
    BY <2>1 DEF MemberState, Timeline, IsTimeline
  <2>3. \A v \in history[m].versions : \E e \in Told(m) : Attests(v, e)
    BY <2>1 DEF Knows
  <2>4. ASSUME Timed, NEW e \in Told(m), IsNewest(m, e)
        PROVE  SameTracked(OpenVersion(history[m]), e)
    <3>1. AllNormal(Told(m)) /\ \A f \in Told(m) : f.time <= e.time
      BY <2>4 DEF AllNormal, IsNewest
    <3>2. PICK f \in Told(m) : f.time = history[m].observed
      BY <2>1, <2>4 DEF Knows
    <3>3. Told(m) \subseteq Events
      BY DEF EvidenceInv, Told
    <3>4. e.time = history[m].observed
      <4>1. e.time \in Nat /\ f.time \in Nat
        BY <3>3 DEF Events, Instants
      <4>2. e.time <= history[m].observed
        BY <2>1, <2>4 DEF Knows
      <4> QED BY <3>1, <3>2, <4>1, <4>2
    <3> QED BY <2>1, <2>4, <3>1, <3>4 DEF Knows
  <2> QED BY <2>2, <2>3, <2>4 DEF Attests, Timed
<1> QED BY <1>1, DimensionAlways, PTL

(* A reference that plan_reresolution skips, since its fact lies outside of *)
(* the ranges in which the member changed after the state that the          *)
(* reference pins, names the version that holds at the time of the fact.    *)
THEOREM SkippedReferencesHold == Spec => []SkippedReferencesAreCurrent
<1>1. EvidenceInv /\ ReferenceInv => SkippedReferencesAreCurrent
  <2> SUFFICES ASSUME EvidenceInv, ReferenceInv, NEW m \in Members, NEW t \in FactTimes,
                      references[m][t] # Unresolved,
                      t \notin Affected(references[m][t].state, history[m])
               PROVE  references[m][t].version = Resolution(m, t).version
    BY DEF SkippedReferencesAreCurrent
  <2>1. t \in Instants
    BY DimensionAssumption DEF Instants
  <2>2. config.scd \in ScdTypes /\ MemberState(history[m])
    BY DEF EvidenceInv
  <2>3. /\ MemberState(references[m][t].state)
        /\ references[m][t].version = VersionAt(references[m][t].state, t)
    BY DEF ReferenceInv
  <2>4. VersionAt(references[m][t].state, t) = VersionAt(history[m], t)
    BY <2>1, <2>2, <2>3, RangesCover
  <2> QED BY <2>3, <2>4, ResolutionShows
<1> QED BY <1>1, DimensionAlways, PTL
-----------------------------------------------------------------------------
(* Part two, TrustedFacts.  compile_fact over manifests M from a base: the   *)
(* run over the positions exists, and proceeds one manifest at a time.      *)

Step(M, plan, position) ==
    LET news == {k \in DOMAIN M[position] : ~ExactRetry(plan.facts[k], position)} IN
    [ok |-> plan.ok /\ \A k \in news : /\ Newer(plan.facts[k], position)
                                       /\ Admits(plan.facts[k], M[position][k]),
     facts |-> [k \in Keys |-> IF k \in news THEN NextFact(plan.facts[k], M[position][k], position)
                                             ELSE plan.facts[k]]]

Run(M, base, first, last) ==
    LET after[position \in first - 1 .. last] ==
            IF position < first THEN base ELSE Step(M, after[position - 1], position)
    IN
    after[last]

Runs(f, M, base, first, last) ==
    f = [position \in first - 1 .. last |->
            IF position < first THEN base ELSE Step(M, f[position - 1], position)]

LEMMA Induction ==
  ASSUME NEW S, 0 \in S, \A n \in Nat : n \in S => n + 1 \in S
  PROVE  \A n \in Nat : n \in S
<1> DEFINE less == {q \in Nat \X Nat : q[1] < q[2]}
           out == Nat \ S
<1>1. IsWellFoundedOn(less, Nat)
  BY NatLessThanWellFounded DEF OpToRel
<1> SUFFICES ASSUME out # {} PROVE FALSE
  OBVIOUS
<1> HIDE DEF less
<1>2. PICK n \in out : \A m \in out : ~(<<m, n>> \in less)
  BY <1>1, WFMin
<1> USE DEF less
<1>3. n \in Nat \ {0} /\ n - 1 \in Nat /\ n - 1 + 1 = n
  OBVIOUS
<1>4. n - 1 \notin out
  <2>1. <<n - 1, n>> \in less
    BY <1>3
  <2> QED BY <1>2, <2>1
<1> QED BY <1>2, <1>3, <1>4

LEMMA RunExists ==
  ASSUME NEW M, NEW base, NEW first \in Nat \ {0}, NEW last \in Nat, first - 1 <= last
  PROVE  \E f : Runs(f, M, base, first, last)
<1> DEFINE S == {i \in Nat : \E f : Runs(f, M, base, first, first - 1 + i)}
<1>1. 0 \in S
  <2> DEFINE f == [position \in first - 1 .. first - 1 |-> base]
  <2>1. Runs(f, M, base, first, first - 1 + 0)
    BY DEF Runs
  <2> QED BY <2>1
<1>2. ASSUME NEW i \in Nat, i \in S PROVE i + 1 \in S
  <2> DEFINE n == first - 1 + i
  <2>1. PICK f : Runs(f, M, base, first, n)
    BY <1>2
  <2> DEFINE g == [position \in first - 1 .. n + 1 |->
                      IF position = n + 1 THEN Step(M, f[n], n + 1) ELSE f[position]]
  <2>2. ASSUME NEW p \in first - 1 .. n + 1
        PROVE  g[p] = IF p < first THEN base ELSE Step(M, g[p - 1], p)
    <3>1. CASE p = n + 1
      BY <3>1
    <3>2. CASE p # n + 1
      <4>1. p \in first - 1 .. n /\ (p < first \/ p - 1 \in first - 1 .. n)
        BY <3>2
      <4>2. f[p] = IF p < first THEN base ELSE Step(M, f[p - 1], p)
        BY <2>1, <4>1 DEF Runs
      <4> QED BY <3>2, <4>1, <4>2
    <3> QED BY <3>1, <3>2
  <2>3. Runs(g, M, base, first, n + 1)
    BY <2>2 DEF Runs
  <2>4. n + 1 = first - 1 + (i + 1)
    OBVIOUS
  <2> QED BY <2>3, <2>4
<1> HIDE DEF S
<1>3. \A i \in Nat : i \in S
  BY <1>1, <1>2, Induction
<1>4. last - first + 1 \in Nat /\ first - 1 + (last - first + 1) = last
  OBVIOUS
<1> QED BY <1>3, <1>4 DEF S

LEMMA RunIsThere ==
  ASSUME NEW M, NEW base, NEW first \in Nat \ {0}, NEW last \in Nat, first - 1 <= last
  PROVE  \E f : Runs(f, M, base, first, last) /\ Run(M, base, first, last) = f[last]
<1> DEFINE f == CHOOSE g : Runs(g, M, base, first, last)
<1>1. Runs(f, M, base, first, last)
  BY RunExists
<1>2. Run(M, base, first, last) = f[last]
  BY DEF Run, Runs
<1> QED BY <1>1, <1>2

LEMMA RunsAgree ==
  ASSUME NEW M, NEW base, NEW first \in Nat \ {0}, NEW last \in Nat, NEW last2 \in Nat,
         NEW f, Runs(f, M, base, first, last), NEW g, Runs(g, M, base, first, last2),
         NEW n \in Nat, first - 1 <= n, n <= last, n <= last2
  PROVE  f[n] = g[n]
<1> DEFINE S == {i \in Nat : first - 1 + i <= n => f[first - 1 + i] = g[first - 1 + i]}
<1>1. 0 \in S
  BY DEF Runs
<1>2. ASSUME NEW i \in Nat, i \in S PROVE i + 1 \in S
  <2> SUFFICES ASSUME first - 1 + (i + 1) <= n
               PROVE  f[first - 1 + (i + 1)] = g[first - 1 + (i + 1)]
    OBVIOUS
  <2>1. PICK p \in Nat : p = first - 1 + (i + 1)
    OBVIOUS
  <2>2. p \in first - 1 .. last /\ p \in first - 1 .. last2 /\ ~(p < first) /\ p - 1 = first - 1 + i
    BY <2>1
  <2>3. f[p - 1] = g[p - 1]
    BY <1>2, <2>1, <2>2
  <2>4. f[p] = Step(M, f[p - 1], p) /\ g[p] = Step(M, g[p - 1], p)
    BY <2>2 DEF Runs
  <2> QED BY <2>1, <2>3, <2>4
<1> HIDE DEF S
<1>3. \A i \in Nat : i \in S
  BY <1>1, <1>2, Induction
<1>4. PICK i \in Nat : first - 1 + i = n
  <2>1. n - first + 1 \in Nat /\ first - 1 + (n - first + 1) = n
    OBVIOUS
  <2> QED BY <2>1
<1>5. first - 1 + i <= n => f[first - 1 + i] = g[first - 1 + i]
  BY <1>3 DEF S
<1> QED BY <1>4, <1>5

LEMMA RunStarts ==
  ASSUME NEW M, NEW base, NEW first \in Nat \ {0}
  PROVE  Run(M, base, first, first - 1) = base
<1>1. PICK f : Runs(f, M, base, first, first - 1) /\ Run(M, base, first, first - 1) = f[first - 1]
  BY RunIsThere
<1>2. f[first - 1] = base
  BY <1>1 DEF Runs
<1> QED BY <1>1, <1>2

LEMMA RunProceeds ==
  ASSUME NEW M, NEW base, NEW first \in Nat \ {0}, NEW last \in Nat, first <= last
  PROVE  Run(M, base, first, last) = Step(M, Run(M, base, first, last - 1), last)
<1>1. PICK f : Runs(f, M, base, first, last) /\ Run(M, base, first, last) = f[last]
  BY RunIsThere
<1>2. PICK g : Runs(g, M, base, first, last - 1) /\ Run(M, base, first, last - 1) = g[last - 1]
  BY RunIsThere
<1>3. f[last - 1] = g[last - 1]
  BY <1>1, <1>2, RunsAgree
<1>4. f[last] = Step(M, f[last - 1], last)
  BY <1>1 DEF Runs
<1> QED BY <1>1, <1>2, <1>3, <1>4

(* A run looks at its own manifests only, and can be cut in two.            *)
LEMMA RunIsLocal ==
  ASSUME NEW M, NEW N, NEW base, NEW first \in Nat \ {0}, NEW last \in Nat, first - 1 <= last,
         \A n \in first .. last : M[n] = N[n]
  PROVE  Run(M, base, first, last) = Run(N, base, first, last)
<1> DEFINE S == {i \in Nat : first - 1 + i <= last =>
                    Run(M, base, first, first - 1 + i) = Run(N, base, first, first - 1 + i)}
<1>1. 0 \in S
  BY RunStarts
<1>2. ASSUME NEW i \in Nat, i \in S PROVE i + 1 \in S
  <2> SUFFICES ASSUME first - 1 + (i + 1) <= last
               PROVE  Run(M, base, first, first - 1 + (i + 1)) = Run(N, base, first, first - 1 + (i + 1))
    OBVIOUS
  <2>1. PICK p \in Nat : p = first - 1 + (i + 1)
    OBVIOUS
  <2>2. p \in first .. last /\ p - 1 = first - 1 + i /\ first <= p
    BY <2>1
  <2>3. Run(M, base, first, p - 1) = Run(N, base, first, p - 1)
    BY <1>2, <2>2
  <2>4. \A plan : Step(M, plan, p) = Step(N, plan, p)
    BY <2>2 DEF Step
  <2>5. /\ Run(M, base, first, p) = Step(M, Run(M, base, first, p - 1), p)
        /\ Run(N, base, first, p) = Step(N, Run(N, base, first, p - 1), p)
    BY <2>2, RunProceeds
  <2> QED BY <2>1, <2>3, <2>4, <2>5
<1> HIDE DEF S
<1>3. \A i \in Nat : i \in S
  BY <1>1, <1>2, Induction
<1>4. last - first + 1 \in Nat /\ first - 1 + (last - first + 1) = last
  OBVIOUS
<1> QED BY <1>3, <1>4 DEF S

LEMMA RunIsCut ==
  ASSUME NEW M, NEW base, NEW first \in Nat \ {0}, NEW mid \in Nat, NEW last \in Nat,
         first - 1 <= mid, mid <= last
  PROVE  Run(M, Run(M, base, first, mid), mid + 1, last) = Run(M, base, first, last)
<1> DEFINE middle == Run(M, base, first, mid)
           S == {i \in Nat : Run(M, middle, mid + 1, mid + i) = Run(M, base, first, mid + i)}
<1> HIDE DEF middle
<1>1. 0 \in S
  BY RunStarts DEF middle
<1>2. ASSUME NEW i \in Nat, i \in S PROVE i + 1 \in S
  <2>1. PICK p \in Nat : p = mid + (i + 1)
    OBVIOUS
  <2>2. p - 1 = mid + i /\ first <= p /\ mid + 1 <= p /\ mid + 1 \in Nat \ {0}
    BY <2>1
  <2>3. Run(M, middle, mid + 1, p - 1) = Run(M, base, first, p - 1)
    BY <1>2, <2>2
  <2>4. /\ Run(M, middle, mid + 1, p) = Step(M, Run(M, middle, mid + 1, p - 1), p)
        /\ Run(M, base, first, p) = Step(M, Run(M, base, first, p - 1), p)
    BY <2>2, RunProceeds
  <2> QED BY <2>1, <2>3, <2>4
<1> HIDE DEF S
<1>3. \A i \in Nat : i \in S
  BY <1>1, <1>2, Induction
<1>4. last - mid \in Nat /\ mid + (last - mid) = last
  OBVIOUS
<1> QED BY <1>3, <1>4 DEF S, middle

LEMMA CompileIsRun ==
  ASSUME NEW first, NEW last
  PROVE  CompileFact(first, last) = Run(manifests, [ok |-> TRUE, facts |-> Facts], first, last)
BY DEF CompileFact, Run, ConsumeManifest, Step
-----------------------------------------------------------------------------
(* The engines.                                                             *)

RowSet == [value : Values \cup {"NONE"}, time : 0 .. MaxTime, active : BOOLEAN, effective : 0 .. MaxTime]
EventSet == [outcome : Accepted \cup {"DEACTIVATED"}, value : Values \cup {"NONE"}, time : 0 .. MaxTime]
FactSet == [value : Values \cup {"NONE"}, time : 0 .. MaxTime, active : BOOLEAN, position : Nat]
ManifestSet == UNION {[touched -> EventSet] : touched \in SUBSET Keys}
CandidateSet == UNION {[touched -> FactSet] : touched \in SUBSET Keys}

TrustedTypeOK ==
    /\ policy \in Policies
    /\ rows \in [Keys -> RowSet]
    /\ boundary \in 0 .. MaxTime
    /\ manifests \in Seq(ManifestSet)
    /\ consumed \in 0 .. Len(manifests)
    /\ revisions \in Seq(CandidateSet)

(* Only a snapshot leaves a known row inactive, and only a dated delivery   *)
(* gives a row a time to hold from.                                         *)
RowOK(row) ==
    /\ row # NoRow => row.time >= 1 /\ (policy.strategy # "SNAPSHOT" => row.active)
    /\ row.effective <= boundary

RowInv == (~policy.dated => boundary = 0) /\ \A k \in Keys : RowOK(rows[k])

Mirrors(fact, row) ==
    /\ fact.active = row.active
    /\ row # NoRow <=> fact # NoFact
    /\ row # NoRow => Same(fact, row)

LEMMA DeliveryType ==
  ASSUME NEW d \in Deliveries, NEW k \in Keys, d.incoming[k] # {}
  PROVE  /\ Only(d.incoming[k]) \in Contents /\ Only(d.incoming[k]).value \in Values
         /\ Only(d.incoming[k]).time \in 1 .. MaxTime
<1>1. d.incoming[k] \in Incoming
  BY DEF Deliveries
<1>2. d.incoming[k] \subseteq Contents
  BY <1>1 DEF Incoming
<1>3. Only(d.incoming[k]) \in d.incoming[k]
  BY DEF Only
<1> QED BY <1>2, <1>3 DEF Contents

(* What an outcome says of the row that it meets.                           *)
LEMMA OutcomeMeets ==
  ASSUME TrustedTypeOK, RowInv, NEW d \in Deliveries, NEW k \in Keys
  PROVE  LET out == Outcome(d, k)
             new == Only(d.incoming[k])
         IN
         /\ out = "INSERTED" => ~Known(k)
         /\ out = "UPDATED" => Known(k) /\ rows[k].active
         /\ out = "UNCHANGED" => Known(k) /\ rows[k].active
         /\ out = "REACTIVATED" => Known(k) /\ ~rows[k].active /\ policy.strategy = "SNAPSHOT"
         /\ out \in Accepted => d.incoming[k] # {}
         /\ out \in Accepted /\ policy.timed => new.time >= rows[k].time
         /\ out \in Accepted /\ policy.strategy = "SNAPSHOT" => rows[k].effective <= d.effective
         /\ Dropped(d, k) => out = "ABSENT" /\ Known(k) /\ rows[k].active /\ rows[k].effective <= d.effective
<1> DEFINE new == Only(d.incoming[k])
           row == rows[k]
<1>1. /\ row \in RowSet /\ row.time \in Nat /\ row.effective \in Nat /\ row.active \in BOOLEAN
      /\ d.effective \in Nat /\ boundary \in Nat /\ row.effective <= boundary
      /\ policy.strategy \in {"APPEND", "UPSERT", "SNAPSHOT"}
      /\ Known(k) /\ policy.strategy # "SNAPSHOT" => row.active
      /\ ~Known(k) => row.time = 0 /\ row.effective = 0 /\ ~row.active
  BY DEF TrustedTypeOK, RowInv, RowOK, RowSet, Deliveries, Policies, Known, NoRow
<1>2. d.incoming[k] # {} => new.time \in Nat /\ new.time >= 1
  BY DeliveryType
<1>3. Older(d) \/ ~(d.effective # 0 /\ boundary # 0 /\ d.effective < boundary)
  BY DEF Older
<1> HIDE DEF new, row
<1>4. ASSUME NEW c, d.incoming[k] # {}
      PROVE  LET base == UpsertOutcome(d, k, c) IN
             /\ base = "INSERTED" => ~Known(k)
             /\ base \in {"UPDATED", "UNCHANGED"} => Known(k)
             /\ base \notin {"REJECTED", "STALE"} /\ policy.timed => new.time >= row.time
             /\ base \in {"INSERTED", "UPDATED", "UNCHANGED", "REJECTED", "STALE"}
  BY <1>1, <1>2, <1>4 DEF UpsertOutcome, new, row
<1>5. CASE d.incoming[k] # {} /\ policy.strategy = "APPEND"
  <2>1. Outcome(d, k) = AppendOutcome(d, k)
    BY <1>5 DEF Outcome
  <2>2. Outcome(d, k) \in {"INSERTED", "DUPLICATE", "REJECTED"} /\ (Outcome(d, k) = "INSERTED" => ~Known(k))
    BY <2>1 DEF AppendOutcome
  <2> QED BY <1>1, <1>2, <1>5, <2>2 DEF Accepted, Dropped, new, row
<1>6. CASE d.incoming[k] # {} /\ policy.strategy = "UPSERT"
  <2>1. Outcome(d, k) = UpsertOutcome(d, k, FALSE)
    BY <1>6 DEF Outcome
  <2> QED BY <1>1, <1>2, <1>4, <1>6, <2>1 DEF Accepted, Dropped, new, row
<1>7. CASE d.incoming[k] # {} /\ policy.strategy = "SNAPSHOT"
  <2> DEFINE base == UpsertOutcome(d, k, Correction(d))
             out == SnapshotOutcome(d, k)
  <2>1. Outcome(d, k) = out
    BY <1>7 DEF Outcome
  <2>2. /\ base = "INSERTED" => ~Known(k)
        /\ base \in {"UPDATED", "UNCHANGED"} => Known(k)
        /\ base \notin {"REJECTED", "STALE"} /\ policy.timed => new.time >= row.time
        /\ base \in {"INSERTED", "UPDATED", "UNCHANGED", "REJECTED", "STALE"}
    BY <1>4, <1>7
  <2>3. out \in {"REJECTED", "STALE"} \/ (/\ base \notin {"REJECTED", "STALE"}
                                          /\ ~(Known(k) /\ row.effective > d.effective)
                                          /\ out = IF Known(k) /\ ~row.active THEN "REACTIVATED" ELSE base)
    BY DEF SnapshotOutcome, row
  <2> HIDE DEF base, out
  <2> QED BY <1>1, <1>2, <1>7, <2>1, <2>2, <2>3 DEF Accepted, Dropped, new, row
<1>8. CASE d.incoming[k] = {}
  <2>1. Outcome(d, k) = "ABSENT"
    BY <1>8 DEF Outcome
  <2>2. Dropped(d, k) => row.active /\ Known(k) /\ row.effective <= d.effective
    <3> SUFFICES ASSUME Dropped(d, k) PROVE row.active /\ Known(k) /\ row.effective <= d.effective
      OBVIOUS
    <3>1. row.active /\ ~Older(d)
      BY DEF Dropped, Deactivates, row
    <3>2. d.effective = 0 => ~policy.dated
      BY <1>1 DEF Deliveries
    <3>3. d.effective = 0 => boundary = 0
      BY <3>2 DEF RowInv
    <3> QED BY <1>1, <3>1, <3>3 DEF Older
  <2> QED BY <2>1, <2>2 DEF Accepted, new, row
<1>9. d.incoming[k] = {} \/ policy.strategy = "APPEND" \/ policy.strategy = "UPSERT" \/ policy.strategy = "SNAPSHOT"
  BY <1>1
<1> QED BY <1>5, <1>6, <1>7, <1>8, <1>9

Event(d, k) == [outcome |-> Evidenced(d, k), value |-> Merged(d, k).value, time |-> Merged(d, k).time]

(* The evidence of a merge is what the FACT planner needs to follow it.     *)
LEMMA MergeIsEvidence ==
  ASSUME TrustedTypeOK, RowInv, NEW d \in Deliveries, NEW k \in Keys,
         NEW fact, Mirrors(fact, rows[k]), NEW position \in Nat \ {0}
  PROVE  IF Evidenced(d, k) \in Accepted \cup {"DEACTIVATED"}
         THEN Admits(fact, Event(d, k)) /\ Mirrors(NextFact(fact, Event(d, k), position), Merged(d, k))
         ELSE Mirrors(fact, Merged(d, k))
<1> DEFINE out == Outcome(d, k)
           new == Only(d.incoming[k])
           row == rows[k]
           merged == Merged(d, k)
           event == Event(d, k)
           next == NextFact(fact, event, position)
<1>0. /\ event.outcome = Evidenced(d, k) /\ event.value = merged.value /\ event.time = merged.time
      /\ next.position # 0 /\ next.value = event.value /\ next.time = event.time
  BY DEF Event, NextFact
<1>1. next # NoFact
  BY <1>0 DEF NoFact
<1>2. next.active = CASE event.outcome = "DEACTIVATED" -> FALSE
                      [] event.outcome = "UNCHANGED" -> fact.active
                      [] OTHER -> TRUE
  BY DEF NextFact
<1>3. /\ out = "INSERTED" => ~Known(k)
      /\ out = "UPDATED" => Known(k) /\ row.active
      /\ out = "UNCHANGED" => Known(k) /\ row.active
      /\ out = "REACTIVATED" => Known(k) /\ ~row.active /\ policy.strategy = "SNAPSHOT"
      /\ Dropped(d, k) => out = "ABSENT" /\ Known(k) /\ row.active
  BY OutcomeMeets
<1>4. /\ fact.active = row.active /\ (Known(k) <=> fact # NoFact)
      /\ Known(k) => fact.value = row.value /\ fact.time = row.time
      /\ Known(k) => row.time >= 1 /\ row.time \in Nat
  BY DEF Mirrors, Known, Same, RowInv, RowOK, TrustedTypeOK, RowSet
<1>5. out \in Accepted => new.time >= 1 /\ new.time \in Nat
  BY OutcomeMeets, DeliveryType
<1>6. merged = IF Dropped(d, k) THEN Row(row, FALSE, d.effective)
               ELSE IF out \in {"INSERTED", "UPDATED", "REACTIVATED"} THEN Row(new, TRUE, d.effective)
               ELSE IF out = "UNCHANGED" /\ policy.strategy = "SNAPSHOT" THEN Row(row, TRUE, d.effective)
               ELSE row
  BY DEF Merged
<1>7. Evidenced(d, k) = IF Dropped(d, k) THEN "DEACTIVATED" ELSE out
  BY DEF Evidenced
<1> HIDE DEF merged, event, next, out, new
<1>8. CASE Dropped(d, k)
  <2>1. /\ merged.value = row.value /\ merged.time = row.time /\ merged.active = FALSE /\ merged # NoRow
        /\ event.outcome = "DEACTIVATED"
    <3>1. merged = Row(row, FALSE, d.effective)
      BY <1>6, <1>8
    <3>2. row.time \in Nat /\ row.time >= 1
      BY <1>3, <1>4, <1>8
    <3>3. event.outcome = "DEACTIVATED"
      BY <1>0, <1>7, <1>8
    <3> HIDE DEF row
    <3> QED BY <3>1, <3>2, <3>3 DEF Row, NoRow
  <2>2. next.active = FALSE /\ Mirrors(next, merged)
    BY <1>0, <1>1, <1>2, <2>1 DEF Mirrors, Same
  <2>3. Admits(fact, event)
    BY <1>0, <1>3, <1>4, <1>8, <2>1 DEF Admits
  <2> QED BY <1>7, <1>8, <2>2, <2>3 DEF Accepted, merged, event, next
<1>9. CASE ~Dropped(d, k) /\ out \in {"INSERTED", "UPDATED", "REACTIVATED"}
  <2>1. /\ merged.value = new.value /\ merged.time = new.time /\ merged.active = TRUE /\ merged # NoRow
        /\ event.outcome = out
    <3>1. merged = Row(new, TRUE, d.effective)
      BY <1>6, <1>9
    <3>2. new.time \in Nat /\ new.time >= 1
      BY <1>5, <1>9 DEF Accepted
    <3>3. event.outcome = out
      BY <1>0, <1>7, <1>9
    <3> HIDE DEF row
    <3> QED BY <3>1, <3>2, <3>3 DEF Row, NoRow
  <2>2. next.active = TRUE /\ Mirrors(next, merged)
    BY <1>0, <1>1, <1>2, <1>9, <2>1 DEF Mirrors, Same
  <2>3. Admits(fact, event)
    BY <1>0, <1>3, <1>4, <1>9, <2>1 DEF Admits
  <2> QED BY <1>7, <1>9, <2>2, <2>3 DEF Accepted, merged, event, next
<1>10. CASE ~Dropped(d, k) /\ out = "UNCHANGED"
  <2>1. /\ merged.value = row.value /\ merged.time = row.time /\ merged.active = row.active /\ merged # NoRow
        /\ event.outcome = "UNCHANGED"
    <3>1. merged = Row(row, TRUE, d.effective) \/ merged = row
      BY <1>6, <1>10
    <3>2. row.time \in Nat /\ row.time >= 1 /\ row.active = TRUE /\ row # NoRow
      <4>1. row.active \in BOOLEAN
        BY DEF TrustedTypeOK, RowSet
      <4> QED BY <1>3, <1>4, <1>10, <4>1 DEF Known
    <3>3. event.outcome = "UNCHANGED"
      BY <1>0, <1>7, <1>10
    <3>4. /\ Row(row, TRUE, d.effective).value = row.value /\ Row(row, TRUE, d.effective).time = row.time
          /\ Row(row, TRUE, d.effective).active = TRUE /\ Row(row, TRUE, d.effective) # NoRow
      <4> HIDE DEF row
      <4> QED BY <3>2 DEF Row, NoRow
    <3> QED BY <3>1, <3>2, <3>3, <3>4
  <2>2. next.active = fact.active /\ Mirrors(next, merged)
    BY <1>0, <1>1, <1>2, <1>4, <2>1 DEF Mirrors, Same
  <2>3. Admits(fact, event)
    BY <1>0, <1>3, <1>4, <1>10, <2>1 DEF Admits
  <2> QED BY <1>7, <1>10, <2>2, <2>3 DEF Accepted, merged, event, next
<1>11. CASE ~Dropped(d, k) /\ out \notin Accepted /\ out # "DEACTIVATED"
  <2>1. merged = row
    BY <1>6, <1>11 DEF Accepted
  <2> QED BY <1>7, <1>11, <2>1 DEF merged
<1>12. out # "DEACTIVATED"
  BY DEF out, Outcome, AppendOutcome, UpsertOutcome, SnapshotOutcome, TrustedTypeOK, Policies
<1> QED BY <1>8, <1>9, <1>10, <1>11, <1>12 DEF Accepted
-----------------------------------------------------------------------------
(* The planner.  Facts after the first n manifests: none is newer, and each *)
(* key of a manifest has a fact at least as new.                            *)

After(facts, M, n) ==
    /\ facts \in [Keys -> FactSet]
    /\ \A k \in Keys : facts[k].position <= n
    /\ \A p \in 1 .. n : \A k \in DOMAIN M[p] : k \in Keys /\ facts[k] # NoFact /\ facts[k].position >= p

LEMMA ManifestType ==
  ASSUME NEW m \in ManifestSet
  PROVE  DOMAIN m \subseteq Keys /\ \A k \in DOMAIN m : m[k] \in EventSet
BY DEF ManifestSet

LEMMA NextFactType ==
  ASSUME NEW fact \in FactSet, NEW event \in EventSet, NEW position \in Nat \ {0}
  PROVE  LET next == NextFact(fact, event, position) IN
         next \in FactSet /\ next.position = position /\ next # NoFact
<1> DEFINE active == CASE event.outcome = "DEACTIVATED" -> FALSE
                       [] event.outcome = "UNCHANGED" -> fact.active
                       [] OTHER -> TRUE
<1>1. active \in BOOLEAN
  BY DEF FactSet
<1> HIDE DEF active
<1>2. NextFact(fact, event, position) =
        [value |-> event.value, time |-> event.time, position |-> position, active |-> active]
  BY DEF NextFact, active
<1> QED BY <1>1, <1>2 DEF FactSet, EventSet, NoFact

LEMMA StepKeeps ==
  ASSUME NEW M, NEW n \in Nat \ {0}, NEW plan, After(plan.facts, M, n - 1), M[n] \in ManifestSet,
         Step(M, plan, n).ok
  PROVE  plan.ok /\ After(Step(M, plan, n).facts, M, n)
<1> DEFINE news == {k \in DOMAIN M[n] : ~ExactRetry(plan.facts[k], n)}
           old == plan.facts
           new == [k \in Keys |-> IF k \in news THEN NextFact(old[k], M[n][k], n) ELSE old[k]]
<1>1. /\ Step(M, plan, n).facts = new
      /\ Step(M, plan, n).ok <=> plan.ok /\ \A k \in news : Newer(old[k], n) /\ Admits(old[k], M[n][k])
  BY DEF Step
<1>2. DOMAIN M[n] \subseteq Keys /\ news \subseteq Keys /\ \A k \in DOMAIN M[n] : M[n][k] \in EventSet
  BY ManifestType
<1>3. old \in [Keys -> FactSet] /\ \A k \in Keys : old[k] \in FactSet /\ old[k].position \in Nat
  BY DEF After, FactSet
<1>4. \A k \in news : /\ NextFact(old[k], M[n][k], n) \in FactSet
                      /\ NextFact(old[k], M[n][k], n).position = n
                      /\ NextFact(old[k], M[n][k], n) # NoFact
  BY <1>2, <1>3, NextFactType
<1> HIDE DEF news, old
<1>5. \A k \in Keys : new[k] = IF k \in news THEN NextFact(old[k], M[n][k], n) ELSE old[k]
  OBVIOUS
<1>6. new \in [Keys -> FactSet]
  BY <1>3, <1>4
<1> HIDE DEF new
<1>7. \A k \in Keys : old[k].position <= n - 1
  BY DEF After, old
<1>8. \A k \in Keys : new[k].position <= n
  <2> TAKE k \in Keys
  <2>1. old[k].position \in Nat /\ old[k].position <= n - 1
    BY <1>3, <1>7
  <2> QED BY <1>4, <1>5, <2>1
<1>9. ASSUME NEW p \in 1 .. n, NEW k \in DOMAIN M[p]
      PROVE  k \in Keys /\ new[k] # NoFact /\ new[k].position >= p
  <2>1. CASE p = n
    <3>1. k \in Keys /\ (k \notin news => ExactRetry(old[k], n))
      BY <1>2, <1>9, <2>1 DEF news, old
    <3>2. k \notin news => old[k] # NoFact /\ old[k].position = n
      BY <3>1 DEF ExactRetry
    <3> QED BY <1>4, <1>5, <2>1, <3>1, <3>2
  <2>2. CASE p # n
    <3>1. p \in 1 .. n - 1
      BY <2>2
    <3>2. k \in Keys /\ old[k] # NoFact /\ old[k].position >= p
      BY <1>9, <3>1 DEF After, old
    <3>3. CASE k \in news
      BY <1>2, <1>4, <1>5, <3>1, <3>3
    <3>4. CASE k \notin news
      BY <1>5, <3>2, <3>4
    <3> QED BY <3>2, <3>3, <3>4
  <2> QED BY <2>1, <2>2
<1> QED BY <1>1, <1>6, <1>8, <1>9 DEF After

LEMMA StepParts ==
  ASSUME NEW M, NEW plan, NEW n
  PROVE  /\ Step(M, plan, n) = [ok |-> Step(M, plan, n).ok, facts |-> Step(M, plan, n).facts]
         /\ Step(M, plan, n).ok \in BOOLEAN
         /\ Step(M, plan, n).ok => plan.ok
BY DEF Step

(* What is new of a manifest, and the facts that it leads to.               *)
News(facts, m, n) == {k \in DOMAIN m : ~ExactRetry(facts[k], n)}
Updated(facts, m, n) ==
    [k \in Keys |-> IF k \in News(facts, m, n) THEN NextFact(facts[k], m[k], n) ELSE facts[k]]

LEMMA StepNews ==
  ASSUME NEW M, NEW plan, NEW n
  PROVE  /\ Step(M, plan, n).ok => \A k \in News(plan.facts, M[n], n) : Newer(plan.facts[k], n)
         /\ Step(M, plan, n).facts = Updated(plan.facts, M[n], n)
BY DEF Step, News, Updated

(* A plan that is not refused leads from facts to facts.                    *)
LEMMA RunKeeps ==
  ASSUME NEW M, NEW facts, NEW low \in Nat, After(facts, M, low), NEW last \in Nat, low <= last,
         \A n \in low + 1 .. last : M[n] \in ManifestSet,
         Run(M, [ok |-> TRUE, facts |-> facts], low + 1, last).ok
  PROVE  /\ After(Run(M, [ok |-> TRUE, facts |-> facts], low + 1, last).facts, M, last)
         /\ Run(M, [ok |-> TRUE, facts |-> facts], low + 1, last)
              = [ok |-> TRUE, facts |-> Run(M, [ok |-> TRUE, facts |-> facts], low + 1, last).facts]
<1> DEFINE base == [ok |-> TRUE, facts |-> facts]
           R(n) == Run(M, base, low + 1, n)
           S == {i \in Nat : low + i <= last /\ R(low + i).ok =>
                    After(R(low + i).facts, M, low + i) /\ R(low + i) = [ok |-> TRUE, facts |-> R(low + i).facts]}
<1>0. R(low) = base /\ base.facts = facts /\ base.ok
  <2>1. low + 1 \in Nat \ {0} /\ low + 1 - 1 = low
    OBVIOUS
  <2>2. Run(M, base, low + 1, low + 1 - 1) = base
    BY <2>1, RunStarts
  <2> QED BY <2>1, <2>2
<1> HIDE DEF base
<1>1. 0 \in S
  <2>1. low + 0 = low
    OBVIOUS
  <2>2. After(R(low).facts, M, low) /\ R(low) = [ok |-> TRUE, facts |-> R(low).facts]
    BY <1>0 DEF base
  <2> HIDE DEF R
  <2> QED BY <2>1, <2>2
<1>2. ASSUME NEW i \in Nat, i \in S PROVE i + 1 \in S
  <2>1. PICK p \in Nat : p = low + (i + 1)
    OBVIOUS
  <2>2. SUFFICES ASSUME p <= last, R(p).ok
                 PROVE  After(R(p).facts, M, p) /\ R(p) = [ok |-> TRUE, facts |-> R(p).facts]
    <3> HIDE DEF R
    <3> QED BY <2>1
  <2>3. p - 1 = low + i /\ p - 1 \in Nat /\ low + 1 \in Nat \ {0} /\ low + 1 <= p /\ p \in low + 1 .. last
        /\ p \in Nat \ {0}
    BY <2>1, <2>2
  <2>4. R(p) = Step(M, R(p - 1), p)
    BY <2>3, RunProceeds
  <2> HIDE DEF R
  <2>5. R(p - 1).ok
    BY <2>2, <2>4, StepParts
  <2>6. After(R(p - 1).facts, M, p - 1)
    <3>1. low + i <= last
      BY <2>2, <2>3
    <3> QED BY <1>2, <2>3, <2>5, <3>1
  <2>7. M[p] \in ManifestSet
    BY <2>3
  <2>8. After(Step(M, R(p - 1), p).facts, M, p)
    BY <2>2, <2>3, <2>4, <2>6, <2>7, StepKeeps
  <2>9. R(p) = [ok |-> R(p).ok, facts |-> R(p).facts] /\ R(p).ok = TRUE
    BY <2>2, <2>4, StepParts
  <2> QED BY <2>4, <2>8, <2>9
<1> HIDE DEF S
<1>3. \A i \in Nat : i \in S
  BY <1>1, <1>2, Induction
<1>4. PICK i \in Nat : low + i = last
  <2>1. last - low \in Nat /\ low + (last - low) = last
    OBVIOUS
  <2> QED BY <2>1
<1>5. R(low + i).ok => After(R(low + i).facts, M, low + i) /\ R(low + i) = [ok |-> TRUE, facts |-> R(low + i).facts]
  <2>1. low + i <= last
    BY <1>4
  <2> HIDE DEF R
  <2> QED BY <1>3, <2>1 DEF S
<1> QED BY <1>4, <1>5 DEF base

(* What no manifest of a run mentions stays.                                *)
Unmentioned(M, first, last, k) == \A n \in first .. last : k \notin DOMAIN M[n]

LEMMA RunLeaves ==
  ASSUME NEW M, NEW base, NEW first \in Nat \ {0}, NEW last \in Nat, first - 1 <= last,
         NEW k \in Keys, Unmentioned(M, first, last, k)
  PROVE  Run(M, base, first, last).facts[k] = base.facts[k]
<1> DEFINE R(p) == Run(M, base, first, p)
           S == {i \in Nat : first - 1 + i <= last => R(first - 1 + i).facts[k] = base.facts[k]}
<1>0. R(first - 1) = base
  BY RunStarts
<1>1. 0 \in S
  <2>1. first - 1 + 0 = first - 1
    OBVIOUS
  <2> HIDE DEF R
  <2> QED BY <1>0, <2>1
<1>2. ASSUME NEW i \in Nat, i \in S PROVE i + 1 \in S
  <2>1. PICK p \in Nat : p = first - 1 + (i + 1)
    OBVIOUS
  <2>2. SUFFICES ASSUME p <= last PROVE R(p).facts[k] = base.facts[k]
    <3> HIDE DEF R
    <3> QED BY <2>1
  <2>3. p - 1 = first - 1 + i /\ first - 1 + i <= last /\ first <= p /\ p \in first .. last
    BY <2>1, <2>2
  <2>4. R(p) = Step(M, R(p - 1), p)
    BY <2>3, RunProceeds
  <2> HIDE DEF R
  <2>5. R(p - 1).facts[k] = base.facts[k]
    BY <1>2, <2>3
  <2>6. k \notin DOMAIN M[p]
    BY <2>3 DEF Unmentioned
  <2>7. R(p).facts = Updated(R(p - 1).facts, M[p], p)
    BY <2>4, StepNews
  <2> QED BY <2>5, <2>6, <2>7 DEF Updated, News
<1> HIDE DEF S
<1>3. \A i \in Nat : i \in S
  BY <1>1, <1>2, Induction
<1>4. PICK i \in Nat : first - 1 + i = last
  <2>1. last - first + 1 \in Nat /\ first - 1 + (last - first + 1) = last
    OBVIOUS
  <2> QED BY <2>1
<1>5. R(first - 1 + i).facts[k] = base.facts[k]
  <2>1. first - 1 + i <= last
    BY <1>4
  <2> HIDE DEF R
  <2> QED BY <1>3, <2>1 DEF S
<1> QED BY <1>4, <1>5

(* _prior() looks at the newest candidate of a key.                         *)
LEMMA NewestIs ==
  ASSUME NEW S \in SUBSET Nat, S # {}, NEW n \in Nat, \A i \in S : i <= n
  PROVE  LET newest == CHOOSE i \in S : \A j \in S : j <= i IN
         newest \in S /\ \A j \in S : j <= newest
BY LastIs

LEMMA Published ==
  ASSUME revisions \in Seq(CandidateSet), NEW r \in CandidateSet, revisions' = Append(revisions, r)
  PROVE  Facts' = [k \in Keys |-> IF k \in DOMAIN r THEN r[k] ELSE Facts[k]]
<1>1. /\ Len(revisions) \in Nat /\ Len(revisions') = Len(revisions) + 1
      /\ DOMAIN revisions = 1 .. Len(revisions) /\ DOMAIN revisions' = 1 .. Len(revisions) + 1
      /\ revisions'[Len(revisions) + 1] = r
      /\ \A i \in 1 .. Len(revisions) : revisions'[i] = revisions[i]
  OBVIOUS
<1> DEFINE n == Len(revisions)
           Holding(k) == {i \in DOMAIN revisions : k \in DOMAIN revisions[i]}
           Holding2(k) == {i \in DOMAIN revisions' : k \in DOMAIN revisions'[i]}
           Newest(S) == CHOOSE i \in S : \A j \in S : j <= i
<1>2. ASSUME NEW k
      PROVE  /\ Prior(k) = IF Holding(k) = {} THEN NoFact ELSE revisions[Newest(Holding(k))][k]
             /\ Prior(k)' = IF Holding2(k) = {} THEN NoFact ELSE revisions'[Newest(Holding2(k))][k]
  BY DEF Prior
<1> HIDE DEF n
<1>3. ASSUME NEW k \in Keys, k \in DOMAIN r PROVE Prior(k)' = r[k]
  <2>1. n + 1 \in Holding2(k) /\ Holding2(k) \in SUBSET Nat /\ \A i \in Holding2(k) : i <= n + 1
    BY <1>1, <1>3 DEF n
  <2> HIDE DEF Holding2
  <2>2. Newest(Holding2(k)) \in Holding2(k) /\ \A j \in Holding2(k) : j <= Newest(Holding2(k))
    <3>1. n + 1 \in Nat
      BY <1>1 DEF n
    <3> HIDE DEF Newest
    <3> QED BY <2>1, <3>1, NewestIs DEF Newest
  <2>3. Newest(Holding2(k)) = n + 1
    <3>1. n + 1 \in Nat
      BY <1>1 DEF n
    <3> HIDE DEF Newest
    <3> QED BY <2>1, <2>2, <3>1
  <2> QED BY <1>1, <1>2, <2>1, <2>3 DEF n
<1>4. ASSUME NEW k \in Keys, k \notin DOMAIN r PROVE Prior(k)' = Prior(k)
  <2>1. Holding2(k) = Holding(k)
    <3>1. \A i : i \in Holding2(k) <=> i \in Holding(k)
      BY <1>1, <1>4
    <3> QED BY <3>1
  <2>2. CASE Holding(k) = {}
    BY <1>2, <2>1, <2>2
  <2>3. CASE Holding(k) # {}
    <3>1. Holding(k) \in SUBSET Nat /\ \A i \in Holding(k) : i <= n /\ i \in 1 .. n
      BY <1>1 DEF n
    <3>2. Newest(Holding(k)) \in Holding(k)
      <4> HIDE DEF Holding, Newest
      <4>1. n \in Nat
        BY <1>1 DEF n
      <4> QED BY <2>3, <3>1, <4>1, NewestIs DEF Newest
    <3>3. revisions'[Newest(Holding(k))] = revisions[Newest(Holding(k))]
      <4> HIDE DEF Holding, Newest
      <4> QED BY <1>1, <3>1, <3>2 DEF n
    <3> HIDE DEF Holding, Holding2, Newest
    <3> QED BY <1>2, <2>1, <2>3, <3>3
  <2> QED BY <2>2, <2>3
<1> QED BY <1>3, <1>4 DEF Facts
-----------------------------------------------------------------------------
(* What the manifests make of no facts, position by position: the history   *)
(* that every key's fact is a point of.                                     *)

Reached(M, n) == Run(M, [ok |-> TRUE, facts |-> [k \in Keys |-> NoFact]], 1, n)

Sound(M) == M \in Seq(ManifestSet) /\ \A n \in 0 .. Len(M) : Reached(M, n).ok

(* A fact of a key while the checkpoint stands at n: a point of the history *)
(* unless a backfill leapt over an event that is still to be consumed.      *)
InStep(M, fact, n, k) ==
    /\ fact \in FactSet
    /\ fact.position <= Len(M)
    /\ fact.position > n => k \in DOMAIN M[fact.position]
    /\ Unmentioned(M, n + 1, fact.position - 1, k) => fact = Reached(M, Greater(n, fact.position)).facts[k]

LEMMA ReachedIs ==
  ASSUME NEW M, Sound(M), NEW n \in 0 .. Len(M)
  PROVE  After(Reached(M, n).facts, M, n)
<1> DEFINE none == [k \in Keys |-> NoFact]
<1>1. NoFact \in FactSet /\ NoFact.position = 0
  BY TrustedAssumption DEF NoFact, FactSet
<1>2. After(none, M, 0)
  BY <1>1 DEF After
<1>3. n \in Nat /\ 0 \in Nat /\ 0 <= n /\ 0 + 1 = 1 /\ \A i \in 0 + 1 .. n : M[i] \in ManifestSet
  BY DEF Sound
<1>4. Run(M, [ok |-> TRUE, facts |-> none], 0 + 1, n).ok
  BY <1>3 DEF Sound, Reached
<1> HIDE DEF none
<1>5. After(Run(M, [ok |-> TRUE, facts |-> none], 0 + 1, n).facts, M, n)
  BY <1>2, <1>3, <1>4, RunKeeps
<1> QED BY <1>3, <1>5 DEF Reached, none

LEMMA ReachedNone ==
  ASSUME NEW M, NEW k \in Keys
  PROVE  Reached(M, 0).facts[k] = NoFact
<1> DEFINE none == [ok |-> TRUE, facts |-> [j \in Keys |-> NoFact]]
<1>1. Run(M, none, 1, 1 - 1) = none
  BY RunStarts
<1> QED BY <1>1 DEF Reached

(* The fact is taken on to the event at position n.                         *)
Takes(M, fact, n, k) == k \in DOMAIN M[n] /\ ~ExactRetry(fact, n)

LEMMA StepIs ==
  ASSUME NEW M, NEW plan, NEW n \in Nat, NEW k \in Keys
  PROVE  /\ Step(M, plan, n).facts[k] =
              IF Takes(M, plan.facts[k], n, k) THEN NextFact(plan.facts[k], M[n][k], n) ELSE plan.facts[k]
         /\ Step(M, plan, n).ok => plan.ok
         /\ Step(M, plan, n).ok /\ Takes(M, plan.facts[k], n, k) => Newer(plan.facts[k], n)
<1>1. PICK facts : facts = plan.facts
  OBVIOUS
<1>2. Step(M, plan, n).facts = Updated(facts, M[n], n)
  BY <1>1, StepNews
<1>3. Updated(facts, M[n], n)[k] =
        IF k \in News(facts, M[n], n) THEN NextFact(facts[k], M[n][k], n) ELSE facts[k]
  BY DEF Updated
<1>4. k \in News(facts, M[n], n) <=> Takes(M, facts[k], n, k)
  BY DEF News, Takes
<1>5. Step(M, plan, n).ok => plan.ok /\ \A j \in News(facts, M[n], n) : Newer(facts[j], n)
  BY <1>1, StepNews, StepParts
<1> QED BY <1>1, <1>2, <1>3, <1>4, <1>5

LEMMA ReachedNext ==
  ASSUME NEW M, Sound(M), NEW n \in 1 .. Len(M), NEW k \in Keys
  PROVE  /\ k \in DOMAIN M[n] => /\ Admits(Reached(M, n - 1).facts[k], M[n][k])
                                 /\ Reached(M, n).facts[k] = NextFact(Reached(M, n - 1).facts[k], M[n][k], n)
         /\ k \notin DOMAIN M[n] => Reached(M, n).facts[k] = Reached(M, n - 1).facts[k]
<1>1. PICK plan : plan = Reached(M, n - 1)
  OBVIOUS
<1>2. Reached(M, n) = Step(M, plan, n)
  <2>1. 1 \in Nat \ {0} /\ n \in Nat /\ 1 <= n
    BY DEF Sound
  <2> QED BY <1>1, <2>1, RunProceeds DEF Reached
<1>3. plan.facts[k].position \in Nat /\ plan.facts[k].position <= n - 1 /\ n \in Nat
  <2>1. n - 1 \in 0 .. Len(M) /\ n \in Nat
    BY DEF Sound
  <2>2. After(plan.facts, M, n - 1)
    BY <1>1, <2>1, ReachedIs
  <2> QED BY <2>1, <2>2 DEF After, FactSet
<1>4. ~ExactRetry(plan.facts[k], n)
  BY <1>3 DEF ExactRetry
<1>5. Step(M, plan, n).ok
  <2>1. n \in 0 .. Len(M)
    BY DEF Sound
  <2> QED BY <1>2, <2>1 DEF Sound
<1>6. k \in DOMAIN M[n] => Admits(plan.facts[k], M[n][k])
  BY <1>4, <1>5 DEF Step
<1>7. Step(M, plan, n).facts[k] =
        IF k \in DOMAIN M[n] THEN NextFact(plan.facts[k], M[n][k], n) ELSE plan.facts[k]
  BY <1>3, <1>4, StepIs DEF Takes
<1> QED BY <1>1, <1>2, <1>6, <1>7

(* Between events of a key the history of the key stands still.             *)
LEMMA ReachedStays ==
  ASSUME NEW M, Sound(M), NEW n \in Nat, NEW last \in Nat, n <= last, last <= Len(M), NEW k \in Keys,
         Unmentioned(M, n + 1, last, k)
  PROVE  Reached(M, last).facts[k] = Reached(M, n).facts[k]
<1> DEFINE none == [ok |-> TRUE, facts |-> [j \in Keys |-> NoFact]]
<1>1. 1 \in Nat \ {0} /\ 1 - 1 <= n /\ n + 1 \in Nat \ {0} /\ n + 1 - 1 <= last
  OBVIOUS
<1> HIDE DEF none
<1>2. Run(M, Run(M, none, 1, n), n + 1, last) = Run(M, none, 1, last)
  BY <1>1, RunIsCut
<1>3. Run(M, Run(M, none, 1, n), n + 1, last).facts[k] = Run(M, none, 1, n).facts[k]
  <2>1. PICK base : base = Run(M, none, 1, n)
    OBVIOUS
  <2>2. PICK first \in Nat \ {0} : first = n + 1
    BY <1>1
  <2>3. Run(M, base, first, last).facts[k] = base.facts[k]
    BY <1>1, <2>2, RunLeaves
  <2> QED BY <2>1, <2>2, <2>3
<1> QED BY <1>2, <1>3 DEF Reached, none
-----------------------------------------------------------------------------
(* One manifest of a plan, seen from one key.                               *)

LEMMA NewerIs ==
  ASSUME NEW fact \in FactSet, NEW n \in Nat \ {0}
  PROVE  fact.position \in Nat /\ (Newer(fact, n) => fact.position < n) /\ (fact.position < n => Newer(fact, n))
<1>1. NoFact.position = 0
  BY DEF NoFact
<1> QED BY <1>1 DEF Newer, FactSet

(* The order of positions: an event that was consumed is a retry or is      *)
(* refused, and one that a plan takes without leaping is the next point.    *)
LEMMA TakesOn ==
  ASSUME NEW M, Sound(M), NEW c \in 0 .. Len(M), NEW k \in Keys, NEW fact, InStep(M, fact, c, k),
         NEW n \in 1 .. Len(M), Takes(M, fact, n, k), Newer(fact, n)
  PROVE  n > c /\ InStep(M, NextFact(fact, M[n][k], n), c, k)
<1>1. n \in Nat \ {0} /\ c \in Nat /\ Len(M) \in Nat /\ n <= Len(M) /\ c <= Len(M) /\ n - 1 \in Nat
  BY DEF Sound
<1>2. fact \in FactSet /\ fact.position \in Nat /\ fact.position < n /\ fact.position <= Len(M)
  BY <1>1, NewerIs DEF InStep
<1>3. fact.position <= c => fact = Reached(M, c).facts[k]
  <2> SUFFICES ASSUME fact.position <= c PROVE fact = Reached(M, c).facts[k]
    OBVIOUS
  <2>1. Greater(c, fact.position) = c
    BY <1>1, <1>2 DEF Greater
  <2>2. Unmentioned(M, c + 1, fact.position - 1, k)
    BY <1>1, <1>2 DEF Unmentioned
  <2> QED BY <2>1, <2>2 DEF InStep
<1>4. k \in DOMAIN M[n]
  BY DEF Takes
<1>5. n > c
  <2> SUFFICES ASSUME n <= c PROVE FALSE
    BY <1>1
  <2>1. fact = Reached(M, c).facts[k]
    BY <1>1, <1>2, <1>3
  <2>2. After(Reached(M, c).facts, M, c)
    BY ReachedIs
  <2>3. n \in 1 .. c
    BY <1>1
  <2>4. Reached(M, c).facts[k].position >= n
    BY <1>4, <2>2, <2>3 DEF After
  <2> QED BY <1>1, <1>2, <2>1, <2>4
<1> DEFINE next == NextFact(fact, M[n][k], n)
<1>6. next \in FactSet /\ next.position = n
  <2>1. M[n] \in ManifestSet
    BY <1>1 DEF Sound
  <2>2. M[n][k] \in EventSet
    BY <1>4, <2>1, ManifestType
  <2> QED BY <1>1, <1>2, <2>2, NextFactType
<1>7. ASSUME Unmentioned(M, c + 1, n - 1, k) PROVE next = Reached(M, n).facts[k]
  <2>1. fact.position <= c
    <3> SUFFICES ASSUME fact.position > c PROVE FALSE
      BY <1>1, <1>2
    <3>1. k \in DOMAIN M[fact.position]
      BY DEF InStep
    <3>2. fact.position \in c + 1 .. n - 1
      BY <1>1, <1>2
    <3> QED BY <1>7, <3>1, <3>2 DEF Unmentioned
  <2>2. Reached(M, n - 1).facts[k] = Reached(M, c).facts[k]
    <3>1. c <= n - 1 /\ n - 1 <= Len(M)
      BY <1>1, <1>5
    <3> QED BY <1>1, <1>7, <3>1, ReachedStays
  <2> QED BY <1>3, <1>4, <2>1, <2>2, ReachedNext
<1> HIDE DEF next
<1>8. Greater(c, n) = n
  BY <1>1, <1>5 DEF Greater
<1>9. InStep(M, next, c, k)
  BY <1>1, <1>4, <1>6, <1>7, <1>8 DEF InStep
<1> QED BY <1>5, <1>9 DEF next

(* A plan that reaches position n from the facts of a checkpoint at n - 1   *)
(* leaves facts of a checkpoint at n.                                       *)
LEMMA PassesOn ==
  ASSUME NEW M, Sound(M), NEW n \in 1 .. Len(M), NEW k \in Keys, NEW fact, InStep(M, fact, n - 1, k)
  PROVE  /\ Takes(M, fact, n, k) /\ Newer(fact, n) => InStep(M, NextFact(fact, M[n][k], n), n, k)
         /\ ~Takes(M, fact, n, k) => InStep(M, fact, n, k)
<1>1. n \in Nat \ {0} /\ Len(M) \in Nat /\ n <= Len(M) /\ n - 1 \in Nat /\ n - 1 \in 0 .. Len(M) /\ n - 1 + 1 = n
  BY DEF Sound
<1>2. fact \in FactSet /\ fact.position \in Nat /\ fact.position <= Len(M)
  BY DEF InStep, FactSet
<1>3. /\ fact.position > n - 1 => k \in DOMAIN M[fact.position]
      /\ Unmentioned(M, n, fact.position - 1, k) => fact = Reached(M, Greater(n - 1, fact.position)).facts[k]
  BY <1>1 DEF InStep
<1>4. ASSUME Takes(M, fact, n, k), Newer(fact, n)
      PROVE  InStep(M, NextFact(fact, M[n][k], n), n, k)
  <2> DEFINE next == NextFact(fact, M[n][k], n)
  <2>1. InStep(M, next, n - 1, k)
    BY <1>1, <1>4, TakesOn
  <2>2. next.position = n
    <3>1. M[n] \in ManifestSet /\ k \in DOMAIN M[n]
      BY <1>1, <1>4 DEF Sound, Takes
    <3>2. M[n][k] \in EventSet
      BY <3>1, ManifestType
    <3> QED BY <1>1, <1>2, <3>2, NextFactType
  <2> HIDE DEF next
  <2>3. Unmentioned(M, n, n - 1, k)
    BY <1>1 DEF Unmentioned
  <2>4. Greater(n - 1, n) = n /\ Greater(n, n) = n
    BY <1>1 DEF Greater
  <2>5. next = Reached(M, n).facts[k]
    BY <1>1, <2>1, <2>2, <2>3, <2>4 DEF InStep
  <2>6. InStep(M, next, n, k)
    BY <1>1, <2>1, <2>2, <2>4, <2>5 DEF InStep
  <2> QED BY <2>6 DEF next
<1>5. ASSUME ~Takes(M, fact, n, k)
      PROVE  InStep(M, fact, n, k)
  <2>1. CASE fact.position < n
    <3>1. k \notin DOMAIN M[n]
      BY <1>1, <1>2, <1>5, <2>1 DEF Takes, ExactRetry
    <3>2. Unmentioned(M, n, fact.position - 1, k)
      BY <1>1, <1>2, <2>1 DEF Unmentioned
    <3>3. Greater(n - 1, fact.position) = n - 1 /\ Greater(n, fact.position) = n
      BY <1>1, <1>2, <2>1 DEF Greater
    <3>4. fact = Reached(M, n).facts[k]
      BY <1>3, <3>1, <3>2, <3>3, ReachedNext
    <3> QED BY <1>1, <1>2, <2>1, <3>3, <3>4 DEF InStep
  <2>2. CASE fact.position = n
    <3>1. Unmentioned(M, n, fact.position - 1, k)
      BY <1>1, <2>2 DEF Unmentioned
    <3>2. Greater(n - 1, fact.position) = n /\ Greater(n, fact.position) = n
      BY <1>1, <2>2 DEF Greater
    <3> QED BY <1>1, <1>2, <1>3, <2>2, <3>1, <3>2 DEF InStep
  <2>3. CASE fact.position > n
    <3>1. k \in DOMAIN M[fact.position] /\ fact # NoFact
      BY <1>1, <1>2, <1>3, <2>3 DEF NoFact
    <3>2. k \notin DOMAIN M[n]
      BY <1>1, <1>2, <1>5, <2>3 DEF Takes, ExactRetry
    <3>3. Greater(n - 1, fact.position) = fact.position /\ Greater(n, fact.position) = fact.position
      BY <1>1, <1>2, <2>3 DEF Greater
    <3>4. Unmentioned(M, n + 1, fact.position - 1, k) => Unmentioned(M, n, fact.position - 1, k)
      BY <1>1, <1>2, <3>2 DEF Unmentioned
    <3> QED BY <1>1, <1>2, <1>3, <3>1, <3>3, <3>4 DEF InStep
  <2> QED BY <1>1, <1>2, <2>1, <2>2, <2>3
<1> QED BY <1>4, <1>5
-----------------------------------------------------------------------------
(* Plans.                                                                   *)

LEMMA Upwards ==
  ASSUME NEW S, NEW low \in Nat, NEW high \in Nat, low \in S,
         \A n \in low + 1 .. high : n - 1 \in S => n \in S
  PROVE  \A n \in low .. high : n \in S
<1> DEFINE T == {i \in Nat : low + i <= high => low + i \in S}
<1>1. 0 \in T
  OBVIOUS
<1>2. ASSUME NEW i \in Nat, i \in T PROVE i + 1 \in T
  <2> SUFFICES ASSUME low + (i + 1) <= high PROVE low + (i + 1) \in S
    OBVIOUS
  <2>1. PICK n \in low + 1 .. high : n = low + (i + 1)
    OBVIOUS
  <2>2. n - 1 = low + i /\ low + i <= high
    BY <2>1
  <2>3. n - 1 \in S
    BY <1>2, <2>2
  <2> QED BY <2>1, <2>3
<1> HIDE DEF T
<1>3. \A i \in Nat : i \in T
  BY <1>1, <1>2, Induction
<1>4. ASSUME NEW n \in low .. high PROVE n \in S
  <2>1. n - low \in Nat /\ low + (n - low) = n /\ n <= high
    OBVIOUS
  <2> QED BY <1>3, <2>1 DEF T
<1> QED BY <1>4

OnKeys(facts) == facts = [k \in Keys |-> facts[k]]

(* Whatever is published, the facts stay in step with the checkpoint, and   *)
(* what was consumed changes none of them.                                  *)
LEMMA PlanInStep ==
  ASSUME NEW M, Sound(M), NEW c \in 0 .. Len(M), NEW facts, OnKeys(facts),
         \A k \in Keys : InStep(M, facts[k], c, k),
         NEW first \in 1 .. Len(M), NEW last \in first .. Len(M),
         Run(M, [ok |-> TRUE, facts |-> facts], first, last).ok
  PROVE  LET after == Run(M, [ok |-> TRUE, facts |-> facts], first, last).facts IN
         /\ OnKeys(after)
         /\ \A k \in Keys : InStep(M, after[k], c, k)
         /\ last <= c => after = facts
<1> USE DEF OnKeys
<1> DEFINE base == [ok |-> TRUE, facts |-> facts]
           R(n) == Run(M, base, first, n)
           Good(n) == /\ R(n).facts = [k \in Keys |-> R(n).facts[k]]
                      /\ \A k \in Keys : InStep(M, R(n).facts[k], c, k)
                      /\ n <= c => R(n).facts = facts
           S == {n \in Nat : R(n).ok => Good(n)}
<1>0. /\ Len(M) \in Nat /\ c \in Nat /\ first \in Nat \ {0} /\ last \in Nat /\ first - 1 \in Nat
      /\ first <= last /\ last <= Len(M) /\ first - 1 <= last /\ first - 1 + 1 = first
  BY DEF Sound
<1>1. first - 1 \in S
  <2>1. R(first - 1) = base /\ base.facts = facts
    BY <1>0, RunStarts
  <2> QED BY <1>0, <2>1
<1>2. ASSUME NEW n \in first .. last, n - 1 \in S PROVE n \in S
  <2>1. n \in Nat /\ n \in 1 .. Len(M) /\ first <= n
    BY <1>0
  <2>2. R(n) = Step(M, R(n - 1), n)
    BY <1>0, <2>1, RunProceeds
  <2>3. PICK plan : plan = R(n - 1)
    OBVIOUS
  <2>4. SUFFICES ASSUME R(n).ok PROVE Good(n)
    <3> HIDE DEF R, Good
    <3> QED BY <2>1
  <2>5. plan.ok /\ Good(n - 1)
    <3>1. plan.ok
      BY <2>2, <2>3, <2>4, StepParts
    <3> HIDE DEF R, Good
    <3> QED BY <1>2, <2>3, <3>1
  <2>6. plan.facts = [k \in Keys |-> plan.facts[k]] /\ \A k \in Keys : InStep(M, plan.facts[k], c, k)
    BY <2>3, <2>5
  <2>7. R(n).facts = [k \in Keys |-> R(n).facts[k]]
    <3>1. Step(M, plan, n).facts = Updated(plan.facts, M[n], n)
      BY StepNews
    <3> QED BY <2>2, <2>3, <3>1 DEF Updated
  <2>8. ASSUME NEW k \in Keys
        PROVE  /\ InStep(M, R(n).facts[k], c, k)
               /\ n <= c => R(n).facts[k] = plan.facts[k]
    <3>1. PICK fact : fact = plan.facts[k]
      OBVIOUS
    <3>2. InStep(M, fact, c, k)
      BY <2>6, <3>1
    <3>3. /\ R(n).facts[k] = IF Takes(M, fact, n, k) THEN NextFact(fact, M[n][k], n) ELSE fact
          /\ Takes(M, fact, n, k) => Newer(fact, n)
      BY <2>1, <2>2, <2>3, <2>4, <3>1, StepIs
    <3>4. Takes(M, fact, n, k) => n > c /\ InStep(M, NextFact(fact, M[n][k], n), c, k)
      BY <2>1, <3>2, <3>3, TakesOn
    <3> HIDE DEF R
    <3> QED BY <1>0, <2>1, <3>1, <3>2, <3>3, <3>4
  <2>9. n <= c => R(n).facts = facts
    <3> SUFFICES ASSUME n <= c PROVE R(n).facts = facts
      OBVIOUS
    <3>1. plan.facts = facts
      <4>1. n - 1 <= c
        BY <1>0, <2>1
      <4> HIDE DEF R
      <4> QED BY <2>3, <2>5, <4>1
    <3>2. \A k \in Keys : R(n).facts[k] = facts[k]
      <4> HIDE DEF R
      <4> QED BY <2>8, <3>1
    <3> HIDE DEF R
    <3> QED BY <2>7, <3>2
  <2> HIDE DEF R
  <2> QED BY <2>7, <2>8, <2>9
<1> HIDE DEF S
<1>3. last \in S
  <2>1. \A n \in first - 1 + 1 .. last : n - 1 \in S => n \in S
    BY <1>0, <1>2
  <2>2. last \in first - 1 .. last
    BY <1>0
  <2> QED BY <1>0, <1>1, <2>1, <2>2, Upwards
<1> HIDE DEF R, Good
<1>4. R(last).ok => Good(last)
  BY <1>3 DEF S
<1> QED BY <1>4 DEF R, Good

(* Consuming on leaves facts in step with the new checkpoint, and takes no  *)
(* event behind the fact that it met.                                       *)
LEMMA PlanPasses ==
  ASSUME NEW M, Sound(M), NEW c \in 0 .. Len(M), NEW facts,
         \A k \in Keys : InStep(M, facts[k], c, k),
         NEW last \in c .. Len(M),
         Run(M, [ok |-> TRUE, facts |-> facts], c + 1, last).ok
  PROVE  \A k \in Keys :
            /\ InStep(M, Run(M, [ok |-> TRUE, facts |-> facts], c + 1, last).facts[k], last, k)
            /\ \A i \in c + 1 .. last : k \in DOMAIN M[i] => facts[k].position <= i
<1> DEFINE base == [ok |-> TRUE, facts |-> facts]
           R(n) == Run(M, base, c + 1, n)
           Good(n) == \A k \in Keys :
                        /\ InStep(M, R(n).facts[k], n, k)
                        /\ facts[k].position <= R(n).facts[k].position
                        /\ \A i \in c + 1 .. n : k \in DOMAIN M[i] => facts[k].position <= i
           S == {n \in Nat : R(n).ok => Good(n)}
<1>0. /\ Len(M) \in Nat /\ c \in Nat /\ c + 1 \in Nat \ {0} /\ last \in Nat
      /\ c <= last /\ last <= Len(M) /\ c + 1 - 1 = c
      /\ \A k \in Keys : facts[k].position \in Nat
  BY DEF Sound, InStep, FactSet
<1>1. c \in S
  <2>1. R(c) = base /\ base.facts = facts
    <3>1. R(c + 1 - 1) = base
      BY <1>0, RunStarts
    <3> QED BY <1>0, <3>1
  <2>2. \A i \in c + 1 .. c : FALSE
    BY <1>0
  <2> HIDE DEF R, base
  <2>3. PICK after : after = R(c)
    OBVIOUS
  <2>4. \A k \in Keys : after.facts[k] = facts[k]
    BY <2>1, <2>3
  <2>5. ASSUME NEW k \in Keys
        PROVE  /\ InStep(M, after.facts[k], c, k)
               /\ facts[k].position <= after.facts[k].position
               /\ \A i \in c + 1 .. c : k \in DOMAIN M[i] => facts[k].position <= i
    BY <1>0, <2>2, <2>4
  <2>6. Good(c)
    BY <2>3, <2>5
  <2> QED BY <1>0, <2>6
<1>2. ASSUME NEW n \in c + 1 .. last, n - 1 \in S PROVE n \in S
  <2>1. n \in Nat \ {0} /\ n \in 1 .. Len(M) /\ c + 1 <= n /\ n - 1 \in Nat
    BY <1>0
  <2>2. R(n) = Step(M, R(n - 1), n)
    BY <1>0, <2>1, RunProceeds
  <2>3. PICK plan : plan = R(n - 1)
    OBVIOUS
  <2>4. SUFFICES ASSUME R(n).ok PROVE Good(n)
    <3> HIDE DEF R, Good
    <3> QED BY <2>1
  <2>5. plan.ok /\ Good(n - 1)
    <3>1. plan.ok
      BY <2>2, <2>3, <2>4, StepParts
    <3> HIDE DEF R, Good
    <3> QED BY <1>2, <2>3, <3>1
  <2>6. ASSUME NEW k \in Keys
        PROVE  /\ InStep(M, R(n).facts[k], n, k)
               /\ facts[k].position <= R(n).facts[k].position
               /\ \A i \in c + 1 .. n : k \in DOMAIN M[i] => facts[k].position <= i
    <3>1. PICK fact : fact = plan.facts[k]
      OBVIOUS
    <3>2. /\ InStep(M, fact, n - 1, k) /\ facts[k].position <= fact.position
          /\ \A i \in c + 1 .. n - 1 : k \in DOMAIN M[i] => facts[k].position <= i
      BY <2>3, <2>5, <3>1
    <3>3. /\ R(n).facts[k] = IF Takes(M, fact, n, k) THEN NextFact(fact, M[n][k], n) ELSE fact
          /\ Takes(M, fact, n, k) => Newer(fact, n)
      BY <2>1, <2>2, <2>3, <2>4, <3>1, StepIs
    <3>4. PICK new : new = R(n).facts[k]
      OBVIOUS
    <3> HIDE DEF R
    <3>5. InStep(M, new, n, k)
      BY <2>1, <3>2, <3>3, <3>4, PassesOn
    <3>6. fact \in FactSet /\ fact.position \in Nat /\ facts[k].position \in Nat
      BY <1>0, <3>2 DEF InStep, FactSet
    <3>7. Takes(M, fact, n, k) => fact.position < n /\ new.position = n
      <4> SUFFICES ASSUME Takes(M, fact, n, k) PROVE fact.position < n /\ new.position = n
        OBVIOUS
      <4>1. M[n] \in ManifestSet /\ k \in DOMAIN M[n]
        BY <2>1 DEF Sound, Takes
      <4>2. M[n][k] \in EventSet
        BY <4>1, ManifestType
      <4>3. NextFact(fact, M[n][k], n).position = n
        BY <2>1, <3>6, <4>2, NextFactType
      <4> QED BY <2>1, <3>3, <3>4, <3>6, <4>3, NewerIs
    <3>8. ~Takes(M, fact, n, k) => new = fact
      BY <3>3, <3>4
    <3>9. k \in DOMAIN M[n] => facts[k].position <= n
      <4>1. CASE Takes(M, fact, n, k)
        BY <2>1, <3>2, <3>6, <3>7, <4>1
      <4>2. CASE ~Takes(M, fact, n, k)
        BY <3>2, <4>2 DEF Takes, ExactRetry
      <4> QED BY <4>1, <4>2
    <3>10. \A i \in c + 1 .. n : i \in c + 1 .. n - 1 \/ i = n
      BY <1>0, <2>1
    <3>11. facts[k].position <= new.position
      BY <2>1, <3>2, <3>6, <3>7, <3>8
    <3>12. \A i \in c + 1 .. n : k \in DOMAIN M[i] => facts[k].position <= i
      BY <3>2, <3>9, <3>10
    <3> QED BY <3>4, <3>5, <3>11, <3>12
  <2> HIDE DEF R
  <2> QED BY <2>6
<1> HIDE DEF S
<1>3. last \in S
  <2>1. last \in c .. last
    BY <1>0
  <2> QED BY <1>0, <1>1, <1>2, <2>1, Upwards
<1> HIDE DEF R, Good
<1>4. R(last).ok => Good(last)
  BY <1>3 DEF S
<1> QED BY <1>4 DEF R, Good

(* A plan over what is left is refused only when an event was leapt over.   *)
LEMMA PlanAccepts ==
  ASSUME NEW M, Sound(M), NEW c \in 0 .. Len(M), NEW facts,
         \A k \in Keys : InStep(M, facts[k], c, k) /\ Unmentioned(M, c + 1, facts[k].position - 1, k)
  PROVE  Run(M, [ok |-> TRUE, facts |-> facts], c + 1, Len(M)).ok
<1> DEFINE base == [ok |-> TRUE, facts |-> facts]
           R(n) == Run(M, base, c + 1, n)
           Good(n) == \A k \in Keys : /\ InStep(M, R(n).facts[k], n, k)
                                      /\ Unmentioned(M, n + 1, R(n).facts[k].position - 1, k)
           S == {n \in Nat : R(n).ok /\ Good(n)}
<1>0. Len(M) \in Nat /\ c \in Nat /\ c + 1 \in Nat \ {0} /\ c <= Len(M) /\ c + 1 - 1 = c
  BY DEF Sound
<1>1. c \in S
  <2>1. R(c) = base /\ base.facts = facts /\ base.ok
    <3>1. R(c + 1 - 1) = base
      BY <1>0, RunStarts
    <3> QED BY <1>0, <3>1
  <2> HIDE DEF R, base
  <2>2. Good(c)
    BY <2>1
  <2> QED BY <1>0, <2>1, <2>2
<1>2. ASSUME NEW n \in c + 1 .. Len(M), n - 1 \in S PROVE n \in S
  <2>1. n \in Nat \ {0} /\ n \in 1 .. Len(M) /\ c + 1 <= n /\ n - 1 \in Nat /\ n - 1 \in 0 .. Len(M) /\ n - 1 + 1 = n
    BY <1>0
  <2>2. R(n) = Step(M, R(n - 1), n)
    BY <1>0, <2>1, RunProceeds
  <2>3. PICK plan : plan = R(n - 1)
    OBVIOUS
  <2>4. plan.ok /\ \A k \in Keys : /\ InStep(M, plan.facts[k], n - 1, k)
                                   /\ Unmentioned(M, n, plan.facts[k].position - 1, k)
    <3> HIDE DEF R
    <3>1. R(n - 1).ok /\ Good(n - 1)
      BY <1>2
    <3> QED BY <2>1, <2>3, <3>1
  <2>5. ASSUME NEW k \in Keys
        PROVE  /\ Takes(M, plan.facts[k], n, k) =>
                     Newer(plan.facts[k], n) /\ Admits(plan.facts[k], M[n][k])
               /\ InStep(M, R(n).facts[k], n, k) /\ Unmentioned(M, n + 1, R(n).facts[k].position - 1, k)
    <3>1. PICK fact : fact = plan.facts[k]
      OBVIOUS
    <3>2. InStep(M, fact, n - 1, k) /\ Unmentioned(M, n, fact.position - 1, k)
      BY <2>4, <3>1
    <3>3. R(n).facts[k] = IF Takes(M, fact, n, k) THEN NextFact(fact, M[n][k], n) ELSE fact
      BY <2>1, <2>2, <2>3, <3>1, StepIs
    <3>4. PICK new : new = R(n).facts[k]
      OBVIOUS
    <3> HIDE DEF R
    <3>5. fact \in FactSet /\ fact.position \in Nat
      BY <3>2 DEF InStep, FactSet
    <3>6. ASSUME Takes(M, fact, n, k)
          PROVE  /\ Newer(fact, n) /\ Admits(fact, M[n][k])
                 /\ InStep(M, new, n, k) /\ new.position = n
      <4>1. k \in DOMAIN M[n] /\ (fact = NoFact \/ fact.position # n) /\ M[n] \in ManifestSet
        BY <2>1, <3>6 DEF Takes, ExactRetry, Sound
      <4>2. fact.position < n
        <5>1. CASE fact = NoFact
          BY <2>1, <5>1 DEF NoFact
        <5>2. CASE fact.position # n
          <6> SUFFICES ASSUME fact.position > n PROVE FALSE
            BY <2>1, <3>5, <5>2
          <6>1. n \in n .. fact.position - 1
            BY <2>1, <3>5
          <6> QED BY <3>2, <4>1, <6>1 DEF Unmentioned
        <5> QED BY <4>1, <5>1, <5>2
      <4>3. Newer(fact, n)
        BY <2>1, <3>5, <4>2, NewerIs
      <4>4. fact = Reached(M, n - 1).facts[k]
        <5>1. Greater(n - 1, fact.position) = n - 1
          BY <2>1, <3>5, <4>2 DEF Greater
        <5> QED BY <2>1, <3>2, <5>1 DEF InStep
      <4>5. Admits(fact, M[n][k])
        BY <2>1, <4>1, <4>4, ReachedNext
      <4>6. M[n][k] \in EventSet
        BY <4>1, ManifestType
      <4>7. NextFact(fact, M[n][k], n).position = n
        BY <2>1, <3>5, <4>6, NextFactType
      <4>8. InStep(M, NextFact(fact, M[n][k], n), n, k)
        BY <2>1, <3>2, <3>6, <4>3, PassesOn
      <4> QED BY <3>3, <3>4, <3>6, <4>3, <4>5, <4>7, <4>8
    <3>7. ASSUME ~Takes(M, fact, n, k) PROVE InStep(M, new, n, k) /\ new = fact
      BY <2>1, <3>2, <3>3, <3>4, <3>7, PassesOn
    <3>8. Unmentioned(M, n + 1, new.position - 1, k)
      <4>1. CASE Takes(M, fact, n, k)
        BY <2>1, <3>6, <4>1 DEF Unmentioned
      <4>2. CASE ~Takes(M, fact, n, k)
        BY <2>1, <3>2, <3>5, <3>7, <4>2 DEF Unmentioned
      <4> QED BY <4>1, <4>2
    <3> QED BY <3>1, <3>4, <3>6, <3>7, <3>8
  <2>6. Step(M, plan, n).ok
    <3>1. DOMAIN M[n] \subseteq Keys
      BY <2>1, ManifestType DEF Sound
    <3>2. \A k \in {j \in DOMAIN M[n] : ~ExactRetry(plan.facts[j], n)} :
             Newer(plan.facts[k], n) /\ Admits(plan.facts[k], M[n][k])
      BY <2>5, <3>1 DEF Takes
    <3> QED BY <2>4, <3>2 DEF Step
  <2>7. R(n).ok
    BY <2>2, <2>3, <2>6
  <2> HIDE DEF R
  <2>8. Good(n)
    BY <2>5
  <2> QED BY <2>1, <2>7, <2>8
<1> HIDE DEF S
<1>3. Len(M) \in S
  <2>1. Len(M) \in c .. Len(M)
    BY <1>0
  <2> QED BY <1>0, <1>1, <1>2, <2>1, Upwards
<1> QED BY <1>3 DEF S
-----------------------------------------------------------------------------
(* The steps.                                                               *)

Base == [ok |-> TRUE, facts |-> Facts]

TrustedInv ==
    /\ TrustedTypeOK
    /\ RowInv
    /\ Sound(manifests)
    /\ \A k \in Keys : Mirrors(Reached(manifests, Len(manifests)).facts[k], rows[k])
    /\ \A k \in Keys : InStep(manifests, Facts[k], consumed, k)

LEMMA MergedType ==
  ASSUME TrustedTypeOK, RowInv, NEW d \in Deliveries, NEW k \in Keys
  PROVE  LET m == Merged(d, k) IN
         /\ m \in RowSet
         /\ m # NoRow => m.time >= 1 /\ (policy.strategy # "SNAPSHOT" => m.active)
         /\ m.effective <= boundary \/ m.effective = d.effective
         /\ m.effective >= rows[k].effective
         /\ policy.timed => m.time >= rows[k].time
<1> DEFINE out == Outcome(d, k)
           new == Only(d.incoming[k])
           row == rows[k]
           m == Merged(d, k)
<1>1. /\ row \in RowSet /\ RowOK(row)
      /\ d.effective \in 0 .. MaxTime /\ boundary \in 0 .. MaxTime /\ MaxTime \in Nat
      /\ policy.strategy \in {"APPEND", "UPSERT", "SNAPSHOT"}
      /\ policy.strategy # "SNAPSHOT" => d.effective = 0 /\ boundary = 0
  BY TrustedAssumption DEF TrustedTypeOK, RowInv, Deliveries, Policies
<1>2. /\ out \in Accepted => d.incoming[k] # {}
      /\ out \in Accepted /\ policy.timed => new.time >= row.time
      /\ out \in Accepted /\ policy.strategy = "SNAPSHOT" => row.effective <= d.effective
      /\ Dropped(d, k) => Known(k) /\ row.active /\ row.effective <= d.effective /\ policy.strategy = "SNAPSHOT"
      /\ out = "UNCHANGED" => Known(k)
  BY OutcomeMeets DEF Dropped
<1>3. out \in Accepted => new.value \in Values /\ new.time \in 1 .. MaxTime
  BY <1>2, DeliveryType
<1>4. m = IF Dropped(d, k) THEN Row(row, FALSE, d.effective)
          ELSE IF out \in {"INSERTED", "UPDATED", "REACTIVATED"} THEN Row(new, TRUE, d.effective)
          ELSE IF out = "UNCHANGED" /\ policy.strategy = "SNAPSHOT" THEN Row(row, TRUE, d.effective)
          ELSE row
  BY DEF Merged
<1> HIDE DEF m, new, out
<1>5. /\ row.value \in Values \cup {"NONE"} /\ row.time \in 0 .. MaxTime /\ row.time \in Nat
      /\ row.effective \in Nat /\ row.effective <= boundary
      /\ Known(k) => row.time >= 1 /\ (policy.strategy # "SNAPSHOT" => row.active)
  BY <1>1 DEF RowSet, RowOK, Known
<1>6. CASE Dropped(d, k)
  <2>1. m = [value |-> row.value, time |-> row.time, active |-> FALSE, effective |-> d.effective]
    BY <1>4, <1>6 DEF Row
  <2> QED BY <1>1, <1>2, <1>5, <1>6, <2>1 DEF RowSet, m
<1>7. CASE ~Dropped(d, k) /\ out \in {"INSERTED", "UPDATED", "REACTIVATED"}
  <2>1. m = [value |-> new.value, time |-> new.time, active |-> TRUE, effective |-> d.effective]
    BY <1>4, <1>7 DEF Row
  <2>2. out \in Accepted
    BY <1>7 DEF Accepted
  <2>3. row.effective <= d.effective
    BY <1>1, <1>2, <1>5, <2>2
  <2> QED BY <1>1, <1>2, <1>3, <1>5, <2>1, <2>2, <2>3 DEF RowSet, m
<1>8. CASE ~Dropped(d, k) /\ out = "UNCHANGED" /\ policy.strategy = "SNAPSHOT"
  <2>1. m = [value |-> row.value, time |-> row.time, active |-> TRUE, effective |-> d.effective]
    BY <1>4, <1>8 DEF Row
  <2>2. out \in Accepted
    BY <1>8 DEF Accepted
  <2> QED BY <1>1, <1>2, <1>5, <1>8, <2>1, <2>2 DEF RowSet, m
<1>9. CASE ~Dropped(d, k) /\ out \notin {"INSERTED", "UPDATED", "REACTIVATED"}
           /\ ~(out = "UNCHANGED" /\ policy.strategy = "SNAPSHOT")
  <2>1. m = row
    BY <1>4, <1>9
  <2> QED BY <1>1, <1>5, <2>1 DEF RowOK, m
<1> QED BY <1>6, <1>7, <1>8, <1>9

LEMMA EvidenceType ==
  ASSUME TrustedTypeOK, RowInv, NEW d \in Deliveries
  PROVE  /\ Evidence(d) \in ManifestSet
         /\ \A k \in Keys : (k \in DOMAIN Evidence(d)) <=> (Evidenced(d, k) \in Accepted \cup {"DEACTIVATED"})
         /\ \A k \in DOMAIN Evidence(d) : Evidence(d)[k] = Event(d, k)
<1> DEFINE touched == {k \in Keys : Evidenced(d, k) \in Accepted \cup {"DEACTIVATED"}}
<1>1. Evidence(d) = [k \in touched |-> Event(d, k)]
  BY DEF Evidence, Event
<1>2. ASSUME NEW k \in touched PROVE Event(d, k) \in EventSet
  <2>1. Merged(d, k) \in RowSet
    BY MergedType
  <2> QED BY <2>1 DEF Event, EventSet, RowSet
<1>3. [k \in touched |-> Event(d, k)] \in ManifestSet
  <2>1. touched \in SUBSET Keys
    OBVIOUS
  <2> HIDE DEF touched
  <2>2. [k \in touched |-> Event(d, k)] \in [touched -> EventSet]
    BY <1>2
  <2> QED BY <2>1, <2>2 DEF ManifestSet
<1> QED BY <1>1, <1>3

LEMMA TrustedStart ==
  ASSUME TrustedInit
  PROVE  TrustedInv
<1>1. /\ MaxTime \in Nat /\ manifests = <<>> /\ revisions = <<>> /\ Len(manifests) = 0
      /\ consumed = 0 /\ boundary = 0 /\ rows = [k \in Keys |-> NoRow] /\ policy \in Policies
  BY TrustedAssumption DEF TrustedInit
<1>2. NoRow \in RowSet /\ NoRow.effective = 0 /\ NoRow.active = FALSE
  BY <1>1 DEF NoRow, RowSet
<1>3. TrustedTypeOK
  BY <1>1, <1>2 DEF TrustedTypeOK
<1>4. RowInv
  BY <1>1, <1>2 DEF RowInv, RowOK
<1>5. \A k \in Keys : Facts[k] = NoFact
  <2>1. \A k : Prior(k) = NoFact
    <3>1. DOMAIN revisions = {}
      BY <1>1
    <3> QED BY <3>1 DEF Prior
  <2> QED BY <2>1 DEF Facts
<1>6. Sound(manifests)
  <2>1. Run(manifests, [ok |-> TRUE, facts |-> [k \in Keys |-> NoFact]], 1, 1 - 1)
          = [ok |-> TRUE, facts |-> [k \in Keys |-> NoFact]]
    BY RunStarts
  <2>2. Reached(manifests, 0).ok
    BY <2>1 DEF Reached
  <2>3. manifests \in Seq(ManifestSet) /\ \A n \in 0 .. Len(manifests) : n = 0
    BY <1>1
  <2> QED BY <2>2, <2>3 DEF Sound
<1>7. \A k \in Keys : Mirrors(Reached(manifests, Len(manifests)).facts[k], rows[k])
  <2>1. Mirrors(NoFact, NoRow)
    BY DEF Mirrors, NoFact, NoRow
  <2> QED BY <1>1, <2>1, ReachedNone
<1>8. ASSUME NEW k \in Keys PROVE InStep(manifests, Facts[k], consumed, k)
  <2>1. NoFact \in FactSet /\ NoFact.position = 0
    BY <1>1 DEF NoFact, FactSet
  <2>2. Greater(0, 0) = 0
    BY DEF Greater
  <2> QED BY <1>1, <1>5, <2>1, <2>2, ReachedNone DEF InStep
<1> QED BY <1>3, <1>4, <1>6, <1>7, <1>8 DEF TrustedInv

LEMMA TrustedApplies ==
  ASSUME TrustedInv, ApplyDelivery
  PROVE  TrustedInv'
<1>1. PICK d \in Deliveries :
        /\ rows' = [k \in Keys |-> Merged(d, k)]
        /\ boundary' = IF d.effective > boundary THEN d.effective ELSE boundary
        /\ manifests' = Append(manifests, Evidence(d))
  BY DEF ApplyDelivery
<1>2. policy' = policy /\ consumed' = consumed /\ revisions' = revisions
  BY DEF ApplyDelivery, factVars
<1>3. TrustedTypeOK /\ RowInv
  BY DEF TrustedInv
<1> DEFINE n == Len(manifests)
           M == manifests'
<1>4. /\ Evidence(d) \in ManifestSet
      /\ \A k \in Keys : (k \in DOMAIN Evidence(d)) <=> (Evidenced(d, k) \in Accepted \cup {"DEACTIVATED"})
      /\ \A k \in DOMAIN Evidence(d) : Evidence(d)[k] = Event(d, k)
  BY <1>3, EvidenceType
<1>5. /\ n \in Nat /\ n + 1 \in Nat \ {0} /\ Len(M) = n + 1 /\ M \in Seq(ManifestSet) /\ M[n + 1] = Evidence(d)
      /\ \A i \in 1 .. n : M[i] = manifests[i] /\ manifests[i] \in ManifestSet
      /\ consumed \in 0 .. n /\ consumed \in Nat
  BY <1>1, <1>3, <1>4 DEF TrustedTypeOK
<1>6. TrustedTypeOK' /\ RowInv'
  <2>1. /\ d.effective \in 0 .. MaxTime /\ boundary \in 0 .. MaxTime /\ MaxTime \in Nat
        /\ d.effective > 0 <=> policy.dated
    BY <1>3, TrustedAssumption DEF TrustedTypeOK, Deliveries
  <2>2. /\ boundary' \in 0 .. MaxTime /\ boundary <= boundary' /\ d.effective <= boundary'
        /\ ~policy.dated => boundary' = 0
    BY <1>1, <1>3, <2>1 DEF RowInv
  <2>3. \A k \in Keys : rows'[k] = Merged(d, k)
    BY <1>1
  <2>4. ASSUME NEW k \in Keys
        PROVE  /\ rows'[k] \in RowSet
               /\ rows'[k] # NoRow => rows'[k].time >= 1 /\ (policy.strategy # "SNAPSHOT" => rows'[k].active)
               /\ rows'[k].effective <= boundary'
    <3>1. PICK m : m = Merged(d, k) /\ m = rows'[k]
      BY <2>3
    <3>2. /\ m \in RowSet
          /\ m # NoRow => m.time >= 1 /\ (policy.strategy # "SNAPSHOT" => m.active)
          /\ m.effective <= boundary \/ m.effective = d.effective
      BY <1>3, <3>1, MergedType
    <3>3. m.effective <= boundary'
      BY <2>1, <2>2, <3>2 DEF RowSet
    <3> QED BY <3>1, <3>2, <3>3
  <2>5. rows' = [k \in Keys |-> rows'[k]]
    BY <1>1
  <2>6. RowInv'
    BY <1>2, <2>2, <2>4 DEF RowInv, RowOK
  <2>7. rows' \in [Keys -> RowSet]
    BY <2>4, <2>5
  <2>8. TrustedTypeOK'
    BY <1>2, <1>3, <1>5, <2>2, <2>7 DEF TrustedTypeOK
  <2> QED BY <2>6, <2>8
<1>7. Facts' = Facts
  <2>1. \A k : Prior(k)' = Prior(k)
    BY <1>2 DEF Prior
  <2> QED BY <2>1 DEF Facts
<1>8. \A i \in 0 .. n : Reached(M, i) = Reached(manifests, i)
  <2> SUFFICES ASSUME NEW i \in 0 .. n PROVE Reached(M, i) = Reached(manifests, i)
    OBVIOUS
  <2>1. 1 \in Nat \ {0} /\ i \in Nat /\ 1 - 1 <= i /\ \A p \in 1 .. i : M[p] = manifests[p]
    BY <1>5
  <2> HIDE DEF M, n
  <2> QED BY <2>1, RunIsLocal DEF Reached
<1> DEFINE plan == Reached(manifests, n)
<1>9. plan.ok /\ After(plan.facts, manifests, n) /\ \A k \in Keys : Mirrors(plan.facts[k], rows[k])
  <2>1. Sound(manifests) /\ n \in 0 .. n
    BY <1>5 DEF TrustedInv
  <2>2. \A k \in Keys : Mirrors(plan.facts[k], rows[k])
    BY DEF TrustedInv
  <2> QED BY <2>1, <2>2, ReachedIs DEF Sound
<1>10. Reached(M, n + 1) = Step(M, plan, n + 1)
  <2>1. 1 \in Nat \ {0} /\ n + 1 \in Nat /\ 1 <= n + 1 /\ n + 1 - 1 = n /\ n \in 0 .. n
    BY <1>5
  <2>2. Reached(M, n) = plan
    BY <1>8, <2>1
  <2> HIDE DEF M, n
  <2>3. Reached(M, n + 1) = Step(M, Reached(M, n + 1 - 1), n + 1)
    BY <2>1, RunProceeds DEF Reached
  <2> HIDE DEF plan
  <2> QED BY <2>1, <2>2, <2>3
<1> HIDE DEF plan
<1>11. ASSUME NEW k \in Keys
       PROVE  /\ plan.facts[k].position <= n /\ plan.facts[k].position \in Nat
              /\ Newer(plan.facts[k], n + 1) /\ ~ExactRetry(plan.facts[k], n + 1)
  <2>1. plan.facts[k].position <= n /\ plan.facts[k].position \in Nat
    BY <1>9 DEF After, FactSet
  <2> QED BY <1>5, <2>1 DEF Newer, ExactRetry
<1>12. ASSUME NEW k \in Keys
       PROVE  IF k \in DOMAIN Evidence(d)
              THEN /\ Admits(plan.facts[k], Evidence(d)[k])
                   /\ Mirrors(NextFact(plan.facts[k], Evidence(d)[k], n + 1), rows'[k])
              ELSE Mirrors(plan.facts[k], rows'[k])
  <2>1. rows'[k] = Merged(d, k)
    BY <1>1
  <2>2. IF Evidenced(d, k) \in Accepted \cup {"DEACTIVATED"}
        THEN /\ Admits(plan.facts[k], Event(d, k))
             /\ Mirrors(NextFact(plan.facts[k], Event(d, k), n + 1), Merged(d, k))
        ELSE Mirrors(plan.facts[k], Merged(d, k))
    BY <1>3, <1>5, <1>9, MergeIsEvidence
  <2> QED BY <1>4, <2>1, <2>2
<1>13. DOMAIN Evidence(d) \subseteq Keys
  BY <1>4, ManifestType
<1> HIDE DEF n, M
<1>14. Step(M, plan, n + 1).ok
  <2>1. \A k \in DOMAIN Evidence(d) : Newer(plan.facts[k], n + 1) /\ Admits(plan.facts[k], M[n + 1][k])
    BY <1>5, <1>11, <1>12, <1>13
  <2>2. \A k \in News(plan.facts, M[n + 1], n + 1) :
           Newer(plan.facts[k], n + 1) /\ Admits(plan.facts[k], M[n + 1][k])
    BY <1>5, <2>1 DEF News
  <2> QED BY <1>9, <2>2 DEF Step, News
<1>15. Sound(M)
  <2>1. ASSUME NEW i \in 0 .. n + 1 PROVE Reached(M, i).ok
    <3>1. CASE i = n + 1
      BY <1>10, <1>14, <3>1
    <3>2. CASE i # n + 1
      <4>1. i \in 0 .. n
        BY <1>5, <3>2
      <4>2. Reached(manifests, i).ok
        BY <4>1 DEF TrustedInv, Sound, n
      <4> QED BY <1>8, <4>1, <4>2
    <3> QED BY <3>1, <3>2
  <2> QED BY <1>5, <2>1 DEF Sound
<1>16. ASSUME NEW k \in Keys PROVE Mirrors(Reached(M, n + 1).facts[k], rows'[k])
  <2>1. Step(M, plan, n + 1).facts[k] =
          IF Takes(M, plan.facts[k], n + 1, k) THEN NextFact(plan.facts[k], M[n + 1][k], n + 1) ELSE plan.facts[k]
    BY <1>5, StepIs
  <2>2. Takes(M, plan.facts[k], n + 1, k) <=> k \in DOMAIN Evidence(d)
    BY <1>5, <1>11 DEF Takes
  <2> QED BY <1>5, <1>10, <1>12, <2>1, <2>2
<1>17. ASSUME NEW k \in Keys PROVE InStep(M, Facts[k], consumed, k)
  <2>1. PICK fact : fact = Facts[k]
    OBVIOUS
  <2>2. InStep(manifests, fact, consumed, k)
    BY <2>1 DEF TrustedInv
  <2>3. fact \in FactSet /\ fact.position \in Nat /\ fact.position <= n
    BY <2>2 DEF InStep, FactSet, n
  <2>4. fact.position > consumed => M[fact.position] = manifests[fact.position]
    <3> SUFFICES ASSUME fact.position > consumed PROVE M[fact.position] = manifests[fact.position]
      OBVIOUS
    <3>1. fact.position \in 1 .. n
      BY <1>5, <2>3
    <3> QED BY <1>5, <3>1
  <2>5. Unmentioned(M, consumed + 1, fact.position - 1, k)
          => Unmentioned(manifests, consumed + 1, fact.position - 1, k)
    <3>1. \A i \in consumed + 1 .. fact.position - 1 : i \in 1 .. n
      BY <1>5, <2>3
    <3>2. \A i \in consumed + 1 .. fact.position - 1 : M[i] = manifests[i]
      BY <1>5, <3>1
    <3> QED BY <3>2 DEF Unmentioned
  <2>6. Reached(M, Greater(consumed, fact.position)) = Reached(manifests, Greater(consumed, fact.position))
    <3>1. Greater(consumed, fact.position) \in 0 .. n
      BY <1>5, <2>3 DEF Greater
    <3> QED BY <1>8, <3>1
  <2>7. fact.position <= Len(M)
    BY <1>5, <2>3
  <2>8. fact.position > consumed => k \in DOMAIN M[fact.position]
    BY <2>2, <2>4 DEF InStep
  <2>9. Unmentioned(M, consumed + 1, fact.position - 1, k)
          => fact = Reached(M, Greater(consumed, fact.position)).facts[k]
    BY <2>2, <2>5, <2>6 DEF InStep
  <2> QED BY <2>1, <2>3, <2>7, <2>8, <2>9 DEF InStep
<1>18. Reached(manifests, Len(manifests))' = Reached(M, n + 1)
  BY <1>5 DEF M
<1>19. \A k \in Keys : Mirrors(Reached(manifests, Len(manifests)).facts[k], rows[k])'
  BY <1>16, <1>18 DEF Mirrors, Same
<1>20. Sound(manifests)'
  BY <1>15 DEF M
<1>21. \A k \in Keys : InStep(manifests, Facts[k], consumed, k)'
  BY <1>2, <1>7, <1>17 DEF M
<1> QED BY <1>6, <1>19, <1>20, <1>21 DEF TrustedInv

(* What a published plan makes of the facts.                                *)
LEMMA PlanPublished ==
  ASSUME TrustedInv, NEW first \in 1 .. Len(manifests), NEW last \in first .. Len(manifests),
         PublishFacts(first, last)
  PROVE  LET after == Run(manifests, Base, first, last) IN
         /\ after.ok
         /\ revisions' \in Seq(CandidateSet)
         /\ Facts' = after.facts
         /\ \A k \in Keys : InStep(manifests, after.facts[k], consumed, k)
         /\ last <= consumed => Facts' = Facts
<1> DEFINE plan == Run(manifests, Base, first, last)
           r == [k \in Touched(first, last) |-> plan.facts[k]]
<1>0. /\ Len(manifests) \in Nat /\ consumed \in 0 .. Len(manifests) /\ Sound(manifests)
      /\ \A i \in 1 .. Len(manifests) : manifests[i] \in ManifestSet
      /\ revisions \in Seq(CandidateSet)
      /\ first \in Nat \ {0} /\ last \in Nat /\ first - 1 <= last /\ \A i \in first .. last : i \in 1 .. Len(manifests)
  BY DEF TrustedInv, TrustedTypeOK
<1>1. plan.ok /\ revisions' = Append(revisions, r)
  BY CompileIsRun DEF PublishFacts, Base
<1>2. /\ plan.facts = [k \in Keys |-> plan.facts[k]]
      /\ \A k \in Keys : InStep(manifests, plan.facts[k], consumed, k)
      /\ last <= consumed => plan.facts = Facts
  <2>1. PICK facts : facts = Facts
    OBVIOUS
  <2>2. OnKeys(facts) /\ \A k \in Keys : InStep(manifests, facts[k], consumed, k)
    BY <2>1 DEF Facts, OnKeys, TrustedInv
  <2>3. Run(manifests, [ok |-> TRUE, facts |-> facts], first, last).ok
    BY <1>1, <2>1 DEF Base
  <2>4. LET after == Run(manifests, [ok |-> TRUE, facts |-> facts], first, last).facts IN
        /\ OnKeys(after)
        /\ \A k \in Keys : InStep(manifests, after[k], consumed, k)
        /\ last <= consumed => after = facts
    <3>1. PICK c : c = consumed
      OBVIOUS
    <3>2. c \in 0 .. Len(manifests) /\ Sound(manifests) /\ \A k \in Keys : InStep(manifests, facts[k], c, k)
      BY <1>0, <2>2, <3>1
    <3>3. PICK M : M = manifests
      OBVIOUS
    <3>4. /\ Sound(M) /\ c \in 0 .. Len(M) /\ \A k \in Keys : InStep(M, facts[k], c, k)
          /\ first \in 1 .. Len(M) /\ last \in first .. Len(M)
          /\ Run(M, [ok |-> TRUE, facts |-> facts], first, last).ok
      BY <2>3, <3>2, <3>3
    <3> DEFINE after == Run(M, [ok |-> TRUE, facts |-> facts], first, last).facts
    <3>5. /\ OnKeys(after)
          /\ \A k \in Keys : InStep(M, after[k], c, k)
          /\ last <= c => after = facts
      BY <2>2, <3>4, PlanInStep
    <3> QED BY <3>1, <3>3, <3>5
  <2> QED BY <2>1, <2>4 DEF Base, OnKeys
<1>3. Touched(first, last) \in SUBSET Keys
  <2>1. \A i \in first .. last : DOMAIN manifests[i] \subseteq Keys
    BY <1>0, ManifestType
  <2> QED BY <2>1 DEF Touched
<1>4. \A k \in Keys : k \notin Touched(first, last) => plan.facts[k] = Facts[k]
  <2> SUFFICES ASSUME NEW k \in Keys, k \notin Touched(first, last)
               PROVE  Run(manifests, Base, first, last).facts[k] = Base.facts[k]
    BY DEF Base
  <2>1. Unmentioned(manifests, first, last, k)
    BY DEF Touched, Unmentioned
  <2> HIDE DEF plan, r
  <2> QED BY <1>0, <2>1, RunLeaves
<1> HIDE DEF plan
<1>5. r \in CandidateSet
  <2>1. \A k \in Keys : plan.facts[k] \in FactSet
    BY <1>2 DEF InStep
  <2>2. r \in [Touched(first, last) -> FactSet]
    BY <1>3, <2>1
  <2> QED BY <1>3, <2>2 DEF CandidateSet
<1>6. Facts' = [k \in Keys |-> IF k \in DOMAIN r THEN r[k] ELSE Facts[k]]
  BY <1>0, <1>1, <1>5, Published
<1>7. Facts' = [k \in Keys |-> plan.facts[k]]
  BY <1>4, <1>6
<1>8. Facts' = plan.facts
  BY <1>2, <1>7
<1> QED BY <1>0, <1>1, <1>2, <1>5, <1>8 DEF plan

(* The facts of a plan over what is left are those of the whole chain.      *)
LEMMA FactsReached ==
  ASSUME TrustedInv, NEW last \in consumed .. Len(manifests),
         Run(manifests, Base, consumed + 1, last).ok
  PROVE  \A k \in Keys :
            /\ InStep(manifests, Run(manifests, Base, consumed + 1, last).facts[k], last, k)
            /\ \A i \in consumed + 1 .. last : k \in DOMAIN manifests[i] => Facts[k].position <= i
<1>1. PICK facts : facts = Facts
  OBVIOUS
<1>2. PICK c : c = consumed
  OBVIOUS
<1>3. Sound(manifests) /\ c \in 0 .. Len(manifests) /\ last \in c .. Len(manifests)
      /\ \A k \in Keys : InStep(manifests, facts[k], c, k)
  BY <1>1, <1>2 DEF TrustedInv, TrustedTypeOK
<1>4. Run(manifests, [ok |-> TRUE, facts |-> facts], c + 1, last).ok
  BY <1>1, <1>2 DEF Base
<1>5. \A k \in Keys :
        /\ InStep(manifests, Run(manifests, [ok |-> TRUE, facts |-> facts], c + 1, last).facts[k], last, k)
        /\ \A i \in c + 1 .. last : k \in DOMAIN manifests[i] => facts[k].position <= i
  BY <1>3, <1>4, PlanPasses
<1> QED BY <1>1, <1>2, <1>5 DEF Base

LEMMA TrustedConsumes ==
  ASSUME TrustedInv, Consume
  PROVE  TrustedInv'
<1>1. PICK last \in consumed + 1 .. Len(manifests) : PublishFacts(consumed + 1, last) /\ consumed' = last
  BY DEF Consume
<1>2. /\ policy' = policy /\ rows' = rows /\ boundary' = boundary /\ manifests' = manifests
      /\ TrustedTypeOK /\ RowInv
  BY DEF Consume, trustedVars, TrustedInv
<1>3. /\ consumed \in Nat /\ last \in Nat /\ Len(manifests) \in Nat /\ last \in 0 .. Len(manifests)
      /\ consumed + 1 \in 1 .. Len(manifests) /\ last \in consumed .. Len(manifests)
  BY <1>2 DEF TrustedTypeOK
<1>4. /\ Run(manifests, Base, consumed + 1, last).ok /\ revisions' \in Seq(CandidateSet)
      /\ Facts' = Run(manifests, Base, consumed + 1, last).facts
  BY <1>1, <1>3, PlanPublished
<1>5. \A k \in Keys : InStep(manifests, Facts'[k], last, k)
  BY <1>3, <1>4, FactsReached
<1>6. TrustedTypeOK' /\ RowInv'
  BY <1>1, <1>2, <1>3, <1>4 DEF TrustedTypeOK, RowInv, RowOK
<1>7. \A k \in Keys : InStep(manifests, Facts[k], consumed, k)'
  BY <1>1, <1>2, <1>5
<1> QED BY <1>2, <1>6, <1>7 DEF TrustedInv, Mirrors, Same

(* A replay or a backfill: the checkpoint stays.                            *)
LEMMA TrustedRepublishes ==
  ASSUME TrustedInv, UNCHANGED <<trustedVars, consumed>>,
         NEW first \in 1 .. Len(manifests), NEW last \in first .. Len(manifests),
         PublishFacts(first, last)
  PROVE  TrustedInv' /\ (last <= consumed => Facts' = Facts)
<1>1. /\ policy' = policy /\ rows' = rows /\ boundary' = boundary /\ manifests' = manifests /\ consumed' = consumed
      /\ TrustedTypeOK /\ RowInv
  BY DEF trustedVars, TrustedInv
<1>2. /\ revisions' \in Seq(CandidateSet) /\ \A k \in Keys : InStep(manifests, Facts'[k], consumed, k)
      /\ last <= consumed => Facts' = Facts
  <2>1. LET after == Run(manifests, Base, first, last) IN
        /\ after.ok
        /\ revisions' \in Seq(CandidateSet)
        /\ Facts' = after.facts
        /\ \A k \in Keys : InStep(manifests, after.facts[k], consumed, k)
        /\ last <= consumed => Facts' = Facts
    BY PlanPublished
  <2> QED BY <2>1
<1>3. TrustedTypeOK' /\ RowInv'
  BY <1>1, <1>2 DEF TrustedTypeOK, RowInv, RowOK
<1>4. \A k \in Keys : InStep(manifests, Facts[k], consumed, k)'
  BY <1>1, <1>2
<1> QED BY <1>1, <1>2, <1>3, <1>4 DEF TrustedInv, Mirrors, Same

LEMMA TrustedReplays ==
  ASSUME TrustedInv, Replay
  PROVE  TrustedInv' /\ Facts' = Facts
<1>1. PICK first \in 1 .. consumed : \E last \in first .. consumed : PublishFacts(first, last)
  BY DEF Replay
<1>2. PICK last \in first .. consumed : PublishFacts(first, last)
  BY <1>1
<1>3. first \in 1 .. Len(manifests) /\ last \in first .. Len(manifests) /\ last <= consumed
  BY DEF TrustedInv, TrustedTypeOK
<1>4. UNCHANGED <<trustedVars, consumed>>
  BY DEF Replay
<1> QED BY <1>2, <1>3, <1>4, TrustedRepublishes

LEMMA TrustedBackfills ==
  ASSUME TrustedInv, Backfill
  PROVE  TrustedInv'
<1>1. PICK first \in DOMAIN manifests : \E last \in first .. Len(manifests) : PublishFacts(first, last)
  BY DEF Backfill
<1>2. PICK last \in first .. Len(manifests) : PublishFacts(first, last)
  BY <1>1
<1>3. first \in 1 .. Len(manifests)
  BY DEF TrustedInv, TrustedTypeOK
<1>4. UNCHANGED <<trustedVars, consumed>>
  BY DEF Backfill
<1> QED BY <1>2, <1>3, <1>4, TrustedRepublishes

LEMMA TrustedStays ==
  ASSUME TrustedInv, UNCHANGED <<trustedVars, factVars>>
  PROVE  TrustedInv'
<1>1. /\ policy' = policy /\ rows' = rows /\ boundary' = boundary /\ manifests' = manifests /\ consumed' = consumed
      /\ revisions' = revisions
  BY DEF trustedVars, factVars
<1>2. Facts' = Facts
  <2>1. \A k : Prior(k)' = Prior(k)
    BY <1>1 DEF Prior
  <2> QED BY <2>1 DEF Facts
<1>3. \A k \in Keys : InStep(manifests, Facts[k], consumed, k)'
  BY <1>1, <1>2 DEF TrustedInv
<1> QED BY <1>1, <1>3 DEF TrustedInv, TrustedTypeOK, RowInv, RowOK, Mirrors, Same

LEMMA TrustedStep ==
  ASSUME TrustedInv, [CompilePlan]_<<trustedVars, factVars, dimensionVars, context>>
  PROVE  TrustedInv'
<1>1. TrustedNext \/ UNCHANGED <<trustedVars, factVars>>
  BY DEF CompilePlan
<1> QED BY <1>1, TrustedApplies, TrustedConsumes, TrustedReplays, TrustedBackfills, TrustedStays
        DEF TrustedNext

LEMMA TrustedAlways == Spec => []TrustedInv
<1>1. Init => TrustedInv
  BY TrustedStart DEF Init
<1> QED BY <1>1, TrustedStep, PTL DEF Spec

(* What is left of the accepted manifests can be consumed, and consuming it *)
(* makes the facts what the trusted state is: the engines (append_engine,   *)
(* upsert_engine, snapshot_engine) never merge what the FACT planner        *)
(* (compile_fact) would refuse or make something else of, whatever was      *)
(* published, replayed, backfilled and batched before.  The one plan that   *)
(* is refused is the one with an event that a backfill leapt over.          *)
THEOREM FactsAlwaysMirrorRows == Spec => []FactsMirrorRows
<1>1. TrustedInv => FactsMirrorRows
  <2> SUFFICES ASSUME TrustedInv PROVE FactsMirrorRows
    OBVIOUS
  <2> DEFINE n == Len(manifests)
             plan == Run(manifests, Base, consumed + 1, n)
  <2>0. /\ n \in Nat /\ consumed \in 0 .. n /\ consumed \in Nat /\ Sound(manifests) /\ n \in consumed .. n
        /\ \A k \in Keys : Facts[k].position \in Nat /\ Facts[k].position <= n
    BY DEF TrustedInv, TrustedTypeOK, InStep, FactSet
  <2>1. CompileFact(consumed + 1, n) = plan
    BY CompileIsRun DEF Base
  <2>2. ASSUME plan.ok
        PROVE  /\ \A k \in Keys : ~LeaptOver(k)
               /\ \A k \in Keys : Mirrors(plan.facts[k], rows[k])
    <3>1. ASSUME NEW k \in Keys
          PROVE  /\ InStep(manifests, plan.facts[k], n, k)
                 /\ \A i \in consumed + 1 .. n : k \in DOMAIN manifests[i] => Facts[k].position <= i
      BY <2>0, <2>2, FactsReached
    <3>2. ASSUME NEW k \in Keys, LeaptOver(k) PROVE FALSE
      <4>1. PICK i \in consumed + 1 .. Facts[k].position - 1 : k \in DOMAIN manifests[i]
        BY <3>2 DEF LeaptOver
      <4>2. i \in consumed + 1 .. n /\ i < Facts[k].position
        BY <2>0
      <4> QED BY <2>0, <3>1, <4>1, <4>2
    <3>3. ASSUME NEW k \in Keys PROVE Mirrors(plan.facts[k], rows[k])
      <4>1. PICK fact : fact = plan.facts[k]
        OBVIOUS
      <4>2. InStep(manifests, fact, n, k)
        BY <3>1, <4>1
      <4>3. fact.position \in Nat /\ fact.position <= n
        BY <4>2 DEF InStep, FactSet
      <4>4. Greater(n, fact.position) = n /\ Unmentioned(manifests, n + 1, fact.position - 1, k)
        BY <2>0, <4>3 DEF Greater, Unmentioned
      <4>5. fact = Reached(manifests, n).facts[k]
        BY <4>2, <4>4 DEF InStep
      <4> QED BY <4>1, <4>5 DEF TrustedInv
    <3> QED BY <3>2, <3>3
  <2>3. ASSUME \A k \in Keys : ~LeaptOver(k) PROVE plan.ok
    <3>1. PICK facts : facts = Facts
      OBVIOUS
    <3>2. PICK c : c = consumed
      OBVIOUS
    <3>3. \A k \in Keys : InStep(manifests, facts[k], c, k) /\ Unmentioned(manifests, c + 1, facts[k].position - 1, k)
      BY <2>3, <3>1, <3>2 DEF TrustedInv, LeaptOver, Unmentioned
    <3>4. Run(manifests, [ok |-> TRUE, facts |-> facts], c + 1, Len(manifests)).ok
      BY <2>0, <3>2, <3>3, PlanAccepts
    <3> QED BY <3>1, <3>2, <3>4 DEF Base
  <2> HIDE DEF n, plan
  <2> QED BY <2>1, <2>2, <2>3 DEF FactsMirrorRows, Mirrors, Known, n
<1> QED BY <1>1, TrustedAlways, PTL

(* A replay of consumed manifests that compile_fact takes publishes a       *)
(* revision, and the facts that the published revisions hold stay the same, *)
(* also when a backfill went ahead of the checkpoint.                       *)
THEOREM ReplaysChangeNothing == Spec => ReplayIsIdentity
<1>1. TrustedInv /\ [CompilePlan]_<<trustedVars, factVars, dimensionVars, context>>
        => [Replay => Facts' = Facts]_factVars
  BY TrustedReplays
<1> QED BY <1>1, TrustedAlways, PTL DEF Spec, ReplayIsIdentity

(* Neither the event time of a trusted row nor the time that it holds from  *)
(* ever goes back: no engine lets a late delivery, or a late snapshot that  *)
(* leaves a row out, overwrite what is newer.                               *)
THEOREM LateDeliveriesNeverRewind == Spec => LateDeliveryNeverRewinds
<1>1. TrustedInv /\ [CompilePlan]_<<trustedVars, factVars, dimensionVars, context>>
        => [\A k \in Keys : /\ rows'[k].effective >= rows[k].effective
                            /\ policy.timed => rows'[k].time >= rows[k].time]_rows
  <2> SUFFICES ASSUME TrustedInv, TrustedNext \/ UNCHANGED <<trustedVars, factVars>>, rows' # rows,
                      NEW k \in Keys
               PROVE  /\ rows'[k].effective >= rows[k].effective
                      /\ policy.timed => rows'[k].time >= rows[k].time
    BY DEF CompilePlan
  <2>1. ApplyDelivery
    BY DEF TrustedNext, Consume, Replay, Backfill, trustedVars
  <2>2. PICK d \in Deliveries : rows' = [j \in Keys |-> Merged(d, j)]
    BY <2>1 DEF ApplyDelivery
  <2>3. TrustedTypeOK /\ RowInv
    BY DEF TrustedInv
  <2>4. rows'[k] = Merged(d, k)
    BY <2>2
  <2> QED BY <2>3, <2>4, MergedType
<1> QED BY <1>1, TrustedAlways, PTL DEF Spec, LateDeliveryNeverRewinds
=============================================================================
