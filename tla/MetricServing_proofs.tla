------------------------ MODULE MetricServing_proofs ------------------------
(***************************************************************************)
(* Theorems about MetricServing, for every set of datasets, keys, delivery  *)
(* histories, corrections, materializers and refreshers.  Of each key, the  *)
(* lineage of a publication holds a change no older than the newest one its *)
(* source vector pins, and the newest of them wins unless a correction took *)
(* the key back; what is served is what was published; what is compared was *)
(* bound to the plan; and what is stored is Pandas' result, whoever computed*)
(* it.                                                                      *)
(***************************************************************************)
EXTENDS MetricServing, WellFoundedInduction, TLAPS

RowSets == UNION {[K -> Nat] : K \in SUBSET Keys}
Publications == [pin : Nat, last : Nat, rows : RowSets]
Plans == [Datasets -> Nat]
StoredOutputs == {NoAnswer} \union [rows : [Datasets -> RowSets], form : {"public"}]
MetricResults == [plan : Plans, status : {"COMPUTING", "FAILED", "FRESH"}, output : StoredOutputs]

DataInv ==
    /\ states \in [Datasets -> Seq(SUBSET Keys)]
    /\ chain \in [Datasets -> Seq(Publications)]
    /\ receipts \in [Datasets -> SUBSET Nat]
    /\ results \in Seq(MetricResults)
    /\ \A d \in Datasets : \A p \in 1 .. HeadOf(d) : chain[d][p].last <= Current(d)
    /\ \A d \in Datasets : \A p \in 1 .. HeadOf(d) : chain[d][p].pin <= Current(d)
    /\ \A r \in 1 .. Len(results) : \A d \in Datasets : results[r].plan[d] <= Current(d)

(* What the overlay of a lineage holds of each key: a change that was       *)
(* published, and the newest one, or a correction of a dimension.           *)
Wins(d, p, k, row) ==
    \/ \A i \in 1 .. p : k \in DOMAIN Candidate(d, i) => Candidate(d, i)[k] <= row
    \/ d \in Dimensions /\ Corrects(d, row)

(* Some publication of the lineage holds the change n, or a later one.      *)
Reaches(d, p, k, n) ==
    \E i \in 1 .. p : k \in DOMAIN Candidate(d, i) /\ Candidate(d, i)[k] >= n

HoldsItsPin(d, p) ==
    LET whole == CompleteState(d, p) IN
    /\ \A k \in DOMAIN whole :
         /\ \E i \in 1 .. p : whole[k] <= chain[d][i].last
         /\ whole[k] \in 1 .. Current(d) /\ k \in states[d][whole[k]]
         /\ Wins(d, p, k, whole[k])
    /\ \A k \in Keys : \A n \in 1 .. chain[d][p].pin :
         k \in states[d][n] => Reaches(d, p, k, n)

ChainInv == \A d \in Datasets : \A p \in 1 .. HeadOf(d) : HoldsItsPin(d, p)

Published(id) == id \in [dataset : Datasets, publication : Nat] /\ id.publication \in 1 .. HeadOf(id.dataset)

(* A serving table is empty or holds its publication, and a call that has   *)
(* captured a publication asks for exactly that.                            *)
TableHolds(id) ==
    Published(id) /\ tables[id] \in {<<>>, CompleteState(id.dataset, id.publication)}

Asks(call) ==
    /\ call = [at |-> call.at, id |-> call.id, rows |-> call.rows]
    /\ Published(call.id) /\ call.rows = CompleteState(call.id.dataset, call.id.publication)
    /\ call.at \in {"captured", "loading", "verified"}
    /\ call.at # "captured" => call.id \in DOMAIN tables
    /\ call.at = "verified" => tables[call.id] = call.rows

ReceiptHolds(d, p) ==
    /\ p \in 1 .. HeadOf(d) /\ Identity(d, p) \in DOMAIN tables
    /\ tables[Identity(d, p)] = CompleteState(d, p)

ServingInv ==
    /\ DOMAIN loads \subseteq DOMAIN tables
    /\ \A id \in DOMAIN tables : TableHolds(id)
    /\ work = [m \in Materializers |-> work[m]]
    /\ \A m \in Materializers : work[m] = Idle \/ Asks(work[m])
    /\ \A d \in Datasets : \A p \in receipts[d] : ReceiptHolds(d, p)

Fields == {"at", "plan", "attempt", "outcome", "token", "answer"}

(* A bound query reads publications that have evidence and pin its plan.    *)
BoundToPlan(token) ==
    /\ token.plan \in Plans /\ \A d \in Datasets : token.plan[d] <= Current(d)
    /\ \A d \in Datasets : /\ token.pins[d] \in receipts[d]
                           /\ chain[d][token.pins[d]].pin = token.plan[d]

Explained(token) ==
    \E d \in Datasets : \E p \in 1 .. HeadOf(d) :
        p = token.pins[d] /\ (Ahead(d, p) \/ Rewound(d, p) # {})

(* A refresh works on one attempt, and compares what it has bound.          *)
Follows(run) ==
    /\ run = [f \in Fields |-> run[f]]
    /\ run.at \in {"computed", "bound", "committed"}
    /\ run.attempt \in 1 .. Len(results) /\ run.plan = results[run.attempt].plan
    /\ run.at = "bound" => BoundToPlan(run.token)
    /\ run.outcome = "MISMATCH" => Explained(run.token)

RefreshInv ==
    /\ refresh = [c \in Refreshers |-> refresh[c]]
    /\ \A c \in Refreshers : refresh[c] \in {Idle, Ended} \/ Follows(refresh[c])

MetricInv ==
    /\ DataInv /\ ChainInv /\ ServingInv /\ RefreshInv
    /\ ResultIsOfItsPlan
-----------------------------------------------------------------------------
(* Rows and overlays.                                                       *)

LEMMA MaxIsNewest ==
  ASSUME NEW S \in SUBSET Nat, S # {}, NEW n \in Nat, \A i \in S : i <= n
  PROVE  Max(S) \in S /\ \A i \in S : i <= Max(S)
<1> DEFINE less == {q \in Nat \X Nat : q[1] < q[2]}
           gaps == {n - i : i \in S}
<1>1. IsWellFoundedOn(less, Nat)
  BY NatLessThanWellFounded DEF OpToRel
<1>2. gaps \subseteq Nat /\ gaps # {}
  <2>1. PICK i \in S : TRUE
    OBVIOUS
  <2>2. n - i \in gaps
    OBVIOUS
  <2>3. \A j \in S : n - j \in Nat
    OBVIOUS
  <2> QED BY <2>2, <2>3
<1> HIDE DEF less
<1>3. PICK g \in gaps : \A h \in gaps : ~(<<h, g>> \in less)
  BY <1>1, <1>2, WFMin
<1> USE DEF less
<1>4. PICK i \in S : g = n - i
  OBVIOUS
<1>5. ASSUME NEW j \in S PROVE j <= i
  <2>1. n - j \in gaps /\ n - j \in Nat /\ g \in Nat
    BY <1>2
  <2>2. ~(<<n - j, g>> \in less)
    BY <2>1, <1>3
  <2>3. ~(n - j < g)
    BY <2>1, <2>2
  <2> QED BY <2>3, <1>4
<1>6. \E x \in S : \A y \in S : x >= y
  BY <1>5
<1>7. Max(S) \in S /\ \A y \in S : Max(S) >= y
  BY <1>6 DEF Max
<1> QED BY <1>7

(* A batch holds each key that it changes, with its last change.            *)
LEMMA BatchRows ==
  ASSUME DataInv, NEW d \in Datasets, NEW first \in Nat \ {0}, NEW last \in Nat,
         last <= Current(d)
  PROVE  LET rows == Rows(d, first, last) IN
         /\ rows \in RowSets /\ DOMAIN rows = ChangedIn(d, first, last)
         /\ rows = [k \in ChangedIn(d, first, last) |-> rows[k]]
         /\ \A k \in DOMAIN rows :
              /\ rows[k] \in first .. last /\ k \in states[d][rows[k]]
              /\ \A n \in first .. last : k \in states[d][n] => n <= rows[k]
<1> DEFINE rows == Rows(d, first, last)
<1>1. /\ states[d] \in Seq(SUBSET Keys)
      /\ \A i \in first .. last : states[d][i] \in SUBSET Keys
  BY DEF DataInv, Current
<1>2. ChangedIn(d, first, last) \in SUBSET Keys
  BY <1>1 DEF ChangedIn
<1>3. ASSUME NEW k \in ChangedIn(d, first, last)
      PROVE  /\ rows[k] \in first .. last /\ k \in states[d][rows[k]]
             /\ \A n \in first .. last : k \in states[d][n] => n <= rows[k]
  <2> DEFINE S == {i \in first .. last : k \in states[d][i]}
  <2>1. S \in SUBSET Nat /\ S # {} /\ \A i \in S : i <= last
    BY <1>3 DEF ChangedIn
  <2>2. Max(S) \in S /\ \A i \in S : i <= Max(S)
    BY <2>1, MaxIsNewest
  <2>3. rows[k] = Max(S)
    BY <1>3 DEF Rows, LastChange, Changes
  <2> QED BY <2>2, <2>3
<1>4. rows = [k \in ChangedIn(d, first, last) |-> rows[k]]
  BY DEF Rows
<1>5. rows \in RowSets
  <2>1. rows \in [ChangedIn(d, first, last) -> Nat]
    BY <1>3, <1>4
  <2> QED BY <1>2, <2>1 DEF RowSets
<1> QED BY <1>3, <1>4, <1>5

(* The overlay of a lineage: of the publications that hold a key, the       *)
(* newest one's row.                                                        *)
NewestHolder(d, p, k, i) ==
    /\ k \in DOMAIN Candidate(d, i)
    /\ \A j \in 1 .. p : k \in DOMAIN Candidate(d, j) => j <= i

OverlayFacts ==
    \A d \in Datasets : \A p \in Nat :
      LET whole == CompleteState(d, p) IN
      /\ whole = [k \in DOMAIN whole |-> whole[k]]
      /\ \A k : (k \in DOMAIN whole) <=> (\E i \in 1 .. p : k \in DOMAIN Candidate(d, i))
      /\ \A k \in DOMAIN whole : \E i \in 1 .. p :
           NewestHolder(d, p, k, i) /\ whole[k] = Candidate(d, i)[k]

LEMMA Overlays == OverlayFacts
<1> SUFFICES ASSUME NEW d \in Datasets, NEW p \in Nat
             PROVE  LET whole == CompleteState(d, p) IN
                    /\ whole = [k \in DOMAIN whole |-> whole[k]]
                    /\ \A k : (k \in DOMAIN whole) <=> (\E i \in 1 .. p : k \in DOMAIN Candidate(d, i))
                    /\ \A k \in DOMAIN whole : \E i \in 1 .. p :
                         NewestHolder(d, p, k, i) /\ whole[k] = Candidate(d, i)[k]
  BY DEF OverlayFacts
<1> DEFINE whole == CompleteState(d, p)
           D == UNION {DOMAIN Candidate(d, i) : i \in Lineage(p)}
<1>1. whole = [k \in D |-> Candidate(d, NewestWins(d, p, k))[k]]
  BY DEF CompleteState
<1>2. \A k : (k \in D) <=> (\E i \in 1 .. p : k \in DOMAIN Candidate(d, i))
  BY DEF Lineage
<1>3. ASSUME NEW k \in D
      PROVE  NewestWins(d, p, k) \in 1 .. p /\ NewestHolder(d, p, k, NewestWins(d, p, k))
  <2> DEFINE S == {i \in Lineage(p) : k \in DOMAIN Candidate(d, i)}
  <2>1. S \in SUBSET Nat /\ S # {} /\ \A i \in S : i <= p
    BY <1>2, <1>3 DEF Lineage
  <2>2. Max(S) \in S /\ \A i \in S : i <= Max(S)
    BY <2>1, MaxIsNewest
  <2>3. NewestWins(d, p, k) = Max(S)
    BY DEF NewestWins, Holding
  <2> QED BY <2>2, <2>3 DEF NewestHolder, Lineage
<1> HIDE DEF D
<1>4. DOMAIN whole = D /\ \A k \in D : whole[k] = Candidate(d, NewestWins(d, p, k))[k]
  BY <1>1
<1>5. whole = [k \in DOMAIN whole |-> whole[k]]
  BY <1>1
<1> QED BY <1>2, <1>3, <1>4, <1>5

LEMMA OverlaysNext == TRUE => OverlayFacts'
BY Overlays, PTL
-----------------------------------------------------------------------------
(* States and publications are only ever added.                             *)
Grows ==
    \A d \in Datasets :
      /\ Current(d) <= Current(d)' /\ \A i \in 1 .. Current(d) : states'[d][i] = states[d][i]
      /\ HeadOf(d) <= HeadOf(d)' /\ \A i \in 1 .. HeadOf(d) : chain'[d][i] = chain[d][i]

(* A publication appends a batch of the accepted deliveries, and pins the   *)
(* end of the batch or the state that was pinned before.                    *)
Publishes(d, first, last, pin) ==
    /\ first \in Nat \ {0} /\ last \in Nat /\ last <= Current(d) /\ first <= last
    /\ Publish(d, first, last, pin) /\ Compiles(d, first, last)
    /\ (first = Checkpoint(d) + 1 /\ pin = last) \/ pin = Checkpoint(d)

LEMMA CheckpointType ==
  ASSUME DataInv, NEW d \in Datasets
  PROVE  /\ Checkpoint(d) \in Nat /\ Checkpoint(d) <= Current(d)
         /\ HeadOf(d) \in Nat /\ Current(d) \in Nat
         /\ Checkpoint(d) # 0 => HeadOf(d) \in 1 .. HeadOf(d) /\ Checkpoint(d) = chain[d][HeadOf(d)].pin
<1>1. chain[d] \in Seq(Publications) /\ HeadOf(d) \in Nat /\ Current(d) \in Nat
  BY DEF DataInv, HeadOf, Current
<1>2. CASE chain[d] = <<>>
  BY <1>1, <1>2 DEF Checkpoint
<1>3. CASE chain[d] # <<>>
  <2>1. HeadOf(d) \in 1 .. HeadOf(d)
    BY <1>1, <1>3 DEF HeadOf
  <2>2. chain[d][HeadOf(d)] \in Publications
    BY <1>1, <2>1 DEF HeadOf
  <2> QED BY <1>1, <1>3, <2>1, <2>2 DEF Checkpoint, DataInv, Publications
<1> QED BY <1>2, <1>3

LEMMA SourcePublishes ==
  ASSUME DataInv, NEW d \in Datasets,
         \/ \E last \in 1 .. Current(d) : PublishIncremental(d, last)
         \/ \E last \in 1 .. Current(d) : \E first \in 1 .. last : PublishHistory(d, first, last)
  PROVE  \E first, last, pin \in Nat : Publishes(d, first, last, pin)
<1>1. Checkpoint(d) \in Nat /\ Current(d) \in Nat
  BY CheckpointType
<1>2. CASE \E last \in 1 .. Current(d) : PublishIncremental(d, last)
  <2>1. PICK last \in 1 .. Current(d) : PublishIncremental(d, last)
    BY <1>2
  <2>2. Publishes(d, Checkpoint(d) + 1, last, last)
    BY <1>1, <2>1 DEF PublishIncremental, Publishes
  <2> QED BY <1>1, <2>2
<1>3. CASE \E last \in 1 .. Current(d) : \E first \in 1 .. last : PublishHistory(d, first, last)
  <2>1. PICK last \in 1 .. Current(d) : \E first \in 1 .. last : PublishHistory(d, first, last)
    BY <1>3
  <2>2. PICK first \in 1 .. last : PublishHistory(d, first, last)
    BY <2>1
  <2>3. Publishes(d, first, last, Checkpoint(d))
    BY <1>1, <2>2 DEF PublishHistory, Publishes
  <2> QED BY <1>1, <2>3
<1> QED BY <1>2, <1>3

LEMMA PublicationAppends ==
  ASSUME DataInv, NEW d \in Datasets, NEW first \in Nat, NEW last \in Nat, NEW pin \in Nat,
         Publishes(d, first, last, pin)
  PROVE  LET publication == [pin |-> pin, last |-> last, rows |-> Rows(d, first, last)] IN
         /\ publication \in Publications /\ pin <= Current(d)
         /\ chain' \in [Datasets -> Seq(Publications)]
         /\ HeadOf(d)' = HeadOf(d) + 1 /\ chain'[d][HeadOf(d) + 1] = publication
         /\ \A i \in 1 .. HeadOf(d) : chain'[d][i] = chain[d][i]
         /\ \A e \in Datasets \ {d} : chain'[e] = chain[e]
         /\ UNCHANGED <<states, receipts, tables, loads, work, metricVars>>
<1> DEFINE publication == [pin |-> pin, last |-> last, rows |-> Rows(d, first, last)]
<1>1. chain' = [chain EXCEPT ![d] = Append(@, publication)]
  BY DEF Publishes, Publish
<1>2. Rows(d, first, last) \in RowSets
  BY BatchRows DEF Publishes
<1>3. publication \in Publications
  BY <1>2 DEF Publications
<1>4. pin <= Current(d)
  BY CheckpointType DEF Publishes
<1> HIDE DEF publication
<1>5. chain[d] \in Seq(Publications)
  BY DEF DataInv
<1>6. chain'[d] = Append(chain[d], publication) /\ \A e \in Datasets \ {d} : chain'[e] = chain[e]
  BY <1>1 DEF DataInv
<1>7. chain' \in [Datasets -> Seq(Publications)]
  BY <1>1, <1>3 DEF DataInv
<1>8. Len(chain'[d]) = Len(chain[d]) + 1 /\ chain'[d][Len(chain[d]) + 1] = publication
      /\ \A i \in 1 .. Len(chain[d]) : chain'[d][i] = chain[d][i]
  BY <1>3, <1>5, <1>6
<1>9. UNCHANGED <<states, receipts, tables, loads, work, metricVars>>
  BY DEF Publishes, Publish
<1> QED BY <1>3, <1>4, <1>6, <1>7, <1>8, <1>9 DEF HeadOf, publication

(* What Pandas computes for a plan that is not ahead of the states.         *)
LEMMA PandasType ==
  ASSUME DataInv, NEW plan \in Plans, \A d \in Datasets : plan[d] <= Current(d)
  PROVE  PandasResult(plan) \in StoredOutputs
<1>1. ASSUME NEW d \in Datasets PROVE Content(d, plan[d]) \in RowSets
  <2>1. plan[d] \in Nat /\ plan[d] <= Current(d) /\ 1 \in Nat \ {0}
    BY DEF Plans
  <2>2. Rows(d, 1, plan[d]) \in RowSets
    BY <2>1, BatchRows
  <2> QED BY <2>2 DEF Content
<1>2. GoldRows(plan) \in [Datasets -> RowSets]
  BY <1>1 DEF GoldRows
<1> QED BY <1>2 DEF PandasResult, Result, StoredOutputs

(* What was published and what was accepted stays as it was.                *)
LEMMA PastStays ==
  ASSUME DataInv, Grows
  PROVE  /\ \A d \in Datasets : \A p \in 1 .. HeadOf(d) :
              /\ CompleteState(d, p)' = CompleteState(d, p)
              /\ (Ahead(d, p)' <=> Ahead(d, p)) /\ Rewound(d, p)' = Rewound(d, p)
         /\ \A d \in Datasets : \A n \in 0 .. Current(d) : Content(d, n)' = Content(d, n)
<1>1. ASSUME NEW d \in Datasets, NEW p \in 1 .. HeadOf(d)
      PROVE  /\ CompleteState(d, p)' = CompleteState(d, p)
             /\ (Ahead(d, p)' <=> Ahead(d, p)) /\ Rewound(d, p)' = Rewound(d, p)
  <2>0. HeadOf(d) \in Nat /\ p \in Nat
    BY CheckpointType
  <2>1. \A i \in 1 .. p : Candidate(d, i)' = Candidate(d, i) /\ chain'[d][i] = chain[d][i]
    BY <2>0 DEF Grows, Candidate
  <2> DEFINE whole == CompleteState(d, p)
             later == CompleteState(d, p)'
  <2>2. /\ whole = [k \in DOMAIN whole |-> whole[k]]
        /\ \A k : (k \in DOMAIN whole) <=> (\E i \in 1 .. p : k \in DOMAIN Candidate(d, i))
        /\ \A k \in DOMAIN whole : \E i \in 1 .. p :
             NewestHolder(d, p, k, i) /\ whole[k] = Candidate(d, i)[k]
    BY <2>0, Overlays DEF OverlayFacts
  <2>3. /\ later = [k \in DOMAIN later |-> later[k]]
        /\ \A k : (k \in DOMAIN later) <=> (\E i \in 1 .. p : k \in DOMAIN Candidate(d, i)')
        /\ \A k \in DOMAIN later : \E i \in 1 .. p :
             NewestHolder(d, p, k, i)' /\ later[k] = Candidate(d, i)'[k]
    BY <2>0, OverlaysNext DEF OverlayFacts
  <2> HIDE DEF whole, later
  <2>4. DOMAIN later = DOMAIN whole
    BY <2>1, <2>2, <2>3
  <2>5. ASSUME NEW k \in DOMAIN whole PROVE later[k] = whole[k]
    <3>1. PICK i \in 1 .. p : NewestHolder(d, p, k, i) /\ whole[k] = Candidate(d, i)[k]
      BY <2>2
    <3>2. PICK j \in 1 .. p : NewestHolder(d, p, k, j)' /\ later[k] = Candidate(d, j)'[k]
      BY <2>3, <2>4
    <3>3. i = j
      BY <2>1, <3>1, <3>2 DEF NewestHolder
    <3> QED BY <2>1, <3>1, <3>2, <3>3
  <2>6. later = whole
    BY <2>2, <2>3, <2>4, <2>5
  <2>7. Ahead(d, p)' <=> Ahead(d, p)
    BY <2>0, <2>1 DEF Ahead
  <2>8. \A i \in 1 .. p : \A k : Holding(d, i, k)' = Holding(d, i, k)
    BY <2>0, <2>1 DEF Holding, Lineage
  <2>9. \A i \in 1 .. p : \A k : TakesBack(d, i, k)' <=> TakesBack(d, i, k)
    <3> SUFFICES ASSUME NEW i \in 1 .. p, NEW k PROVE TakesBack(d, i, k)' <=> TakesBack(d, i, k)
      OBVIOUS
    <3>1. Holding(d, i, k) \subseteq 1 .. p
      BY <2>0 DEF Holding, Lineage
    <3>2. \A h \in Holding(d, i, k) : Candidate(d, h)' = Candidate(d, h)
      BY <2>1, <3>1
    <3>3. Candidate(d, i)' = Candidate(d, i) /\ Holding(d, i, k)' = Holding(d, i, k)
      BY <2>1, <2>8
    <3> QED BY <3>2, <3>3 DEF TakesBack, Corrects
  <2>10. Rewound(d, p)' = Rewound(d, p)
    <3>1. p \in 1 .. p
      BY <2>0
    <3>2. \A k : Holding(d, p, k) \subseteq 1 .. p /\ Holding(d, p, k)' = Holding(d, p, k)
      BY <2>8, <3>1 DEF Holding, Lineage
    <3> QED BY <2>9, <3>2 DEF Rewound
  <2> QED BY <2>6, <2>7, <2>10 DEF whole, later
<1>2. ASSUME NEW d \in Datasets, NEW n \in 0 .. Current(d)
      PROVE  Content(d, n)' = Content(d, n)
  <2>1. \A i \in 1 .. n : states'[d][i] = states[d][i]
    BY CheckpointType DEF Grows
  <2>2. ChangedIn(d, 1, n)' = ChangedIn(d, 1, n)
    BY <2>1 DEF ChangedIn
  <2>3. \A k : {i \in 1 .. n : k \in states'[d][i]} = {i \in 1 .. n : k \in states[d][i]}
    BY <2>1
  <2>4. \A k : LastChange(d, k, 1, n)' = LastChange(d, k, 1, n)
    BY <2>3 DEF LastChange, Changes
  <2> QED BY <2>2, <2>4 DEF Content, Rows
<1> QED BY <1>1, <1>2
-----------------------------------------------------------------------------
(* The data: types, and what may not run ahead of the accepted deliveries.  *)

LEMMA NothingMoves ==
  ASSUME DataInv, UNCHANGED <<states, chain>>
  PROVE  Grows
BY CheckpointType DEF Grows, Current, HeadOf

LEMMA AcceptGrows ==
  ASSUME DataInv, NEW d \in Datasets, NEW history \in Histories, Accept(d, history)
  PROVE  /\ Grows /\ states' \in [Datasets -> Seq(SUBSET Keys)]
         /\ UNCHANGED <<chain, receipts, tables, loads, work, metricVars>>
<1>1. /\ history \in Seq(SUBSET Keys) /\ states[d] \in Seq(SUBSET Keys)
      /\ Current(d) \in Nat /\ Current(d) < Len(history)
      /\ states[d] = SubSeq(history, 1, Current(d))
      /\ states' = [states EXCEPT ![d] = SubSeq(history, 1, Current(d) + 1)]
  BY BoundsAssumption DEF Accept, DataInv, Current
<1>2. states'[d] = SubSeq(history, 1, Current(d) + 1) /\ \A e \in Datasets \ {d} : states'[e] = states[e]
  BY <1>1 DEF DataInv
<1>3. /\ SubSeq(history, 1, Current(d) + 1) \in Seq(SUBSET Keys)
      /\ Len(SubSeq(history, 1, Current(d) + 1)) = Current(d) + 1
      /\ \A i \in 1 .. Current(d) + 1 : SubSeq(history, 1, Current(d) + 1)[i] = history[i]
      /\ \A i \in 1 .. Current(d) : SubSeq(history, 1, Current(d))[i] = history[i]
  BY <1>1
<1>4. Current(d)' = Current(d) + 1 /\ \A i \in 1 .. Current(d) : states'[d][i] = states[d][i]
  BY <1>1, <1>2, <1>3 DEF Current
<1>5. UNCHANGED <<chain, receipts, tables, loads, work, metricVars>>
  BY DEF Accept, warehouseVars
<1>6. states' \in [Datasets -> Seq(SUBSET Keys)]
  BY <1>1, <1>3 DEF DataInv
<1>7. Grows
  BY <1>1, <1>2, <1>4, <1>5, CheckpointType DEF Grows, Current, HeadOf
<1> QED BY <1>5, <1>6, <1>7

LEMMA PublicationGrows ==
  ASSUME DataInv, NEW d \in Datasets, NEW first \in Nat, NEW last \in Nat, NEW pin \in Nat,
         Publishes(d, first, last, pin)
  PROVE  Grows
<1>1. /\ HeadOf(d)' = HeadOf(d) + 1
      /\ \A i \in 1 .. HeadOf(d) : chain'[d][i] = chain[d][i]
      /\ \A e \in Datasets \ {d} : chain'[e] = chain[e]
      /\ states' = states
  BY PublicationAppends
<1>2. \A e \in Datasets : Current(e) \in Nat /\ HeadOf(e) \in Nat
  BY CheckpointType
<1>3. \A e \in Datasets \ {d} : HeadOf(e)' = HeadOf(e)
  BY <1>1 DEF HeadOf
<1> QED BY <1>1, <1>2, <1>3 DEF Grows, Current

(* The results: each attempt keeps its row and its plan.                    *)
ResultsKeep ==
    /\ results' \in Seq(MetricResults) /\ Len(results) <= Len(results')
    /\ \A r \in 1 .. Len(results) : results'[r].plan = results[r].plan
    /\ \A r \in 1 .. Len(results') : r \in 1 .. Len(results) \/ results'[r].plan = Plan

LEMMA AttemptRow ==
  ASSUME DataInv, RefreshInv, NEW c \in Refreshers, refresh[c] \notin {Idle, Ended}
  PROVE  /\ refresh[c].attempt \in 1 .. Len(results)
         /\ results[refresh[c].attempt] \in MetricResults
         /\ refresh[c].plan = results[refresh[c].attempt].plan /\ refresh[c].plan \in Plans
         /\ \A d \in Datasets : refresh[c].plan[d] <= Current(d)
<1>1. /\ refresh[c].attempt \in 1 .. Len(results)
      /\ refresh[c].plan = results[refresh[c].attempt].plan
  BY DEF RefreshInv, Follows
<1>2. results[refresh[c].attempt] \in MetricResults
  BY <1>1 DEF DataInv
<1> QED BY <1>1, <1>2 DEF DataInv, MetricResults

LEMMA OutputIsPandas ==
  ASSUME NEW c \in Refreshers
  PROVE  Output(c) = PandasResult(refresh[c].plan)
BY DEF Output, Promotable

LEMMA BeginAppends ==
  ASSUME DataInv, NEW c \in Refreshers, BeginRefresh(c)
  PROVE  /\ ResultsKeep /\ Len(results') = Len(results) + 1
         /\ results'[Len(results) + 1] = [plan |-> Plan, status |-> "COMPUTING", output |-> NoAnswer]
         /\ \A r \in 1 .. Len(results) : results'[r].output = results[r].output
              /\ (results'[r].status = "FRESH" <=> results[r].status = "FRESH")
         /\ Plan \in Plans /\ \A d \in Datasets : Plan[d] <= Current(d)
<1>1. results \in Seq(MetricResults) /\ \A r \in 1 .. Len(results) : results[r] \in MetricResults
  BY DEF DataInv
<1>2. \A r \in 1 .. Len(results) :
        /\ Interrupted[r] \in MetricResults
        /\ Interrupted[r].plan = results[r].plan /\ Interrupted[r].output = results[r].output
        /\ (Interrupted[r].status = "FRESH" <=> results[r].status = "FRESH")
  BY <1>1 DEF Interrupted, MetricResults
<1>3. Interrupted \in Seq(MetricResults) /\ Len(Interrupted) = Len(results)
  <2>1. Interrupted \in [1 .. Len(results) -> MetricResults] /\ Len(results) \in Nat
    BY <1>1, <1>2 DEF Interrupted
  <2> QED BY <2>1
<1>4. Plan \in Plans /\ \A d \in Datasets : Plan[d] <= Current(d)
  BY CheckpointType DEF Plan, Plans
<1> DEFINE row == [plan |-> Plan, status |-> "COMPUTING", output |-> NoAnswer]
<1>5. row \in MetricResults
  BY <1>4 DEF MetricResults, StoredOutputs
<1>6. results' = Append(Interrupted, row)
  BY DEF BeginRefresh
<1> HIDE DEF row
<1>7. /\ results' \in Seq(MetricResults) /\ Len(results') = Len(results) + 1
      /\ results'[Len(results) + 1] = row
      /\ \A r \in 1 .. Len(results) : results'[r] = Interrupted[r]
  BY <1>1, <1>3, <1>5, <1>6
<1> QED BY <1>1, <1>2, <1>4, <1>7 DEF ResultsKeep, row

(* The other steps that touch results close an attempt or store its output. *)
LEMMA RowReplaced ==
  ASSUME DataInv, NEW r \in 1 .. Len(results), NEW row \in MetricResults,
         row.plan = results[r].plan, results' = [results EXCEPT ![r] = row]
  PROVE  /\ ResultsKeep /\ Len(results') = Len(results) /\ results'[r] = row
         /\ \A q \in 1 .. Len(results) : q # r => results'[q] = results[q]
<1>1. results \in Seq(MetricResults)
  BY DEF DataInv
<1>2. results' \in Seq(MetricResults) /\ Len(results') = Len(results)
  BY <1>1
<1> QED BY <1>1, <1>2 DEF ResultsKeep

LEMMA CommitStores ==
  ASSUME DataInv, RefreshInv, NEW c \in Refreshers, Commit(c),
         results[refresh[c].attempt].status = "COMPUTING"
  PROVE  LET row == [plan |-> refresh[c].plan, status |-> "FRESH",
                     output |-> PandasResult(refresh[c].plan)]
         IN  /\ row \in MetricResults
             /\ results' = [results EXCEPT ![refresh[c].attempt] = row]
<1> DEFINE r == refresh[c].attempt
           row == [plan |-> refresh[c].plan, status |-> "FRESH",
                   output |-> PandasResult(refresh[c].plan)]
<1>1. refresh[c] \notin {Idle, Ended}
  BY DEF Commit, ReadyToCommit, Idle, Ended
<1>2. /\ r \in 1 .. Len(results) /\ results[r] \in MetricResults
      /\ refresh[c].plan = results[r].plan /\ refresh[c].plan \in Plans
      /\ \A d \in Datasets : refresh[c].plan[d] <= Current(d)
  BY <1>1, AttemptRow
<1>3. PandasResult(refresh[c].plan) \in StoredOutputs
  BY <1>2, PandasType
<1>4. results' = [results EXCEPT ![r].status = "FRESH", ![r].output = PandasResult(refresh[c].plan)]
  BY OutputIsPandas DEF Commit
<1> DEFINE output == PandasResult(refresh[c].plan)
<1>5. row \in MetricResults
  BY <1>2, <1>3 DEF MetricResults
<1> HIDE DEF output
<1>6. [[results[r] EXCEPT !.status = "FRESH"] EXCEPT !.output = output]
        = [plan |-> results[r].plan, status |-> "FRESH", output |-> output]
  <2>1. ASSUME NEW old \in MetricResults, NEW value
        PROVE  [[old EXCEPT !.status = "FRESH"] EXCEPT !.output = value]
                 = [plan |-> old.plan, status |-> "FRESH", output |-> value]
    <3>1. old = [plan |-> old.plan, status |-> old.status, output |-> old.output]
      BY DEF MetricResults
    <3>2. [old EXCEPT !.status = "FRESH"]
            = [plan |-> old.plan, status |-> "FRESH", output |-> old.output]
      BY <3>1
    <3>3. ASSUME NEW plan, NEW stored
          PROVE  [[plan |-> plan, status |-> "FRESH", output |-> stored] EXCEPT !.output = value]
                   = [plan |-> plan, status |-> "FRESH", output |-> value]
      OBVIOUS
    <3>4. [[plan |-> old.plan, status |-> "FRESH", output |-> old.output] EXCEPT !.output = value]
            = [plan |-> old.plan, status |-> "FRESH", output |-> value]
      BY <3>3
    <3> QED BY <3>2, <3>4, Zenon
  <2> QED BY <1>2, <2>1
<1>7. results' = [results EXCEPT ![r] = [[results[r] EXCEPT !.status = "FRESH"] EXCEPT !.output = output]]
  BY <1>2, <1>4 DEF DataInv, output
<1> QED BY <1>2, <1>5, <1>6, <1>7 DEF output

LEMMA FailureStores ==
  ASSUME DataInv, RefreshInv, NEW c \in Refreshers, FailAttempt(c),
         results[refresh[c].attempt].status = "COMPUTING"
  PROVE  LET row == [results[refresh[c].attempt] EXCEPT !.status = "FAILED"]
         IN  /\ row \in MetricResults /\ row.plan = results[refresh[c].attempt].plan
             /\ row.status = "FAILED"
             /\ results' = [results EXCEPT ![refresh[c].attempt] = row]
<1>1. refresh[c] \notin {Idle, Ended}
  BY DEF FailAttempt, Idle, Ended
<1>2. /\ refresh[c].attempt \in 1 .. Len(results)
      /\ results[refresh[c].attempt] \in MetricResults
  BY <1>1, AttemptRow
<1>3. results' = [results EXCEPT ![refresh[c].attempt].status = "FAILED"]
  BY DEF FailAttempt
<1>4. results \in Seq(MetricResults)
  BY DEF DataInv
<1> QED BY <1>2, <1>3, <1>4 DEF MetricResults

LEMMA ResultsStep ==
  ASSUME DataInv, RefreshInv, [Next]_vars
  PROVE  ResultsKeep
<1>1. ASSUME results' = results PROVE ResultsKeep
  BY <1>1 DEF ResultsKeep, DataInv
<1>2. ASSUME NEW c \in Refreshers, Commit(c) PROVE ResultsKeep
  <2>1. CASE results[refresh[c].attempt].status = "COMPUTING"
    <3>1. refresh[c] \notin {Idle, Ended}
      BY <1>2 DEF Commit, ReadyToCommit, Idle, Ended
    <3>2. /\ refresh[c].attempt \in 1 .. Len(results)
          /\ refresh[c].plan = results[refresh[c].attempt].plan
      BY <3>1, AttemptRow
    <3> QED BY <1>2, <2>1, <3>2, CommitStores, RowReplaced
  <2>2. CASE results[refresh[c].attempt].status # "COMPUTING"
    BY <1>1, <1>2, <2>2 DEF Commit
  <2> QED BY <2>1, <2>2
<1>3. ASSUME NEW c \in Refreshers, FailAttempt(c) PROVE ResultsKeep
  <2>1. CASE results[refresh[c].attempt].status = "COMPUTING"
    <3>1. refresh[c] \notin {Idle, Ended}
      BY <1>3 DEF FailAttempt, Idle, Ended
    <3>2. refresh[c].attempt \in 1 .. Len(results)
      BY <3>1, AttemptRow
    <3> QED BY <1>3, <2>1, <3>2, FailureStores, RowReplaced
  <2>2. CASE results[refresh[c].attempt].status # "COMPUTING"
    BY <1>1, <1>3, <2>2 DEF FailAttempt
  <2> QED BY <2>1, <2>2
<1>4. ASSUME NEW c \in Refreshers, BeginRefresh(c) PROVE ResultsKeep
  BY <1>4, BeginAppends
<1>5. ASSUME NEW c \in Refreshers,
             \/ BindSources(c) \/ Ineligible(c) \/ AskWarehouse(c) \/ Refused(c)
             \/ EndRefresh(c) \/ LoseLock(c)
      PROVE  results' = results
  BY <1>5 DEF BindSources, Ineligible, AskWarehouse, Refused, EndRefresh, LoseLock
<1>6. ASSUME NEW m \in Materializers, Materialize(m) PROVE results' = results
  BY <1>6 DEF Materialize, Capture, Load, Await, Record, metricVars
<1>7. ASSUME NEW id \in Identities, RunLoad(id) PROVE results' = results
  BY <1>7 DEF RunLoad, metricVars
<1>8. ASSUME NEW d \in Datasets, Source(d) PROVE results' = results
  BY <1>8 DEF Source, Accept, RefreshGold, PublishIncremental, PublishHistory, Publish, metricVars
<1>9. ASSUME UNCHANGED vars PROVE results' = results
  BY <1>9 DEF vars, metricVars
<1> QED
  BY <1>1, <1>2, <1>3, <1>4, <1>5, <1>6, <1>7, <1>8, <1>9 DEF Next, Refresh

LEMMA WorldStep ==
  ASSUME DataInv, ServingInv, [Next]_vars
  PROVE  /\ Grows
         /\ states' \in [Datasets -> Seq(SUBSET Keys)]
         /\ chain' \in [Datasets -> Seq(Publications)]
         /\ receipts' \in [Datasets -> SUBSET Nat]
         /\ \A d \in Datasets : \A p \in 1 .. HeadOf(d)' :
              chain'[d][p].last <= Current(d)' /\ chain'[d][p].pin <= Current(d)'
<1> DEFINE Goal == /\ Grows
                   /\ states' \in [Datasets -> Seq(SUBSET Keys)]
                   /\ chain' \in [Datasets -> Seq(Publications)]
                   /\ receipts' \in [Datasets -> SUBSET Nat]
                   /\ \A d \in Datasets : \A p \in 1 .. HeadOf(d)' :
                        chain'[d][p].last <= Current(d)' /\ chain'[d][p].pin <= Current(d)'
<1>0. \A d \in Datasets : Current(d) \in Nat /\ HeadOf(d) \in Nat
  BY CheckpointType
<1>t. \A d \in Datasets : \A p \in 1 .. HeadOf(d) :
        /\ chain[d][p].last \in Nat /\ chain[d][p].pin \in Nat
        /\ chain[d][p].last <= Current(d) /\ chain[d][p].pin <= Current(d)
  <2>1. \A d \in Datasets : \A p \in 1 .. HeadOf(d) : chain[d][p] \in Publications
    BY DEF DataInv, HeadOf
  <2> QED BY <2>1 DEF DataInv, Publications
<1>1. ASSUME UNCHANGED <<states, chain>>, receipts' \in [Datasets -> SUBSET Nat]
      PROVE  Goal
  BY <1>1, <1>t, NothingMoves DEF DataInv, HeadOf, Current
<1>2. ASSUME NEW d \in Datasets, NEW history \in Histories, Accept(d, history)
      PROVE  Goal
  <2>1. /\ Grows /\ states' \in [Datasets -> Seq(SUBSET Keys)]
        /\ chain' = chain /\ receipts' = receipts
    BY <1>2, AcceptGrows
  <2>2. \A e \in Datasets : Current(e)' \in Nat /\ Current(e) <= Current(e)'
    BY <2>1 DEF Grows, Current
  <2>3. \A e \in Datasets : HeadOf(e)' = HeadOf(e)
    BY <2>1 DEF HeadOf
  <2>4. \A e \in Datasets : \A p \in 1 .. HeadOf(e)' :
           chain'[e][p].last <= Current(e)' /\ chain'[e][p].pin <= Current(e)'
    BY <1>0, <1>t, <2>1, <2>2, <2>3
  <2> QED BY <2>1, <2>4 DEF DataInv
<1>3. ASSUME NEW d \in Datasets, NEW first \in Nat, NEW last \in Nat, NEW pin \in Nat,
             Publishes(d, first, last, pin)
      PROVE  Goal
  <2>1. /\ chain' \in [Datasets -> Seq(Publications)] /\ pin <= Current(d) /\ last <= Current(d)
        /\ HeadOf(d)' = HeadOf(d) + 1
        /\ chain'[d][HeadOf(d) + 1] = [pin |-> pin, last |-> last, rows |-> Rows(d, first, last)]
        /\ \A i \in 1 .. HeadOf(d) : chain'[d][i] = chain[d][i]
        /\ \A e \in Datasets \ {d} : chain'[e] = chain[e]
        /\ states' = states /\ receipts' = receipts
    BY <1>3, PublicationAppends DEF Publishes
  <2>2. \A e \in Datasets : Current(e)' = Current(e)
    BY <2>1 DEF Current
  <2>3. \A e \in Datasets \ {d} : HeadOf(e)' = HeadOf(e)
    BY <2>1 DEF HeadOf
  <2>4. \A e \in Datasets \ {d} : \A p \in 1 .. HeadOf(e)' :
           chain'[e][p].last <= Current(e)' /\ chain'[e][p].pin <= Current(e)'
    BY <1>t, <2>1, <2>2, <2>3
  <2>5. ASSUME NEW p \in 1 .. HeadOf(d)'
        PROVE  chain'[d][p].last <= Current(d)' /\ chain'[d][p].pin <= Current(d)'
    <3>1. p \in 1 .. HeadOf(d) \/ p = HeadOf(d) + 1
      BY <1>0, <2>1, <2>5
    <3>2. CASE p \in 1 .. HeadOf(d)
      <4>1. chain'[d][p] = chain[d][p]
        BY <2>1, <3>2
      <4> QED BY <1>t, <2>2, <3>2, <4>1
    <3>3. CASE p = HeadOf(d) + 1
      <4>1. chain'[d][p].last = last /\ chain'[d][p].pin = pin
        BY <2>1, <3>3
      <4> QED BY <2>1, <2>2, <4>1
    <3> QED BY <3>1, <3>2, <3>3
  <2>6. Grows
    BY <1>3, PublicationGrows
  <2> QED BY <2>1, <2>4, <2>5, <2>6 DEF DataInv
<1>4. ASSUME NEW d \in Datasets, Source(d) PROVE Goal
  <2>1. CASE \E history \in Histories : Accept(d, history)
    BY <1>2, <2>1
  <2>2. CASE RefreshGold(d)
    BY <1>1, <2>2 DEF RefreshGold, warehouseVars, DataInv
  <2>3. CASE \/ \E last \in 1 .. Current(d) : PublishIncremental(d, last)
             \/ \E last \in 1 .. Current(d) : \E first \in 1 .. last : PublishHistory(d, first, last)
    <3>1. PICK first \in Nat, last \in Nat, pin \in Nat : Publishes(d, first, last, pin)
      BY <2>3, SourcePublishes
    <3> QED BY <1>3, <3>1
  <2> QED BY <1>4, <2>1, <2>2, <2>3 DEF Source
<1>5. ASSUME NEW m \in Materializers, Materialize(m) PROVE Goal
  <2>1. CASE (\E d \in Datasets : Capture(m, d)) \/ Load(m) \/ Await(m)
    BY <1>1, <2>1 DEF Capture, Load, Await, DataInv
  <2>2. CASE Record(m)
    <3>1. CASE StillHead(work[m].id)
      <4>1. work[m] # Idle
        BY <2>2 DEF Record, Idle
      <4>2. Published(work[m].id)
        BY <2>2, <4>1 DEF ServingInv, Asks
      <4>3. work[m].id.dataset \in Datasets /\ work[m].id.publication \in Nat
        BY <4>2 DEF Published
      <4>4. receipts' = [receipts EXCEPT ![work[m].id.dataset] = @ \union {work[m].id.publication}]
        BY <2>2, <3>1 DEF Record
      <4>5. receipts' \in [Datasets -> SUBSET Nat]
        BY <4>3, <4>4 DEF DataInv
      <4> QED BY <1>1, <2>2, <4>5 DEF Record
    <3>2. CASE ~StillHead(work[m].id)
      BY <1>1, <2>2, <3>2 DEF Record, DataInv
    <3> QED BY <3>1, <3>2
  <2> QED BY <1>5, <2>1, <2>2 DEF Materialize
<1>6. ASSUME NEW id \in Identities, RunLoad(id) PROVE Goal
  BY <1>1, <1>6 DEF RunLoad, DataInv
<1>7. ASSUME NEW c \in Refreshers, Refresh(c) PROVE Goal
  BY <1>1, <1>7 DEF Refresh, BeginRefresh, FailAttempt, BindSources, Ineligible, AskWarehouse,
                    Refused, Commit, EndRefresh, LoseLock, warehouseVars, DataInv
<1>8. ASSUME UNCHANGED vars PROVE Goal
  BY <1>1, <1>8 DEF vars, warehouseVars, DataInv
<1> QED BY <1>4, <1>5, <1>6, <1>7, <1>8 DEF Next

LEMMA DataStep ==
  ASSUME DataInv, ServingInv, RefreshInv, [Next]_vars
  PROVE  DataInv' /\ Grows /\ ResultsKeep
<1>1. ResultsKeep
  BY ResultsStep
<1>2. /\ Grows
      /\ states' \in [Datasets -> Seq(SUBSET Keys)]
      /\ chain' \in [Datasets -> Seq(Publications)]
      /\ receipts' \in [Datasets -> SUBSET Nat]
      /\ \A d \in Datasets : \A p \in 1 .. HeadOf(d)' :
           chain'[d][p].last <= Current(d)' /\ chain'[d][p].pin <= Current(d)'
  BY WorldStep
<1>3. ASSUME NEW r \in 1 .. Len(results'), NEW d \in Datasets
      PROVE  results'[r].plan[d] <= Current(d)'
  <2>1. Current(d) \in Nat /\ Current(d)' \in Nat /\ Current(d) <= Current(d)'
    BY <1>2, CheckpointType DEF Grows, Current
  <2>2. CASE r \in 1 .. Len(results)
    <3>1. results'[r].plan[d] = results[r].plan[d] /\ results[r].plan[d] <= Current(d)
      BY <1>1, <2>2 DEF ResultsKeep, DataInv
    <3>2. results[r].plan[d] \in Nat
      <4>1. results[r] \in MetricResults
        BY <2>2 DEF DataInv
      <4> QED BY <4>1 DEF MetricResults, Plans
    <3> QED BY <2>1, <3>1, <3>2
  <2>3. CASE results'[r].plan = Plan
    BY <2>1, <2>3 DEF Plan
  <2> QED BY <1>1, <2>2, <2>3 DEF ResultsKeep
<1> QED BY <1>1, <1>2, <1>3 DEF DataInv, ResultsKeep
-----------------------------------------------------------------------------
(* The chain: what an overlay holds of its pin.                             *)

LEMMA OverlayGrows ==
  ASSUME DataInv, ChainInv, NEW d \in Datasets, NEW p \in Nat, p = HeadOf(d),
         NEW first \in Nat, NEW last \in Nat, NEW pin \in Nat, Publishes(d, first, last, pin)
  PROVE  HoldsItsPin(d, p + 1)'
<1> DEFINE rows == Rows(d, first, last)
           prior == CompleteState(d, p)
           whole == CompleteState(d, p + 1)'
<1>0. /\ Current(d) \in Nat /\ Checkpoint(d) \in Nat
      /\ Checkpoint(d) # 0 => p \in 1 .. p /\ Checkpoint(d) = chain[d][p].pin
  BY CheckpointType
<1>1. /\ first \in Nat \ {0} /\ first <= last /\ last <= Current(d)
      /\ (first = Checkpoint(d) + 1 /\ pin = last) \/ pin = Checkpoint(d)
      /\ Compiles(d, first, last)
  BY DEF Publishes
<1>2. /\ chain'[d][p + 1] = [pin |-> pin, last |-> last, rows |-> rows]
      /\ \A i \in 1 .. p : chain'[d][i] = chain[d][i]
      /\ states' = states
  <2>1. /\ chain'[d][HeadOf(d) + 1] = [pin |-> pin, last |-> last, rows |-> Rows(d, first, last)]
        /\ \A i \in 1 .. HeadOf(d) : chain'[d][i] = chain[d][i]
        /\ states' = states
    <3> HIDE DEF rows, prior, whole
    <3> QED BY PublicationAppends
  <2>2. QED
    BY <2>1
<1>3. /\ DOMAIN rows = ChangedIn(d, first, last)
      /\ \A k \in DOMAIN rows :
           /\ rows[k] \in first .. last /\ k \in states[d][rows[k]]
           /\ \A n \in first .. last : k \in states[d][n] => n <= rows[k]
  BY <1>1, BatchRows
<1>4. /\ \A k : (k \in DOMAIN prior) <=> (\E i \in 1 .. p : k \in DOMAIN Candidate(d, i))
      /\ \A k \in DOMAIN prior : \E i \in 1 .. p :
           NewestHolder(d, p, k, i) /\ prior[k] = Candidate(d, i)[k]
  BY Overlays DEF OverlayFacts
<1>5. /\ \A k : (k \in DOMAIN whole) <=> (\E i \in 1 .. p + 1 : k \in DOMAIN Candidate(d, i)')
      /\ \A k \in DOMAIN whole : \E i \in 1 .. p + 1 :
           NewestHolder(d, p + 1, k, i)' /\ whole[k] = Candidate(d, i)'[k]
  <2>1. p + 1 \in Nat
    OBVIOUS
  <2> QED BY <2>1, OverlaysNext DEF OverlayFacts
<1>6. /\ \A i \in 1 .. p : Candidate(d, i)' = Candidate(d, i)
      /\ Candidate(d, p + 1)' = rows
  BY <1>2 DEF Candidate
<1>7. p = 0 \/ HoldsItsPin(d, p)
  BY DEF ChainInv
<1> HIDE DEF rows, prior, whole
(* The batch is laid over what was published.                               *)
<1>8. ASSUME NEW k PROVE (k \in DOMAIN whole) <=> (k \in DOMAIN rows \/ k \in DOMAIN prior)
  <2>1. (k \in DOMAIN whole) <=> (\E i \in 1 .. p + 1 : k \in DOMAIN Candidate(d, i)')
    BY <1>5
  <2>2. (k \in DOMAIN prior) <=> (\E i \in 1 .. p : k \in DOMAIN Candidate(d, i))
    BY <1>4
  <2>3. \A i \in 1 .. p + 1 : i \in 1 .. p \/ i = p + 1
    OBVIOUS
  <2> QED BY <1>6, <2>1, <2>2, <2>3
<1>9. ASSUME NEW k \in DOMAIN rows PROVE whole[k] = rows[k]
  <2>1. PICK i \in 1 .. p + 1 : NewestHolder(d, p + 1, k, i)' /\ whole[k] = Candidate(d, i)'[k]
    BY <1>5, <1>8, <1>9
  <2>2. p + 1 <= i
    BY <1>6, <1>9, <2>1 DEF NewestHolder
  <2> QED BY <1>6, <2>1, <2>2
<1>10. ASSUME NEW k \in DOMAIN prior, k \notin DOMAIN rows PROVE whole[k] = prior[k]
  <2>1. PICK i \in 1 .. p + 1 : NewestHolder(d, p + 1, k, i)' /\ whole[k] = Candidate(d, i)'[k]
    BY <1>5, <1>8, <1>10
  <2>2. PICK j \in 1 .. p : NewestHolder(d, p, k, j) /\ prior[k] = Candidate(d, j)[k]
    BY <1>4, <1>10
  <2>3. i # p + 1
    BY <1>6, <1>10, <2>1 DEF NewestHolder
  <2>4. i \in 1 .. p /\ k \in DOMAIN Candidate(d, i)
    BY <1>6, <2>1, <2>3 DEF NewestHolder
  <2>5. i <= j
    BY <2>2, <2>4 DEF NewestHolder
  <2>6. j <= i
    BY <1>6, <2>1, <2>2 DEF NewestHolder
  <2>7. i = j
    BY <2>4, <2>5, <2>6
  <2> QED BY <1>6, <2>1, <2>2, <2>7
(* What was held before, and what a batch may put over it.                  *)
<1>11. ASSUME NEW k \in DOMAIN prior
       PROVE  /\ \E i \in 1 .. p : prior[k] <= chain[d][i].last
              /\ prior[k] \in 1 .. Current(d) /\ k \in states[d][prior[k]]
              /\ Wins(d, p, k, prior[k])
  <2>1. p # 0
    BY <1>4, <1>11
  <2> QED BY <1>7, <1>11, <2>1 DEF HoldsItsPin, prior
<1>12. ASSUME NEW k \in Keys, NEW n \in 1 .. Checkpoint(d), k \in states[d][n]
       PROVE  Reaches(d, p + 1, k, n)'
  <2>1. Checkpoint(d) # 0 /\ p # 0
    BY <1>0
  <2>2. Reaches(d, p, k, n)
    BY <1>0, <1>7, <1>12, <2>1 DEF HoldsItsPin, prior
  <2>3. PICK i \in 1 .. p : k \in DOMAIN Candidate(d, i) /\ Candidate(d, i)[k] >= n
    BY <2>2 DEF Reaches
  <2>4. i \in 1 .. p + 1 /\ Candidate(d, i)' = Candidate(d, i)
    BY <1>6
  <2> QED BY <2>3, <2>4 DEF Reaches
<1>13. \A k : \A i \in 1 .. p : k \in DOMAIN Candidate(d, i) => Candidate(d, i)[k] \in Nat
  <2>1. \A i \in 1 .. p : chain[d][i] \in Publications
    BY DEF DataInv, HeadOf
  <2> QED BY <2>1 DEF Candidate, Publications, RowSets
<1>14. ASSUME NEW k \in DOMAIN rows
       PROVE  \/ \A i \in 1 .. p : k \in DOMAIN Candidate(d, i) => Candidate(d, i)[k] <= rows[k]
              \/ d \in Dimensions /\ Corrects(d, rows[k])
  <2>1. k \in ChangedIn(d, first, last) /\ rows[k] \in Changes(d, k, first, last) /\ rows[k] \in Nat
    BY <1>3, <1>14 DEF Changes
  <2>2. CASE k \notin DOMAIN prior
    BY <1>4, <2>2
  <2>3. CASE k \in DOMAIN prior /\ d \notin Dimensions
    <3>1. rows[k] >= prior[k]
      BY <1>1, <2>1, <2>3 DEF Compiles, FactCompiles, prior
    <3>2. \A i \in 1 .. p : k \in DOMAIN Candidate(d, i) => Candidate(d, i)[k] <= prior[k]
      BY <1>11, <2>3 DEF Wins
    <3> QED BY <1>11, <1>13, <2>1, <2>3, <3>1, <3>2
  <2>4. CASE k \in DOMAIN prior /\ d \in Dimensions
    <3>1. \/ Corrects(d, rows[k])
          \/ \A i \in Holding(d, p, k) : rows[k] > Candidate(d, i)[k]
          \/ rows[k] = prior[k]
      BY <1>1, <2>1, <2>4 DEF Compiles, DimensionCompiles, prior
    <3>2. CASE \A i \in Holding(d, p, k) : rows[k] > Candidate(d, i)[k]
      BY <1>13, <2>1, <3>2 DEF Holding, Lineage
    <3>3. CASE rows[k] = prior[k]
      BY <1>11, <2>4, <3>3 DEF Wins
    <3> QED BY <2>4, <3>1, <3>2, <3>3
  <2> QED BY <2>2, <2>3, <2>4
<1>15. ASSUME NEW k \in DOMAIN whole
       PROVE  /\ \E i \in 1 .. p + 1 : whole[k] <= chain'[d][i].last
              /\ whole[k] \in 1 .. Current(d) /\ k \in states[d][whole[k]]
              /\ \/ \A i \in 1 .. p + 1 : k \in DOMAIN Candidate(d, i)' => Candidate(d, i)'[k] <= whole[k]
                 \/ d \in Dimensions /\ Corrects(d, whole[k])
  <2>0. \A i \in 1 .. p + 1 : i \in 1 .. p \/ i = p + 1
    OBVIOUS
  <2>1. CASE k \in DOMAIN rows
    <3>1. whole[k] <= chain'[d][p + 1].last
      BY <1>2, <1>3, <1>9, <2>1
    <3>2. whole[k] \in 1 .. Current(d) /\ k \in states[d][whole[k]]
      BY <1>0, <1>1, <1>3, <1>9, <2>1
    <3>3. \/ \A i \in 1 .. p + 1 : k \in DOMAIN Candidate(d, i)' => Candidate(d, i)'[k] <= rows[k]
          \/ d \in Dimensions /\ Corrects(d, rows[k])
      <4>1. rows[k] <= rows[k]
        BY <1>3, <2>1
      <4> QED BY <1>6, <1>14, <2>0, <2>1, <4>1
    <3>4. whole[k] = rows[k]
      BY <1>9, <2>1
    <3> QED BY <3>1, <3>2, <3>3, <3>4
  <2>2. CASE k \notin DOMAIN rows
    <3>1. k \in DOMAIN prior /\ whole[k] = prior[k]
      BY <1>8, <1>10, <1>15, <2>2
    <3>2. PICK i \in 1 .. p : prior[k] <= chain[d][i].last
      BY <1>11, <3>1
    <3>3. i \in 1 .. p + 1 /\ whole[k] <= chain'[d][i].last
      BY <1>2, <3>1, <3>2
    <3>4. \/ \A j \in 1 .. p + 1 : k \in DOMAIN Candidate(d, j)' => Candidate(d, j)'[k] <= prior[k]
          \/ d \in Dimensions /\ Corrects(d, prior[k])
      BY <1>6, <1>11, <2>0, <2>2, <3>1 DEF Wins
    <3> QED BY <1>11, <3>1, <3>3, <3>4
  <2> QED BY <2>1, <2>2
<1>16. ASSUME NEW k \in Keys, NEW n \in 1 .. pin, k \in states[d][n]
       PROVE  Reaches(d, p + 1, k, n)'
  <2>1. CASE n \in 1 .. Checkpoint(d)
    BY <1>12, <1>16, <2>1
  <2>2. CASE n \notin 1 .. Checkpoint(d)
    <3>1. n \in first .. last
      BY <1>0, <1>1, <2>2
    <3>2. k \in DOMAIN rows /\ n <= rows[k] /\ rows[k] \in Nat
      BY <1>3, <1>16, <3>1 DEF ChangedIn
    <3>3. p + 1 \in 1 .. p + 1
      OBVIOUS
    <3> QED BY <1>6, <3>2, <3>3 DEF Reaches
  <2> QED BY <2>1, <2>2
<1> QED BY <1>2, <1>15, <1>16 DEF HoldsItsPin, Wins, Corrects, Current, whole

LEMMA PinStays ==
  ASSUME DataInv, DataInv', Grows, ChainInv, NEW d \in Datasets, NEW p \in 1 .. HeadOf(d)
  PROVE  HoldsItsPin(d, p)'
<1> DEFINE whole == CompleteState(d, p)
           later == CompleteState(d, p)'
<1>1. HoldsItsPin(d, p)
  BY DEF ChainInv
<1>2. later = whole
  BY PastStays
<1>3. /\ Current(d) \in Nat /\ HeadOf(d) \in Nat /\ Current(d)' \in Nat /\ Current(d) <= Current(d)'
      /\ \A i \in 1 .. Current(d) : states'[d][i] = states[d][i]
      /\ \A i \in 1 .. p : chain'[d][i] = chain[d][i]
  <2>1. Current(d) \in Nat /\ HeadOf(d) \in Nat
    BY CheckpointType
  <2>2. Current(d)' \in Nat
    BY DEF DataInv, Current
  <2> QED BY <2>1, <2>2 DEF Grows
<1>2c. \A i \in 1 .. p : Candidate(d, i)' = Candidate(d, i)
  BY <1>3 DEF Candidate
<1>4. chain[d][p].pin \in Nat /\ chain[d][p].pin <= Current(d)
  <2>1. chain[d][p] \in Publications
    BY DEF DataInv, HeadOf
  <2> QED BY <2>1 DEF DataInv, Publications
<1> HIDE DEF whole, later
<1>5. ASSUME NEW k \in DOMAIN whole
      PROVE  /\ \E i \in 1 .. p : whole[k] <= chain'[d][i].last
             /\ whole[k] \in 1 .. Current(d)' /\ k \in states'[d][whole[k]]
             /\ \/ \A i \in 1 .. p : k \in DOMAIN Candidate(d, i)' => Candidate(d, i)'[k] <= whole[k]
                \/ d \in Dimensions /\ Corrects(d, whole[k])
  <2>1. /\ \E i \in 1 .. p : whole[k] <= chain[d][i].last
        /\ whole[k] \in 1 .. Current(d) /\ k \in states[d][whole[k]]
        /\ Wins(d, p, k, whole[k])
    BY <1>1, <1>5 DEF HoldsItsPin, whole
  <2> QED BY <1>2c, <1>3, <2>1 DEF Wins
<1>6. ASSUME NEW k \in Keys, NEW n \in 1 .. chain'[d][p].pin, k \in states'[d][n]
      PROVE  Reaches(d, p, k, n)'
  <2>1. n \in 1 .. chain[d][p].pin /\ n \in 1 .. Current(d)
    BY <1>3, <1>4
  <2>2. k \in states[d][n]
    BY <1>3, <1>6, <2>1
  <2>3. Reaches(d, p, k, n)
    BY <1>1, <1>6, <2>1, <2>2 DEF HoldsItsPin
  <2> QED BY <1>2c, <2>3 DEF Reaches
<1> QED BY <1>2, <1>5, <1>6 DEF HoldsItsPin, Wins, Corrects, later

LEMMA ChainStep ==
  ASSUME DataInv, DataInv', ServingInv, ChainInv, Grows, [Next]_vars
  PROVE  ChainInv'
<1>1. ASSUME chain' = chain PROVE ChainInv'
  <2>1. \A d \in Datasets : HeadOf(d)' = HeadOf(d)
    BY <1>1 DEF HeadOf
  <2> QED BY <2>1, PinStays DEF ChainInv
<1>2. ASSUME NEW d \in Datasets, NEW first \in Nat, NEW last \in Nat, NEW pin \in Nat,
             Publishes(d, first, last, pin)
      PROVE  ChainInv'
  <2>1. /\ HeadOf(d)' = HeadOf(d) + 1
        /\ \A e \in Datasets \ {d} : chain'[e] = chain[e]
    BY <1>2, PublicationAppends
  <2>2. PICK p \in Nat : p = HeadOf(d)
    BY CheckpointType
  <2>3. HoldsItsPin(d, p + 1)'
    BY <1>2, <2>2, OverlayGrows
  <2>4. ASSUME NEW e \in Datasets, NEW q \in 1 .. HeadOf(e)' PROVE HoldsItsPin(e, q)'
    <3>1. q \in 1 .. HeadOf(e) \/ (e = d /\ q = p + 1)
      BY <2>1, <2>2, <2>4 DEF HeadOf
    <3> QED BY <2>3, <3>1, PinStays
  <2> QED BY <2>4 DEF ChainInv
<1>3. ASSUME NEW d \in Datasets, Source(d) PROVE ChainInv'
  <2>1. CASE (\E history \in Histories : Accept(d, history)) \/ RefreshGold(d)
    BY <1>1, <2>1 DEF Accept, RefreshGold, warehouseVars
  <2>2. CASE \/ \E last \in 1 .. Current(d) : PublishIncremental(d, last)
             \/ \E last \in 1 .. Current(d) : \E first \in 1 .. last : PublishHistory(d, first, last)
    <3>1. PICK first \in Nat, last \in Nat, pin \in Nat : Publishes(d, first, last, pin)
      BY <2>2, SourcePublishes
    <3> QED BY <1>2, <3>1
  <2> QED BY <1>3, <2>1, <2>2 DEF Source
<1>4. ASSUME NEW m \in Materializers, Materialize(m) PROVE ChainInv'
  BY <1>1, <1>4 DEF Materialize, Capture, Load, Await, Record
<1>5. ASSUME NEW id \in Identities, RunLoad(id) PROVE ChainInv'
  BY <1>1, <1>5 DEF RunLoad
<1>6. ASSUME NEW c \in Refreshers, Refresh(c) PROVE ChainInv'
  BY <1>1, <1>6 DEF Refresh, BeginRefresh, FailAttempt, BindSources, Ineligible, AskWarehouse,
                    Refused, Commit, EndRefresh, LoseLock, warehouseVars
<1>7. ASSUME UNCHANGED vars PROVE ChainInv'
  BY <1>1, <1>7 DEF vars, warehouseVars
<1> QED BY <1>3, <1>4, <1>5, <1>6, <1>7 DEF Next

(* Unless it is ahead of its pin, a publication is its pinned state, in all *)
(* but the keys that a correction took back.                                *)
LEMMA PublishedIsPinned ==
  ASSUME DataInv, ChainInv, NEW d \in Datasets, NEW p \in 1 .. HeadOf(d), ~Ahead(d, p)
  PROVE  LET whole == CompleteState(d, p)
             state == Content(d, chain[d][p].pin)
         IN  /\ DOMAIN whole = DOMAIN state
             /\ \A k \in DOMAIN state \ Rewound(d, p) : whole[k] = state[k]
             /\ Rewound(d, p) = {} => whole = state
<1> DEFINE whole == CompleteState(d, p)
           pin == chain[d][p].pin
           rows == Rows(d, 1, pin)
<1>1. HeadOf(d) \in Nat /\ Current(d) \in Nat /\ p \in Nat
  BY CheckpointType
<1>2. \A i \in 1 .. p : /\ chain[d][i].last \in Nat /\ chain[d][i].pin \in Nat
                        /\ chain[d][i].rows \in RowSets
  <2>1. \A i \in 1 .. HeadOf(d) : chain[d][i] \in Publications
    BY DEF DataInv, HeadOf
  <2> QED BY <1>1, <2>1 DEF Publications
<1>3. pin \in Nat /\ pin <= Current(d)
  BY <1>1, <1>2 DEF DataInv
<1>4. /\ whole = [k \in DOMAIN whole |-> whole[k]]
      /\ \A k : (k \in DOMAIN whole) <=> (\E i \in 1 .. p : k \in DOMAIN Candidate(d, i))
      /\ \A k \in DOMAIN whole : \E i \in 1 .. p :
           NewestHolder(d, p, k, i) /\ whole[k] = Candidate(d, i)[k]
  BY <1>1, Overlays DEF OverlayFacts
<1>5. /\ DOMAIN rows = ChangedIn(d, 1, pin)
      /\ rows = [k \in ChangedIn(d, 1, pin) |-> rows[k]]
      /\ \A k \in DOMAIN rows :
           /\ rows[k] \in 1 .. pin /\ k \in states[d][rows[k]]
           /\ \A i \in 1 .. pin : k \in states[d][i] => i <= rows[k]
  BY <1>3, BatchRows
<1>6. ASSUME NEW k \in DOMAIN whole
      PROVE  whole[k] \in 1 .. pin /\ k \in states[d][whole[k]] /\ Wins(d, p, k, whole[k])
  <2>1. PICK i \in 1 .. p : whole[k] <= chain[d][i].last
    BY <1>6 DEF ChainInv, HoldsItsPin
  <2>2. /\ whole[k] \in 1 .. Current(d) /\ k \in states[d][whole[k]]
        /\ Wins(d, p, k, whole[k])
    BY <1>6 DEF ChainInv, HoldsItsPin
  <2>3. ~(chain[d][i].last > pin)
    BY DEF Ahead
  <2> QED BY <1>2, <1>3, <2>1, <2>2, <2>3
<1>7. \A k \in Keys : \A n \in 1 .. pin : k \in states[d][n] => Reaches(d, p, k, n)
  BY DEF ChainInv, HoldsItsPin
<1>8. \A i \in 1 .. pin : states[d][i] \in SUBSET Keys
  BY <1>1, <1>3 DEF DataInv, Current
<1>9. \A i \in 1 .. p : /\ DOMAIN Candidate(d, i) \in SUBSET Keys
                        /\ \A k \in DOMAIN Candidate(d, i) : Candidate(d, i)[k] \in Nat
  BY <1>2 DEF Candidate, RowSets
<1> HIDE DEF whole, pin, rows
<1>10. ASSUME NEW k \in DOMAIN rows PROVE k \in Keys /\ Reaches(d, p, k, rows[k])
  BY <1>5, <1>7, <1>8, <1>10
<1>11. DOMAIN whole = DOMAIN rows
  <2>1. ASSUME NEW k \in DOMAIN rows PROVE k \in DOMAIN whole
    BY <1>4, <1>10, <2>1 DEF Reaches
  <2>2. ASSUME NEW k \in DOMAIN whole PROVE k \in DOMAIN rows
    BY <1>5, <1>6, <2>2 DEF ChangedIn
  <2> QED BY <2>1, <2>2
<1>12. ASSUME NEW k \in DOMAIN rows, k \notin Rewound(d, p) PROVE whole[k] = rows[k]
  <2>1. whole[k] \in 1 .. pin /\ whole[k] <= rows[k] /\ Wins(d, p, k, whole[k])
    BY <1>5, <1>6, <1>11, <1>12
  <2>2. PICK i \in 1 .. p : k \in DOMAIN Candidate(d, i) /\ Candidate(d, i)[k] >= rows[k]
    BY <1>10, <1>12 DEF Reaches
  <2>3. Candidate(d, i)[k] \in Nat /\ rows[k] \in Nat /\ whole[k] \in Nat
    BY <1>5, <1>9, <1>12, <2>1, <2>2
  <2>4. CASE Candidate(d, i)[k] <= whole[k]
    BY <2>1, <2>2, <2>3, <2>4
  <2>5. CASE ~(Candidate(d, i)[k] <= whole[k])
    <3>1. d \in Dimensions /\ Corrects(d, whole[k])
      BY <2>1, <2>2, <2>5 DEF Wins
    <3>2. PICK j \in 1 .. p : NewestHolder(d, p, k, j) /\ whole[k] = Candidate(d, j)[k]
      BY <1>4, <1>11, <1>12
    <3>3. i \in Holding(d, j, k)
      BY <2>2, <3>2 DEF NewestHolder, Holding, Lineage
    <3>4. TakesBack(d, j, k)
      BY <2>3, <2>5, <3>1, <3>2, <3>3 DEF TakesBack
    <3>5. j \in Holding(d, p, k) /\ \A h \in Holding(d, p, k) : h <= j
      BY <3>2 DEF NewestHolder, Holding, Lineage
    <3>6. k \in Rewound(d, p)
      BY <1>10, <1>12, <3>4, <3>5 DEF Rewound
    <3> QED BY <1>12, <3>6
  <2> QED BY <2>4, <2>5
<1>13. Rewound(d, p) = {} => whole = rows
  BY <1>4, <1>5, <1>11, <1>12
<1> QED BY <1>11, <1>12, <1>13 DEF whole, pin, rows, Content
-----------------------------------------------------------------------------
(* Serving: what is served is what was published.                           *)

(* Tables are created empty and filled with their publication, once.        *)
TablesGrow ==
    \A id \in DOMAIN tables :
      /\ id \in DOMAIN tables'
      /\ tables'[id] \in {tables[id], CompleteState(id.dataset, id.publication)}

LEMMA PublishedStays ==
  ASSUME DataInv, Grows, NEW id, Published(id)
  PROVE  /\ Published(id)'
         /\ CompleteState(id.dataset, id.publication)' = CompleteState(id.dataset, id.publication)
<1>1. id.dataset \in Datasets /\ id.publication \in 1 .. HeadOf(id.dataset)
  BY DEF Published
<1>2. CompleteState(id.dataset, id.publication)' = CompleteState(id.dataset, id.publication)
  BY <1>1, PastStays
<1>3. PICK d \in Datasets : d = id.dataset
  BY <1>1
<1>3p. PICK p \in 1 .. HeadOf(d) : p = id.publication
  BY <1>1, <1>3
<1>4. HeadOf(d) \in Nat /\ HeadOf(d) <= HeadOf(d)' /\ HeadOf(d)' = Len(chain'[d])
  BY CheckpointType DEF Grows, HeadOf
<1>5. p \in 1 .. HeadOf(d)'
  BY <1>4 DEF Grows
<1> QED BY <1>2, <1>3, <1>3p, <1>5 DEF Published, HeadOf

LEMMA CallStays ==
  ASSUME DataInv, Grows, ServingInv, TablesGrow, NEW call, Asks(call)
  PROVE  Asks(call)'
<1>1. /\ Published(call.id)'
      /\ CompleteState(call.id.dataset, call.id.publication)'
           = CompleteState(call.id.dataset, call.id.publication)
  BY PublishedStays DEF Asks
<1>2. ASSUME call.at # "captured" PROVE call.id \in DOMAIN tables'
  BY <1>2 DEF Asks, TablesGrow
<1>3. ASSUME call.at = "verified" PROVE tables'[call.id] = call.rows
  BY <1>3 DEF Asks, TablesGrow
<1> QED BY <1>1, <1>2, <1>3 DEF Asks

LEMMA ReceiptStays ==
  ASSUME DataInv, Grows, ServingInv, TablesGrow, NEW d \in Datasets, NEW p, ReceiptHolds(d, p)
  PROVE  ReceiptHolds(d, p)'
<1>1. p \in 1 .. HeadOf(d) /\ HeadOf(d) \in Nat /\ p \in Nat
  BY CheckpointType DEF ReceiptHolds
<1> DEFINE id == Identity(d, p)
<1>2. Published(id) /\ id.dataset = d /\ id.publication = p
  BY <1>1 DEF Published, Identity
<1>3. /\ Published(id)'
      /\ CompleteState(d, p)' = CompleteState(d, p)
  BY <1>1, <1>2, PublishedStays, PastStays
<1>4. p \in 1 .. HeadOf(d)'
  BY <1>2, <1>3 DEF Published
<1>5. id \in DOMAIN tables' /\ tables'[id] = CompleteState(d, p)
  BY <1>2 DEF ReceiptHolds, TablesGrow
<1> QED BY <1>3, <1>4, <1>5 DEF ReceiptHolds, Identity

(* A step of one call: the others, and what is served, stay as they were.   *)
LEMMA ServingKept ==
  ASSUME DataInv, Grows, ServingInv, TablesGrow,
         DOMAIN loads' \subseteq DOMAIN tables',
         \A id \in DOMAIN tables' : TableHolds(id)',
         work' = [m \in Materializers |-> work'[m]],
         \A m \in Materializers : \/ work'[m] \in {Idle, work[m]}
                                  \/ Asks(work[m])',
         \A d \in Datasets : \A p \in receipts'[d] : p \in receipts[d] \/ ReceiptHolds(d, p)'
  PROVE  ServingInv'
<1>1. ASSUME NEW m \in Materializers PROVE work'[m] = Idle \/ Asks(work[m])'
  <2>1. CASE work'[m] = work[m]
    <3>1. work[m] = Idle \/ Asks(work[m])
      BY DEF ServingInv
    <3>2. ASSUME NEW call, call = work[m], Asks(call) PROVE Asks(work[m])'
      <4>1. Asks(call)'
        BY <3>2, CallStays
      <4> QED BY <2>1, <3>2, <4>1 DEF Asks
    <3> QED BY <2>1, <3>1, <3>2
  <2> QED BY <2>1
<1>2. ASSUME NEW d \in Datasets, NEW p \in receipts'[d] PROVE ReceiptHolds(d, p)'
  BY <1>2, ReceiptStays DEF ServingInv
<1> QED BY <1>1, <1>2 DEF ServingInv

LEMMA TableCreated ==
  ASSUME NEW id
  PROVE  /\ DOMAIN CreateTable(id) = DOMAIN tables \union {id}
         /\ \A x \in DOMAIN tables : CreateTable(id)[x] = tables[x]
         /\ id \in DOMAIN tables \/ CreateTable(id)[id] = <<>>
BY DEF CreateTable, With

LEMMA JobSubmitted ==
  ASSUME NEW id
  PROVE  DOMAIN SubmitJob(id) = DOMAIN loads \union {id}
BY DEF SubmitJob, With

LEMMA NothingServed ==
  ASSUME DataInv, Grows, ServingInv, UNCHANGED <<tables, loads, work, receipts>>
  PROVE  ServingInv'
<1>1. TablesGrow
  BY DEF TablesGrow
<1>2. ASSUME NEW id \in DOMAIN tables PROVE TableHolds(id)'
  <2>1. TableHolds(id)
    BY <1>2 DEF ServingInv
  <2>2. /\ Published(id)'
        /\ CompleteState(id.dataset, id.publication)' = CompleteState(id.dataset, id.publication)
    BY <2>1, PublishedStays DEF TableHolds
  <2> QED BY <2>1, <2>2 DEF TableHolds
<1>3. work' = [m \in Materializers |-> work'[m]]
  BY DEF ServingInv
<1>4. DOMAIN loads' \subseteq DOMAIN tables'
  BY DEF ServingInv
<1> QED BY <1>1, <1>2, <1>3, <1>4, ServingKept

(* What a call holds, and what a step makes of it.                          *)
LEMMA CallHolds ==
  ASSUME ServingInv, NEW m \in Materializers, work[m] # Idle
  PROVE  /\ Asks(work[m]) /\ Published(work[m].id)
         /\ work[m].id.dataset \in Datasets /\ work[m].id.publication \in Nat
         /\ work[m].id = Identity(work[m].id.dataset, work[m].id.publication)
BY DEF ServingInv, Asks, Published, Identity

LEMMA CaptureServes ==
  ASSUME DataInv, DataInv', Grows, ServingInv, NEW m \in Materializers, NEW d \in Datasets, Capture(m, d)
  PROVE  ServingInv'
<1> DEFINE id == Identity(d, HeadOf(d))
           call == [at |-> "captured", id |-> id, rows |-> CompleteState(d, HeadOf(d))]
<1>1. /\ UNCHANGED <<states, chain, tables, loads, receipts>>
      /\ work' = [work EXCEPT ![m] = call] /\ chain[d] # <<>>
  BY DEF Capture, Request
<1>2. HeadOf(d) \in 1 .. HeadOf(d) /\ HeadOf(d) \in Nat
  BY <1>1 DEF DataInv, HeadOf
<1>3. Published(id) /\ id.dataset = d /\ id.publication = HeadOf(d)
  BY <1>2 DEF Published, Identity
<1>4. TablesGrow /\ work' = [n \in Materializers |-> work'[n]]
  BY <1>1 DEF TablesGrow, ServingInv
<1>5. work'[m] = call /\ \A n \in Materializers \ {m} : work'[n] = work[n]
  BY <1>1 DEF ServingInv
<1>6. ASSUME NEW i \in DOMAIN tables PROVE TableHolds(i)'
  <2>1. TableHolds(i)
    BY <1>6 DEF ServingInv
  <2>2. /\ Published(i)'
        /\ CompleteState(i.dataset, i.publication)' = CompleteState(i.dataset, i.publication)
    BY <2>1, PublishedStays DEF TableHolds
  <2> QED BY <1>1, <2>1, <2>2 DEF TableHolds
<1>7. PICK e \in Datasets, q \in Nat : e = d /\ q = HeadOf(d)
  BY <1>2
<1>8. Asks(work[m])'
  <2>1. Published(Identity(e, q))'
    BY <1>3, <1>7, PublishedStays
  <2>2. CompleteState(e, q)' = CompleteState(e, q)
    BY <1>2, <1>7, PastStays
  <2>3. work'[m] = [at |-> "captured", id |-> Identity(e, q), rows |-> CompleteState(e, q)]
    BY <1>5, <1>7
  <2>4. /\ work'[m].at = "captured" /\ work'[m].id = Identity(e, q)
        /\ work'[m].rows = CompleteState(e, q) /\ work'[m].id.dataset = e /\ work'[m].id.publication = q
    BY <2>3 DEF Identity
  <2>5. work'[m] = [at |-> work'[m].at, id |-> work'[m].id, rows |-> work'[m].rows]
    BY <2>3
  <2> QED BY <2>1, <2>2, <2>4, <2>5 DEF Asks, Identity
<1> QED
  BY <1>1, <1>4, <1>5, <1>6, <1>8, ServingKept DEF ServingInv

LEMMA LoadServes ==
  ASSUME DataInv, DataInv', Grows, ServingInv, NEW m \in Materializers, Load(m)
  PROVE  ServingInv'
<1>1. PICK id, call : id = work[m].id /\ call = work[m]
  OBVIOUS
<1>2. /\ call.at = "captured" /\ call # Idle
      /\ UNCHANGED <<states, chain, receipts>>
      /\ tables' = CreateTable(id)
      /\ loads' \in {loads, SubmitJob(id)}
      /\ work' \in {[work EXCEPT ![m].at = "loading"], [work EXCEPT ![m] = Idle]}
  BY <1>1 DEF Load, Idle
<1>3. /\ Asks(call) /\ Published(id) /\ call.id = id
  BY <1>1, <1>2, CallHolds
<1>4. /\ DOMAIN tables' = DOMAIN tables \union {id}
      /\ \A x \in DOMAIN tables : tables'[x] = tables[x]
      /\ id \in DOMAIN tables \/ tables'[id] = <<>>
  BY <1>2, TableCreated
<1>5. TablesGrow /\ DOMAIN loads' \subseteq DOMAIN tables'
  BY <1>2, <1>4, JobSubmitted DEF TablesGrow, ServingInv
<1>6. ASSUME NEW i \in DOMAIN tables' PROVE TableHolds(i)'
  <2>1. Published(i) /\ tables'[i] \in {<<>>, CompleteState(i.dataset, i.publication)}
    BY <1>3, <1>4, <1>6 DEF ServingInv, TableHolds
  <2>2. /\ Published(i)'
        /\ CompleteState(i.dataset, i.publication)' = CompleteState(i.dataset, i.publication)
    BY <2>1, PublishedStays
  <2> QED BY <2>1, <2>2 DEF TableHolds
<1>7. work' = [n \in Materializers |-> work'[n]] /\ \A n \in Materializers \ {m} : work'[n] = work[n]
  BY <1>2 DEF ServingInv
<1>8. work'[m] = Idle \/ Asks(work[m])'
  <2>1. SUFFICES ASSUME work' = [work EXCEPT ![m].at = "loading"] PROVE Asks(work[m])'
    BY <1>2 DEF ServingInv
  <2>2. work'[m] = [call EXCEPT !.at = "loading"]
    BY <1>1, <2>1 DEF ServingInv
  <2>3. call = [at |-> call.at, id |-> call.id, rows |-> call.rows]
    BY <1>3 DEF Asks
  <2>4. work'[m] = [at |-> "loading", id |-> id, rows |-> call.rows]
    BY <1>3, <2>2, <2>3
  <2>5. /\ Published(id)'
        /\ CompleteState(id.dataset, id.publication)' = CompleteState(id.dataset, id.publication)
    BY <1>3, PublishedStays
  <2>6. /\ work'[m].at = "loading" /\ work'[m].id = id /\ work'[m].rows = call.rows
        /\ work'[m] = [at |-> work'[m].at, id |-> work'[m].id, rows |-> work'[m].rows]
    BY <2>4
  <2>7. id \in DOMAIN tables' /\ call.rows = CompleteState(id.dataset, id.publication)
    BY <1>3, <1>4 DEF Asks
  <2> QED BY <2>5, <2>6, <2>7 DEF Asks
<1> QED
  BY <1>2, <1>5, <1>6, <1>7, <1>8, ServingKept

LEMMA RunLoadServes ==
  ASSUME DataInv, DataInv', Grows, ServingInv, NEW id \in Identities, RunLoad(id)
  PROVE  ServingInv'
<1>1. /\ id \in DOMAIN loads /\ id \in DOMAIN tables
      /\ UNCHANGED <<states, chain, receipts, work>>
      /\ DOMAIN loads' \subseteq DOMAIN loads
      /\ \/ tables' = tables
         \/ /\ tables[id] = <<>>
            /\ tables' = [tables EXCEPT ![id] = CompleteState(id.dataset, id.publication)]
  BY DEF RunLoad, NoJob, ServingInv
<1>2. TablesGrow /\ DOMAIN tables' = DOMAIN tables
  BY <1>1 DEF TablesGrow
<1>3. ASSUME NEW i \in DOMAIN tables' PROVE TableHolds(i)'
  <2>1. Published(i) /\ tables'[i] \in {<<>>, CompleteState(i.dataset, i.publication)}
    BY <1>1, <1>2, <1>3 DEF ServingInv, TableHolds, TablesGrow
  <2>2. /\ Published(i)'
        /\ CompleteState(i.dataset, i.publication)' = CompleteState(i.dataset, i.publication)
    BY <2>1, PublishedStays
  <2> QED BY <2>1, <2>2 DEF TableHolds
<1>4. work' = [n \in Materializers |-> work'[n]]
  BY <1>1 DEF ServingInv
<1>5. DOMAIN loads' \subseteq DOMAIN tables'
  BY <1>1, <1>2 DEF ServingInv
<1> QED BY <1>1, <1>2, <1>3, <1>4, <1>5, ServingKept

LEMMA AwaitServes ==
  ASSUME DataInv, DataInv', Grows, ServingInv, NEW m \in Materializers, Await(m)
  PROVE  ServingInv'
<1>1. PICK call, id : call = work[m] /\ id = call.id
  OBVIOUS
<1>2. /\ call.at = "loading" /\ call # Idle
      /\ UNCHANGED <<states, chain, tables, loads, receipts>>
      /\ work' = [work EXCEPT ![m] = IF Verified(call) THEN [call EXCEPT !.at = "verified"] ELSE Idle]
  BY <1>1 DEF Await, Idle, ServingInv
<1>3. Asks(call) /\ Published(id)
  BY <1>1, <1>2, CallHolds
<1>4. TablesGrow
  BY <1>2 DEF TablesGrow
<1>5. ASSUME NEW i \in DOMAIN tables' PROVE TableHolds(i)'
  <2>1. TableHolds(i)
    BY <1>2, <1>5 DEF ServingInv
  <2>2. /\ Published(i)'
        /\ CompleteState(i.dataset, i.publication)' = CompleteState(i.dataset, i.publication)
    BY <2>1, PublishedStays DEF TableHolds
  <2> QED BY <1>2, <2>1, <2>2 DEF TableHolds
<1>6. work' = [n \in Materializers |-> work'[n]] /\ \A n \in Materializers \ {m} : work'[n] = work[n]
  BY <1>2 DEF ServingInv
<1>7. work'[m] = Idle \/ Asks(work[m])'
  <2>1. CASE ~Verified(call)
    BY <1>2, <2>1 DEF ServingInv
  <2>2. CASE Verified(call)
    <3>1. work'[m] = [call EXCEPT !.at = "verified"]
      BY <1>2, <2>2 DEF ServingInv
    <3>2. call = [at |-> call.at, id |-> call.id, rows |-> call.rows]
      BY <1>3 DEF Asks
    <3>3. work'[m] = [at |-> "verified", id |-> id, rows |-> call.rows]
      BY <1>1, <3>1, <3>2
    <3>4. /\ work'[m].at = "verified" /\ work'[m].id = id /\ work'[m].rows = call.rows
          /\ work'[m] = [at |-> work'[m].at, id |-> work'[m].id, rows |-> work'[m].rows]
      BY <3>3
    <3>5. /\ Published(id)'
          /\ CompleteState(id.dataset, id.publication)' = CompleteState(id.dataset, id.publication)
      BY <1>3, PublishedStays
    <3>6. /\ id \in DOMAIN tables' /\ call.rows = CompleteState(id.dataset, id.publication)
          /\ tables'[id] = call.rows
      BY <1>1, <1>2, <1>3, <2>2 DEF Asks, Verified, ReadServing
    <3> QED BY <3>4, <3>5, <3>6 DEF Asks
  <2> QED BY <2>1, <2>2
<1>8. DOMAIN loads' \subseteq DOMAIN tables'
  BY <1>2 DEF ServingInv
<1> QED BY <1>2, <1>4, <1>5, <1>6, <1>7, <1>8, ServingKept

LEMMA RecordServes ==
  ASSUME DataInv, DataInv', Grows, ServingInv, NEW m \in Materializers, Record(m)
  PROVE  ServingInv'
<1>1. PICK call, d, p : call = work[m] /\ d = call.id.dataset /\ p = call.id.publication
  OBVIOUS
<1>2. /\ call.at = "verified" /\ call # Idle
      /\ UNCHANGED <<states, chain, tables, loads>>
      /\ work' = [work EXCEPT ![m] = Idle]
      /\ receipts' \in {receipts, [receipts EXCEPT ![d] = @ \union {p}]}
  BY <1>1 DEF Record, Idle
<1>3. /\ Asks(call) /\ Published(call.id) /\ d \in Datasets /\ p \in Nat
      /\ call.id = Identity(d, p)
  BY <1>1, <1>2, CallHolds
<1>4. ReceiptHolds(d, p)
  BY <1>1, <1>2, <1>3 DEF Asks, Published, ReceiptHolds
<1>5. TablesGrow
  BY <1>2 DEF TablesGrow
<1>6. ASSUME NEW i \in DOMAIN tables' PROVE TableHolds(i)'
  <2>1. TableHolds(i)
    BY <1>2, <1>6 DEF ServingInv
  <2>2. /\ Published(i)'
        /\ CompleteState(i.dataset, i.publication)' = CompleteState(i.dataset, i.publication)
    BY <2>1, PublishedStays DEF TableHolds
  <2> QED BY <1>2, <2>1, <2>2 DEF TableHolds
<1>7. /\ work' = [n \in Materializers |-> work'[n]]
      /\ \A n \in Materializers : work'[n] \in {Idle, work[n]}
  BY <1>2 DEF ServingInv
<1>8. ReceiptHolds(d, p)'
  BY <1>3, <1>4, <1>5, ReceiptStays
<1>9. \A e \in Datasets : \A q \in receipts'[e] : q \in receipts[e] \/ (e = d /\ q = p)
  BY <1>2, <1>3 DEF DataInv
<1>10. DOMAIN loads' \subseteq DOMAIN tables'
  BY <1>2 DEF ServingInv
<1>11. \A e \in Datasets : \A q \in receipts'[e] : q \in receipts[e] \/ ReceiptHolds(e, q)'
  BY <1>8, <1>9
<1> QED BY <1>5, <1>6, <1>7, <1>10, <1>11, ServingKept

LEMMA ServingStep ==
  ASSUME DataInv, DataInv', Grows, ServingInv, [Next]_vars
  PROVE  ServingInv'
<1>1. ASSUME NEW d \in Datasets, Source(d) PROVE ServingInv'
  BY <1>1, NothingServed DEF Source, Accept, RefreshGold, PublishIncremental, PublishHistory,
                             Publish, warehouseVars
<1>2. ASSUME NEW m \in Materializers, Materialize(m) PROVE ServingInv'
  BY <1>2, CaptureServes, LoadServes, AwaitServes, RecordServes DEF Materialize
<1>3. ASSUME NEW id \in Identities, RunLoad(id) PROVE ServingInv'
  BY <1>3, RunLoadServes
<1>4. ASSUME NEW c \in Refreshers, Refresh(c) PROVE ServingInv'
  BY <1>4, NothingServed DEF Refresh, BeginRefresh, FailAttempt, BindSources, Ineligible, AskWarehouse,
                             Refused, Commit, EndRefresh, LoseLock, warehouseVars
<1>5. ASSUME UNCHANGED vars PROVE ServingInv'
  BY <1>5, NothingServed DEF vars, warehouseVars
<1> QED BY <1>1, <1>2, <1>3, <1>4, <1>5 DEF Next
-----------------------------------------------------------------------------
(* Refreshes: what is compared was bound to the plan.                       *)

ReceiptsGrow == \A d \in Datasets : receipts[d] \subseteq receipts'[d]

LEMMA ReceiptsStep ==
  ASSUME DataInv, [Next]_vars
  PROVE  ReceiptsGrow
<1>1. ASSUME NEW d \in Datasets, Source(d) PROVE ReceiptsGrow
  BY <1>1 DEF Source, Accept, RefreshGold, PublishIncremental, PublishHistory, Publish,
              warehouseVars, ReceiptsGrow
<1>2. ASSUME NEW m \in Materializers, Load(m) \/ Await(m) PROVE ReceiptsGrow
  BY <1>2 DEF Load, Await, ReceiptsGrow
<1>3. ASSUME NEW m \in Materializers, Record(m) PROVE ReceiptsGrow
  BY <1>3 DEF Record, ReceiptsGrow, DataInv
<1>4. ASSUME NEW m \in Materializers, NEW d \in Datasets, Capture(m, d) PROVE ReceiptsGrow
  BY <1>4 DEF Capture, ReceiptsGrow
<1>5. ASSUME NEW id \in Identities, RunLoad(id) PROVE ReceiptsGrow
  BY <1>5 DEF RunLoad, ReceiptsGrow
<1>6. ASSUME NEW c \in Refreshers, Refresh(c) PROVE ReceiptsGrow
  BY <1>6 DEF Refresh, BeginRefresh, FailAttempt, BindSources, Ineligible, AskWarehouse,
              Refused, Commit, EndRefresh, LoseLock, warehouseVars, ReceiptsGrow
<1>7. ASSUME UNCHANGED vars PROVE ReceiptsGrow
  BY <1>7 DEF vars, warehouseVars, ReceiptsGrow
<1> QED BY <1>1, <1>2, <1>3, <1>4, <1>5, <1>6, <1>7 DEF Next, Materialize

LEMMA ExplainedStays ==
  ASSUME DataInv, Grows, NEW token, Explained(token)
  PROVE  Explained(token)'
<1>1. PICK d \in Datasets : \E p \in 1 .. HeadOf(d) :
              p = token.pins[d] /\ (Ahead(d, p) \/ Rewound(d, p) # {})
  BY DEF Explained
<1>2. PICK p \in 1 .. HeadOf(d) : p = token.pins[d] /\ (Ahead(d, p) \/ Rewound(d, p) # {})
  BY <1>1
<1>3. Ahead(d, p)' \/ Rewound(d, p)' # {}
  BY <1>2, PastStays
<1>4. p \in 1 .. HeadOf(d)'
  <2>1. HeadOf(d) \in Nat /\ HeadOf(d) <= HeadOf(d)' /\ HeadOf(d)' = Len(chain'[d])
    BY CheckpointType DEF Grows, HeadOf
  <2> QED BY <2>1 DEF Grows
<1> QED BY <1>2, <1>3, <1>4 DEF Explained

LEMMA RunStays ==
  ASSUME DataInv, ServingInv, Grows, ResultsKeep, ReceiptsGrow, NEW run, Follows(run)
  PROVE  Follows(run)'
<1>0. \A d \in Datasets : /\ HeadOf(d) \in Nat /\ Current(d) \in Nat
                          /\ HeadOf(d) <= HeadOf(d)' /\ Current(d) <= Current(d)'
                          /\ HeadOf(d)' \in Nat /\ Current(d)' \in Nat
  BY CheckpointType DEF Grows, HeadOf, Current
<1>1. run.attempt \in 1 .. Len(results') /\ run.plan = results'[run.attempt].plan
  <2>1. Len(results) \in Nat /\ Len(results') \in Nat /\ Len(results) <= Len(results')
    BY DEF DataInv, ResultsKeep
  <2> QED BY <2>1 DEF Follows, ResultsKeep
<1>2. ASSUME BoundToPlan(run.token) PROVE BoundToPlan(run.token)'
  <2>1. ASSUME NEW d \in Datasets
        PROVE  /\ run.token.plan[d] <= Current(d)'
               /\ run.token.pins[d] \in receipts'[d]
               /\ chain'[d][run.token.pins[d]].pin = run.token.plan[d]
    <3>1. /\ run.token.plan[d] \in Nat /\ run.token.plan[d] <= Current(d)
          /\ run.token.pins[d] \in receipts[d]
          /\ chain[d][run.token.pins[d]].pin = run.token.plan[d]
      BY <1>2 DEF BoundToPlan, Plans
    <3>2. run.token.pins[d] \in 1 .. HeadOf(d)
      BY <3>1 DEF ServingInv, ReceiptHolds
    <3>3. chain'[d][run.token.pins[d]] = chain[d][run.token.pins[d]]
      BY <3>2 DEF Grows
    <3> QED BY <1>0, <3>1, <3>3 DEF ReceiptsGrow
  <2> QED BY <1>2, <2>1 DEF BoundToPlan
<1>3. ASSUME Explained(run.token) PROVE Explained(run.token)'
  BY <1>3, ExplainedStays
<1> QED BY <1>1, <1>2, <1>3 DEF Follows

(* If no bound publication is ahead of its pin or holds keys that were taken*)
(* back, the rows are the plan's.                                           *)
LEMMA BoundRowsMatch ==
  ASSUME DataInv, ChainInv, ServingInv, NEW token, BoundToPlan(token), Compared(token) = "MISMATCH"
  PROVE  Explained(token)
<1>1. ASSUME ~Explained(token) PROVE FALSE
  <2>1. ASSUME NEW d \in Datasets
        PROVE  tables[Identity(d, token.pins[d])] = Content(d, token.plan[d])
    <3>1. token.pins[d] \in receipts[d] /\ chain[d][token.pins[d]].pin = token.plan[d]
      BY DEF BoundToPlan
    <3>2. ReceiptHolds(d, token.pins[d])
      BY <3>1 DEF ServingInv
    <3>3. PICK p \in 1 .. HeadOf(d) : p = token.pins[d]
      BY <3>2 DEF ReceiptHolds
    <3>4. ~Ahead(d, p) /\ Rewound(d, p) = {}
      BY <1>1, <3>3 DEF Explained
    <3>5. CompleteState(d, p) = Content(d, chain[d][p].pin)
      BY <3>4, PublishedIsPinned
    <3> QED BY <3>1, <3>2, <3>3, <3>5 DEF ReceiptHolds
  <2>2. ServingRows(token) = GoldRows(token.plan)
    BY <2>1 DEF ServingRows, GoldRows
  <2> QED BY <2>2 DEF Compared
<1> QED BY <1>1

(* One refresher moves; the others' runs stay.                              *)
LEMMA RefreshKept ==
  ASSUME DataInv, ServingInv, RefreshInv, Grows, ResultsKeep, ReceiptsGrow,
         refresh' = [c \in Refreshers |-> refresh'[c]],
         \A c \in Refreshers : \/ refresh'[c] \in {refresh[c], Idle, Ended}
                               \/ Follows(refresh[c])'
  PROVE  RefreshInv'
<1>1. ASSUME NEW c \in Refreshers, refresh'[c] = refresh[c]
      PROVE  refresh'[c] \in {Idle, Ended} \/ Follows(refresh[c])'
  <2>1. refresh[c] \in {Idle, Ended} \/ Follows(refresh[c])
    BY DEF RefreshInv
  <2>2. ASSUME NEW run, run = refresh[c], Follows(run) PROVE Follows(refresh[c])'
    <3>1. Follows(run)'
      BY <2>2, RunStays
    <3> QED BY <1>1, <2>2, <3>1 DEF Follows
  <2> QED BY <1>1, <2>1, <2>2
<1> QED BY <1>1 DEF RefreshInv

LEMMA RunHolds ==
  ASSUME RefreshInv, NEW c \in Refreshers, refresh[c] \notin {Idle, Ended}
  PROVE  Follows(refresh[c])
BY DEF RefreshInv

LEMMA BeginFollows ==
  ASSUME DataInv, ServingInv, RefreshInv, Grows, ResultsKeep, ReceiptsGrow,
         NEW c \in Refreshers, BeginRefresh(c)
  PROVE  RefreshInv'
<1>1. /\ Len(results') = Len(results) + 1 /\ Len(results) \in Nat
      /\ results'[Len(results) + 1].plan = Plan
  BY BeginAppends DEF DataInv
<1> DEFINE run == [at |-> "computed", plan |-> Plan, attempt |-> Len(results) + 1,
                   outcome |-> "NONE", token |-> NoAnswer, answer |-> NoAnswer]
<1>2. refresh' = [refresh EXCEPT ![c] = run]
  BY DEF BeginRefresh
<1>3. /\ refresh'[c] = run /\ refresh' = [e \in Refreshers |-> refresh'[e]]
      /\ \A e \in Refreshers \ {c} : refresh'[e] = refresh[e]
  BY <1>2 DEF RefreshInv
<1>4. /\ run = [f \in Fields |-> run[f]] /\ run.at = "computed" /\ run.plan = Plan
      /\ run.attempt = Len(results) + 1 /\ run.outcome = "NONE"
  BY DEF Fields
<1> HIDE DEF run
<1>5. Follows(refresh[c])'
  BY <1>1, <1>3, <1>4 DEF Follows
<1> QED BY <1>3, <1>5, RefreshKept

(* An update of the place, the outcome, the token and the answer of a run.  *)
Moved(old, new) ==
    /\ new = [f \in Fields |-> new[f]]
    /\ new.at \in {"computed", "bound", "committed"}
    /\ new.plan = old.plan /\ new.attempt = old.attempt

LEMMA MoveFollows ==
  ASSUME DataInv, ServingInv, RefreshInv, Grows, ResultsKeep, ReceiptsGrow,
         NEW c \in Refreshers, Follows(refresh[c]),
         NEW new, refresh' = [refresh EXCEPT ![c] = new], Moved(refresh[c], new),
         new.at = "bound" => BoundToPlan(new.token)',
         new.outcome = "MISMATCH" => Explained(new.token)'
  PROVE  RefreshInv'
<1>1. /\ refresh'[c] = new /\ refresh' = [e \in Refreshers |-> refresh'[e]]
      /\ \A e \in Refreshers \ {c} : refresh'[e] = refresh[e]
  BY DEF RefreshInv
<1>2. PICK run : run = refresh[c] /\ Follows(run)
  OBVIOUS
<1>3. Follows(run)'
  BY <1>2, RunStays
<1>4. /\ new.attempt \in 1 .. Len(results') /\ new.plan = results'[new.attempt].plan
      /\ new.at \in {"computed", "bound", "committed"} /\ new = [f \in Fields |-> new[f]]
  BY <1>2, <1>3 DEF Follows, Moved
<1>5. Follows(new)'
  BY <1>4 DEF Follows
<1>6. Follows(refresh[c])'
  BY <1>1, <1>5 DEF Follows
<1> QED BY <1>1, <1>6, RefreshKept

(* What the steps of one run make of its record.                            *)
LEMMA Unanswering ==
  ASSUME RefreshInv, NEW c \in Refreshers, NEW run, run = refresh[c], Follows(run)
  PROVE  \E new : /\ Unanswered(c) = [refresh EXCEPT ![c] = new] /\ Moved(run, new)
                  /\ new.at # "bound" /\ new.outcome = "UNANSWERED"
<1> DEFINE new == [f \in Fields |-> IF f = "at" THEN ShadowPlace ELSE IF f = "outcome" THEN "UNANSWERED"
                                    ELSE IF f = "token" THEN NoAnswer ELSE run[f]]
<1>1. run = [f \in Fields |-> run[f]]
  BY DEF Follows
<1>2. new = [[[run EXCEPT !.at = ShadowPlace] EXCEPT !.outcome = "UNANSWERED"] EXCEPT !.token = NoAnswer]
  BY <1>1 DEF Fields
<1>3. Unanswered(c) = [refresh EXCEPT ![c] =
        [[[refresh[c] EXCEPT !.at = ShadowPlace] EXCEPT !.outcome = "UNANSWERED"] EXCEPT !.token = NoAnswer]]
  BY DEF Unanswered, RefreshInv
<1>4. /\ new.at = ShadowPlace /\ new.outcome = "UNANSWERED" /\ new.plan = run.plan
      /\ new.attempt = run.attempt /\ new = [f \in Fields |-> new[f]]
  BY DEF Fields
<1> HIDE DEF new
<1>5. Moved(run, new) /\ new.at # "bound"
  BY <1>4 DEF Moved, ShadowPlace
<1>6. Unanswered(c) = [refresh EXCEPT ![c] = new]
  BY <1>2, <1>3
<1> QED BY <1>4, <1>5, <1>6

LEMMA Answering ==
  ASSUME RefreshInv, NEW c \in Refreshers, NEW run, run = refresh[c], Follows(run), NEW form
  PROVE  \E new : /\ Answered(c, form) = [refresh EXCEPT ![c] = new] /\ Moved(run, new)
                  /\ new.at # "bound" /\ new.outcome = Compared(run.token) /\ new.token = run.token
<1> DEFINE answer == IF rollout = "PRIMARY" THEN Decoded(run.token, form) ELSE NoAnswer
           outcome == Compared(run.token)
           new == [f \in Fields |-> IF f = "at" THEN ShadowPlace ELSE IF f = "outcome" THEN outcome
                                    ELSE IF f = "answer" THEN answer ELSE run[f]]
<1>1. run = [f \in Fields |-> run[f]]
  BY DEF Follows
<1>2. Answered(c, form) = [refresh EXCEPT ![c].at = ShadowPlace, ![c].outcome = outcome, ![c].answer = answer]
  BY DEF Answered
<1> HIDE DEF answer, outcome
<1>3. new = [[[run EXCEPT !.at = ShadowPlace] EXCEPT !.outcome = outcome] EXCEPT !.answer = answer]
  BY <1>1 DEF Fields
<1>4. Answered(c, form) = [refresh EXCEPT ![c] =
        [[[refresh[c] EXCEPT !.at = ShadowPlace] EXCEPT !.outcome = outcome] EXCEPT !.answer = answer]]
  BY <1>2 DEF RefreshInv
<1>5. /\ new.at = ShadowPlace /\ new.outcome = outcome /\ new.plan = run.plan /\ new.token = run.token
      /\ new.attempt = run.attempt /\ new = [f \in Fields |-> new[f]]
  BY DEF Fields
<1> HIDE DEF new
<1>6. Moved(run, new) /\ new.at # "bound"
  BY <1>5 DEF Moved, ShadowPlace
<1>7. Answered(c, form) = [refresh EXCEPT ![c] = new]
  BY <1>3, <1>4
<1> QED BY <1>5, <1>6, <1>7 DEF outcome

LEMMA BindFollows ==
  ASSUME DataInv, ServingInv, RefreshInv, Grows, ResultsKeep, ReceiptsGrow,
         NEW c \in Refreshers, BindSources(c)
  PROVE  RefreshInv'
<1>1. PICK run, plan, token : run = refresh[c] /\ plan = run.plan /\ token = Token(plan)
  OBVIOUS
<1>2. /\ run.at \in {"computed", "committed"} /\ run.outcome = "NONE" /\ run \notin {Idle, Ended}
      /\ \A d \in Datasets : Bindable(d, plan)
      /\ refresh' = [refresh EXCEPT ![c].at = "bound", ![c].token = token]
      /\ UNCHANGED <<states, chain, receipts>>
  BY <1>1 DEF BindSources, Shadowing, ShadowPlace, Idle, Ended, warehouseVars
<1>3. Follows(run) /\ run = [f \in Fields |-> run[f]]
  BY <1>1, <1>2, RunHolds DEF Follows
<1> DEFINE new == [f \in Fields |-> IF f = "at" THEN "bound" ELSE IF f = "token" THEN token ELSE run[f]]
<1>4. new = [[run EXCEPT !.at = "bound"] EXCEPT !.token = token]
  BY <1>3 DEF Fields
<1>5. refresh' = [refresh EXCEPT ![c] = [[run EXCEPT !.at = "bound"] EXCEPT !.token = token]]
  BY <1>1, <1>2 DEF RefreshInv
<1>6. /\ new.at = "bound" /\ new.outcome = "NONE" /\ new.plan = run.plan /\ new.token = token
      /\ new.attempt = run.attempt /\ new = [f \in Fields |-> new[f]]
  BY <1>2 DEF Fields
<1> HIDE DEF new
<1>7. plan \in Plans /\ \A d \in Datasets : plan[d] <= Current(d)
  BY <1>1, <1>2, AttemptRow
<1>8. token.plan = plan /\ \A d \in Datasets : token.pins[d] = HeadOf(d)
  BY <1>1 DEF Token
<1>9. BoundToPlan(token)
  BY <1>2, <1>7, <1>8 DEF BoundToPlan, Bindable, PinnedState, Served
<1>10. BoundToPlan(token)'
  BY <1>2, <1>9 DEF BoundToPlan, Current
<1>11. Moved(run, new) /\ (BoundToPlan(new.token)' <=> BoundToPlan(token)')
  BY <1>6 DEF Moved, BoundToPlan
<1> QED BY <1>1, <1>3, <1>4, <1>5, <1>6, <1>10, <1>11, MoveFollows

LEMMA UnansweredFollows ==
  ASSUME DataInv, ServingInv, RefreshInv, Grows, ResultsKeep, ReceiptsGrow,
         NEW c \in Refreshers, refresh[c].at \in {"computed", "committed", "bound"},
         refresh' = Unanswered(c)
  PROVE  RefreshInv'
<1>1. PICK run : run = refresh[c] /\ run \notin {Idle, Ended}
  BY DEF Idle, Ended
<1>2. Follows(run)
  BY <1>1, RunHolds
<1>3. PICK new : /\ Unanswered(c) = [refresh EXCEPT ![c] = new] /\ Moved(run, new)
                 /\ new.at # "bound" /\ new.outcome = "UNANSWERED"
  BY <1>1, <1>2, Unanswering
<1> QED BY <1>1, <1>2, <1>3, MoveFollows

LEMMA AskFollows ==
  ASSUME DataInv, ChainInv, ServingInv, RefreshInv, Grows, ResultsKeep, ReceiptsGrow,
         NEW c \in Refreshers, AskWarehouse(c)
  PROVE  RefreshInv'
<1>1. PICK run, token : run = refresh[c] /\ token = run.token
  OBVIOUS
<1>2. /\ run.at = "bound" /\ run \notin {Idle, Ended}
      /\ refresh' = Unanswered(c) \/ \E form \in {"public", "other"} : refresh' = Answered(c, form)
      /\ UNCHANGED <<states, chain>>
  BY <1>1 DEF AskWarehouse, Idle, Ended, warehouseVars
<1>3. Follows(run)
  BY <1>1, <1>2, RunHolds
<1>4. CASE refresh' = Unanswered(c)
  BY <1>1, <1>2, <1>4, UnansweredFollows
<1>5. CASE \E form \in {"public", "other"} : refresh' = Answered(c, form)
  <2>1. PICK form : refresh' = Answered(c, form)
    BY <1>5
  <2>2. PICK new : /\ Answered(c, form) = [refresh EXCEPT ![c] = new] /\ Moved(run, new)
                   /\ new.at # "bound" /\ new.outcome = Compared(run.token) /\ new.token = run.token
    BY <1>1, <1>3, Answering
  <2>3. ASSUME new.outcome = "MISMATCH" PROVE Explained(new.token)'
    <3>1. BoundToPlan(token)
      BY <1>1, <1>2, <1>3 DEF Follows
    <3>2. Explained(token)
      BY <1>1, <2>2, <2>3, <3>1, BoundRowsMatch
    <3>3. Explained(new.token)
      BY <1>1, <2>2, <3>2
    <3> QED BY <3>3, ExplainedStays
  <2> QED BY <1>1, <1>3, <2>1, <2>2, <2>3, MoveFollows
<1> QED BY <1>2, <1>4, <1>5

LEMMA CommitFollows ==
  ASSUME DataInv, ServingInv, RefreshInv, Grows, ResultsKeep, ReceiptsGrow,
         NEW c \in Refreshers, Commit(c)
  PROVE  RefreshInv'
<1>1. PICK run : run = refresh[c]
  OBVIOUS
<1>2. /\ run.at = "computed" /\ run \notin {Idle, Ended}
      /\ \/ refresh' = [refresh EXCEPT ![c] = Ended]
         \/ refresh' = [refresh EXCEPT ![c] = [run EXCEPT !.at = "committed"]]
      /\ UNCHANGED <<states, chain>>
  <2>1. run.at = "computed" /\ UNCHANGED <<states, chain>>
    BY <1>1 DEF Commit, ReadyToCommit, warehouseVars
  <2>2. run \notin {Idle, Ended}
    BY <2>1 DEF Idle, Ended
  <2>3. \/ refresh' = [refresh EXCEPT ![c] = Ended]
        \/ refresh' = [refresh EXCEPT ![c] = [@ EXCEPT !.at = "committed"]]
    BY DEF Commit
  <2>4. [refresh EXCEPT ![c] = [@ EXCEPT !.at = "committed"]]
          = [refresh EXCEPT ![c] = [run EXCEPT !.at = "committed"]]
    BY <1>1 DEF RefreshInv
  <2> QED BY <2>1, <2>2, <2>3, <2>4, Zenon
<1>3. Follows(run) /\ run = [f \in Fields |-> run[f]]
  BY <1>1, <1>2, RunHolds DEF Follows
<1>4. CASE refresh' = [refresh EXCEPT ![c] = Ended]
  <2>1. /\ refresh' = [e \in Refreshers |-> refresh'[e]]
        /\ \A e \in Refreshers : refresh'[e] \in {refresh[e], Idle, Ended}
    BY <1>4 DEF RefreshInv
  <2> QED BY <2>1, RefreshKept
<1>5. CASE refresh' = [refresh EXCEPT ![c] = [run EXCEPT !.at = "committed"]]
  <2> DEFINE new == [run EXCEPT !.at = "committed"]
  <2>1. /\ new.at = "committed" /\ new.outcome = run.outcome /\ new.plan = run.plan
        /\ new.attempt = run.attempt /\ new.token = run.token /\ new = [f \in Fields |-> new[f]]
    BY <1>3 DEF Fields
  <2> HIDE DEF new
  <2>2. Moved(run, new)
    BY <2>1 DEF Moved
  <2>3. ASSUME new.outcome = "MISMATCH" PROVE Explained(new.token)'
    <3>1. Explained(new.token)
      BY <1>3, <2>1, <2>3 DEF Follows
    <3> QED BY <3>1, ExplainedStays
  <2>4. new.at # "bound" /\ refresh' = [refresh EXCEPT ![c] = new]
    BY <1>5, <2>1 DEF new
  <2> QED BY <1>1, <1>3, <2>2, <2>3, <2>4, MoveFollows
<1> QED BY <1>2, <1>4, <1>5

LEMMA RefreshStep ==
  ASSUME DataInv, ChainInv, ServingInv, RefreshInv, Grows, ResultsKeep, [Next]_vars
  PROVE  RefreshInv'
<1>0. ReceiptsGrow
  BY ReceiptsStep
<1>1. ASSUME refresh' = [c \in Refreshers |-> refresh'[c]],
             \A c \in Refreshers : refresh'[c] \in {refresh[c], Idle, Ended}
      PROVE  RefreshInv'
  BY <1>0, <1>1, RefreshKept
<1>2. ASSUME refresh' = refresh PROVE RefreshInv'
  BY <1>1, <1>2 DEF RefreshInv
<1>3. ASSUME NEW d \in Datasets, Source(d) PROVE RefreshInv'
  BY <1>2, <1>3 DEF Source, Accept, RefreshGold, PublishIncremental, PublishHistory,
                     Publish, metricVars
<1>4. ASSUME NEW m \in Materializers, Materialize(m) PROVE RefreshInv'
  BY <1>2, <1>4 DEF Materialize, Capture, Load, Await, Record, metricVars
<1>5. ASSUME NEW id \in Identities, RunLoad(id) PROVE RefreshInv'
  BY <1>2, <1>5 DEF RunLoad, metricVars
<1>6. ASSUME NEW c \in Refreshers, Refresh(c) PROVE RefreshInv'
  <2>1. CASE BeginRefresh(c)
    BY <1>0, <2>1, BeginFollows
  <2>2. CASE FailAttempt(c) \/ EndRefresh(c) \/ LoseLock(c)
    <3>1. \/ refresh' = refresh \/ refresh' = [refresh EXCEPT ![c] = Idle]
          \/ refresh' = [refresh EXCEPT ![c] = Ended]
      BY <2>2 DEF FailAttempt, EndRefresh, LoseLock
    <3> QED BY <1>1, <3>1 DEF RefreshInv
  <2>3. CASE BindSources(c)
    BY <1>0, <2>3, BindFollows
  <2>4. CASE Ineligible(c) \/ Refused(c)
    <3>1. refresh[c].at \in {"computed", "committed", "bound"} /\ refresh' = Unanswered(c)
      BY <2>4 DEF Ineligible, Refused, Shadowing, ShadowPlace
    <3> QED BY <1>0, <3>1, UnansweredFollows
  <2>5. CASE AskWarehouse(c)
    BY <1>0, <2>5, AskFollows
  <2>6. CASE Commit(c)
    BY <1>0, <2>6, CommitFollows
  <2> QED BY <1>6, <2>1, <2>2, <2>3, <2>4, <2>5, <2>6 DEF Refresh
<1>7. ASSUME UNCHANGED vars PROVE RefreshInv'
  BY <1>2, <1>7 DEF vars, metricVars
<1> QED BY <1>3, <1>4, <1>5, <1>6, <1>7 DEF Next
-----------------------------------------------------------------------------
(* Results: what is stored is Pandas' result, and stays it.                 *)

LEMMA ResultStep ==
  ASSUME DataInv, DataInv', RefreshInv, ResultIsOfItsPlan, Grows, [Next]_vars
  PROVE  ResultIsOfItsPlan'
<1>1. ASSUME NEW plan \in Plans, \A d \in Datasets : plan[d] <= Current(d)
      PROVE  PandasResult(plan)' = PandasResult(plan)
  <2>1. ASSUME NEW d \in Datasets PROVE Content(d, plan[d])' = Content(d, plan[d])
    <3>1. PICK n \in 0 .. Current(d) : n = plan[d]
      BY <1>1, CheckpointType DEF Plans
    <3>2. Content(d, n)' = Content(d, n)
      BY <3>1, PastStays
    <3> QED BY <3>1, <3>2
  <2>2. GoldRows(plan)' = GoldRows(plan)
    BY <2>1 DEF GoldRows
  <2> QED BY <2>2 DEF PandasResult
(* A row that stays FRESH keeps its result.                                 *)
<1>2. ASSUME NEW r \in 1 .. Len(results), results[r].status = "FRESH",
             results'[r].plan = results[r].plan, results'[r].output = results[r].output
      PROVE  results'[r].output = PandasResult(results[r].plan)'
  <2>1. results[r] \in MetricResults
    BY DEF DataInv
  <2>2. PICK plan \in Plans : plan = results[r].plan
    BY <2>1 DEF MetricResults
  <2>3. PandasResult(plan)' = PandasResult(plan)
    BY <1>1, <2>2 DEF DataInv
  <2>4. results[r].output = PandasResult(plan)
    BY <1>2, <2>2 DEF ResultIsOfItsPlan
  <2>5. PandasResult(plan)' = PandasResult(results[r].plan)'
    BY <1>2, <2>2
  <2> QED BY <1>2, <2>3, <2>4, <2>5
<1>3. ASSUME results' = results PROVE ResultIsOfItsPlan'
  BY <1>2, <1>3 DEF ResultIsOfItsPlan
<1>4. ASSUME NEW c \in Refreshers, BeginRefresh(c) PROVE ResultIsOfItsPlan'
  <2>1. /\ Len(results') = Len(results) + 1
        /\ results'[Len(results) + 1].status = "COMPUTING"
        /\ \A r \in 1 .. Len(results) : /\ results'[r].output = results[r].output
                                        /\ results'[r].plan = results[r].plan
                                        /\ (results'[r].status = "FRESH" <=> results[r].status = "FRESH")
    BY <1>4, BeginAppends DEF ResultsKeep
  <2>2. Len(results) \in Nat
    BY DEF DataInv
  <2>3. ASSUME NEW r \in 1 .. Len(results'), results'[r].status = "FRESH"
        PROVE  results'[r].output = PandasResult(results[r].plan)'
    <3>1. r \in 1 .. Len(results)
      BY <2>1, <2>2, <2>3
    <3> QED BY <1>2, <2>1, <2>3, <3>1
  <2> QED BY <2>3 DEF ResultIsOfItsPlan
<1>5. ASSUME NEW c \in Refreshers, Commit(c) \/ FailAttempt(c),
             results[refresh[c].attempt].status = "COMPUTING"
      PROVE  ResultIsOfItsPlan'
  <2>1. refresh[c] \notin {Idle, Ended}
    BY <1>5 DEF Commit, ReadyToCommit, FailAttempt, Idle, Ended
  <2>2. PICK plan \in Plans, q \in 1 .. Len(results) :
          /\ plan = refresh[c].plan /\ q = refresh[c].attempt /\ plan = results[q].plan
          /\ \A d \in Datasets : plan[d] <= Current(d)
    BY <2>1, AttemptRow
  <2>3. PICK row \in MetricResults :
          /\ row.plan = plan /\ results' = [results EXCEPT ![q] = row]
          /\ row.status = "FRESH" => row.output = PandasResult(plan)
    <3>1. CASE Commit(c)
      BY <1>5, <2>2, <3>1, CommitStores
    <3>2. CASE FailAttempt(c)
      <4>1. PICK row \in MetricResults :
              /\ row.plan = results[q].plan /\ row.status = "FAILED"
              /\ results' = [results EXCEPT ![q] = row]
        BY <1>5, <2>2, <3>2, FailureStores
      <4> QED BY <2>2, <4>1
    <3> QED BY <1>5, <3>1, <3>2
  <2>4. /\ Len(results') = Len(results) /\ results'[q] = row
        /\ \A r \in 1 .. Len(results) : r # q => results'[r] = results[r]
    BY <2>2, <2>3, RowReplaced
  <2>5. ASSUME NEW r \in 1 .. Len(results'), results'[r].status = "FRESH"
        PROVE  results'[r].output = PandasResult(results[r].plan)'
    <3>1. CASE r = q
      <4>1. PandasResult(plan)' = PandasResult(plan)
        BY <1>1, <2>2
      <4>2. results'[r].output = PandasResult(plan) /\ results'[r].plan = plan
        BY <2>3, <2>4, <2>5, <3>1
      <4>3. PandasResult(results[r].plan)' = PandasResult(plan)'
        BY <4>2
      <4> QED BY <4>1, <4>2, <4>3
    <3>2. CASE r # q
      BY <1>2, <2>4, <2>5, <3>2
    <3> QED BY <3>1, <3>2
  <2> QED BY <2>5 DEF ResultIsOfItsPlan
<1>6. ASSUME NEW c \in Refreshers, Refresh(c) PROVE ResultIsOfItsPlan'
  <2>1. CASE BeginRefresh(c)
    BY <1>4, <2>1
  <2>2. CASE Commit(c) \/ FailAttempt(c)
    BY <1>3, <1>5, <2>2 DEF Commit, FailAttempt
  <2>3. CASE \/ BindSources(c) \/ Ineligible(c) \/ AskWarehouse(c) \/ Refused(c)
             \/ EndRefresh(c) \/ LoseLock(c)
    BY <1>3, <2>3 DEF BindSources, Ineligible, AskWarehouse, Refused, EndRefresh, LoseLock
  <2> QED BY <1>6, <2>1, <2>2, <2>3 DEF Refresh
<1>7. ASSUME NEW m \in Materializers, Materialize(m) PROVE ResultIsOfItsPlan'
  BY <1>3, <1>7 DEF Materialize, Capture, Load, Await, Record, metricVars
<1>8. ASSUME NEW id \in Identities, RunLoad(id) PROVE ResultIsOfItsPlan'
  BY <1>3, <1>8 DEF RunLoad, metricVars
<1>9. ASSUME NEW d \in Datasets, Source(d) PROVE ResultIsOfItsPlan'
  BY <1>3, <1>9 DEF Source, Accept, RefreshGold, PublishIncremental, PublishHistory, Publish, metricVars
<1>10. ASSUME UNCHANGED vars PROVE ResultIsOfItsPlan'
  BY <1>3, <1>10 DEF vars, metricVars
<1> QED BY <1>6, <1>7, <1>8, <1>9, <1>10 DEF Next
-----------------------------------------------------------------------------
(* The theorems.                                                            *)

LEMMA MetricInit == Init => MetricInv
<1> SUFFICES ASSUME Init PROVE MetricInv
  OBVIOUS
<1>1. /\ \A d \in Datasets : states[d] = <<>> /\ chain[d] = <<>> /\ receipts[d] = {}
      /\ \A d \in Datasets : Current(d) = 0 /\ HeadOf(d) = 0
      /\ DOMAIN tables = {} /\ DOMAIN loads = {} /\ Len(results) = 0
  BY DEF Init, Current, HeadOf
<1>2. DataInv
  BY <1>1 DEF Init, DataInv
<1>3. ChainInv
  BY <1>1 DEF ChainInv
<1>4. ServingInv
  BY <1>1 DEF Init, ServingInv
<1>5. RefreshInv
  BY DEF Init, RefreshInv
<1>6. ResultIsOfItsPlan
  BY <1>1 DEF ResultIsOfItsPlan
<1> QED BY <1>2, <1>3, <1>4, <1>5, <1>6 DEF MetricInv

LEMMA MetricAlways == Spec => []MetricInv
<1>1. Init => MetricInv
  BY MetricInit
<1>2. MetricInv /\ [Next]_vars => MetricInv'
  <2> SUFFICES ASSUME MetricInv, [Next]_vars PROVE MetricInv'
    OBVIOUS
  <2>1. DataInv /\ ChainInv /\ ServingInv /\ RefreshInv /\ ResultIsOfItsPlan
    BY DEF MetricInv
  <2>2. DataInv' /\ Grows /\ ResultsKeep
    BY <2>1, DataStep
  <2>3. ChainInv'
    BY <2>1, <2>2, ChainStep
  <2>4. ServingInv'
    BY <2>1, <2>2, ServingStep
  <2>5. RefreshInv'
    BY <2>1, <2>2, RefreshStep
  <2>6. ResultIsOfItsPlan'
    BY <2>1, <2>2, ResultStep
  <2> QED BY <2>2, <2>3, <2>4, <2>5, <2>6 DEF MetricInv
<1> QED BY <1>1, <1>2, PTL DEF Spec

(* Every publication with serving evidence is served as the whole state     *)
(* that it pins, whatever INCREMENTAL, REPLAY and BACKFILL published in     *)
(* which order, of facts and dimensions: overlaying the lineage newest first*)
(* yields the state, and the table is filled once and never changes.  The   *)
(* exceptions are a publication that follows a BACKFILL beyond the          *)
(* checkpoint, and the members of a dimension that a replayed CORRECTION    *)
(* took back, alone.                                                        *)
THEOREM ServingIsPinned == Spec => []ServedIsPinned
<1>1. MetricInv => ServedIsPinned
  <2> SUFFICES ASSUME MetricInv, NEW d \in Datasets, NEW p \in receipts[d], ~Ahead(d, p)
               PROVE  LET table == tables[Identity(d, p)]
                          state == Content(d, chain[d][p].pin)
                      IN  /\ DOMAIN table = DOMAIN state
                          /\ \A k \in DOMAIN state \ Rewound(d, p) : table[k] = state[k]
    BY DEF ServedIsPinned
  <2>1. DataInv /\ ChainInv /\ ServingInv
    BY DEF MetricInv
  <2>2. ReceiptHolds(d, p)
    BY <2>1 DEF ServingInv
  <2>3. PICK q \in 1 .. HeadOf(d) : q = p
    BY <2>2 DEF ReceiptHolds
  <2>4. LET whole == CompleteState(d, q)
            state == Content(d, chain[d][q].pin)
        IN  /\ DOMAIN whole = DOMAIN state
            /\ \A k \in DOMAIN state \ Rewound(d, q) : whole[k] = state[k]
    BY <2>1, <2>3, PublishedIsPinned
  <2> QED BY <2>2, <2>3, <2>4 DEF ReceiptHolds
<1> QED BY <1>1, MetricAlways, PTL

(* The shadow comparison never reports a difference that comes from moving  *)
(* data: plan, binding and query concern the same rows, however much is     *)
(* accepted, published and materialized between them.  Only a publication   *)
(* that was ahead of its pin when it was bound, or had members taken back,  *)
(* explains one.                                                            *)
THEOREM MismatchIsADefect == Spec => []NoFalseMismatch
<1>1. MetricInv => NoFalseMismatch
  <2> SUFFICES ASSUME MetricInv, NEW c \in Refreshers, refresh[c] \notin {Idle, Ended},
                      refresh[c].outcome = "MISMATCH"
               PROVE  \E d \in Datasets : LET p == refresh[c].token.pins[d]
                                          IN  Ahead(d, p) \/ Rewound(d, p) # {}
    BY DEF NoFalseMismatch
  <2>1. Explained(refresh[c].token)
    BY DEF MetricInv, RefreshInv, Follows
  <2> QED BY <2>1 DEF Explained
<1> QED BY <1>1, MetricAlways, PTL

(* A FRESH row of workspace_metric_results is Pandas' result for its plan   *)
(* under every rollout setting: nothing is promoted that Pandas would have  *)
(* written differently, and a coordinator that was taken over stores        *)
(* nothing over the result of another.                                      *)
THEOREM StoredResultIsPandas == Spec => []ResultIsOfItsPlan
BY MetricAlways, PTL DEF MetricInv
=============================================================================
