---------------------- MODULE DeliveryProcessing_proofs ----------------------
(***************************************************************************)
(* Theorems about DeliveryProcessing, with their proofs.                   *)
(*                                                                         *)
(* The inductive invariant has four parts.  ControlInv is about the locks: *)
(* two requests are in a block only if the history says so.  WorkInv holds *)
(* whatever locks are lost: rows stay with the association of the attempt  *)
(* that made them, no two requests have the same attempt, and what a       *)
(* request read before it opened Gold is still true.  SoleInv is what an   *)
(* association that was never shared owes to the lock: its one request     *)
(* finds the status and the rows as it left them.  RuleInv is about        *)
(* answers, rule versions and snapshots.  A step changes the rows of at    *)
(* most one association; the others are Kept.                              *)
(***************************************************************************)
EXTENDS DeliveryProcessing, TLAPS, FiniteSetTheorems, WellFoundedInduction

AttemptRows == [file : Files, association : Associations \cup {<<>>},
                stage : {"BRONZE", "SILVER", "GOLD"},
                status : {"PROCESSING", "SUCCESS", "FAILED", "CRASHED"}]
DqRows == [association : Associations, attempt : Nat, rules : Nat, valid : BOOLEAN]
GoldRows == [association : Associations, dq : Nat, attempt : Nat]
AssociationRows == [status : Statuses, pin : Nat, reused : BOOLEAN]
VersionRows == [number : Nat, rules : Nat, approved : Nat, answers : [Questions -> {"NONE", "YES", "NO"}]]
FileRows == [schema : BOOLEAN, profiled : BOOLEAN, status : {"UPLOADED", "FAILED"}]

Running == {"silver_running", "silver_lost", "gold_running", "gold_lost"}
Decided == Continuing \ {"silver", "gold"}
Locks == {"dataset", "lifecycle", "delivery"}
Places == {"idle", "started"} \cup Inside
Wants == {"BOTH", "SILVER", "GOLD", "ASSOCIATED", "PENDING"}
Served(w) == AssociationOf(job[w])

(* TypeOK in two parts, with the type of upload and what a position says of *)
(* the request and the attempt it has.                                      *)
TableTypes ==
    /\ upload \in Deliveries
    /\ archived \in [Uploads -> BOOLEAN]
    /\ file \in [Files -> FileRows]
    /\ version \in [Versions -> VersionRows]
    /\ association \in [Associations -> AssociationRows]
    /\ policies \in [Versions -> [0 .. MaxRuleVersion -> SUBSET Questions]]
    /\ attempts \in Seq(AttemptRows)
    /\ dqRuns \in Seq(DqRows)
    /\ goldRuns \in Seq(GoldRows)
    /\ sharedLifecycles \subseteq Uploads /\ sharedDeliveries \subseteq Associations

WorkerTypes ==
    /\ at \in [Workers -> Places]
    /\ job \in [Workers -> {0} \cup Uploads]
    /\ want \in [Workers -> Wants]
    /\ attempt \in [Workers -> Nat]
    /\ held \in [Workers -> SUBSET Locks]
    /\ source \in [Workers -> Nat]
    /\ recovery \in [Workers -> Nat]

WorkerType(w) ==
    /\ attempt[w] <= Len(attempts) /\ source[w] <= Len(dqRuns) /\ recovery[w] <= Len(goldRuns)
    /\ at[w] # "idle" => job[w] \in Uploads
    /\ at[w] \in Running \cup {"complete"} => attempt[w] # 0

TypeInv == TableTypes /\ WorkerTypes /\ \A w \in Workers : WorkerType(w)

(* Two requests are in a block only where a lost lock was taken again.      *)
OneInside ==
    \A w, x \in Workers :
        at[w] \in Inside /\ at[x] \in Inside /\ job[w] = job[x] => w = x \/ job[w] \in sharedLifecycles
OneContinues ==
    \A w, x \in Workers :
        at[w] \in Continuing /\ at[x] \in Continuing /\ Served(w) = Served(x) =>
            w = x \/ Served(w) \in sharedDeliveries

ControlInv == OneInside /\ OneContinues /\ ArchivedIsIdle

(* Rows stay with the association of the attempt that wrote them, and a     *)
(* delivery keeps the rules it has a Silver run under.                      *)
RowsInv ==
    /\ \A k \in DOMAIN dqRuns :
          /\ dqRuns[k].attempt \in DOMAIN attempts
          /\ attempts[dqRuns[k].attempt].association = dqRuns[k].association
          /\ dqRuns[k].valid = (dqRuns[k].association[2] \notin AllRejected)
          /\ association[dqRuns[k].association].status \in Finalized
          /\ dqRuns[k].rules = association[dqRuns[k].association].pin
    /\ \A i \in DOMAIN goldRuns :
          /\ goldRuns[i].attempt \in DOMAIN attempts
          /\ attempts[goldRuns[i].attempt].association = goldRuns[i].association
          /\ goldRuns[i].dq \in DOMAIN dqRuns
          /\ dqRuns[goldRuns[i].dq].association = goldRuns[i].association
          /\ dqRuns[goldRuns[i].dq].valid

(* What a request knows whatever lock it has lost.                          *)
Built(a) == \E i \in DOMAIN goldRuns : goldRuns[i].association = a

Knows(w) ==
    /\ at[w] \in Inspecting /\ attempt[w] # 0 => attempts[attempt[w]].association = <<>>
    /\ at[w] \in Running => attempts[attempt[w]].association = Served(w)
    /\ at[w] \in {"silver_running", "silver_lost"} => attempts[attempt[w]].stage = "SILVER"
    /\ at[w] \in {"gold_running", "gold_lost"} => attempts[attempt[w]].stage = "GOLD"
    /\ at[w] \in {"silver_running", "gold_running"} /\ "delivery" \in held[w] =>
          attempts[attempt[w]].status = "PROCESSING"
    /\ at[w] \in Decided => association[Served(w)].status \in Finalized
    /\ at[w] \in {"gold_open", "gold_running"} =>
          /\ source[w] \in DOMAIN dqRuns /\ dqRuns[source[w]].association = Served(w)
          /\ dqRuns[source[w]].valid
          /\ recovery[w] # 0 => /\ recovery[w] \in DOMAIN goldRuns
                                /\ goldRuns[recovery[w]].association = Served(w)
                                /\ goldRuns[recovery[w]].dq = source[w]
    /\ at[w] = "gold_skip" => Served(w)[2] \in AllRejected
    /\ at[w] = "gold_reuse" => Built(Served(w))

Finished(a) ==
    /\ association[a].status = "SUCCESS" => Built(a)
    /\ association[a].status = "SUCCESS_WITH_WARNINGS" => a[2] \in AllRejected

AttemptsApart ==
    \A w, x \in Workers : w # x /\ attempt[w] # 0 => attempt[w] # attempt[x]

WorkInv ==
    /\ RowsInv /\ AttemptsApart
    /\ \A w \in Workers : Knows(w)
    /\ \A a \in Associations : Finished(a)

(* What the one request of a delivery that was never shared relies on.      *)
Lineage(a) ==
    \E i \in DOMAIN goldRuns :
        /\ goldRuns[i].association = a
        /\ Successful(goldRuns[i].attempt, "GOLD")
        /\ Successful(dqRuns[goldRuns[i].dq].attempt, "SILVER")

Expects(w, status) ==
    /\ at[w] = "silver_reuse" => BehindGold(status)
    /\ at[w] = "silver_open" => status \notin Terminal
    /\ at[w] = "silver_running" => status = "SILVER_PROCESSING"
    /\ at[w] = "silver_lost" => status = "READY_FOR_GOLD"
    /\ at[w] = "gold_open" => status \notin Terminal
    /\ at[w] = "gold_running" => status = "GOLD_PROCESSING"
    /\ at[w] = "gold_lost" => status = "SUCCESS"

Owns(w) ==
    /\ Expects(w, association[Served(w)].status)
    /\ at[w] \in {"gold_open", "gold_running"} =>
          /\ Successful(dqRuns[source[w]].attempt, "SILVER")
          /\ recovery[w] = 0 => \A i \in DOMAIN goldRuns : goldRuns[i].dq # source[w]
    /\ at[w] = "gold_reuse" => Lineage(Served(w))

Sole(a) ==
    /\ association[a].status = "SUCCESS" => Lineage(a)
    /\ \A i, j \in DOMAIN goldRuns :
          goldRuns[i].association = a /\ goldRuns[j].association = a /\ goldRuns[i].dq = goldRuns[j].dq =>
              i = j

SoleInv ==
    /\ \A w \in Workers : at[w] \in Continuing => Served(w) \in sharedDeliveries \/ Owns(w)
    /\ \A a \in Associations \ sharedDeliveries : Sole(a)

(* Snapshots exist up to the current rule version, and the current one is   *)
(* the draft; a reused approval has its questions answered.                 *)
DraftInv ==
    \A v \in Versions :
        /\ version[v].rules <= MaxRuleVersion /\ version[v].approved <= version[v].rules
        /\ \A n \in 0 .. MaxRuleVersion : n > version[v].rules => policies[v][n] = {}
        /\ policies[v][version[v].rules] # {} => policies[v][version[v].rules] = ActiveRules(v)
        /\ version[v].approved > 0 /\ version[v].approved = version[v].rules =>
              policies[v][version[v].rules] # {}

RuleInv == DraftInv /\ ReusedIsAnswered

DeliveryInv == TypeInv /\ ControlInv /\ WorkInv /\ SoleInv /\ RuleInv
-----------------------------------------------------------------------------
LEMMA LatestIn ==
    ASSUME NEW n \in Nat, NEW rows \in SUBSET (1 .. n)
    PROVE  /\ rows = {} => Latest(rows) = 0
           /\ rows # {} => Latest(rows) \in rows
           /\ Latest(rows) \in 0 .. n
           /\ Latest(rows) # 0 => Latest(rows) \in rows
<1> DEFINE less == {p \in Nat \X Nat : p[1] < p[2]}
           gaps == {n - i : i \in rows}
<1>1. ASSUME rows # {} PROVE \E i \in rows : \A j \in rows : j <= i
  <2>1. IsWellFoundedOn(less, Nat)
    BY NatLessThanWellFounded DEF OpToRel
  <2>2. gaps \subseteq Nat /\ gaps # {}
    <3>1. PICK i \in rows : TRUE
      BY <1>1
    <3>2. n - i \in gaps
      OBVIOUS
    <3>3. \A j \in rows : n - j \in Nat
      OBVIOUS
    <3> QED BY <3>2, <3>3
  <2> HIDE DEF less
  <2>3. PICK g \in gaps : \A h \in gaps : ~(<<h, g>> \in less)
    BY <2>1, <2>2, WFMin
  <2> USE DEF less
  <2>4. PICK i \in rows : g = n - i
    OBVIOUS
  <2>5. ASSUME NEW j \in rows PROVE j <= i
    <3>1. n - j \in gaps /\ n - j \in Nat /\ g \in Nat
      BY <2>2
    <3>2. ~(<<n - j, g>> \in less)
      BY <3>1, <2>3
    <3>3. ~(n - j < g)
      BY <3>1, <3>2
    <3> QED BY <3>3, <2>4
  <2> QED BY <2>5
<1>2. rows # {} => Latest(rows) \in rows
  BY <1>1 DEF Latest
<1>3. rows = {} => Latest(rows) = 0
  BY DEF Latest
<1>4. rows # {} => Latest(rows) \in 1 .. n
  BY <1>2
<1> QED BY <1>2, <1>3, <1>4

LEMMA VersionsFinite == IsFiniteSet(Versions)
<1> DEFINE schemaOf == [f \in Files |-> SchemaOf[f]]
<1>1. schemaOf \in Surjection(Files, Schemas)
  BY DEF Surjection, Schemas
<1>2. IsFiniteSet(Schemas)
  BY <1>1, FS_Surjection, DeliveryAssumption
<1> QED BY <1>2, FS_Product, DeliveryAssumption DEF Versions

LEMMA TypeImplies == TypeInv => TypeOK
<1> SUFFICES ASSUME TypeInv PROVE TypeOK
  OBVIOUS
<1>1. Len(attempts) \in Nat /\ Len(dqRuns) \in Nat /\ Len(goldRuns) \in Nat
  BY DEF TypeInv, TableTypes
<1>2. \A w \in Workers : /\ attempt[w] \in 0 .. Len(attempts) /\ source[w] \in 0 .. Len(dqRuns)
                         /\ recovery[w] \in 0 .. Len(goldRuns)
  BY <1>1 DEF TypeInv, WorkerTypes, WorkerType
<1>3. /\ attempt \in [Workers -> 0 .. Len(attempts)] /\ source \in [Workers -> 0 .. Len(dqRuns)]
      /\ recovery \in [Workers -> 0 .. Len(goldRuns)]
  BY <1>2 DEF TypeInv, WorkerTypes
<1>4. /\ at \in [Workers -> {"idle", "started"} \cup Inside] /\ job \in [Workers -> {0} \cup Uploads]
      /\ want \in [Workers -> {"BOTH", "SILVER", "GOLD", "ASSOCIATED", "PENDING"}]
      /\ held \in [Workers -> SUBSET {"dataset", "lifecycle", "delivery"}]
  BY DEF TypeInv, WorkerTypes, Places, Wants, Locks
<1>5. TableTypes
  BY DEF TypeInv
<1> QED BY <1>3, <1>4, <1>5
        DEF TableTypes, TypeOK, AttemptRows, DqRows, GoldRows, AssociationRows, VersionRows, FileRows

LEMMA AssociationParts ==
    ASSUME NEW a \in Associations
    PROVE  a[1] \in Datasets /\ a[2] \in Files /\ a = <<a[1], a[2]>> /\ VersionOf(a) \in Versions
<1>1. a[1] \in Datasets /\ a[2] \in Files /\ a = <<a[1], a[2]>>
  BY DEF Associations
<1>2. SchemaOf[a[2]] \in Schemas
  BY <1>1 DEF Schemas
<1> QED BY <1>1, <1>2 DEF VersionOf, Versions

LEMMA UploadParts ==
    ASSUME upload \in Deliveries, NEW u \in Uploads
    PROVE  /\ upload[u].file \in Files /\ upload[u].dataset \in Datasets
           /\ AssociationOf(u) \in Associations
           /\ AssociationOf(u)[1] = upload[u].dataset /\ AssociationOf(u)[2] = upload[u].file
<1>1. upload \in [Uploads -> [file : Files, dataset : Datasets]]
  BY DeliveryAssumption
<1>2. upload[u] \in [file : Files, dataset : Datasets]
  BY <1>1
<1> QED BY <1>2 DEF AssociationOf, Associations

LEMMA ServedParts ==
    ASSUME TypeInv, NEW w \in Workers, at[w] # "idle"
    PROVE  /\ job[w] \in Uploads /\ Served(w) \in Associations
           /\ Served(w)[1] = upload[job[w]].dataset /\ Served(w)[2] = upload[job[w]].file
           /\ upload[job[w]].file \in Files /\ upload[job[w]].dataset \in Datasets
           /\ VersionOf(Served(w)) \in Versions
<1>1. job[w] \in Uploads /\ upload \in Deliveries
  BY DEF TypeInv, WorkerType, TableTypes
<1>2. Served(w) \in Associations
  BY <1>1, UploadParts DEF Served
<1> QED BY <1>1, <1>2, UploadParts, AssociationParts DEF Served

(* The writes of a row.                                                     *)
LEMMA Completed ==
    ASSUME attempts \in Seq(AttemptRows), NEW i \in DOMAIN attempts,
           NEW status \in {"SUCCESS", "FAILED", "CRASHED"}, CompleteAttempt(i, status)
    PROVE  /\ attempts' \in Seq(AttemptRows)
           /\ Len(attempts') = Len(attempts) /\ DOMAIN attempts' = DOMAIN attempts
           /\ \A k \in DOMAIN attempts :
                 /\ attempts'[k].association = attempts[k].association
                 /\ attempts'[k].stage = attempts[k].stage
                 /\ k # i => attempts'[k] = attempts[k]
           /\ attempts'[i].status = status
<1>1. attempts[i] \in AttemptRows
  OBVIOUS
<1>2. [attempts[i] EXCEPT !.status = status] \in AttemptRows
  BY <1>1 DEF AttemptRows
<1>3. attempts' = [attempts EXCEPT ![i] = [attempts[i] EXCEPT !.status = status]]
  BY DEF CompleteAttempt
<1>4. attempts' \in Seq(AttemptRows) /\ Len(attempts') = Len(attempts) /\ DOMAIN attempts' = DOMAIN attempts
  BY <1>2, <1>3
<1>5. attempts'[i] = [attempts[i] EXCEPT !.status = status]
  BY <1>3
<1>6. /\ attempts'[i].association = attempts[i].association /\ attempts'[i].stage = attempts[i].stage
      /\ attempts'[i].status = status
  BY <1>1, <1>5 DEF AttemptRows
<1>7. \A k \in DOMAIN attempts : k # i => attempts'[k] = attempts[k]
  BY <1>3
<1> QED BY <1>4, <1>6, <1>7

LEMMA Created ==
    ASSUME attempts \in Seq(AttemptRows), NEW w \in Workers, NEW f \in Files,
           NEW a \in Associations \cup {<<>>}, NEW stage \in {"BRONZE", "SILVER", "GOLD"},
           CreateAttempt(w, f, a, stage)
    PROVE  /\ attempts' \in Seq(AttemptRows)
           /\ Len(attempts) \in Nat /\ Len(attempts') = Len(attempts) + 1
           /\ DOMAIN attempts' = DOMAIN attempts \cup {Len(attempts) + 1}
           /\ \A k \in DOMAIN attempts : attempts'[k] = attempts[k]
           /\ attempts'[Len(attempts) + 1].association = a
           /\ attempts'[Len(attempts) + 1].stage = stage
           /\ attempts'[Len(attempts) + 1].status = "PROCESSING"
           /\ attempt' = [attempt EXCEPT ![w] = Len(attempts) + 1]
<1> DEFINE row == [file |-> f, association |-> a, stage |-> stage, status |-> "PROCESSING"]
<1>1. row \in AttemptRows
  BY DEF AttemptRows
<1>2. attempts' = Append(attempts, row) /\ attempt' = [attempt EXCEPT ![w] = Len(attempts) + 1]
  BY DEF CreateAttempt
<1>3. /\ row.association = a /\ row.stage = stage /\ row.status = "PROCESSING"
  OBVIOUS
<1> HIDE DEF row
<1>4. /\ attempts' \in Seq(AttemptRows) /\ Len(attempts') = Len(attempts) + 1 /\ Len(attempts) \in Nat
      /\ \A k \in DOMAIN attempts : attempts'[k] = attempts[k]
      /\ attempts'[Len(attempts) + 1] = row
  BY <1>1, <1>2
<1>5. DOMAIN attempts = 1 .. Len(attempts) /\ DOMAIN attempts' = 1 .. Len(attempts')
  BY <1>4
<1>6. DOMAIN attempts' = DOMAIN attempts \cup {Len(attempts) + 1}
  BY <1>4, <1>5
<1> QED BY <1>2, <1>3, <1>4, <1>6

LEMMA StatusSet ==
    ASSUME association \in [Associations -> AssociationRows], NEW a \in Associations,
           NEW status \in Statuses, SetStatus(a, status)
    PROVE  /\ association' \in [Associations -> AssociationRows]
           /\ association'[a].status = status /\ association'[a].pin = association[a].pin
           /\ association'[a].reused = association[a].reused
           /\ \A b \in Associations : b # a => association'[b] = association[b]
<1>1. association[a] \in AssociationRows
  OBVIOUS
<1>2. association' = [association EXCEPT ![a] = [association[a] EXCEPT !.status = status]]
  BY DEF SetStatus
<1>3. [association[a] EXCEPT !.status = status] \in AssociationRows
  BY <1>1 DEF AssociationRows
<1>4. association'[a] = [association[a] EXCEPT !.status = status]
  BY <1>2
<1> QED BY <1>1, <1>2, <1>3, <1>4 DEF AssociationRows

LEMMA DqRunIn ==
    ASSUME dqRuns \in Seq(DqRows), NEW a
    PROVE  /\ LatestDqRun(a) \in Nat
           /\ LatestDqRun(a) # 0 =>
                 /\ LatestDqRun(a) \in DOMAIN dqRuns
                 /\ dqRuns[LatestDqRun(a)].association = a
                 /\ Successful(dqRuns[LatestDqRun(a)].attempt, "SILVER")
<1> DEFINE rows == {i \in DOMAIN dqRuns :
                      dqRuns[i].association = a /\ Successful(dqRuns[i].attempt, "SILVER")}
<1>1. rows \in SUBSET (1 .. Len(dqRuns)) /\ Len(dqRuns) \in Nat
  OBVIOUS
<1>2. LatestDqRun(a) = Latest(rows)
  BY DEF LatestDqRun
<1>3. Latest(rows) \in 0 .. Len(dqRuns) /\ (Latest(rows) # 0 => Latest(rows) \in rows)
  BY <1>1, LatestIn
<1> QED BY <1>1, <1>2, <1>3

LEMMA GoldRunIn ==
    ASSUME goldRuns \in Seq(GoldRows), NEW a, NEW dq
    PROVE  /\ GoldPublication(a, dq) \in Nat
           /\ GoldPublication(a, dq) # 0 =>
                 /\ GoldPublication(a, dq) \in DOMAIN goldRuns
                 /\ goldRuns[GoldPublication(a, dq)].association = a
                 /\ goldRuns[GoldPublication(a, dq)].dq = dq
           /\ GoldPublication(a, dq) = 0 =>
                 \A i \in DOMAIN goldRuns : ~(goldRuns[i].association = a /\ goldRuns[i].dq = dq)
           /\ SuccessfulGoldRun(a, dq) # 0 =>
                 \E i \in DOMAIN goldRuns :
                    /\ goldRuns[i].association = a /\ goldRuns[i].dq = dq
                    /\ Successful(goldRuns[i].attempt, "GOLD")
<1> DEFINE rows == GoldPublications(a, dq)
           good == {i \in rows : Successful(goldRuns[i].attempt, "GOLD")}
<1>1. Len(goldRuns) \in Nat /\ rows \in SUBSET (1 .. Len(goldRuns)) /\ good \in SUBSET (1 .. Len(goldRuns))
  BY DEF GoldPublications
<1>2. GoldPublication(a, dq) = Latest(rows) /\ SuccessfulGoldRun(a, dq) = Latest(good)
  BY DEF GoldPublication, SuccessfulGoldRun
<1>3. /\ Latest(rows) \in 0 .. Len(goldRuns) /\ (Latest(rows) # 0 => Latest(rows) \in rows)
      /\ rows # {} => Latest(rows) \in rows
      /\ Latest(good) # 0 => Latest(good) \in good
  BY <1>1, LatestIn
<1>4. Latest(rows) = 0 => rows = {}
  BY <1>1, <1>3
<1> QED BY <1>1, <1>2, <1>3, <1>4 DEF GoldPublications

-----------------------------------------------------------------------------
(* The ways a worker moves: a request ends or waits outside of its blocks,  *)
(* goes on in them, or enters them.                                         *)
Still(x) ==
    /\ at'[x] = at[x] /\ job'[x] = job[x] /\ attempt'[x] = attempt[x]
    /\ source'[x] = source[x] /\ recovery'[x] = recovery[x] /\ held'[x] \subseteq held[x]

OnlyWorker(w) == WorkerTypes' /\ \A x \in Workers \ {w} : Still(x)

Ends(w) ==
    /\ OnlyWorker(w) /\ attempt'[w] = 0 /\ source'[w] = 0 /\ recovery'[w] = 0
    /\ at'[w] = "idle" \/ (at'[w] = "started" /\ job'[w] \in Uploads)

GoesOn(w) ==
    /\ OnlyWorker(w) /\ job'[w] = job[w]
    /\ \/ at[w] \in Inspecting /\ at'[w] \in Inspecting
       \/ at[w] \in Continuing /\ at'[w] \in Continuing
       \/ at[w] = "archiving" /\ at'[w] = "archive"

LifecycleTaken(u) == \A x \in Workers : at[x] \in Inside /\ job[x] = u => u \in sharedLifecycles'
DeliveryTaken(a) == \A x \in Workers : at[x] \in Continuing /\ Served(x) = a => a \in sharedDeliveries'

Enters(w, u) ==
    /\ OnlyWorker(w) /\ attempt'[w] = 0 /\ source'[w] = 0 /\ recovery'[w] = 0
    /\ at'[w] \in {"inspect", "associate", "silver", "gold", "archiving"} /\ job'[w] = u /\ u \in Uploads
    /\ LifecycleTaken(u)
    /\ at'[w] \in Continuing => DeliveryTaken(AssociationOf(u))
    /\ at'[w] # "archiving" => ~archived[u]

LEMMA PlaceSets ==
    /\ Inspecting \subseteq Inside /\ Continuing \subseteq Inside /\ Inside \subseteq Places
    /\ "idle" \notin Inside /\ "started" \notin Inside /\ {"archiving", "archive"} \subseteq Inside
    /\ Inspecting \cap Continuing = {} /\ Running \subseteq Decided /\ Decided \subseteq Continuing
    /\ {"archiving", "archive"} \cap (Inspecting \cup Continuing) = {} /\ "complete" \in Inspecting
    /\ "idle" \in Places /\ "started" \in Places
  BY DEF Inside, Inspecting, Continuing, Places, Running, Decided

LEMMA MovesAlone ==
    ASSUME TypeInv, NEW w \in Workers, NEW place \in Places, at' = [at EXCEPT ![w] = place],
           job' = job \/ \E u \in {0} \cup Uploads : job' = [job EXCEPT ![w] = u],
           want' = want \/ \E stage \in Wants : want' = [want EXCEPT ![w] = stage],
           attempt' = attempt \/ \E n \in Nat : attempt' = [attempt EXCEPT ![w] = n],
           held' = held \/ \E locks \in SUBSET Locks : held' = [held EXCEPT ![w] = locks],
           source' = source \/ \E n \in Nat : source' = [source EXCEPT ![w] = n],
           recovery' = recovery \/ \E n \in Nat : recovery' = [recovery EXCEPT ![w] = n]
    PROVE  OnlyWorker(w) /\ at'[w] = place
<1>1. WorkerTypes
  BY DEF TypeInv
<1>2. WorkerTypes'
  <2>1. at' \in [Workers -> Places] /\ job' \in [Workers -> {0} \cup Uploads] /\ want' \in [Workers -> Wants]
    BY <1>1 DEF WorkerTypes
  <2>2. attempt' \in [Workers -> Nat] /\ source' \in [Workers -> Nat] /\ recovery' \in [Workers -> Nat]
    BY <1>1 DEF WorkerTypes
  <2>3. held' \in [Workers -> SUBSET Locks]
    BY <1>1 DEF WorkerTypes
  <2> QED BY <2>1, <2>2, <2>3 DEF WorkerTypes
<1>3. \A x \in Workers \ {w} : Still(x)
  BY <1>1 DEF WorkerTypes, Still
<1>4. at'[w] = place
  BY <1>1 DEF WorkerTypes
<1> QED BY <1>2, <1>3, <1>4 DEF OnlyWorker

LEMMA Entered ==
    ASSUME TypeInv, NEW w \in Workers, NEW u \in {0} \cup Uploads, NEW place \in Places,
           NEW stage \in Wants, NEW locks \in SUBSET Locks, Enter(w, u, place, stage, locks)
    PROVE  /\ OnlyWorker(w) /\ at'[w] = place /\ job'[w] = u
           /\ attempt'[w] = 0 /\ source'[w] = 0 /\ recovery'[w] = 0
<1>1. /\ at' = [at EXCEPT ![w] = place] /\ job' = [job EXCEPT ![w] = u]
      /\ want' = [want EXCEPT ![w] = stage] /\ held' = [held EXCEPT ![w] = locks]
      /\ attempt' = [attempt EXCEPT ![w] = 0] /\ source' = [source EXCEPT ![w] = 0]
      /\ recovery' = [recovery EXCEPT ![w] = 0]
  BY DEF Enter
<1>2. OnlyWorker(w) /\ at'[w] = place
  BY <1>1, MovesAlone
<1>3. job'[w] = u /\ attempt'[w] = 0 /\ source'[w] = 0 /\ recovery'[w] = 0
  BY <1>1 DEF TypeInv, WorkerTypes
<1> QED BY <1>2, <1>3

LEMMA Leaves ==
    ASSUME TypeInv, NEW w \in Workers, Leave(w)
    PROVE  Ends(w) /\ at'[w] = "idle"
<1>1. Enter(w, 0, "idle", "BOTH", {}) /\ "idle" \in Places /\ "BOTH" \in Wants
  BY DEF Leave, Places, Wants
<1>2. /\ OnlyWorker(w) /\ at'[w] = "idle"
      /\ attempt'[w] = 0 /\ source'[w] = 0 /\ recovery'[w] = 0
  BY <1>1, Entered
<1> QED BY <1>2 DEF Ends

LEMMA BronzeEnds ==
    ASSUME TypeInv, NEW w \in Workers, at[w] # "idle", EndBronze(w)
    PROVE  Ends(w)
<1>1. CASE want[w] = "PENDING" /\ "lifecycle" \in held[w]
  <2>1. /\ Enter(w, job[w], "started", "BOTH", {}) /\ "started" \in Places /\ "BOTH" \in Wants
        /\ job[w] \in Uploads
    BY <1>1 DEF EndBronze, Places, Wants, TypeInv, WorkerType
  <2>2. /\ OnlyWorker(w) /\ at'[w] = "started" /\ job'[w] = job[w]
        /\ attempt'[w] = 0 /\ source'[w] = 0 /\ recovery'[w] = 0
    BY <2>1, Entered
  <2> QED BY <2>1, <2>2 DEF Ends
<1>2. CASE ~(want[w] = "PENDING" /\ "lifecycle" \in held[w])
  BY <1>2, Leaves DEF EndBronze
<1> QED BY <1>1, <1>2

LEMMA StepsOn ==
    ASSUME TypeInv, NEW w \in Workers, NEW place \in Inside, Goto(w, place), job' = job, want' = want,
           attempt' = attempt \/ \E n \in Nat : attempt' = [attempt EXCEPT ![w] = n],
           held' = held \/ \E locks \in SUBSET Locks : held' = [held EXCEPT ![w] = locks],
           source' = source \/ \E n \in Nat : source' = [source EXCEPT ![w] = n],
           recovery' = recovery \/ \E n \in Nat : recovery' = [recovery EXCEPT ![w] = n],
           \/ at[w] \in Inspecting /\ place \in Inspecting
           \/ at[w] \in Continuing /\ place \in Continuing
           \/ at[w] = "archiving" /\ place = "archive"
    PROVE  GoesOn(w) /\ at'[w] = place
<1>1. at' = [at EXCEPT ![w] = place] /\ place \in Places
  BY PlaceSets DEF Goto
<1>2. OnlyWorker(w) /\ at'[w] = place
  BY <1>1, MovesAlone
<1> QED BY <1>2 DEF GoesOn

LEMMA LocksTaken ==
    /\ \A u \in Uploads : TakeLifecycle(u) => LifecycleTaken(u)
    /\ \A a : TakeDelivery(a) => DeliveryTaken(a)
  BY DEF TakeLifecycle, LifecycleFree, LostLifecycle, LifecycleTaken,
         TakeDelivery, DeliveryFree, LostDelivery, DeliveryTaken, Served

LEMMA BronzeBegins ==
    ASSUME TypeInv, NEW w \in Workers, NEW u \in Uploads, NEW caller \in Wants, BeginBronze(w, u, caller)
    PROVE  Enters(w, u)
<1> DEFINE place == IF file[upload[u].file].schema THEN "associate" ELSE "inspect"
<1>1. /\ Enter(w, u, place, caller, {"lifecycle"}) /\ LifecycleTaken(u) /\ ~archived[u]
  BY LocksTaken DEF BeginBronze
<1>2. /\ place \in Places /\ place \notin Continuing /\ {"lifecycle"} \in SUBSET Locks
      /\ place \in {"inspect", "associate"}
  BY DEF Places, Inside, Inspecting, Continuing, Locks
<1> HIDE DEF place
<1>3. /\ OnlyWorker(w) /\ at'[w] = place /\ job'[w] = u
      /\ attempt'[w] = 0 /\ source'[w] = 0 /\ recovery'[w] = 0
  BY <1>1, <1>2, Entered
<1> QED BY <1>1, <1>2, <1>3 DEF Enters

LEMMA ArchiveBegins ==
    ASSUME TypeInv, NEW w \in Workers, NEW u \in Uploads, BeginArchive(w, u)
    PROVE  Enters(w, u)
<1> DEFINE stage == IF association[AssociationOf(u)].status = "ABSENT" THEN "BOTH" ELSE "ASSOCIATED"
<1>1. /\ Enter(w, u, "archiving", stage, {"lifecycle"}) /\ LifecycleTaken(u)
  BY LocksTaken DEF BeginArchive
<1>2. /\ "archiving" \in Places /\ "archiving" \notin Continuing /\ {"lifecycle"} \in SUBSET Locks
      /\ stage \in Wants
  BY DEF Places, Inside, Continuing, Locks, Wants
<1> HIDE DEF stage
<1>3. /\ OnlyWorker(w) /\ at'[w] = "archiving" /\ job'[w] = u
      /\ attempt'[w] = 0 /\ source'[w] = 0 /\ recovery'[w] = 0
  BY <1>1, <1>2, Entered
<1> QED BY <1>1, <1>2, <1>3 DEF Enters

LEMMA ContinueBegins ==
    ASSUME TypeInv, NEW w \in Workers, NEW u \in Uploads, NEW stage \in {"BOTH", "SILVER", "GOLD"},
           BeginContinue(w, u, stage)
    PROVE  Ends(w) \/ Enters(w, u)
<1> DEFINE place == IF stage = "GOLD" THEN "gold" ELSE "silver"
           a == AssociationOf(u)
           locks == {"lifecycle", "delivery"} \cup (IF a[1] \in Governed THEN {"dataset"} ELSE {})
           over == archived[u] \/ (a[1] \notin Governed /\ association[a].status \in Terminal)
<1>1. /\ LifecycleTaken(u) /\ DeliveryTaken(a)
      /\ IF over THEN Leave(w) ELSE Enter(w, u, place, stage, locks)
  BY LocksTaken DEF BeginContinue
<1>2. place \in Places /\ place \in {"silver", "gold"} /\ stage \in Wants /\ locks \in SUBSET Locks
  BY DEF Wants, Places, Inside, Continuing, Locks
<1>3. CASE over
  BY <1>1, <1>3, Leaves
<1>4. CASE ~over
  <2>1. Enter(w, u, place, stage, locks) /\ ~archived[u]
    BY <1>1, <1>4
  <2> HIDE DEF place, over, locks
  <2>2. /\ OnlyWorker(w) /\ at'[w] = place /\ job'[w] = u
        /\ attempt'[w] = 0 /\ source'[w] = 0 /\ recovery'[w] = 0
    BY <1>2, <2>1, Entered
  <2> QED BY <1>1, <1>2, <2>1, <2>2 DEF Enters
<1> QED BY <1>3, <1>4

LEMMA SilverEnds ==
    ASSUME TypeInv, NEW w \in Workers, at[w] \in Continuing, AfterSilver(w)
    PROVE  \/ Ends(w) /\ at'[w] = "idle"
           \/ GoesOn(w) /\ at'[w] = "gold" /\ attempt'[w] = 0 /\ UNCHANGED <<source, recovery>>
<1>1. CASE want[w] = "SILVER"
  BY <1>1, Leaves DEF AfterSilver
<1>2. CASE want[w] # "SILVER"
  <2>1. /\ Goto(w, "gold") /\ attempt' = [attempt EXCEPT ![w] = 0]
        /\ job' = job /\ want' = want /\ held' = held /\ source' = source /\ recovery' = recovery
    BY <1>2 DEF AfterSilver, request, plan
  <2>2. "gold" \in Continuing /\ "gold" \in Inside
    BY DEF Continuing, Inside
  <2>3. GoesOn(w) /\ at'[w] = "gold"
    BY <2>1, <2>2, StepsOn
  <2> QED BY <2>1, <2>3 DEF TypeInv, WorkerTypes
<1> QED BY <1>1, <1>2

Longer == Len(attempts) <= Len(attempts') /\ Len(dqRuns) <= Len(dqRuns') /\ Len(goldRuns) <= Len(goldRuns')

LEMMA StillTyped ==
    ASSUME TypeInv, TableTypes', Longer, NEW x \in Workers, Still(x)
    PROVE  WorkerType(x)'
<1>1. /\ Len(attempts) \in Nat /\ Len(attempts') \in Nat /\ Len(dqRuns) \in Nat /\ Len(dqRuns') \in Nat
      /\ Len(goldRuns) \in Nat /\ Len(goldRuns') \in Nat
      /\ attempt[x] \in Nat /\ source[x] \in Nat /\ recovery[x] \in Nat
  BY DEF TypeInv, TableTypes, WorkerTypes
<1> QED BY <1>1 DEF TypeInv, WorkerType, Still, Longer

LEMMA WorkersTyped ==
    ASSUME TypeInv, TableTypes', Longer, NEW w \in Workers, OnlyWorker(w), WorkerType(w)'
    PROVE  TypeInv'
<1>1. \A x \in Workers : WorkerType(x)'
  BY StillTyped DEF OnlyWorker
<1> QED BY <1>1 DEF TypeInv, OnlyWorker

LEMMA EndsTyped ==
    ASSUME TypeInv, TableTypes', Longer, NEW w \in Workers, Ends(w) \/ \E u \in Uploads : Enters(w, u)
    PROVE  TypeInv'
<1>1. OnlyWorker(w) /\ attempt'[w] = 0 /\ source'[w] = 0 /\ recovery'[w] = 0
      /\ (at'[w] # "idle" => job'[w] \in Uploads) /\ at'[w] \notin Running \cup {"complete"}
  BY DEF Ends, Enters, Running
<1>2. Len(attempts') \in Nat /\ Len(dqRuns') \in Nat /\ Len(goldRuns') \in Nat
  BY DEF TableTypes
<1>3. WorkerType(w)'
  BY <1>1, <1>2 DEF WorkerType
<1> QED BY <1>1, <1>3, WorkersTyped

(* A request goes on with what it has, or with less.                        *)
LEMMA OnTyped ==
    ASSUME TypeInv, TableTypes', Longer, NEW w \in Workers, GoesOn(w),
           attempt'[w] \in {0, attempt[w]} \/ attempt'[w] = Len(attempts'),
           at'[w] \in Running \cup {"complete"} => attempt'[w] # 0,
           source'[w] <= Len(dqRuns'), recovery'[w] <= Len(goldRuns')
    PROVE  TypeInv'
<1>1. /\ Len(attempts) \in Nat /\ Len(attempts') \in Nat /\ attempt[w] \in Nat
      /\ attempt[w] <= Len(attempts) /\ Len(attempts) <= Len(attempts')
  BY DEF TypeInv, TableTypes, WorkerTypes, WorkerType, Longer
<1>2. at[w] # "idle" /\ job[w] \in Uploads /\ job'[w] = job[w]
  <2>1. at[w] # "idle"
    BY PlaceSets DEF GoesOn
  <2> QED BY <2>1 DEF GoesOn, TypeInv, WorkerType
<1>3. attempt'[w] <= Len(attempts')
  BY <1>1
<1>4. WorkerType(w)'
  BY <1>2, <1>3 DEF WorkerType
<1> QED BY <1>4, WorkersTyped DEF GoesOn

LEMMA PlanIn ==
    ASSUME TypeInv, TableTypes', Longer, NEW w \in Workers
    PROVE  source[w] <= Len(dqRuns') /\ recovery[w] <= Len(goldRuns')
<1>1. /\ Len(dqRuns) \in Nat /\ Len(dqRuns') \in Nat /\ Len(goldRuns) \in Nat /\ Len(goldRuns') \in Nat
      /\ source[w] \in Nat /\ recovery[w] \in Nat
      /\ source[w] <= Len(dqRuns) /\ recovery[w] <= Len(goldRuns)
  BY DEF TypeInv, TableTypes, WorkerTypes, WorkerType
<1> QED BY <1>1 DEF Longer

LEMMA Recovers ==
    ASSUME TableTypes, NEW a \in Associations, Recover(a)
    PROVE  \/ UNCHANGED <<attempts, association>>
           \/ \E i \in DOMAIN attempts :
                 /\ attempts[i].association = a /\ attempts[i].status = "PROCESSING"
                 /\ CompleteAttempt(i, "CRASHED")
                 /\ \/ association' = association /\ association[a].status \in Terminal
                    \/ /\ association[a].status \notin Terminal
                       /\ \E status \in {"SILVER_FAILED", "GOLD_FAILED"} : SetStatus(a, status)
<1>1. CASE ActiveOf(a) = {}
  BY <1>1 DEF Recover
<1>2. CASE ActiveOf(a) # {}
  <2> DEFINE i == CHOOSE i \in ActiveOf(a) : TRUE
  <2>1. i \in ActiveOf(a)
    BY <1>2
  <2>2. i \in DOMAIN attempts /\ attempts[i].association = a /\ attempts[i].status = "PROCESSING"
    BY <2>1 DEF ActiveOf, ActiveAttempt
  <2>3. /\ CompleteAttempt(i, "CRASHED")
        /\ IF association[a].status \in Terminal THEN UNCHANGED association
           ELSE SetStatus(a, FailedStatus(attempts[i].stage))
    BY <1>2 DEF Recover
  <2> HIDE DEF i
  <2>4. FailedStatus(attempts[i].stage) \in {"SILVER_FAILED", "GOLD_FAILED"}
    BY DEF FailedStatus
  <2> QED BY <2>2, <2>3, <2>4
<1> QED BY <1>1, <1>2

LEMMA RecoverTypes ==
    ASSUME TableTypes, NEW a \in Associations, Recover(a)
    PROVE  /\ association' \in [Associations -> AssociationRows] /\ attempts' \in Seq(AttemptRows)
           /\ Len(attempts') = Len(attempts)
<1>1. CASE UNCHANGED <<attempts, association>>
  BY <1>1 DEF TableTypes
<1>2. ASSUME NEW i \in DOMAIN attempts, CompleteAttempt(i, "CRASHED"),
             \/ association' = association
             \/ \E status \in {"SILVER_FAILED", "GOLD_FAILED"} : SetStatus(a, status)
      PROVE  /\ association' \in [Associations -> AssociationRows] /\ attempts' \in Seq(AttemptRows)
             /\ Len(attempts') = Len(attempts)
  <2>1. attempts' \in Seq(AttemptRows) /\ Len(attempts') = Len(attempts)
    BY <1>2, Completed DEF TableTypes
  <2>2. association' \in [Associations -> AssociationRows]
    <3>1. CASE association' = association
      BY <3>1 DEF TableTypes
    <3>2. ASSUME NEW status \in {"SILVER_FAILED", "GOLD_FAILED"}, SetStatus(a, status)
          PROVE  association' \in [Associations -> AssociationRows]
      <4>1. status \in Statuses
        BY DEF Statuses, Finalized
      <4> QED BY <4>1, <3>2, StatusSet DEF TableTypes
    <3> QED BY <1>2, <3>1, <3>2
  <2> QED BY <2>1, <2>2
<1> QED BY <1>1, <1>2, Recovers

-----------------------------------------------------------------------------
(* Bronze: what the actions do to the tables, and how the worker moves.     *)
Bronze(w) ==
    \/ OpenBronze(w) \/ SaveSchema(w) \/ SaveProfiles(w) \/ AssignFile(w) \/ InitialiseRules(w)
    \/ NoSuggestions(w) \/ CompleteBronze(w) \/ FileAvailable(w) \/ BronzeFails(w)

LEMMA BronzeServes ==
    ASSUME TypeInv, NEW w \in Workers, Bronze(w)
    PROVE  /\ at[w] \in Inspecting /\ at[w] # "idle" /\ job[w] \in Uploads
           /\ Served(w) \in Associations /\ VersionOf(Served(w)) \in Versions
           /\ Served(w)[2] = upload[job[w]].file /\ upload[job[w]].file \in Files
           /\ upload' = upload /\ archived' = archived /\ policies' = policies
           /\ dqRuns' = dqRuns /\ goldRuns' = goldRuns
           /\ sharedLifecycles' = sharedLifecycles /\ sharedDeliveries' = sharedDeliveries
<1>1. at[w] \in Inspecting /\ at[w] # "idle"
  BY DEF Bronze, OpenBronze, SaveSchema, SaveProfiles, AssignFile, InitialiseRules, NoSuggestions,
         CompleteBronze, FileAvailable, BronzeFails, Inspecting
<1>2. /\ upload' = upload /\ archived' = archived /\ policies' = policies
      /\ dqRuns' = dqRuns /\ goldRuns' = goldRuns
      /\ sharedLifecycles' = sharedLifecycles /\ sharedDeliveries' = sharedDeliveries
  BY DEF Bronze, OpenBronze, SaveSchema, SaveProfiles, AssignFile, InitialiseRules, NoSuggestions,
         CompleteBronze, FileAvailable, BronzeFails, BronzeHandler, uploads, rules, runs, shared
<1> QED BY <1>1, <1>2, ServedParts

(* The handler of an exception.                                             *)
LEMMA BronzeHandled ==
    ASSUME TypeInv, NEW w \in Workers, NoSuggestions(w) \/ BronzeFails(w)
    PROVE  /\ Leave(w) /\ version' = version /\ association' = association
           /\ \/ attempt[w] = 0 /\ attempts' = attempts /\ file' = file
              \/ /\ attempt[w] # 0 /\ CompleteAttempt(attempt[w], "FAILED")
                 /\ file' \in {file, [file EXCEPT ![upload[job[w]].file].status = "FAILED"]}
  BY DEF NoSuggestions, BronzeFails, BronzeHandler, rules

LEMMA AttemptIn ==
    ASSUME TypeInv, NEW w \in Workers
    PROVE  /\ attempt[w] \in Nat /\ (attempt[w] # 0 => attempt[w] \in DOMAIN attempts)
           /\ at[w] \in Running \cup {"complete"} => attempt[w] # 0
  BY DEF TypeInv, TableTypes, WorkerTypes, WorkerType

(* Bronze changes the attempts by making or by ending one.                  *)
LEMMA BronzeAttempts ==
    ASSUME TypeInv, NEW w \in Workers, Bronze(w)
    PROVE  \/ attempts' = attempts
           \/ OpenBronze(w) /\ CreateAttempt(w, upload[job[w]].file, <<>>, "BRONZE")
              /\ association' = association
           \/ /\ attempt[w] # 0 /\ association' = association
              /\ \E status \in {"SUCCESS", "FAILED"} : CompleteAttempt(attempt[w], status)
<1>1. CASE OpenBronze(w)
  BY <1>1 DEF OpenBronze
<1>2. CASE CompleteBronze(w)
  <2>1. at[w] = "complete" /\ CompleteAttempt(attempt[w], "SUCCESS") /\ association' = association
    BY <1>2 DEF CompleteBronze
  <2> QED BY <2>1, AttemptIn
<1>3. CASE NoSuggestions(w) \/ BronzeFails(w)
  BY <1>3, BronzeHandled
<1>4. CASE SaveSchema(w) \/ SaveProfiles(w) \/ AssignFile(w) \/ InitialiseRules(w) \/ FileAvailable(w)
  BY <1>4 DEF SaveSchema, SaveProfiles, AssignFile, InitialiseRules, FileAvailable
<1> QED BY <1>1, <1>2, <1>3, <1>4 DEF Bronze

LEMMA BronzeFile ==
    ASSUME TypeInv, NEW w \in Workers, Bronze(w)
    PROVE  file' \in [Files -> FileRows]
<1> DEFINE f == upload[job[w]].file
<1>1. f \in Files /\ file \in [Files -> FileRows] /\ file[f] \in FileRows
  BY BronzeServes DEF TypeInv, TableTypes
<1>2. file' \in {file, [file EXCEPT ![f] = [file[f] EXCEPT !.schema = TRUE]],
                 [file EXCEPT ![f] = [file[f] EXCEPT !.profiled = TRUE]],
                 [file EXCEPT ![f] = [file[f] EXCEPT !.status = "UPLOADED"]],
                 [file EXCEPT ![f] = [file[f] EXCEPT !.status = "FAILED"]]}
  <2>1. CASE NoSuggestions(w) \/ BronzeFails(w)
    BY <2>1, BronzeHandled
  <2>2. CASE ~(NoSuggestions(w) \/ BronzeFails(w))
    BY <2>2 DEF Bronze, OpenBronze, SaveSchema, SaveProfiles, AssignFile, InitialiseRules,
                CompleteBronze, FileAvailable
  <2> QED BY <2>1, <2>2
<1>3. /\ [file[f] EXCEPT !.schema = TRUE] \in FileRows /\ [file[f] EXCEPT !.profiled = TRUE] \in FileRows
      /\ [file[f] EXCEPT !.status = "UPLOADED"] \in FileRows
      /\ [file[f] EXCEPT !.status = "FAILED"] \in FileRows
  BY <1>1 DEF FileRows
<1> HIDE DEF f
<1> QED BY <1>1, <1>2, <1>3

LEMMA BronzeVersion ==
    ASSUME TypeInv, NEW w \in Workers, Bronze(w)
    PROVE  /\ version' \in [Versions -> VersionRows]
           /\ \A v \in Versions :
                 /\ version'[v].rules = version[v].rules /\ version'[v].approved = version[v].approved
                 /\ version'[v].answers = version[v].answers
<1> DEFINE v == VersionOf(Served(w))
           n == Cardinality({other \in Versions : other[1] = v[1] /\ version[other].number > 0}) + 1
<1>1. version \in [Versions -> VersionRows] /\ v \in Versions /\ version[v] \in VersionRows
  BY BronzeServes DEF TypeInv, TableTypes
<1>2. n \in Nat
  BY VersionsFinite, FS_Subset, FS_CardinalityType
<1>3. version' = version \/ version' = [version EXCEPT ![v] = [version[v] EXCEPT !.number = n]]
  <2>1. CASE AssignFile(w)
    <3>1. version' = NextVersion(v)
      BY <2>1 DEF AssignFile, Served
    <3> QED BY <3>1 DEF NextVersion
  <2>2. CASE NoSuggestions(w) \/ BronzeFails(w)
    BY <2>2, BronzeHandled
  <2>3. CASE ~(AssignFile(w) \/ NoSuggestions(w) \/ BronzeFails(w))
    BY <2>3 DEF Bronze, OpenBronze, SaveSchema, SaveProfiles, InitialiseRules, CompleteBronze,
                FileAvailable, rules
  <2> QED BY <2>1, <2>2, <2>3
<1> HIDE DEF n, v
<1>4. [version[v] EXCEPT !.number = n] \in VersionRows
  BY <1>1, <1>2 DEF VersionRows
<1>5. /\ [version[v] EXCEPT !.number = n].rules = version[v].rules
      /\ [version[v] EXCEPT !.number = n].approved = version[v].approved
      /\ [version[v] EXCEPT !.number = n].answers = version[v].answers
  BY <1>1 DEF VersionRows
<1>6. CASE version' = version
  BY <1>1, <1>6
<1>7. CASE version' = [version EXCEPT ![v] = [version[v] EXCEPT !.number = n]]
  <2> DEFINE row == [version[v] EXCEPT !.number = n]
  <2>1. row \in VersionRows /\ row.rules = version[v].rules /\ row.approved = version[v].approved
        /\ row.answers = version[v].answers /\ version' = [version EXCEPT ![v] = row]
    BY <1>4, <1>5, <1>7
  <2> HIDE DEF row
  <2> QED BY <1>1, <2>1
<1> QED BY <1>3, <1>6, <1>7

(* Only the association of the request changes, and only while undecided.   *)
LEMMA BronzeAssociation ==
    ASSUME TypeInv, NEW w \in Workers, Bronze(w)
    PROVE  /\ association' \in [Associations -> AssociationRows]
           /\ \/ association' = association
              \/ /\ association[Served(w)].status \in {"ABSENT", "UPLOADED", "AWAITING_RULES"}
                 /\ association'[Served(w)].status \in {"UPLOADED", "AWAITING_RULES", "READY_FOR_SILVER"}
                 /\ \A b \in Associations \ {Served(w)} : association'[b] = association[b]
                 /\ association'[Served(w)].reused =>
                       \/ association[Served(w)].reused
                       \/ \A q \in QuestionsOf[Served(w)[2]] :
                             version[VersionOf(Served(w))].answers[q] # "NONE"
<1> DEFINE a == Served(w)
<1>1. /\ a \in Associations /\ association \in [Associations -> AssociationRows]
      /\ association[a] \in AssociationRows /\ version[VersionOf(a)] \in VersionRows
      /\ version[VersionOf(a)].rules \in Nat
  BY BronzeServes DEF TypeInv, TableTypes, VersionRows
<1>2. CASE AssignFile(w)
  <2>1. \/ association' = association
        \/ /\ association[a].status = "ABSENT"
           /\ association' = [association EXCEPT ![a] = [association[a] EXCEPT !.status = "UPLOADED"]]
    BY <1>2 DEF AssignFile, Served
  <2>2. /\ [association[a] EXCEPT !.status = "UPLOADED"] \in AssociationRows
        /\ [association[a] EXCEPT !.status = "UPLOADED"].status = "UPLOADED"
        /\ [association[a] EXCEPT !.status = "UPLOADED"].reused = association[a].reused
    BY <1>1 DEF AssociationRows, Statuses
  <2> HIDE DEF a
  <2> QED BY <1>1, <2>1, <2>2 DEF a
<1>3. CASE InitialiseRules(w)
  <2>1. \/ association' = association
        \/ Undecided(a) /\ association' = [association EXCEPT ![a] = Initialised(a)]
    BY <1>3 DEF InitialiseRules, Served
  <2>2. /\ Initialised(a) \in AssociationRows
        /\ Initialised(a).status \in {"AWAITING_RULES", "READY_FOR_SILVER"}
        /\ Initialised(a).reused =>
              \/ association[a].reused
              \/ \A q \in QuestionsOf[a[2]] : version[VersionOf(a)].answers[q] # "NONE"
    <3>1. CASE RulesReusable(a)
      <4>1. Initialised(a) = [status |-> "READY_FOR_SILVER", pin |-> version[VersionOf(a)].rules,
                              reused |-> TRUE]
        BY <3>1 DEF Initialised
      <4>2. Initialised(a) \in AssociationRows /\ Initialised(a).status = "READY_FOR_SILVER"
        BY <1>1, <4>1 DEF AssociationRows, Statuses, Finalized
      <4>3. \A q \in QuestionsOf[a[2]] : version[VersionOf(a)].answers[q] # "NONE"
        BY <3>1 DEF RulesReusable, Suggested
      <4> QED BY <4>2, <4>3
    <3>2. CASE ~RulesReusable(a)
      <4>1. Initialised(a) = [association[a] EXCEPT !.status = "AWAITING_RULES"]
        BY <3>2 DEF Initialised
      <4> QED BY <1>1, <4>1 DEF AssociationRows, Statuses
    <3> QED BY <3>1, <3>2
  <2> HIDE DEF a
  <2> QED BY <1>1, <2>1, <2>2 DEF a, Undecided
<1>4. CASE ~(AssignFile(w) \/ InitialiseRules(w))
  <2>1. CASE NoSuggestions(w) \/ BronzeFails(w)
    BY <1>1, <2>1, BronzeHandled
  <2>2. CASE ~(NoSuggestions(w) \/ BronzeFails(w))
    BY <1>1, <1>4, <2>2 DEF Bronze, OpenBronze, SaveSchema, SaveProfiles, CompleteBronze, FileAvailable
  <2> QED BY <2>1, <2>2
<1> QED BY <1>2, <1>3, <1>4

LEMMA BronzeTables ==
    ASSUME TypeInv, NEW w \in Workers, Bronze(w)
    PROVE  TableTypes' /\ Longer
<1>1. /\ TableTypes /\ upload[job[w]].file \in Files /\ Len(attempts) \in Nat
      /\ Len(dqRuns) \in Nat /\ Len(goldRuns) \in Nat
  BY BronzeServes DEF TypeInv, TableTypes
<1>2. attempts' \in Seq(AttemptRows) /\ Len(attempts) <= Len(attempts')
  <2>1. CASE CreateAttempt(w, upload[job[w]].file, <<>>, "BRONZE")
    <3>1. attempts' \in Seq(AttemptRows) /\ Len(attempts') = Len(attempts) + 1
      BY <1>1, <2>1, Created DEF TableTypes
    <3> QED BY <1>1, <3>1
  <2>2. ASSUME NEW status \in {"SUCCESS", "FAILED"}, CompleteAttempt(attempt[w], status), attempt[w] # 0
        PROVE  attempts' \in Seq(AttemptRows) /\ Len(attempts) <= Len(attempts')
    <3>1. attempts' \in Seq(AttemptRows) /\ Len(attempts') = Len(attempts)
      BY <1>1, <2>2, AttemptIn, Completed DEF TableTypes
    <3> QED BY <1>1, <3>1
  <2>3. CASE attempts' = attempts
    BY <1>1, <2>3 DEF TableTypes
  <2> QED BY <2>1, <2>2, <2>3, BronzeAttempts
<1>3. TableTypes'
  BY <1>1, <1>2, BronzeServes, BronzeFile, BronzeVersion, BronzeAssociation DEF TableTypes
<1>4. Len(dqRuns) <= Len(dqRuns') /\ Len(goldRuns) <= Len(goldRuns')
  BY <1>1, BronzeServes
<1> QED BY <1>2, <1>3, <1>4 DEF Longer

LEMMA BronzeMoves ==
    ASSUME TypeInv, NEW w \in Workers, Bronze(w)
    PROVE  \/ Ends(w)
           \/ /\ GoesOn(w) /\ UNCHANGED <<source, recovery>>
              /\ at'[w] = "complete" => attempt'[w] # 0
              /\ \/ attempt'[w] = attempt[w]
                 \/ /\ CreateAttempt(w, upload[job[w]].file, <<>>, "BRONZE")
                    /\ attempt'[w] = Len(attempts) + 1
<1>0. /\ at[w] \in Inspecting /\ at[w] # "idle" /\ Len(attempts) \in Nat /\ attempt \in [Workers -> Nat]
  BY BronzeServes DEF TypeInv, TableTypes, WorkerTypes
<1>1. ASSUME NEW place \in Inspecting, Goto(w, place), UNCHANGED <<attempt, job, want, held, source, recovery>>
      PROVE  GoesOn(w) /\ at'[w] = place
  <2>1. place \in Inside
    BY PlaceSets
  <2> QED BY <1>0, <1>1, <2>1, StepsOn
<1>2. CASE OpenBronze(w)
  <2>1. CASE Leave(w)
    BY <2>1, Leaves
  <2>2. CASE /\ CreateAttempt(w, upload[job[w]].file, <<>>, "BRONZE") /\ Goto(w, "bronze")
             /\ UNCHANGED <<job, want, held, source, recovery>>
    <3>1. attempt' = [attempt EXCEPT ![w] = Len(attempts) + 1] /\ Len(attempts) + 1 \in Nat
      BY <1>0, <2>2 DEF CreateAttempt
    <3>2. "bronze" \in Inspecting /\ "bronze" \in Inside
      BY DEF Inspecting, Inside
    <3>3. GoesOn(w) /\ at'[w] = "bronze"
      BY <1>0, <2>2, <3>1, <3>2, StepsOn
    <3>4. attempt'[w] = Len(attempts) + 1
      BY <1>0, <3>1
    <3> QED BY <2>2, <3>3, <3>4
  <2> QED BY <1>2, <2>1, <2>2 DEF OpenBronze, request, plan
<1>3. ASSUME NEW place \in {"profile", "associate", "initialise", "available"}, Goto(w, place),
             UNCHANGED <<attempt, job, want, held, source, recovery>>
      PROVE  /\ GoesOn(w) /\ UNCHANGED <<source, recovery>> /\ at'[w] # "complete"
             /\ attempt'[w] = attempt[w]
  <2>1. place \in Inspecting
    BY DEF Inspecting
  <2> QED BY <1>1, <1>3, <2>1
<1>4. CASE SaveSchema(w) \/ SaveProfiles(w) \/ AssignFile(w) \/ CompleteBronze(w)
  BY <1>3, <1>4 DEF SaveSchema, SaveProfiles, AssignFile, CompleteBronze, request, plan
<1>5. CASE InitialiseRules(w)
  <2>1. CASE attempt[w] = 0
    BY <1>0, <1>5, <2>1, BronzeEnds DEF InitialiseRules
  <2>2. CASE attempt[w] # 0
    <3>1. Goto(w, "complete") /\ UNCHANGED <<attempt, job, want, held, source, recovery>>
      BY <1>5, <2>2 DEF InitialiseRules, request, plan
    <3> QED BY <1>1, <2>2, <3>1, PlaceSets
  <2> QED BY <2>1, <2>2
<1>6. CASE FileAvailable(w)
  BY <1>0, <1>6, BronzeEnds DEF FileAvailable
<1>7. CASE NoSuggestions(w) \/ BronzeFails(w)
  BY <1>7, BronzeHandled, Leaves
<1> QED BY <1>2, <1>4, <1>5, <1>6, <1>7 DEF Bronze

LEMMA BronzeTyped == ASSUME TypeInv, NEW w \in Workers, Bronze(w) PROVE TypeInv'
<1>1. TableTypes' /\ Longer
  BY BronzeTables
<1>2. CASE Ends(w)
  BY <1>1, <1>2, EndsTyped
<1>3. CASE /\ GoesOn(w) /\ UNCHANGED <<source, recovery>>
           /\ at'[w] = "complete" => attempt'[w] # 0
           /\ \/ attempt'[w] = attempt[w]
              \/ /\ CreateAttempt(w, upload[job[w]].file, <<>>, "BRONZE")
                 /\ attempt'[w] = Len(attempts) + 1
  <2>1. at'[w] \in Running \cup {"complete"} => attempt'[w] # 0
    <3>1. at[w] \in Inspecting
      BY BronzeServes
    <3>2. at'[w] \notin Running
      BY <1>3, <3>1, PlaceSets DEF GoesOn
    <3> QED BY <1>3, <3>2
  <2>2. source'[w] <= Len(dqRuns') /\ recovery'[w] <= Len(goldRuns')
    BY <1>1, <1>3, PlanIn
  <2>3. attempt'[w] = attempt[w] \/ attempt'[w] = Len(attempts')
    <3>1. ASSUME CreateAttempt(w, upload[job[w]].file, <<>>, "BRONZE") PROVE Len(attempts') = Len(attempts) + 1
      BY <3>1, BronzeServes, Created DEF TypeInv, TableTypes
    <3> QED BY <1>3, <3>1
  <2> QED BY <1>1, <1>3, <2>1, <2>2, <2>3, OnTyped
<1> QED BY <1>2, <1>3, BronzeMoves

-----------------------------------------------------------------------------
(* Types of the other steps.                                                *)
SharedGrow == sharedLifecycles \subseteq sharedLifecycles' /\ sharedDeliveries \subseteq sharedDeliveries'

LEMMA SharedTaken ==
    ASSUME TypeInv
    PROVE  /\ \A u \in Uploads : TakeLifecycle(u) =>
                 sharedLifecycles \subseteq sharedLifecycles' /\ sharedLifecycles' \subseteq Uploads
           /\ \A a \in Associations : TakeDelivery(a) =>
                 sharedDeliveries \subseteq sharedDeliveries' /\ sharedDeliveries' \subseteq Associations
  BY DEF TypeInv, TableTypes, TakeLifecycle, TakeDelivery

LEMMA Unwritten ==
    ASSUME TypeInv, UNCHANGED tables, sharedLifecycles' \subseteq Uploads, sharedDeliveries' \subseteq Associations
    PROVE  TableTypes' /\ Longer
<1>1. /\ upload' = upload /\ archived' = archived /\ file' = file /\ version' = version
      /\ policies' = policies /\ association' = association
      /\ attempts' = attempts /\ dqRuns' = dqRuns /\ goldRuns' = goldRuns
  BY DEF tables, uploads, rules, runs
<1>2. TableTypes /\ Len(attempts) \in Nat /\ Len(dqRuns) \in Nat /\ Len(goldRuns) \in Nat
  BY DEF TypeInv, TableTypes
<1> QED BY <1>1, <1>2 DEF TableTypes, Longer

LEMMA AllStill ==
    ASSUME TypeInv, TableTypes', Longer, WorkerTypes', \A x \in Workers : Still(x)
    PROVE  TypeInv'
  BY StillTyped DEF TypeInv

LEMMA WorkersStay ==
    ASSUME TypeInv, UNCHANGED workers
    PROVE  WorkerTypes' /\ \A x \in Workers : Still(x)
  BY DEF TypeInv, WorkerTypes, Still, workers, request, plan

(* A lost lock leaves its request as it is.                                 *)
LEMMA LockLost ==
    ASSUME TypeInv, NEW w \in Workers, LoseLock(w)
    PROVE  /\ WorkerTypes' /\ \A x \in Workers : Still(x)
           /\ UNCHANGED <<tables, shared>>
<1>1. PICK lock \in held[w] : held' = [held EXCEPT ![w] = held[w] \ {lock}]
  BY DEF LoseLock
<1>2. /\ at' = at /\ job' = job /\ want' = want /\ attempt' = attempt /\ source' = source
      /\ recovery' = recovery /\ UNCHANGED <<tables, shared>>
  BY DEF LoseLock, plan
<1>3. held \in [Workers -> SUBSET Locks] /\ held[w] \ {lock} \in SUBSET Locks
  BY DEF TypeInv, WorkerTypes
<1>4. held' \in [Workers -> SUBSET Locks] /\ \A x \in Workers : held'[x] \subseteq held[x]
  BY <1>1, <1>3
<1> QED BY <1>2, <1>4 DEF TypeInv, WorkerTypes, Still

(* Recovery, and the rows it leaves.                                        *)
LEMMA RecoverTables ==
    ASSUME TypeInv, NEW a \in Associations, Recover(a), TakeDelivery(a),
           UNCHANGED <<uploads, file, rules, runs>>, sharedLifecycles' \subseteq Uploads
    PROVE  TableTypes' /\ Longer
<1>1. /\ TableTypes /\ Len(attempts) \in Nat /\ Len(dqRuns) \in Nat /\ Len(goldRuns) \in Nat
      /\ upload' = upload /\ archived' = archived /\ file' = file /\ version' = version
      /\ policies' = policies /\ dqRuns' = dqRuns /\ goldRuns' = goldRuns
  BY DEF TypeInv, TableTypes, uploads, rules, runs
<1>2. /\ association' \in [Associations -> AssociationRows] /\ attempts' \in Seq(AttemptRows)
      /\ Len(attempts') = Len(attempts)
  BY <1>1, RecoverTypes
<1>3. sharedDeliveries' \subseteq Associations
  BY SharedTaken
<1> QED BY <1>1, <1>2, <1>3 DEF TableTypes, Longer

LEMMA ContinueTyped ==
    ASSUME TypeInv, NEW w \in Workers, NEW u \in Uploads, NEW stage \in {"BOTH", "SILVER", "GOLD"},
           BeginContinue(w, u, stage)
    PROVE  TypeInv'
<1>1. AssociationOf(u) \in Associations
  BY UploadParts DEF TypeInv, TableTypes
<1>2. /\ TakeLifecycle(u) /\ TakeDelivery(AssociationOf(u)) /\ Recover(AssociationOf(u))
      /\ UNCHANGED <<uploads, file, rules, runs>>
  BY DEF BeginContinue
<1>3. TableTypes' /\ Longer
  BY <1>1, <1>2, SharedTaken, RecoverTables
<1> QED BY <1>3, ContinueBegins, EndsTyped

LEMMA BeginTyped ==
    ASSUME TypeInv, NEW w \in Workers, NEW u \in Uploads, NEW caller \in Wants,
           BeginBronze(w, u, caller) \/ BeginArchive(w, u)
    PROVE  TypeInv'
<1>1. UNCHANGED tables /\ TakeLifecycle(u) /\ sharedDeliveries' = sharedDeliveries
  BY DEF BeginBronze, BeginArchive
<1>2. TableTypes' /\ Longer
  BY <1>1, SharedTaken, Unwritten DEF TypeInv, TableTypes
<1>3. Enters(w, u)
  BY BronzeBegins, ArchiveBegins
<1> QED BY <1>2, <1>3, EndsTyped

LEMMA PendingRecoversTyped ==
    ASSUME TypeInv, NEW w \in Workers, NEW u \in Uploads, PendingRecovers(w, u)
    PROVE  TypeInv'
<1>1. /\ AssociationOf(u) \in Associations /\ Recover(AssociationOf(u)) /\ TakeDelivery(AssociationOf(u))
      /\ UNCHANGED <<uploads, file, rules, runs>> /\ UNCHANGED workers
      /\ sharedLifecycles' = sharedLifecycles
  BY UploadParts DEF TypeInv, TableTypes, PendingRecovers
<1>2. TableTypes' /\ Longer
  BY <1>1, RecoverTables DEF TypeInv, TableTypes
<1> QED BY <1>1, <1>2, AllStill, WorkersStay

LEMMA LeaveTyped ==
    ASSUME TypeInv, NEW w \in Workers, Leave(w), UNCHANGED <<tables, shared>>
    PROVE  TypeInv'
<1>1. TableTypes' /\ Longer
  BY Unwritten DEF TypeInv, TableTypes, shared
<1> QED BY <1>1, Leaves, EndsTyped

LEMMA RequestTyped ==
    ASSUME TypeInv, NEW w \in Workers, NEW u \in Uploads, Request(w, u) \/ ContinueStarted(w)
    PROVE  TypeInv'
<1>1. CASE Request(w, u)
  <2>1. CASE BeginBronze(w, u, "BOTH") \/ BeginArchive(w, u)
    BY <2>1, BeginTyped DEF Wants
  <2>2. ASSUME NEW stage \in Stages, BeginContinue(w, u, stage) PROVE TypeInv'
    BY <2>2, ContinueTyped, DeliveryAssumption
  <2>3. CASE Pending(w, u)
    BY <2>3, BeginTyped, ContinueTyped DEF Pending, Wants
  <2> QED BY <1>1, <2>1, <2>2, <2>3, PendingRecoversTyped DEF Request
<1>2. CASE ContinueStarted(w)
  <2>1. job[w] \in Uploads
    BY <1>2, ServedParts DEF ContinueStarted
  <2> QED BY <1>2, <2>1, ContinueTyped, LeaveTyped DEF ContinueStarted
<1> QED BY <1>1, <1>2

(* Archive decides, and writes.                                             *)
LEMMA ArchiveMoves ==
    ASSUME TypeInv, NEW w \in Workers, CheckArchive(w) \/ Archive(w)
    PROVE  /\ UNCHANGED <<file, rules, association, attempts, runs, shared>> /\ upload' = upload
           /\ \/ Archive(w) /\ Ends(w) /\ at[w] = "archive" /\ job[w] \in Uploads
                 /\ archived' = [archived EXCEPT ![job[w]] = TRUE]
              \/ Ends(w) /\ archived' = archived
              \/ GoesOn(w) /\ at'[w] = "archive" /\ archived' = archived
                 /\ UNCHANGED <<attempt, source, recovery>>
<1>1. CASE CheckArchive(w)
  <2>1. UNCHANGED <<tables, shared>> /\ at[w] = "archiving" /\ held[w] \cup {"delivery"} \in SUBSET Locks
    BY <1>1 DEF CheckArchive, TypeInv, WorkerTypes, Locks
  <2>2. CASE Leave(w)
    BY <2>1, <2>2, Leaves DEF tables, uploads
  <2>3. CASE /\ Goto(w, "archive") /\ UNCHANGED <<attempt, job, want, plan>>
             /\ held' = IF want[w] = "ASSOCIATED" THEN [held EXCEPT ![w] = held[w] \cup {"delivery"}] ELSE held
    <3>1. /\ held' = held \/ \E locks \in SUBSET Locks : held' = [held EXCEPT ![w] = locks]
          /\ attempt' = attempt /\ job' = job /\ want' = want /\ source' = source /\ recovery' = recovery
      BY <2>1, <2>3 DEF plan
    <3>2. GoesOn(w) /\ at'[w] = "archive"
      BY <2>1, <2>3, <3>1, StepsOn DEF Inside
    <3> QED BY <2>1, <3>1, <3>2 DEF tables, uploads
  <2> QED BY <1>1, <2>1, <2>2, <2>3 DEF CheckArchive, tables, uploads
<1>2. CASE Archive(w)
  <2>1. at[w] = "archive" /\ Leave(w)
    BY <1>2 DEF Archive
  <2>2. job[w] \in Uploads
    BY <2>1, ServedParts
  <2> QED BY <1>2, <2>1, <2>2, Leaves DEF Archive
<1> QED BY <1>1, <1>2

LEMMA ArchiveTyped ==
    ASSUME TypeInv, NEW w \in Workers, CheckArchive(w) \/ Archive(w)
    PROVE  TypeInv'
<1>1. /\ file' = file /\ version' = version /\ policies' = policies /\ association' = association
      /\ attempts' = attempts /\ dqRuns' = dqRuns /\ goldRuns' = goldRuns /\ upload' = upload
      /\ sharedLifecycles' = sharedLifecycles /\ sharedDeliveries' = sharedDeliveries
  BY ArchiveMoves DEF rules, runs, shared
<1>2. TableTypes /\ archived' \in [Uploads -> BOOLEAN]
  <2>1. TableTypes /\ archived \in [Uploads -> BOOLEAN]
    BY DEF TypeInv, TableTypes
  <2>2. archived' = archived \/ \E u \in Uploads : archived' = [archived EXCEPT ![u] = TRUE]
    BY ArchiveMoves
  <2> QED BY <2>1, <2>2
<1>3. TableTypes' /\ Longer
  <2>1. Len(attempts) \in Nat /\ Len(dqRuns) \in Nat /\ Len(goldRuns) \in Nat
    BY <1>2 DEF TableTypes
  <2> QED BY <1>1, <1>2, <2>1 DEF TableTypes, Longer
<1>4. CASE Ends(w)
  BY <1>3, <1>4, EndsTyped
<1>5. CASE GoesOn(w) /\ at'[w] = "archive" /\ UNCHANGED <<attempt, source, recovery>>
  <2>1. source'[w] <= Len(dqRuns') /\ recovery'[w] <= Len(goldRuns')
    BY <1>3, <1>5, PlanIn
  <2>2. attempt'[w] = attempt[w] /\ at'[w] \notin Running \cup {"complete"}
    BY <1>5 DEF Running
  <2> QED BY <1>3, <1>5, <2>1, <2>2, OnTyped
<1> QED BY <1>4, <1>5, ArchiveMoves

LEMMA SubmissionTyped ==
    ASSUME TypeInv, NEW a \in Associations, Submission(a)
    PROVE  TypeInv'
<1>0. PICK qs \in SUBSET Questions \ {{}} :
        \E given \in [qs -> {"YES", "NO"}] : SubmitAnswers(a, given)
  BY DEF Submission
<1>1. PICK given \in [qs -> {"YES", "NO"}] : SubmitAnswers(a, given)
  BY <1>0
<1> DEFINE v == VersionOf(a)
           answers == [q \in Questions |-> IF q \in DOMAIN given THEN given[q] ELSE version[v].answers[q]]
           number == IF Changes(v, given) THEN version[v].rules + 1 ELSE version[v].rules
<1>2. version' = [version EXCEPT ![v] = [version[v] EXCEPT !.answers = answers, !.rules = number]]
  BY <1>1 DEF SubmitAnswers
<1>3. /\ TableTypes /\ version \in [Versions -> VersionRows] /\ v \in Versions
      /\ version[v] \in VersionRows
      /\ Len(attempts) \in Nat /\ Len(dqRuns) \in Nat /\ Len(goldRuns) \in Nat
  BY AssociationParts DEF TypeInv, TableTypes
<1>4. answers \in [Questions -> {"NONE", "YES", "NO"}]
  BY <1>1, <1>3 DEF VersionRows
<1>5. number \in Nat
  BY <1>3 DEF VersionRows
<1> HIDE DEF answers, number
<1>6. [version[v] EXCEPT !.answers = answers, !.rules = number] \in VersionRows
  BY <1>3, <1>4, <1>5 DEF VersionRows
<1>7. version' \in [Versions -> VersionRows]
  BY <1>2, <1>3, <1>6
<1>8. TableTypes' /\ Longer /\ UNCHANGED workers
  BY <1>1, <1>3, <1>7 DEF SubmitAnswers, TableTypes, Longer, uploads, runs, shared
<1> QED BY <1>8, AllStill, WorkersStay

LEMMA SnapshotType ==
    ASSUME TypeInv, NEW v \in Versions
    PROVE  Snapshot(v) \in [0 .. MaxRuleVersion -> SUBSET Questions]
  BY DEF TypeInv, TableTypes, Snapshot, ActiveRules

LEMMA FinalizeTyped ==
    ASSUME TypeInv, NEW a \in Associations, Finalize(a)
    PROVE  TypeInv'
<1> DEFINE v == VersionOf(a)
           pinned == [status |-> "READY_FOR_SILVER", pin |-> version[v].rules, reused |-> FALSE]
<1>1. /\ TableTypes /\ version \in [Versions -> VersionRows] /\ v \in Versions
      /\ version[v] \in VersionRows
      /\ Len(attempts) \in Nat /\ Len(dqRuns) \in Nat /\ Len(goldRuns) \in Nat
  BY AssociationParts DEF TypeInv, TableTypes
<1>2. /\ version' = [version EXCEPT ![v] = [version[v] EXCEPT !.approved = version[v].rules]]
      /\ policies' = [policies EXCEPT ![v] = Snapshot(v)]
      /\ association' = [association EXCEPT ![a] = pinned]
      /\ upload' = upload /\ archived' = archived /\ file' = file /\ attempts' = attempts
      /\ dqRuns' = dqRuns /\ goldRuns' = goldRuns /\ UNCHANGED workers
      /\ sharedLifecycles' = sharedLifecycles /\ sharedDeliveries' = sharedDeliveries
  BY DEF Finalize, uploads, runs, shared
<1>3. [version[v] EXCEPT !.approved = version[v].rules] \in VersionRows /\ version[v].rules \in Nat
  BY <1>1 DEF VersionRows
<1>4. pinned \in AssociationRows
  BY <1>3 DEF AssociationRows, Statuses, Finalized
<1> HIDE DEF pinned
<1>5. version' \in [Versions -> VersionRows]
  BY <1>1, <1>2, <1>3
<1>6. association' \in [Associations -> AssociationRows]
  BY <1>1, <1>2, <1>4 DEF TableTypes
<1>7. policies' \in [Versions -> [0 .. MaxRuleVersion -> SUBSET Questions]]
  BY <1>1, <1>2, SnapshotType DEF TableTypes
<1>8. TableTypes' /\ Longer
  BY <1>1, <1>2, <1>5, <1>6, <1>7 DEF TableTypes, Longer
<1> QED BY <1>2, <1>8, AllStill, WorkersStay

-----------------------------------------------------------------------------
(* Silver and Gold, by what the actions write.                              *)
Reads(w) ==
    \/ FindSilver(w) \/ PlanSilver(w) \/ RefuseSilver(w) \/ ApplyFails(w)
    \/ FindEmpty(w) \/ FindGold(w) \/ PlanGold(w) \/ RefuseGold(w)
Marks(w) == ReuseSilver(w) \/ SkipGold(w) \/ ReuseGold(w)
Opens(w) == OpenSilver(w) \/ OpenGold(w)
Fail(w) == SilverFails(w) \/ SilverLost(w) \/ GoldFails(w) \/ GoldLost(w)
Refines(w) == PublishSilver(w) \/ LoseSilver(w)
Publishes(w) == PublishGold(w) \/ LoseGold(w)
Stage(w) == Reads(w) \/ Marks(w) \/ Opens(w) \/ Fail(w) \/ Refines(w) \/ Publishes(w)

LEMMA StageServes ==
    ASSUME TypeInv, NEW w \in Workers, Stage(w)
    PROVE  /\ at[w] \in Continuing /\ at[w] # "idle" /\ job[w] \in Uploads
           /\ Served(w) \in Associations /\ Served(w)[2] \in Files
           /\ upload' = upload /\ archived' = archived /\ file' = file /\ version' = version
           /\ policies' = policies
           /\ sharedLifecycles' = sharedLifecycles /\ sharedDeliveries' = sharedDeliveries
<1>1. at[w] \in Continuing /\ at[w] # "idle"
  BY DEF Stage, Reads, Marks, Opens, Fail, Refines, Publishes, Continuing, FindSilver, PlanSilver,
         RefuseSilver, ApplyFails, FindEmpty, FindGold, PlanGold, RefuseGold, ReuseSilver, SkipGold,
         ReuseGold, OpenSilver, OpenGold, SilverFails, SilverLost, GoldFails, GoldLost, PublishSilver,
         RecordSilver, LoseSilver, PublishGold, PublishesGold, LoseGold
<1>2. /\ upload' = upload /\ archived' = archived /\ file' = file /\ version' = version
      /\ policies' = policies
      /\ sharedLifecycles' = sharedLifecycles /\ sharedDeliveries' = sharedDeliveries
  <2>1. CASE Reads(w)
    BY <2>1 DEF Reads, FindSilver, PlanSilver, RefuseSilver, ApplyFails, FindEmpty, FindGold, PlanGold,
                RefuseGold, shared, tables, uploads, rules
  <2>2. CASE Marks(w) \/ Opens(w) \/ Fail(w)
    BY <2>2 DEF Marks, Opens, Fail, ReuseSilver, SkipGold, ReuseGold, OpenSilver, OpenGold, SilverFails,
                SilverLost, GoldFails, GoldLost, Fails, shared, uploads, rules
  <2>3. CASE Refines(w) \/ Publishes(w)
    BY <2>3 DEF Refines, Publishes, PublishSilver, RecordSilver, LoseSilver, PublishGold, PublishesGold,
                LoseGold, shared, uploads, rules
  <2> QED BY <2>1, <2>2, <2>3 DEF Stage
<1>3. job[w] \in Uploads /\ Served(w) \in Associations /\ Served(w)[2] \in Files
  BY <1>1, ServedParts
<1> QED BY <1>1, <1>2, <1>3

(* What reading, marking, opening and failing leave in the tables.          *)
LEMMA ReadsWrites ==
    ASSUME NEW w \in Workers, Reads(w)
    PROVE  attempts' = attempts /\ association' = association /\ dqRuns' = dqRuns /\ goldRuns' = goldRuns
  BY DEF Reads, FindSilver, PlanSilver, RefuseSilver, ApplyFails, FindEmpty, FindGold, PlanGold,
         RefuseGold, tables, runs

LEMMA MarksWrites ==
    ASSUME NEW w \in Workers, Marks(w)
    PROVE  /\ attempts' = attempts /\ dqRuns' = dqRuns /\ goldRuns' = goldRuns
           /\ \/ ReuseSilver(w) /\ at[w] = "silver_reuse" /\ SetStatus(Served(w), "READY_FOR_GOLD")
              \/ SkipGold(w) /\ at[w] = "gold_skip" /\ SetStatus(Served(w), "SUCCESS_WITH_WARNINGS")
              \/ ReuseGold(w) /\ at[w] = "gold_reuse" /\ SetStatus(Served(w), "SUCCESS")
  BY DEF Marks, ReuseSilver, SkipGold, ReuseGold, runs, Served

LEMMA OpensWrites ==
    ASSUME NEW w \in Workers, Opens(w)
    PROVE  /\ dqRuns' = dqRuns /\ goldRuns' = goldRuns
           /\ \/ /\ at[w] = "silver_open" /\ at' = [at EXCEPT ![w] = "silver_running"]
                 /\ CreateAttempt(w, Served(w)[2], Served(w), "SILVER")
                 /\ SetStatus(Served(w), "SILVER_PROCESSING")
              \/ /\ at[w] = "gold_open" /\ at' = [at EXCEPT ![w] = "gold_running"]
                 /\ CreateAttempt(w, Served(w)[2], Served(w), "GOLD")
                 /\ SetStatus(Served(w), "GOLD_PROCESSING")
           /\ job' = job /\ want' = want /\ held' = held /\ source' = source /\ recovery' = recovery
  BY DEF Opens, OpenSilver, OpenGold, runs, Served, Goto, request, plan

LEMMA FailWrites ==
    ASSUME TypeInv, NEW w \in Workers, Fail(w)
    PROVE  /\ dqRuns' = dqRuns /\ goldRuns' = goldRuns
           /\ CompleteAttempt(attempt[w], "FAILED") /\ attempt[w] \in DOMAIN attempts
           /\ \E status \in {"SILVER_FAILED", "GOLD_FAILED"} : SetStatus(Served(w), status)
           /\ at[w] \in Running /\ Leave(w)
<1>1. /\ dqRuns' = dqRuns /\ goldRuns' = goldRuns
      /\ CompleteAttempt(attempt[w], "FAILED") /\ Leave(w)
      /\ \E status \in {"SILVER_FAILED", "GOLD_FAILED"} : SetStatus(Served(w), status)
      /\ at[w] \in Running
  BY DEF Fail, SilverFails, SilverLost, GoldFails, GoldLost, Fails, runs, Served, Running
<1> QED BY <1>1, AttemptIn

LEMMA SilverRecorded ==
    ASSUME TypeInv, NEW w \in Workers, RecordSilver(w)
    PROVE  /\ dqRuns' \in Seq(DqRows) /\ Len(dqRuns) \in Nat /\ Len(dqRuns') = Len(dqRuns) + 1
           /\ DOMAIN dqRuns' = DOMAIN dqRuns \cup {Len(dqRuns) + 1}
           /\ \A k \in DOMAIN dqRuns : dqRuns'[k] = dqRuns[k] /\ k # Len(dqRuns) + 1
           /\ dqRuns'[Len(dqRuns) + 1].association = Served(w)
           /\ dqRuns'[Len(dqRuns) + 1].attempt = attempt[w]
           /\ dqRuns'[Len(dqRuns) + 1].rules = association[Served(w)].pin
           /\ dqRuns'[Len(dqRuns) + 1].valid = (Served(w)[2] \notin AllRejected)
           /\ goldRuns' = goldRuns /\ at[w] = "silver_running"
           /\ CompleteAttempt(attempt[w], "SUCCESS") /\ attempt[w] \in DOMAIN attempts
           /\ SetStatus(Served(w), "READY_FOR_GOLD")
<1> DEFINE row == [association |-> Served(w), attempt |-> attempt[w],
                   rules |-> association[Served(w)].pin, valid |-> Served(w)[2] \notin AllRejected]
<1>1. /\ at[w] = "silver_running" /\ dqRuns' = Append(dqRuns, row) /\ goldRuns' = goldRuns
      /\ CompleteAttempt(attempt[w], "SUCCESS") /\ SetStatus(Served(w), "READY_FOR_GOLD")
  BY DEF RecordSilver, Served
<1>2. Served(w) \in Associations /\ attempt[w] \in DOMAIN attempts /\ attempt[w] \in Nat
  BY <1>1, ServedParts, AttemptIn DEF Running
<1>3. association[Served(w)].pin \in Nat
  BY <1>2 DEF TypeInv, TableTypes, AssociationRows
<1>4. row \in DqRows
  BY <1>2, <1>3 DEF DqRows
<1>5. dqRuns \in Seq(DqRows)
  BY DEF TypeInv, TableTypes
<1>6. /\ row.association = Served(w) /\ row.attempt = attempt[w]
      /\ row.rules = association[Served(w)].pin
      /\ row.valid = (Served(w)[2] \notin AllRejected)
  OBVIOUS
<1> HIDE DEF row
<1>7. /\ dqRuns' \in Seq(DqRows) /\ Len(dqRuns) \in Nat /\ Len(dqRuns') = Len(dqRuns) + 1
      /\ dqRuns'[Len(dqRuns) + 1] = row
      /\ \A k \in DOMAIN dqRuns : dqRuns'[k] = dqRuns[k] /\ k # Len(dqRuns) + 1
  BY <1>1, <1>4, <1>5
<1>8. DOMAIN dqRuns = 1 .. Len(dqRuns) /\ DOMAIN dqRuns' = 1 .. Len(dqRuns')
  BY <1>5, <1>7
<1>9. DOMAIN dqRuns' = DOMAIN dqRuns \cup {Len(dqRuns) + 1}
  BY <1>7, <1>8
<1> QED BY <1>1, <1>2, <1>6, <1>7, <1>9

(* A Gold run is taken over, if one was read, or added.                     *)
LEMMA GoldRecorded ==
    ASSUME TypeInv, NEW w \in Workers, PublishesGold(w),
           recovery[w] # 0 => /\ recovery[w] \in DOMAIN goldRuns
                              /\ goldRuns[recovery[w]].association = Served(w)
                              /\ goldRuns[recovery[w]].dq = source[w]
    PROVE  /\ goldRuns' \in Seq(GoldRows) /\ dqRuns' = dqRuns
           /\ at[w] = "gold_running"
           /\ CompleteAttempt(attempt[w], "SUCCESS") /\ attempt[w] \in DOMAIN attempts
           /\ SetStatus(Served(w), "SUCCESS")
           /\ \A i \in DOMAIN goldRuns :
                 /\ i \in DOMAIN goldRuns' /\ goldRuns'[i].association = goldRuns[i].association
                 /\ goldRuns'[i].dq = goldRuns[i].dq
                 /\ goldRuns'[i] = goldRuns[i] \/ goldRuns[i].association = Served(w)
           /\ \E k \in DOMAIN goldRuns' :
                 /\ goldRuns'[k].association = Served(w) /\ goldRuns'[k].dq = source[w]
                 /\ goldRuns'[k].attempt = attempt[w]
                 /\ \A i \in DOMAIN goldRuns' \ {k} : i \in DOMAIN goldRuns /\ goldRuns'[i] = goldRuns[i]
                 /\ k \in DOMAIN goldRuns \/ recovery[w] = 0
<1> DEFINE a == Served(w)
           g == recovery[w]
           row == [association |-> a, dq |-> source[w], attempt |-> attempt[w]]
<1>1. /\ at[w] = "gold_running" /\ RecordGold(w, a) /\ dqRuns' = dqRuns
      /\ CompleteAttempt(attempt[w], "SUCCESS") /\ SetStatus(a, "SUCCESS")
  BY DEF PublishesGold, Served
<1>2. a \in Associations /\ attempt[w] \in DOMAIN attempts /\ attempt[w] \in Nat /\ source[w] \in Nat
  BY <1>1, ServedParts, AttemptIn DEF Running, TypeInv, WorkerTypes
<1>3. goldRuns \in Seq(GoldRows)
  BY DEF TypeInv, TableTypes
<1>5. IF g # 0 THEN goldRuns' = [goldRuns EXCEPT ![g].attempt = attempt[w]]
      ELSE goldRuns' = Append(goldRuns, row)
  BY <1>1 DEF RecordGold
<1>6. g # 0 => g \in DOMAIN goldRuns /\ goldRuns[g].association = a /\ goldRuns[g].dq = source[w]
  OBVIOUS
<1> HIDE DEF a, g
<1>7. CASE g # 0
  <2>1. g \in DOMAIN goldRuns /\ goldRuns[g] \in GoldRows
    BY <1>3, <1>6, <1>7
  <2>2. goldRuns' = [goldRuns EXCEPT ![g] = [goldRuns[g] EXCEPT !.attempt = attempt[w]]]
    BY <1>5, <1>7
  <2>3. [goldRuns[g] EXCEPT !.attempt = attempt[w]] \in GoldRows
    BY <2>1, <1>2 DEF GoldRows
  <2>4. goldRuns' \in Seq(GoldRows) /\ DOMAIN goldRuns' = DOMAIN goldRuns
    BY <1>3, <2>1, <2>2, <2>3
  <2>5. goldRuns'[g] = [goldRuns[g] EXCEPT !.attempt = attempt[w]]
    BY <1>3, <2>1, <2>2
  <2>6. /\ goldRuns'[g].association = a /\ goldRuns'[g].dq = source[w] /\ goldRuns'[g].attempt = attempt[w]
    BY <1>6, <1>7, <2>1, <2>5 DEF GoldRows
  <2>7. \A i \in DOMAIN goldRuns \ {g} : goldRuns'[i] = goldRuns[i]
    BY <1>3, <2>2
  <2>8. \A i \in DOMAIN goldRuns :
           /\ i \in DOMAIN goldRuns' /\ goldRuns'[i].association = goldRuns[i].association
           /\ goldRuns'[i].dq = goldRuns[i].dq
           /\ goldRuns'[i] = goldRuns[i] \/ goldRuns[i].association = a
    BY <1>6, <1>7, <2>4, <2>6, <2>7
  <2>9. \A i \in DOMAIN goldRuns' \ {g} : i \in DOMAIN goldRuns /\ goldRuns'[i] = goldRuns[i]
    BY <2>4, <2>7
  <2> QED BY <1>1, <1>2, <2>1, <2>4, <2>6, <2>8, <2>9 DEF a
<1>8. CASE g = 0
  <2> DEFINE n == Len(goldRuns) + 1
  <2>1. row \in GoldRows /\ goldRuns' = Append(goldRuns, row)
    BY <1>2, <1>5, <1>8 DEF GoldRows
  <2>2. row.association = a /\ row.dq = source[w] /\ row.attempt = attempt[w]
    OBVIOUS
  <2> HIDE DEF row
  <2>3. /\ goldRuns' \in Seq(GoldRows) /\ Len(goldRuns) \in Nat /\ Len(goldRuns') = n
        /\ goldRuns'[n] = row
        /\ \A i \in DOMAIN goldRuns : goldRuns'[i] = goldRuns[i] /\ i # n
    BY <1>3, <2>1
  <2>4. DOMAIN goldRuns = 1 .. Len(goldRuns) /\ DOMAIN goldRuns' = 1 .. Len(goldRuns')
    BY <1>3, <2>3
  <2>5. DOMAIN goldRuns' = DOMAIN goldRuns \cup {n}
    BY <2>3, <2>4
  <2> HIDE DEF n
  <2>6. \A i \in DOMAIN goldRuns' \ {n} : i \in DOMAIN goldRuns /\ goldRuns'[i] = goldRuns[i]
    BY <2>3, <2>5
  <2>7. /\ n \in DOMAIN goldRuns' /\ goldRuns'[n].association = a /\ goldRuns'[n].dq = source[w]
        /\ goldRuns'[n].attempt = attempt[w]
    BY <2>2, <2>3, <2>5
  <2>8. recovery[w] = 0
    BY <1>8 DEF g
  <2> QED BY <1>1, <1>2, <1>8, <2>3, <2>5, <2>6, <2>7, <2>8 DEF a
<1> QED BY <1>7, <1>8

LEMMA StageMoves ==
    ASSUME TypeInv, NEW w \in Workers, Stage(w)
    PROVE  \/ Ends(w) /\ at'[w] = "idle"
           \/ /\ GoesOn(w) /\ UNCHANGED <<source, recovery>>
              /\ \/ at'[w] = "gold" /\ attempt'[w] = 0 /\ (FindSilver(w) \/ ReuseSilver(w) \/ PublishSilver(w))
                 \/ FindSilver(w) /\ at'[w] = "silver_reuse" /\ attempt'[w] = attempt[w]
                 \/ PlanSilver(w) /\ at'[w] = "silver_open" /\ attempt'[w] = attempt[w]
                 \/ FindEmpty(w) /\ at'[w] = "gold_skip" /\ attempt'[w] = attempt[w]
                 \/ FindGold(w) /\ at'[w] = "gold_reuse" /\ attempt'[w] = attempt[w]
                 \/ OpenSilver(w) /\ at'[w] = "silver_running" /\ attempt'[w] = Len(attempts) + 1
                 \/ OpenGold(w) /\ at'[w] = "gold_running" /\ attempt'[w] = Len(attempts) + 1
                 \/ LoseSilver(w) /\ at'[w] = "silver_lost" /\ attempt'[w] = attempt[w]
                 \/ LoseGold(w) /\ at'[w] = "gold_lost" /\ attempt'[w] = attempt[w]
           \/ /\ GoesOn(w) /\ PlanGold(w) /\ at'[w] = "gold_open" /\ attempt'[w] = attempt[w]
              /\ source'[w] = GoldSource(Served(w))
              /\ recovery'[w] = GoldPublication(Served(w), GoldSource(Served(w)))
<1>0. /\ at[w] \in Continuing /\ attempts \in Seq(AttemptRows) /\ Len(attempts) + 1 \in Nat
      /\ dqRuns \in Seq(DqRows) /\ goldRuns \in Seq(GoldRows) /\ attempt \in [Workers -> Nat]
      /\ source \in [Workers -> Nat] /\ recovery \in [Workers -> Nat]
  BY StageServes DEF TypeInv, TableTypes, WorkerTypes
<1>1. CASE Leave(w)
  BY <1>1, Leaves
<1>2. CASE AfterSilver(w) /\ (FindSilver(w) \/ ReuseSilver(w) \/ PublishSilver(w))
  BY <1>0, <1>2, SilverEnds
<1>3. ASSUME NEW place \in {"silver_reuse", "silver_open", "gold_skip", "gold_reuse", "silver_lost", "gold_lost"},
             Goto(w, place), UNCHANGED <<attempt, request>>
      PROVE  GoesOn(w) /\ at'[w] = place /\ attempt'[w] = attempt[w] /\ UNCHANGED <<source, recovery>>
  <2>1. /\ attempt' = attempt /\ job' = job /\ want' = want /\ held' = held /\ source' = source
        /\ recovery' = recovery
    BY <1>3 DEF request, plan
  <2>2. place \in Continuing /\ place \in Inside
    BY DEF Continuing, Inside
  <2> QED BY <1>0, <1>3, <2>1, <2>2, StepsOn
<1>4. CASE Reads(w)
  <2>1. CASE FindSilver(w)
    BY <1>1, <1>2, <1>3, <2>1 DEF FindSilver
  <2>2. CASE PlanSilver(w)
    BY <1>3, <2>2 DEF PlanSilver
  <2>3. CASE FindEmpty(w)
    BY <1>3, <2>3 DEF FindEmpty
  <2>4. CASE FindGold(w)
    BY <1>1, <1>3, <2>4 DEF FindGold
  <2>5. CASE PlanGold(w)
    <3> DEFINE dq == GoldSource(Served(w))
               g == GoldPublication(Served(w), dq)
    <3>1. /\ Goto(w, "gold_open") /\ source' = [source EXCEPT ![w] = dq]
          /\ recovery' = [recovery EXCEPT ![w] = g]
          /\ attempt' = attempt /\ job' = job /\ want' = want /\ held' = held
      BY <2>5 DEF PlanGold, Served
    <3>2. dq \in Nat
      BY <1>0, DqRunIn DEF GoldSource
    <3> HIDE DEF dq
    <3>3. g \in Nat
      BY <1>0, GoldRunIn
    <3> HIDE DEF g
    <3>4. GoesOn(w) /\ at'[w] = "gold_open"
      BY <1>0, <3>1, <3>2, <3>3, StepsOn DEF Continuing, Inside
    <3> QED BY <1>0, <2>5, <3>1, <3>4 DEF dq, g
  <2>6. CASE RefuseSilver(w) \/ ApplyFails(w) \/ RefuseGold(w)
    BY <1>1, <2>6 DEF RefuseSilver, ApplyFails, RefuseGold
  <2> QED BY <1>4, <2>1, <2>2, <2>3, <2>4, <2>5, <2>6 DEF Reads
<1>5. CASE Marks(w)
  BY <1>1, <1>2, <1>5 DEF Marks, ReuseSilver, SkipGold, ReuseGold
<1>6. CASE Opens(w)
  <2>1. \/ OpenSilver(w) /\ Goto(w, "silver_running")
        \/ OpenGold(w) /\ Goto(w, "gold_running")
    BY <1>6 DEF Opens, OpenSilver, OpenGold
  <2>2. /\ attempt' = [attempt EXCEPT ![w] = Len(attempts) + 1]
        /\ job' = job /\ want' = want /\ held' = held /\ source' = source /\ recovery' = recovery
    BY <1>6, OpensWrites DEF CreateAttempt
  <2>3. ASSUME NEW place \in {"silver_running", "gold_running"}, Goto(w, place)
        PROVE  GoesOn(w) /\ at'[w] = place
    <3>1. place \in Continuing /\ place \in Inside
      BY DEF Continuing, Inside
    <3> QED BY <1>0, <2>2, <2>3, <3>1, StepsOn
  <2>4. attempt'[w] = Len(attempts) + 1
    BY <1>0, <2>2
  <2> QED BY <2>1, <2>2, <2>3, <2>4
<1>7. CASE Fail(w)
  BY <1>1, <1>7, FailWrites
<1>8. CASE Refines(w) \/ Publishes(w)
  BY <1>1, <1>2, <1>3, <1>8 DEF Refines, Publishes, PublishSilver, LoseSilver, PublishGold, LoseGold
<1> QED BY <1>4, <1>5, <1>6, <1>7, <1>8 DEF Stage

LEMMA GoldTyped ==
    ASSUME TypeInv, NEW w \in Workers, PublishesGold(w)
    PROVE  /\ goldRuns' \in Seq(GoldRows) /\ Len(goldRuns) <= Len(goldRuns') /\ dqRuns' = dqRuns
           /\ CompleteAttempt(attempt[w], "SUCCESS") /\ attempt[w] \in DOMAIN attempts
           /\ SetStatus(Served(w), "SUCCESS")
<1> DEFINE g == recovery[w]
           row == [association |-> Served(w), dq |-> source[w], attempt |-> attempt[w]]
<1>1. /\ at[w] = "gold_running" /\ RecordGold(w, Served(w)) /\ dqRuns' = dqRuns
      /\ CompleteAttempt(attempt[w], "SUCCESS") /\ SetStatus(Served(w), "SUCCESS")
  BY DEF PublishesGold, Served
<1>2. /\ Served(w) \in Associations /\ attempt[w] \in DOMAIN attempts /\ attempt[w] \in Nat
      /\ source[w] \in Nat /\ g \in Nat /\ g <= Len(goldRuns)
      /\ goldRuns \in Seq(GoldRows) /\ Len(goldRuns) \in Nat
  BY <1>1, ServedParts, AttemptIn DEF Running, TypeInv, TableTypes, WorkerTypes, WorkerType
<1>3. IF g # 0 THEN goldRuns' = [goldRuns EXCEPT ![g].attempt = attempt[w]]
      ELSE goldRuns' = Append(goldRuns, row)
  BY <1>1 DEF RecordGold
<1> HIDE DEF g
<1>4. CASE g # 0
  <2>1. g \in DOMAIN goldRuns /\ goldRuns[g] \in GoldRows
    BY <1>2, <1>4
  <2>2. goldRuns' = [goldRuns EXCEPT ![g] = [goldRuns[g] EXCEPT !.attempt = attempt[w]]]
    BY <1>3, <1>4
  <2>3. [goldRuns[g] EXCEPT !.attempt = attempt[w]] \in GoldRows
    BY <2>1, <1>2 DEF GoldRows
  <2>4. goldRuns' \in Seq(GoldRows) /\ Len(goldRuns') = Len(goldRuns)
    BY <1>2, <2>1, <2>2, <2>3
  <2> QED BY <1>1, <1>2, <2>4
<1>5. CASE g = 0
  <2>1. row \in GoldRows /\ goldRuns' = Append(goldRuns, row)
    BY <1>2, <1>3, <1>5 DEF GoldRows
  <2> HIDE DEF row
  <2>2. goldRuns' \in Seq(GoldRows) /\ Len(goldRuns') = Len(goldRuns) + 1
    BY <1>2, <2>1
  <2> QED BY <1>1, <1>2, <2>2
<1> QED BY <1>4, <1>5

LEMMA StageTables ==
    ASSUME TypeInv, NEW w \in Workers, Stage(w)
    PROVE  TableTypes' /\ Longer /\ (Opens(w) => Len(attempts') = Len(attempts) + 1)
<1> DEFINE a == Served(w)
           Typed == /\ association' \in [Associations -> AssociationRows]
                    /\ attempts' \in Seq(AttemptRows) /\ Len(attempts) <= Len(attempts')
                    /\ dqRuns' \in Seq(DqRows) /\ Len(dqRuns) <= Len(dqRuns')
                    /\ goldRuns' \in Seq(GoldRows) /\ Len(goldRuns) <= Len(goldRuns')
<1>0. /\ a \in Associations /\ a[2] \in Files /\ upload' = upload
      /\ archived' = archived /\ file' = file /\ version' = version /\ policies' = policies
      /\ sharedLifecycles' = sharedLifecycles /\ sharedDeliveries' = sharedDeliveries
      /\ TableTypes /\ attempts \in Seq(AttemptRows) /\ Len(attempts) \in Nat
      /\ association \in [Associations -> AssociationRows]
      /\ dqRuns \in Seq(DqRows) /\ goldRuns \in Seq(GoldRows)
      /\ Len(dqRuns) \in Nat /\ Len(goldRuns) \in Nat
  BY StageServes DEF TypeInv, TableTypes
<1>1. ASSUME NEW status \in Statuses, SetStatus(a, status)
      PROVE  association' \in [Associations -> AssociationRows]
  BY <1>0, <1>1, StatusSet
<1>2. ASSUME NEW status \in {"SUCCESS", "FAILED"}, CompleteAttempt(attempt[w], status),
             attempt[w] \in DOMAIN attempts
      PROVE  attempts' \in Seq(AttemptRows) /\ Len(attempts') = Len(attempts)
  BY <1>0, <1>2, Completed
<1>3. {"READY_FOR_GOLD", "SUCCESS_WITH_WARNINGS", "SUCCESS", "SILVER_PROCESSING", "GOLD_PROCESSING",
       "SILVER_FAILED", "GOLD_FAILED"} \subseteq Statuses
  BY DEF Statuses, Finalized, Terminal
<1>4. ASSUME Reads(w) PROVE Typed
  BY <1>0, <1>4, ReadsWrites
<1>5. ASSUME Marks(w) PROVE Typed
  BY <1>0, <1>1, <1>3, <1>5, MarksWrites
<1>6. ASSUME Opens(w) PROVE Typed /\ Len(attempts') = Len(attempts) + 1
  <2>1. attempts' \in Seq(AttemptRows) /\ Len(attempts') = Len(attempts) + 1
    BY <1>0, <1>6, OpensWrites, Created
  <2>2. SetStatus(a, "SILVER_PROCESSING") \/ SetStatus(a, "GOLD_PROCESSING")
    BY <1>6, OpensWrites
  <2>3. association' \in [Associations -> AssociationRows]
    BY <1>1, <1>3, <2>2
  <2> QED BY <1>0, <1>6, <2>1, <2>3, OpensWrites
<1>7. ASSUME Fail(w) PROVE Typed
  <2>1. attempts' \in Seq(AttemptRows) /\ Len(attempts') = Len(attempts)
    BY <1>2, <1>7, FailWrites
  <2>2. SetStatus(a, "SILVER_FAILED") \/ SetStatus(a, "GOLD_FAILED")
    BY <1>7, FailWrites
  <2> QED BY <1>0, <1>1, <1>3, <1>7, <2>1, <2>2, FailWrites
<1>8. ASSUME Refines(w) PROVE Typed
  <2>1. RecordSilver(w)
    BY <1>8 DEF Refines, PublishSilver, LoseSilver
  <2>2. attempts' \in Seq(AttemptRows) /\ Len(attempts') = Len(attempts)
    BY <1>2, <2>1, SilverRecorded
  <2> QED BY <1>0, <1>1, <1>3, <2>1, <2>2, SilverRecorded
<1>9. ASSUME Publishes(w) PROVE Typed
  <2>1. PublishesGold(w)
    BY <1>9 DEF Publishes, PublishGold, LoseGold
  <2>2. attempts' \in Seq(AttemptRows) /\ Len(attempts') = Len(attempts)
    BY <1>2, <2>1, GoldTyped
  <2> QED BY <1>0, <1>1, <1>3, <2>1, <2>2, GoldTyped
<1>10. Typed
  BY <1>4, <1>5, <1>6, <1>7, <1>8, <1>9 DEF Stage
<1> HIDE DEF a
<1> QED BY <1>0, <1>6, <1>10 DEF TableTypes, Longer

LEMMA StageTyped == ASSUME TypeInv, NEW w \in Workers, Stage(w) PROVE TypeInv'
<1>1. TableTypes' /\ Longer
  BY StageTables
<1>2. /\ attempt[w] \in Nat /\ Len(attempts) + 1 # 0
      /\ Len(dqRuns') \in Nat /\ Len(goldRuns') \in Nat
  BY <1>1 DEF TypeInv, TableTypes, WorkerTypes
<1>3. CASE Ends(w)
  BY <1>1, <1>3, EndsTyped
<1>4. CASE /\ GoesOn(w) /\ UNCHANGED <<source, recovery>>
           /\ \/ at'[w] \notin Running \cup {"complete"} /\ attempt'[w] \in {0, attempt[w]}
              \/ Opens(w) /\ attempt'[w] = Len(attempts) + 1
              \/ Running \cap {at[w]} # {} /\ attempt'[w] = attempt[w]
  <2>1. source'[w] <= Len(dqRuns') /\ recovery'[w] <= Len(goldRuns')
    BY <1>1, <1>4, PlanIn
  <2>2. attempt'[w] \in {0, attempt[w]} \/ attempt'[w] = Len(attempts')
    BY <1>4, StageTables
  <2>3. at'[w] \in Running \cup {"complete"} => attempt'[w] # 0
    BY <1>2, <1>4, AttemptIn
  <2> QED BY <1>1, <1>4, <2>1, <2>2, <2>3, OnTyped
<1>5. CASE /\ GoesOn(w) /\ PlanGold(w) /\ at'[w] = "gold_open" /\ attempt'[w] = attempt[w]
           /\ source'[w] = GoldSource(Served(w))
           /\ recovery'[w] = GoldPublication(Served(w), GoldSource(Served(w)))
  <2>1. dqRuns' = dqRuns /\ goldRuns' = goldRuns /\ dqRuns \in Seq(DqRows) /\ goldRuns \in Seq(GoldRows)
    BY <1>5, ReadsWrites DEF Reads, TypeInv, TableTypes
  <2>2. source'[w] <= Len(dqRuns')
    <3>1. GoldSource(Served(w)) = 0 \/ GoldSource(Served(w)) \in DOMAIN dqRuns
      BY <2>1, DqRunIn DEF GoldSource
    <3> QED BY <1>2, <1>5, <2>1, <3>1
  <2>3. recovery'[w] <= Len(goldRuns')
    <3>1. GoldPublication(Served(w), GoldSource(Served(w))) = 0
          \/ GoldPublication(Served(w), GoldSource(Served(w))) \in DOMAIN goldRuns
      BY <2>1, GoldRunIn
    <3> QED BY <1>2, <1>5, <2>1, <3>1
  <2>4. at'[w] \notin Running \cup {"complete"}
    BY <1>5 DEF Running
  <2> QED BY <1>1, <1>5, <2>2, <2>3, <2>4, OnTyped
<1>6. LoseSilver(w) => at[w] = "silver_running"
  BY DEF LoseSilver, RecordSilver
<1>7. LoseGold(w) => at[w] = "gold_running"
  BY DEF LoseGold, PublishesGold
<1> QED BY <1>3, <1>4, <1>5, <1>6, <1>7, StageMoves DEF Running, Opens

LEMMA Cases ==
    ASSUME TypeInv, [Next]_vars
    PROVE  \/ \E w \in Workers, u \in Uploads : Request(w, u)
           \/ \E w \in Workers :
                 \/ Bronze(w) \/ Stage(w) \/ ContinueStarted(w) \/ CheckArchive(w) \/ Archive(w)
                 \/ Crash(w) \/ LoseLock(w)
           \/ \E a \in Associations : Finalize(a) \/ Submission(a)
           \/ UNCHANGED vars
  BY DEF Next, Bronze, Stage, Reads, Marks, Opens, Fail, Refines, Publishes

LEMMA Unchanged ==
    ASSUME TypeInv, UNCHANGED vars
    PROVE  /\ TypeInv' /\ WorkerTypes' /\ \A x \in Workers : Still(x)
           /\ UNCHANGED <<tables, shared>>
<1>1. UNCHANGED <<tables, shared>> /\ UNCHANGED workers
  BY DEF vars
<1>2. TableTypes' /\ Longer
  BY <1>1, Unwritten DEF TypeInv, TableTypes, shared
<1> QED BY <1>1, <1>2, AllStill, WorkersStay

LEMMA TypeStep == TypeInv /\ [Next]_vars => TypeInv'
<1> SUFFICES ASSUME TypeInv, [Next]_vars PROVE TypeInv'
  OBVIOUS
<1>1. ASSUME NEW w \in Workers, NEW u \in Uploads, Request(w, u) PROVE TypeInv'
  BY <1>1, RequestTyped
<1>2. ASSUME NEW w \in Workers, ContinueStarted(w) PROVE TypeInv'
  <2>1. PICK u \in Uploads : TRUE
    BY <1>2, ServedParts DEF ContinueStarted
  <2> QED BY <1>2, RequestTyped
<1>3. ASSUME NEW w \in Workers, Bronze(w) \/ Stage(w) PROVE TypeInv'
  BY <1>3, BronzeTyped, StageTyped
<1>4. ASSUME NEW w \in Workers, CheckArchive(w) \/ Archive(w) PROVE TypeInv'
  BY <1>4, ArchiveTyped
<1>5. ASSUME NEW w \in Workers, Crash(w) PROVE TypeInv'
  BY <1>5, LeaveTyped DEF Crash
<1>6. ASSUME NEW w \in Workers, LoseLock(w) PROVE TypeInv'
  <2>1. TableTypes' /\ Longer
    BY <1>6, LockLost, Unwritten DEF TypeInv, TableTypes, shared
  <2> QED BY <1>6, <2>1, LockLost, AllStill
<1>7. ASSUME NEW a \in Associations, Finalize(a) \/ Submission(a) PROVE TypeInv'
  BY <1>7, FinalizeTyped, SubmissionTyped
<1> QED BY <1>1, <1>2, <1>3, <1>4, <1>5, <1>6, <1>7, Cases, Unchanged

LEMMA TypeInit == Init => TypeInv
<1> SUFFICES ASSUME Init PROVE TypeInv
  OBVIOUS
<1>1. /\ upload \in Deliveries /\ archived \in [Uploads -> BOOLEAN]
      /\ file \in [Files -> FileRows]
      /\ policies \in [Versions -> [0 .. MaxRuleVersion -> SUBSET Questions]]
      /\ attempts \in Seq(AttemptRows) /\ dqRuns \in Seq(DqRows) /\ goldRuns \in Seq(GoldRows)
      /\ sharedLifecycles \subseteq Uploads /\ sharedDeliveries \subseteq Associations
  BY DEF Init, FileRows
<1>2. version \in [Versions -> VersionRows] /\ association \in [Associations -> AssociationRows]
  BY DEF Init, NoVersion, VersionRows, AssociationRows, Statuses
<1>3. WorkerTypes
  BY DEF Init, WorkerTypes, Places, Wants, Locks
<1>4. \A w \in Workers : WorkerType(w)
  BY DEF Init, WorkerType, Running
<1> QED BY <1>1, <1>2, <1>3, <1>4 DEF TypeInv, TableTypes

-----------------------------------------------------------------------------
(* Locks: a step moves no worker, or one, with the locks it takes recorded. *)
Alone(w) ==
    \/ (Ends(w) \/ GoesOn(w) \/ \E u \in Uploads : Enters(w, u)) /\ archived' = archived
    \/ /\ Ends(w) /\ at[w] = "archive" /\ job[w] \in Uploads
       /\ \A u \in Uploads \ {job[w]} : archived'[u] = archived[u]

LEMMA RequestMoves ==
    ASSUME TypeInv, NEW w \in Workers, NEW u \in Uploads, Request(w, u), ~PendingRecovers(w, u)
    PROVE  Ends(w) \/ Enters(w, u)
  BY BronzeBegins, ContinueBegins, ArchiveBegins, DeliveryAssumption DEF Request, Pending, Wants

LEMMA RequestWrites ==
    ASSUME TypeInv, NEW w \in Workers, NEW u \in Uploads, Request(w, u)
    PROVE  /\ UNCHANGED <<uploads, file, rules, runs>> /\ SharedGrow
           /\ \/ UNCHANGED <<attempts, association>>
              \/ Recover(AssociationOf(u)) /\ TakeDelivery(AssociationOf(u))
<1>1. UNCHANGED <<uploads, file, rules, runs>>
  BY DEF Request, Pending, BeginBronze, BeginArchive, BeginContinue, PendingRecovers, tables
<1>2. SharedGrow
  BY DEF Request, Pending, BeginBronze, BeginArchive, BeginContinue, PendingRecovers, SharedGrow,
         TakeLifecycle, TakeDelivery
<1>3. \/ UNCHANGED <<attempts, association>>
      \/ Recover(AssociationOf(u)) /\ TakeDelivery(AssociationOf(u))
  BY DEF Request, Pending, BeginBronze, BeginArchive, BeginContinue, PendingRecovers, tables
<1> QED BY <1>1, <1>2, <1>3

LEMMA StartedMoves ==
    ASSUME TypeInv, NEW w \in Workers, ContinueStarted(w)
    PROVE  /\ job[w] \in Uploads /\ (Ends(w) \/ Enters(w, job[w]))
           /\ UNCHANGED <<uploads, file, rules, runs>> /\ SharedGrow
           /\ \/ UNCHANGED <<attempts, association>> /\ Leave(w)
              \/ Recover(Served(w)) /\ TakeDelivery(Served(w))
<1>1. job[w] \in Uploads
  BY ServedParts DEF ContinueStarted
<1>2. CASE BeginContinue(w, job[w], "BOTH")
  <2>1. Ends(w) \/ Enters(w, job[w])
    BY <1>1, <1>2, ContinueBegins
  <2> QED BY <1>1, <1>2, <2>1 DEF BeginContinue, SharedGrow, TakeLifecycle, TakeDelivery, Served
<1>3. CASE Leave(w) /\ UNCHANGED <<shared, tables>>
  BY <1>1, <1>3, Leaves DEF SharedGrow, shared, tables
<1> QED BY <1>2, <1>3 DEF ContinueStarted

LEMMA Steps ==
    ASSUME TypeInv, [Next]_vars
    PROVE  /\ upload' = upload /\ SharedGrow
           /\ \/ (\A x \in Workers : Still(x)) /\ archived' = archived
              \/ \E w \in Workers : Alone(w)
<1>1. ASSUME NEW w \in Workers, NEW u \in Uploads, Request(w, u)
      PROVE  /\ upload' = upload /\ SharedGrow
             /\ \/ (\A x \in Workers : Still(x)) /\ archived' = archived
                \/ Alone(w)
  <2>1. upload' = upload /\ archived' = archived /\ SharedGrow
    BY <1>1, RequestWrites DEF uploads
  <2>2. CASE PendingRecovers(w, u)
    BY <2>1, <2>2, WorkersStay DEF PendingRecovers
  <2>3. CASE ~PendingRecovers(w, u)
    BY <1>1, <2>1, <2>3, RequestMoves DEF Alone
  <2> QED BY <2>2, <2>3
<1>2. ASSUME NEW w \in Workers, ContinueStarted(w) PROVE upload' = upload /\ SharedGrow /\ Alone(w)
  BY <1>2, StartedMoves DEF Alone, uploads
<1>3. ASSUME NEW w \in Workers, Crash(w) PROVE upload' = upload /\ SharedGrow /\ Alone(w)
  BY <1>3, Leaves DEF Crash, Alone, tables, uploads, shared, SharedGrow
<1>4. ASSUME NEW w \in Workers, CheckArchive(w) \/ Archive(w) PROVE upload' = upload /\ SharedGrow /\ Alone(w)
  <2>1. archived \in [Uploads -> BOOLEAN]
    BY DEF TypeInv, TableTypes
  <2>2. upload' = upload /\ SharedGrow
    BY <1>4, ArchiveMoves DEF shared, SharedGrow
  <2>3. archived' = archived \/ \A u \in Uploads \ {job[w]} : archived'[u] = archived[u]
    BY <1>4, <2>1, ArchiveMoves
  <2> QED BY <1>4, <2>2, <2>3, ArchiveMoves DEF Alone
<1>5. ASSUME NEW w \in Workers, Stage(w) PROVE upload' = upload /\ SharedGrow /\ Alone(w)
  BY <1>5, StageMoves, StageServes DEF Alone, SharedGrow
<1>6. ASSUME NEW w \in Workers, Bronze(w) PROVE upload' = upload /\ SharedGrow /\ Alone(w)
  BY <1>6, BronzeMoves, BronzeServes DEF Alone, SharedGrow
<1>7. ASSUME NEW w \in Workers, LoseLock(w)
      PROVE  upload' = upload /\ SharedGrow /\ archived' = archived /\ \A x \in Workers : Still(x)
  BY <1>7, LockLost DEF tables, uploads, shared, SharedGrow
<1>8. ASSUME NEW a \in Associations, Finalize(a) \/ Submission(a)
      PROVE  upload' = upload /\ SharedGrow /\ archived' = archived /\ \A x \in Workers : Still(x)
  <2>1. UNCHANGED <<uploads, shared, workers>>
    BY <1>8 DEF Finalize, Submission, SubmitAnswers
  <2> QED BY <2>1, WorkersStay DEF uploads, shared, SharedGrow
<1>9. CASE UNCHANGED vars
  BY <1>9, Unchanged DEF tables, uploads, shared, SharedGrow
<1> QED BY <1>1, <1>2, <1>3, <1>4, <1>5, <1>6, <1>7, <1>8, <1>9, Cases

LEMMA ControlAlone ==
    ASSUME TypeInv, ControlInv, upload' = upload, SharedGrow, NEW w \in Workers, Alone(w)
    PROVE  ControlInv'
<1>1. /\ OnlyWorker(w)
      /\ \A x \in Workers \ {w} : at'[x] = at[x] /\ job'[x] = job[x] /\ Served(x)' = Served(x)
  BY DEF Alone, Ends, GoesOn, Enters, OnlyWorker, Still, Served, AssociationOf
<1>2. OneInside'
  <2>1. ASSUME NEW x \in Workers \ {w}, at[x] \in Inside, at'[w] \in Inside, job[x] = job'[w]
        PROVE  job[x] \in sharedLifecycles'
    <3>1. ~Ends(w)
      BY <2>1, PlaceSets DEF Ends
    <3>2. CASE GoesOn(w)
      BY <2>1, <3>2, PlaceSets DEF GoesOn, ControlInv, OneInside, SharedGrow
    <3>3. ASSUME NEW u \in Uploads, Enters(w, u) PROVE job[x] \in sharedLifecycles'
      BY <2>1, <3>3 DEF Enters, LifecycleTaken
    <3> QED BY <3>1, <3>2, <3>3 DEF Alone
  <2> QED BY <1>1, <2>1 DEF OneInside, ControlInv, SharedGrow
<1>3. OneContinues'
  <2>1. ASSUME NEW x \in Workers \ {w}, at[x] \in Continuing, at'[w] \in Continuing, Served(x) = Served(w)'
        PROVE  Served(x) \in sharedDeliveries'
    <3>1. ~Ends(w)
      BY <2>1, PlaceSets DEF Ends
    <3>2. CASE GoesOn(w)
      <4>1. at[w] \in Continuing
        BY <2>1, <3>2, PlaceSets DEF GoesOn
      <4>2. Served(w)' = Served(w)
        BY <3>2 DEF GoesOn, Served, AssociationOf
      <4> QED BY <2>1, <4>1, <4>2 DEF ControlInv, OneContinues, SharedGrow
    <3>3. ASSUME NEW u \in Uploads, Enters(w, u) PROVE Served(x) \in sharedDeliveries'
      <4>1. Served(w)' = AssociationOf(u)
        BY <3>3 DEF Enters, Served, AssociationOf
      <4> QED BY <2>1, <3>3, <4>1 DEF Enters, DeliveryTaken
    <3> QED BY <3>1, <3>2, <3>3 DEF Alone
  <2> QED BY <1>1, <2>1 DEF OneContinues, ControlInv, SharedGrow
<1>4. ArchivedIsIdle'
  <2>1. CASE (Ends(w) \/ GoesOn(w) \/ \E u \in Uploads : Enters(w, u)) /\ archived' = archived
    <3>1. at'[w] \in Inspecting \cup Continuing /\ archived[job'[w]] => job'[w] \in sharedLifecycles'
      BY <2>1, PlaceSets DEF Ends, GoesOn, Enters, ControlInv, ArchivedIsIdle, SharedGrow
    <3> QED BY <1>1, <2>1, <3>1 DEF ControlInv, ArchivedIsIdle, SharedGrow
  <2>2. CASE /\ Ends(w) /\ at[w] = "archive" /\ job[w] \in Uploads
             /\ \A u \in Uploads \ {job[w]} : archived'[u] = archived[u]
    <3>1. at'[w] \notin Inspecting \cup Continuing
      BY <2>2, PlaceSets DEF Ends
    <3>2. ASSUME NEW x \in Workers \ {w}, at[x] \in Inspecting \cup Continuing, archived'[job[x]]
          PROVE  job[x] \in sharedLifecycles'
      <4>1. job[x] \in Uploads
        BY <3>2, ServedParts, PlaceSets
      <4>2. CASE job[x] = job[w]
        BY <2>2, <3>2, <4>2, PlaceSets DEF ControlInv, OneInside, SharedGrow
      <4>3. CASE job[x] # job[w]
        BY <2>2, <3>2, <4>1, <4>3 DEF ControlInv, ArchivedIsIdle, SharedGrow
      <4> QED BY <4>2, <4>3
    <3> QED BY <1>1, <3>1, <3>2 DEF ArchivedIsIdle
  <2> QED BY <2>1, <2>2 DEF Alone
<1> QED BY <1>2, <1>3, <1>4 DEF ControlInv

LEMMA ControlStep == TypeInv /\ ControlInv /\ [Next]_vars => ControlInv'
<1> SUFFICES ASSUME TypeInv, ControlInv, [Next]_vars PROVE ControlInv'
  OBVIOUS
<1>1. CASE (\A x \in Workers : Still(x)) /\ archived' = archived
  <2>1. \A x \in Workers : at'[x] = at[x] /\ job'[x] = job[x] /\ Served(x)' = Served(x)
    BY <1>1, Steps DEF Still, Served, AssociationOf
  <2> QED BY <1>1, <2>1, Steps DEF ControlInv, OneInside, OneContinues, ArchivedIsIdle, SharedGrow
<1> QED BY <1>1, Steps, ControlAlone

LEMMA ControlInit == Init => ControlInv
  BY PlaceSets DEF Init, ControlInv, OneInside, OneContinues, ArchivedIsIdle

-----------------------------------------------------------------------------
(* Rules: what a step may do to answers, versions, snapshots and reuse.     *)
RulesStay ==
    /\ policies' = policies
    /\ \A v \in Versions :
          /\ version'[v].rules = version[v].rules /\ version'[v].approved = version[v].approved
          /\ version'[v].answers = version[v].answers

AnswersGrow ==
    \A v \in Versions, q \in Questions : version[v].answers[q] # "NONE" => version'[v].answers[q] # "NONE"

ReuseStays(a) ==
    association'[a].reused =>
        \/ association[a].reused
        \/ \A q \in QuestionsOf[a[2]] : version[VersionOf(a)].answers[q] # "NONE"

LEMMA VersionType ==
    ASSUME TypeInv, NEW v \in Versions
    PROVE  /\ version[v] \in VersionRows /\ version[v].rules \in Nat /\ version[v].approved \in Nat
           /\ version[v].answers \in [Questions -> {"NONE", "YES", "NO"}]
           /\ policies[v] \in [0 .. MaxRuleVersion -> SUBSET Questions] /\ MaxRuleVersion \in Nat
  BY DeliveryAssumption DEF TypeInv, TableTypes, VersionRows

LEMMA DraftStays == ASSUME DraftInv, RulesStay PROVE DraftInv'
<1>1. ASSUME NEW v \in Versions PROVE ActiveRules(v)' = ActiveRules(v)
  BY DEF RulesStay, ActiveRules
<1> QED BY <1>1 DEF DraftInv, RulesStay

LEMMA ReuseGoesOn ==
    ASSUME ReusedIsAnswered, AnswersGrow, \A a \in Associations : ReuseStays(a)
    PROVE  ReusedIsAnswered'
<1>1. ASSUME NEW a \in Associations, association'[a].reused, NEW q \in Suggested(a[2])
      PROVE  version'[VersionOf(a)].answers[q] # "NONE"
  <2>1. VersionOf(a) \in Versions /\ q \in Questions /\ q \in QuestionsOf[a[2]]
    BY <1>1, AssociationParts, DeliveryAssumption DEF Suggested
  <2>2. version[VersionOf(a)].answers[q] # "NONE"
    BY <1>1, <2>1 DEF ReuseStays, ReusedIsAnswered, Suggested
  <2> QED BY <2>1, <2>2 DEF AnswersGrow
<1> QED BY <1>1 DEF ReusedIsAnswered, Suggested, VersionOf

(* The steps that leave answers and snapshots as they are.                  *)
LEMMA RulesUnmoved ==
    ASSUME RuleInv, RulesStay, \A a \in Associations : ReuseStays(a)
    PROVE  RuleInv'
<1>1. AnswersGrow
  BY DEF RulesStay, AnswersGrow
<1> QED BY <1>1, DraftStays, ReuseGoesOn DEF RuleInv

LEMMA StatusKeepsReuse ==
    ASSUME TypeInv, NEW a \in Associations, NEW status \in Statuses, SetStatus(a, status)
    PROVE  \A b \in Associations : ReuseStays(b)
<1>1. association \in [Associations -> AssociationRows]
  BY DEF TypeInv, TableTypes
<1> QED BY <1>1, StatusSet DEF ReuseStays

LEMMA RecoverKeepsReuse ==
    ASSUME TypeInv, NEW a \in Associations, Recover(a)
    PROVE  \A b \in Associations : ReuseStays(b)
<1>1. \/ association' = association
      \/ SetStatus(a, "SILVER_FAILED") \/ SetStatus(a, "GOLD_FAILED")
  BY Recovers DEF TypeInv
<1>2. "SILVER_FAILED" \in Statuses /\ "GOLD_FAILED" \in Statuses
  BY DEF Statuses, Finalized
<1> QED BY <1>1, <1>2, StatusKeepsReuse DEF ReuseStays

LEMMA StageKeepsReuse ==
    ASSUME TypeInv, NEW w \in Workers, Stage(w)
    PROVE  \A b \in Associations : ReuseStays(b)
<1>1. \/ association' = association
      \/ \E status \in {"READY_FOR_GOLD", "SUCCESS_WITH_WARNINGS", "SUCCESS", "SILVER_PROCESSING",
                         "GOLD_PROCESSING", "SILVER_FAILED", "GOLD_FAILED"} : SetStatus(Served(w), status)
  BY ReadsWrites, MarksWrites, OpensWrites, FailWrites, SilverRecorded, GoldTyped
     DEF Stage, Refines, Publishes, PublishSilver, LoseSilver, PublishGold, LoseGold
<1>2. {"READY_FOR_GOLD", "SUCCESS_WITH_WARNINGS", "SUCCESS", "SILVER_PROCESSING",
       "GOLD_PROCESSING", "SILVER_FAILED", "GOLD_FAILED"} \subseteq Statuses
  BY DEF Statuses, Finalized, Terminal
<1> QED BY <1>1, <1>2, StatusKeepsReuse, StageServes DEF ReuseStays

LEMMA BronzeRules ==
    ASSUME TypeInv, RuleInv, NEW w \in Workers, Bronze(w)
    PROVE  RuleInv'
<1>1. RulesStay
  BY BronzeVersion, BronzeServes DEF RulesStay
<1>2. \A b \in Associations : ReuseStays(b)
  BY BronzeAssociation DEF ReuseStays
<1> QED BY <1>1, <1>2, RulesUnmoved

LEMMA SubmissionRules ==
    ASSUME TypeInv, RuleInv, NEW a \in Associations, Submission(a)
    PROVE  RuleInv'
<1>1. PICK qs \in SUBSET Questions \ {{}} :
        \E given \in [qs -> {"YES", "NO"}] : SubmitAnswers(a, given)
  BY DEF Submission
<1>2. PICK given \in [qs -> {"YES", "NO"}] : SubmitAnswers(a, given)
  BY <1>1
<1> DEFINE v == VersionOf(a)
           answers == [q \in Questions |-> IF q \in DOMAIN given THEN given[q] ELSE version[v].answers[q]]
           number == IF Changes(v, given) THEN version[v].rules + 1 ELSE version[v].rules
<1>3. /\ version' = [version EXCEPT ![v] = [version[v] EXCEPT !.answers = answers, !.rules = number]]
      /\ policies' = policies /\ file' = file /\ association' = association
      /\ Changes(v, given) => version[v].rules < MaxRuleVersion
  BY <1>2 DEF SubmitAnswers
<1>4. /\ v \in Versions /\ version[v] \in VersionRows /\ version[v].rules \in Nat
      /\ version[v].approved \in Nat /\ MaxRuleVersion \in Nat
      /\ version[v].answers \in [Questions -> {"NONE", "YES", "NO"}]
      /\ version \in [Versions -> VersionRows]
  BY AssociationParts, VersionType DEF TypeInv, TableTypes
<1> HIDE DEF answers, number
<1>5. /\ version'[v].answers = answers /\ version'[v].rules = number
      /\ version'[v].approved = version[v].approved
      /\ \A x \in Versions \ {v} : version'[x] = version[x]
  BY <1>3, <1>4 DEF VersionRows
<1>6. AnswersGrow
  <2>1. \A q \in Questions : version[v].answers[q] # "NONE" => answers[q] # "NONE"
    BY <1>2 DEF answers
  <2> QED BY <1>5, <2>1 DEF AnswersGrow
<1>7. ReusedIsAnswered'
  <2>1. \A b \in Associations : ReuseStays(b)
    BY <1>3 DEF ReuseStays
  <2> QED BY <1>6, <2>1, ReuseGoesOn DEF RuleInv
<1>8. DraftInv'
  <2>0. DraftInv
    BY DEF RuleInv
  <2>1. ASSUME NEW x \in Versions \ {v}
        PROVE  /\ version'[x].rules <= MaxRuleVersion /\ version'[x].approved <= version'[x].rules
               /\ \A n \in 0 .. MaxRuleVersion : n > version'[x].rules => policies'[x][n] = {}
               /\ policies'[x][version'[x].rules] # {} => policies'[x][version'[x].rules] = ActiveRules(x)'
               /\ version'[x].approved > 0 /\ version'[x].approved = version'[x].rules =>
                     policies'[x][version'[x].rules] # {}
    <3>1. version'[x] = version[x] /\ policies' = policies
      BY <1>3, <1>5
    <3>2. ActiveRules(x)' = ActiveRules(x)
      BY <3>1 DEF ActiveRules
    <3> QED BY <2>0, <3>1, <3>2 DEF DraftInv
  <2>2. CASE Changes(v, given)
    <3>1. number = version[v].rules + 1 /\ version[v].rules < MaxRuleVersion
      BY <1>3, <2>2 DEF number
    <3>2. policies[v][number] = {} /\ number <= MaxRuleVersion /\ number \in 0 .. MaxRuleVersion
      BY <1>4, <2>0, <3>1 DEF DraftInv
    <3>3. version[v].approved < number
      BY <1>4, <2>0, <3>1 DEF DraftInv
    <3>4. \A n \in 0 .. MaxRuleVersion : n > number => policies[v][n] = {}
      BY <1>4, <2>0, <3>1 DEF DraftInv
    <3>5. version[v].approved # number /\ version[v].approved <= number
      BY <1>4, <3>1, <3>3
    <3> QED BY <1>3, <1>5, <2>1, <3>2, <3>4, <3>5 DEF DraftInv
  <2>3. CASE ~Changes(v, given)
    <3>1. number = version[v].rules
      BY <2>3 DEF number
    <3>2. answers = version[v].answers
      BY <1>4, <2>3 DEF answers, Changes
    <3>3. ActiveRules(v)' = ActiveRules(v)
      BY <1>5, <3>2 DEF ActiveRules
    <3>4. policies' = policies /\ version'[v].rules = version[v].rules
          /\ version'[v].approved = version[v].approved
      BY <1>3, <1>5, <3>1
    <3>5. /\ version'[v].rules <= MaxRuleVersion /\ version'[v].approved <= version'[v].rules
          /\ \A n \in 0 .. MaxRuleVersion : n > version'[v].rules => policies'[v][n] = {}
          /\ policies'[v][version'[v].rules] # {} => policies'[v][version'[v].rules] = ActiveRules(v)'
          /\ version'[v].approved > 0 /\ version'[v].approved = version'[v].rules =>
                policies'[v][version'[v].rules] # {}
      BY <1>4, <2>0, <3>3, <3>4 DEF DraftInv
    <3> QED BY <2>1, <3>5 DEF DraftInv
  <2> QED BY <2>2, <2>3
<1> QED BY <1>7, <1>8 DEF RuleInv

LEMMA FinalizeRules ==
    ASSUME TypeInv, RuleInv, NEW a \in Associations, Finalize(a)
    PROVE  RuleInv'
<1> DEFINE v == VersionOf(a)
           r == version[v].rules
           pinned == [status |-> "READY_FOR_SILVER", pin |-> r, reused |-> FALSE]
<1>1. /\ version \in [Versions -> VersionRows] /\ v \in Versions /\ version[v] \in VersionRows
      /\ r \in Nat /\ policies \in [Versions -> [0 .. MaxRuleVersion -> SUBSET Questions]]
      /\ association \in [Associations -> AssociationRows] /\ MaxRuleVersion \in Nat
  BY AssociationParts, VersionType DEF TypeInv, TableTypes
<1>2. /\ version' = [version EXCEPT ![v] = [version[v] EXCEPT !.approved = r]]
      /\ policies' = [policies EXCEPT ![v] = Snapshot(v)]
      /\ association' = [association EXCEPT ![a] = pinned] /\ file' = file
      /\ ActiveRules(v) # {}
  BY DEF Finalize
<1>3. DraftInv /\ r \in 0 .. MaxRuleVersion
  <2>1. DraftInv
    BY DEF RuleInv
  <2>2. r <= MaxRuleVersion
    BY <1>1, <2>1 DEF DraftInv
  <2> QED BY <1>1, <2>1, <2>2
<1>4. /\ version'[v].rules = r /\ version'[v].answers = version[v].answers /\ version'[v].approved = r
      /\ \A x \in Versions \ {v} : version'[x] = version[x]
  BY <1>1, <1>2 DEF VersionRows
<1>5. /\ policies'[v] = Snapshot(v) /\ \A x \in Versions \ {v} : policies'[x] = policies[x]
  BY <1>1, <1>2
<1>6. ASSUME NEW x \in Versions PROVE ActiveRules(x)' = ActiveRules(x)
  BY <1>4 DEF ActiveRules
<1>7. /\ \A n \in 0 .. MaxRuleVersion : n # r => policies'[v][n] = policies[v][n]
      /\ policies[v][r] # {} => policies'[v][r] = policies[v][r]
      /\ policies[v][r] = {} => policies'[v][r] = ActiveRules(v)
  <2>1. policies[v] \in [0 .. MaxRuleVersion -> SUBSET Questions]
    BY <1>1
  <2> QED BY <1>3, <1>5, <2>1 DEF Snapshot, ApprovedPolicy
<1>8. DraftInv'
  <2>1. ASSUME NEW x \in Versions \ {v}
        PROVE  /\ version'[x].rules <= MaxRuleVersion /\ version'[x].approved <= version'[x].rules
               /\ \A n \in 0 .. MaxRuleVersion : n > version'[x].rules => policies'[x][n] = {}
               /\ policies'[x][version'[x].rules] # {} => policies'[x][version'[x].rules] = ActiveRules(x)'
               /\ version'[x].approved > 0 /\ version'[x].approved = version'[x].rules =>
                     policies'[x][version'[x].rules] # {}
    BY <1>3, <1>4, <1>5, <1>6 DEF DraftInv
  <2>2. \A n \in 0 .. MaxRuleVersion : n > r => policies'[v][n] = {}
    BY <1>1, <1>3, <1>7 DEF DraftInv
  <2>3. policies'[v][r] = ActiveRules(v) /\ ActiveRules(v)' = ActiveRules(v)
    BY <1>1, <1>3, <1>6, <1>7 DEF DraftInv
  <2>4. r <= MaxRuleVersion
    BY <1>1, <1>3
  <2>5. /\ version'[v].rules <= MaxRuleVersion /\ version'[v].approved <= version'[v].rules
        /\ \A n \in 0 .. MaxRuleVersion : n > version'[v].rules => policies'[v][n] = {}
        /\ policies'[v][version'[v].rules] # {} => policies'[v][version'[v].rules] = ActiveRules(v)'
        /\ version'[v].approved > 0 /\ version'[v].approved = version'[v].rules =>
              policies'[v][version'[v].rules] # {}
    <3>1. r <= r /\ version'[v].rules = r /\ version'[v].approved = r
      BY <1>1, <1>4
    <3>2. policies'[v][r] # {}
      BY <1>2, <2>3
    <3> HIDE DEF r
    <3> QED BY <2>2, <2>3, <2>4, <3>1, <3>2
  <2> QED BY <2>1, <2>5 DEF DraftInv
<1>9. AnswersGrow
  BY <1>4 DEF AnswersGrow
<1>10. \A b \in Associations : ReuseStays(b)
  <2>1. /\ association'[a].reused = FALSE
        /\ \A b \in Associations \ {a} : association'[b] = association[b]
    BY <1>1, <1>2
  <2> QED BY <2>1 DEF ReuseStays
<1> QED BY <1>8, <1>9, <1>10, ReuseGoesOn DEF RuleInv

LEMMA RuleStep == TypeInv /\ RuleInv /\ [Next]_vars => RuleInv'
<1> SUFFICES ASSUME TypeInv, RuleInv, [Next]_vars PROVE RuleInv'
  OBVIOUS
<1>1. ASSUME UNCHANGED rules, \A a \in Associations : ReuseStays(a) PROVE RuleInv'
  BY <1>1, RulesUnmoved DEF RulesStay, rules
<1>2. ASSUME UNCHANGED rules, association' = association PROVE RuleInv'
  BY <1>1, <1>2 DEF ReuseStays
<1>3. ASSUME NEW w \in Workers, NEW u \in Uploads, Request(w, u) PROVE RuleInv'
  <2>1. AssociationOf(u) \in Associations
    BY UploadParts DEF TypeInv, TableTypes
  <2> QED BY <1>1, <1>2, <1>3, <2>1, RequestWrites, RecoverKeepsReuse
<1>4. ASSUME NEW w \in Workers, ContinueStarted(w) PROVE RuleInv'
  <2>1. Served(w) \in Associations
    BY <1>4, ServedParts DEF ContinueStarted
  <2> QED BY <1>1, <1>2, <1>4, <2>1, StartedMoves, RecoverKeepsReuse
<1>5. ASSUME NEW w \in Workers, CheckArchive(w) \/ Archive(w) PROVE RuleInv'
  BY <1>2, <1>5, ArchiveMoves
<1>6. ASSUME NEW w \in Workers, Crash(w) \/ LoseLock(w) PROVE RuleInv'
  BY <1>2, <1>6, LockLost DEF Crash, tables
<1>7. ASSUME NEW w \in Workers, Stage(w) PROVE RuleInv'
  BY <1>1, <1>7, StageServes, StageKeepsReuse DEF rules
<1>8. CASE UNCHANGED vars
  BY <1>2, <1>8 DEF vars, tables
<1> QED BY <1>3, <1>4, <1>5, <1>6, <1>7, <1>8, BronzeRules, FinalizeRules, SubmissionRules, Cases

LEMMA RuleInit == Init => RuleInv
<1> SUFFICES ASSUME Init PROVE RuleInv
  OBVIOUS
<1>1. MaxRuleVersion \in Nat
  BY DeliveryAssumption
<1>2. ASSUME NEW v \in Versions
      PROVE  /\ version[v].rules = 0 /\ version[v].approved = 0
             /\ \A n \in 0 .. MaxRuleVersion : policies[v][n] = {}
  BY DEF Init, NoVersion
<1>3. DraftInv
  BY <1>1, <1>2 DEF DraftInv
<1>4. ASSUME NEW a \in Associations
      PROVE  association[a].reused = FALSE
  BY DEF Init
<1> QED BY <1>3, <1>4 DEF RuleInv, ReusedIsAnswered

-----------------------------------------------------------------------------
(* Rows: a step only adds to them, and keeps what belongs to all            *)
(* associations but one.                                                    *)
Monotone ==
    /\ upload' = upload
    /\ DOMAIN attempts \subseteq DOMAIN attempts'
    /\ \A i \in DOMAIN attempts :
          /\ attempts'[i].association = attempts[i].association
          /\ attempts'[i].stage = attempts[i].stage
    /\ DOMAIN dqRuns \subseteq DOMAIN dqRuns' /\ \A k \in DOMAIN dqRuns : dqRuns'[k] = dqRuns[k]
    /\ DOMAIN goldRuns \subseteq DOMAIN goldRuns'
    /\ \A i \in DOMAIN goldRuns :
          /\ goldRuns'[i].association = goldRuns[i].association
          /\ goldRuns'[i].dq = goldRuns[i].dq
    /\ \A a \in Associations :
          association[a].status \in Finalized =>
              association'[a].status \in Finalized /\ association'[a].pin = association[a].pin

Kept(a) ==
    /\ association'[a].status = association[a].status
    /\ \A i \in DOMAIN attempts : attempts[i].association = a => attempts'[i] = attempts[i]
    /\ \A i \in DOMAIN goldRuns : goldRuns[i].association = a => goldRuns'[i] = goldRuns[i]
    /\ \A i \in DOMAIN goldRuns' \ DOMAIN goldRuns : goldRuns'[i].association # a

(* The attempt of a request with its lock is left running.                  *)
KeepsAttempt(x) ==
    at[x] \in {"silver_running", "gold_running"} /\ "delivery" \in held'[x] =>
        attempts'[attempt[x]].status = "PROCESSING"

LEMMA BuiltStays == ASSUME Monotone, NEW a, Built(a) PROVE Built(a)'
  BY DEF Monotone, Built

LEMMA LineageKept ==
    ASSUME RowsInv, Monotone, NEW a \in Associations, Kept(a), Lineage(a)
    PROVE  Lineage(a)'
<1>1. PICK i \in DOMAIN goldRuns :
          /\ goldRuns[i].association = a
          /\ Successful(goldRuns[i].attempt, "GOLD")
          /\ Successful(dqRuns[goldRuns[i].dq].attempt, "SILVER")
  BY DEF Lineage
<1> DEFINE dq == goldRuns[i].dq
<1>2. /\ goldRuns[i].attempt \in DOMAIN attempts /\ attempts[goldRuns[i].attempt].association = a
      /\ dq \in DOMAIN dqRuns /\ dqRuns[dq].association = a
      /\ dqRuns[dq].attempt \in DOMAIN attempts /\ attempts[dqRuns[dq].attempt].association = a
  BY <1>1 DEF RowsInv
<1>3. /\ goldRuns'[i] = goldRuns[i] /\ i \in DOMAIN goldRuns' /\ dqRuns'[dq] = dqRuns[dq]
      /\ attempts'[goldRuns[i].attempt] = attempts[goldRuns[i].attempt]
      /\ attempts'[dqRuns[dq].attempt] = attempts[dqRuns[dq].attempt]
  BY <1>1, <1>2 DEF Kept, Monotone
<1> QED BY <1>1, <1>3 DEF Lineage, Successful

LEMMA SoleKept ==
    ASSUME RowsInv, Monotone, NEW a \in Associations, Kept(a), Sole(a)
    PROVE  Sole(a)'
<1>1. association'[a].status = "SUCCESS" => Lineage(a)'
  BY LineageKept DEF Kept, Sole
<1>2. \A i \in DOMAIN goldRuns' :
        goldRuns'[i].association = a => i \in DOMAIN goldRuns /\ goldRuns'[i] = goldRuns[i]
                                        /\ goldRuns[i].association = a
  BY DEF Kept, Monotone
<1> QED BY <1>1, <1>2 DEF Sole

LEMMA FinishedKept ==
    ASSUME Monotone, NEW a \in Associations, Kept(a), Finished(a)
    PROVE  Finished(a)'
  BY BuiltStays DEF Kept, Finished

LEMMA StillServes ==
    ASSUME TypeInv, Monotone, NEW x \in Workers, Still(x)
    PROVE  /\ at'[x] = at[x] /\ attempt'[x] = attempt[x] /\ Served(x)' = Served(x)
           /\ source'[x] = source[x] /\ recovery'[x] = recovery[x] /\ held'[x] \subseteq held[x]
           /\ at[x] \in Continuing => Served(x) \in Associations
  BY ServedParts, PlaceSets DEF Monotone, Still, Served, AssociationOf

LEMMA KnowsStill ==
    ASSUME TypeInv, Monotone, NEW x \in Workers, Still(x), Knows(x), KeepsAttempt(x)
    PROVE  Knows(x)'
<1>1. /\ at'[x] = at[x] /\ attempt'[x] = attempt[x] /\ Served(x)' = Served(x)
      /\ source'[x] = source[x] /\ recovery'[x] = recovery[x] /\ held'[x] \subseteq held[x]
      /\ at[x] \in Continuing => Served(x) \in Associations
      /\ at[x] \in Decided => at[x] \in Continuing
      /\ at[x] \in Running => attempt[x] # 0
      /\ attempt[x] # 0 => attempt[x] \in DOMAIN attempts
  BY StillServes, AttemptIn, PlaceSets
<1>2. /\ at'[x] \in Inspecting /\ attempt'[x] # 0 => attempts'[attempt'[x]].association = <<>>
      /\ at'[x] \in Running => attempts'[attempt'[x]].association = Served(x)'
      /\ at'[x] \in {"silver_running", "silver_lost"} => attempts'[attempt'[x]].stage = "SILVER"
      /\ at'[x] \in {"gold_running", "gold_lost"} => attempts'[attempt'[x]].stage = "GOLD"
  BY <1>1 DEF Knows, Monotone, Running
<1>3. at'[x] \in {"silver_running", "gold_running"} /\ "delivery" \in held'[x] =>
          attempts'[attempt'[x]].status = "PROCESSING"
  BY <1>1 DEF KeepsAttempt
<1>4. at'[x] \in Decided => association'[Served(x)'].status \in Finalized
  BY <1>1 DEF Knows, Monotone
<1>5. at'[x] \in {"gold_open", "gold_running"} =>
          /\ source'[x] \in DOMAIN dqRuns' /\ dqRuns'[source'[x]].association = Served(x)'
          /\ dqRuns'[source'[x]].valid
          /\ recovery'[x] # 0 => /\ recovery'[x] \in DOMAIN goldRuns'
                                 /\ goldRuns'[recovery'[x]].association = Served(x)'
                                 /\ goldRuns'[recovery'[x]].dq = source'[x]
  BY <1>1 DEF Knows, Monotone
<1>6. /\ at'[x] = "gold_skip" => Served(x)'[2] \in AllRejected
      /\ at'[x] = "gold_reuse" => \E i \in DOMAIN goldRuns' : goldRuns'[i].association = Served(x)'
  BY <1>1 DEF Knows, Built, Monotone
<1> QED BY <1>2, <1>3, <1>4, <1>5, <1>6 DEF Knows, Built

LEMMA OwnsStill ==
    ASSUME TypeInv, Monotone, RowsInv, RowsInv', NEW x \in Workers, Still(x), Knows(x), Owns(x),
           at[x] \in Continuing, Kept(Served(x)) \/ at[x] \notin Decided
    PROVE  Owns(x)'
<1> DEFINE a == Served(x)
           k == source[x]
<1>1. /\ at'[x] = at[x] /\ attempt'[x] = attempt[x] /\ Served(x)' = a /\ a \in Associations
      /\ source'[x] = k /\ recovery'[x] = recovery[x]
  BY StillServes
<1>2. CASE at[x] \notin Decided
  BY <1>1, <1>2 DEF Owns, Expects, Decided, Continuing
<1>3. CASE Kept(a)
  <2>1. association'[a].status = association[a].status
    BY <1>3 DEF Kept
  <2>3. at[x] \in {"gold_open", "gold_running"} =>
          /\ attempts'[dqRuns'[k].attempt].stage = "SILVER" /\ attempts'[dqRuns'[k].attempt].status = "SUCCESS"
          /\ recovery[x] = 0 => \A i \in DOMAIN goldRuns' : goldRuns'[i].dq # k
    <3> SUFFICES ASSUME at[x] \in {"gold_open", "gold_running"}
                 PROVE  /\ attempts'[dqRuns'[k].attempt].stage = "SILVER"
                        /\ attempts'[dqRuns'[k].attempt].status = "SUCCESS"
                        /\ recovery[x] = 0 => \A i \in DOMAIN goldRuns' : goldRuns'[i].dq # k
      OBVIOUS
    <3>1. /\ k \in DOMAIN dqRuns /\ dqRuns[k].association = a /\ dqRuns'[k] = dqRuns[k]
          /\ dqRuns[k].attempt \in DOMAIN attempts /\ attempts[dqRuns[k].attempt].association = a
          /\ Successful(dqRuns[k].attempt, "SILVER")
          /\ recovery[x] = 0 => \A i \in DOMAIN goldRuns : goldRuns[i].dq # k
      BY DEF Knows, Owns, RowsInv, Monotone
    <3>2. attempts'[dqRuns[k].attempt] = attempts[dqRuns[k].attempt]
      BY <1>3, <3>1 DEF Kept
    <3>3. ASSUME NEW i \in DOMAIN goldRuns', goldRuns'[i].dq = k PROVE i \in DOMAIN goldRuns /\ goldRuns[i].dq = k
      <4>1. goldRuns'[i].association = a
        BY <3>1, <3>3 DEF RowsInv
      <4> QED BY <1>3, <3>3, <4>1 DEF Kept, Monotone
    <3> QED BY <3>1, <3>2, <3>3 DEF Successful
  <2>4. ASSUME at[x] = "gold_reuse" PROVE Lineage(Served(x))'
    <3>1. PICK b \in Associations : b = Served(x)
      BY <1>1
    <3>2. Lineage(b)'
      BY <1>3, <2>4, <3>1, LineageKept DEF Owns
    <3> QED BY <1>1, <3>1, <3>2 DEF Lineage
  <2>5. Expects(x, association[Served(x)].status)'
    <3>1. Expects(x, association[Served(x)].status)
      BY DEF Owns
    <3> QED BY <1>1, <2>1, <3>1 DEF Expects
  <2>6. source'[x] = source[x] /\ recovery'[x] = recovery[x] /\ at'[x] = at[x]
    BY <1>1
  <2> QED BY <2>3, <2>4, <2>5, <2>6 DEF Owns, Successful
<1> QED BY <1>2, <1>3

(* What a step owes: that the request it moves knows what it should, that   *)
(* the others are out of its way, and that its association is in order.     *)
Moved(x) == Knows(x)' /\ (at'[x] \in Continuing => Served(x)' \in sharedDeliveries' \/ Owns(x)')

LEMMA Assembled ==
    ASSUME DeliveryInv, TypeInv', RowsInv', AttemptsApart', Monotone, SharedGrow, NEW b,
           \A a \in Associations \ {b} : Kept(a),
           b \in Associations => Finished(b)' /\ (b \in sharedDeliveries' \/ Sole(b)'),
           \A x \in Workers :
              \/ Moved(x)
              \/ /\ Still(x) /\ KeepsAttempt(x)
                 /\ at[x] \in Decided /\ Served(x) = b => b \in sharedDeliveries'
    PROVE  WorkInv' /\ SoleInv'
<1>1. ASSUME NEW x \in Workers PROVE Moved(x)
  <2>1. CASE /\ Still(x) /\ KeepsAttempt(x)
             /\ at[x] \in Decided /\ Served(x) = b => b \in sharedDeliveries'
    <3>1. Knows(x)'
      BY <2>1, KnowsStill DEF DeliveryInv, WorkInv
    <3>2. ASSUME at'[x] \in Continuing PROVE Served(x)' \in sharedDeliveries' \/ Owns(x)'
      <4>1. at[x] \in Continuing /\ Served(x)' = Served(x) /\ Served(x) \in Associations
        BY <2>1, <3>2, StillServes DEF DeliveryInv
      <4>2. CASE Served(x) \in sharedDeliveries
        BY <4>1, <4>2 DEF SharedGrow
      <4>3. CASE Owns(x)
        <5>1. CASE at[x] \in Decided /\ Served(x) = b
          BY <2>1, <4>1, <5>1
        <5>2. CASE Kept(Served(x)) \/ at[x] \notin Decided
          BY <2>1, <4>1, <4>3, <5>2, OwnsStill DEF DeliveryInv, WorkInv
        <5> QED BY <4>1, <5>1, <5>2
      <4> QED BY <4>1, <4>2, <4>3 DEF DeliveryInv, SoleInv
    <3> QED BY <3>1, <3>2 DEF Moved
  <2> QED BY <2>1
<1>2. ASSUME NEW a \in Associations PROVE Finished(a)' /\ (a \in sharedDeliveries' \/ Sole(a)')
  <2>1. CASE a = b
    BY <2>1
  <2>2. CASE a # b
    <3>1. Kept(a) /\ Finished(a) /\ RowsInv
      BY <2>2 DEF DeliveryInv, WorkInv
    <3>2. a \in sharedDeliveries \/ Sole(a)
      BY DEF DeliveryInv, SoleInv
    <3> QED BY <3>1, <3>2, FinishedKept, SoleKept DEF SharedGrow
  <2> QED BY <2>1, <2>2
<1> QED BY <1>1, <1>2 DEF WorkInv, SoleInv, Moved

LEMMA EmptyIsNoAssociation == <<>> \notin Associations
  BY DEF Associations

LEMMA RowsStay ==
    ASSUME TypeInv, RowsInv, Monotone, dqRuns' = dqRuns, goldRuns' = goldRuns
    PROVE  RowsInv'
<1>1. ASSUME NEW k \in DOMAIN dqRuns PROVE dqRuns[k].association \in Associations
  <2>1. dqRuns \in Seq(DqRows)
    BY DEF TypeInv, TableTypes
  <2>2. dqRuns[k] \in DqRows
    BY <2>1
  <2> QED BY <2>2 DEF DqRows
<1> QED BY <1>1 DEF RowsInv, Monotone

LEMMA ApartStays ==
    ASSUME TypeInv, AttemptsApart, NEW w \in Workers, OnlyWorker(w),
           attempt'[w] \in {0, attempt[w], Len(attempts) + 1}
    PROVE  AttemptsApart'
<1>1. \A x \in Workers : attempt[x] \in Nat /\ attempt[x] <= Len(attempts) /\ Len(attempts) \in Nat
  BY DEF TypeInv, TableTypes, WorkerTypes, WorkerType
<1>2. \A x \in Workers : attempt[x] # Len(attempts) + 1
  BY <1>1
<1>3. \A x \in Workers \ {w} : attempt'[x] = attempt[x]
  BY DEF OnlyWorker, Still
<1> QED BY <1>1, <1>2, <1>3 DEF AttemptsApart

(* A request that begins, ends or has yet to read owes nothing.             *)
LEMMA Fresh ==
    ASSUME NEW w \in Workers,
           \/ /\ attempt'[w] = 0
              /\ at'[w] \in {"idle", "started", "inspect", "associate", "silver", "gold", "archiving"}
           \/ at'[w] = "archive"
    PROVE  Moved(w)
<1>1. at'[w] \notin Running \cup Decided /\ (at'[w] \in Inspecting => attempt'[w] = 0)
  BY DEF Running, Decided, Continuing, Inspecting
<1>2. Knows(w)'
  BY <1>1 DEF Knows, Running, Decided, Continuing
<1>3. at'[w] \in Continuing => Owns(w)'
  BY <1>1 DEF Owns, Expects, Decided, Continuing
<1> QED BY <1>2, <1>3 DEF Moved

LEMMA FreshEnds ==
    ASSUME NEW w \in Workers, Ends(w) \/ \E u \in Uploads : Enters(w, u)
    PROVE  Moved(w) /\ OnlyWorker(w) /\ attempt'[w] = 0
  BY Fresh DEF Ends, Enters

(* Nothing is written: every association is kept.                           *)
LEMMA NothingWritten ==
    ASSUME TypeInv, RowsInv, upload' = upload, UNCHANGED <<attempts, association, runs>>
    PROVE  /\ Monotone /\ RowsInv' /\ \A a \in Associations : Kept(a)
<1>1. Monotone
  BY DEF Monotone, runs
<1>2. \A a \in Associations : Kept(a)
  BY DEF Kept, runs
<1> QED BY <1>1, <1>2, RowsStay DEF runs

LEMMA RunsOn ==
    ASSUME DeliveryInv, NEW x \in Workers, Still(x), attempts'[attempt[x]] = attempts[attempt[x]]
    PROVE  KeepsAttempt(x)
  BY DEF DeliveryInv, WorkInv, Knows, Still, KeepsAttempt

LEMMA NoneMoves ==
    ASSUME DeliveryInv, TypeInv', SharedGrow, upload' = upload, UNCHANGED <<attempts, association, runs>>,
           \A x \in Workers : Still(x)
    PROVE  WorkInv' /\ SoleInv'
<1>1. /\ Monotone /\ RowsInv' /\ \A a \in Associations : Kept(a)
  BY NothingWritten DEF DeliveryInv, WorkInv
<1>2. AttemptsApart'
  BY DEF DeliveryInv, WorkInv, AttemptsApart, Still
<1>3. \A x \in Workers : KeepsAttempt(x)
  BY RunsOn
<1>4. \A x \in Workers : at[x] \in Decided => Served(x) \in Associations
  BY ServedParts, PlaceSets DEF DeliveryInv
<1> QED BY <1>1, <1>2, <1>3, <1>4, EmptyIsNoAssociation, Assembled

LEMMA OneMoves ==
    ASSUME DeliveryInv, TypeInv', SharedGrow, upload' = upload, UNCHANGED <<attempts, association, runs>>,
           NEW w \in Workers, OnlyWorker(w), attempt'[w] \in {0, attempt[w]}, Moved(w)
    PROVE  WorkInv' /\ SoleInv'
<1>1. /\ Monotone /\ RowsInv' /\ \A a \in Associations : Kept(a)
  BY NothingWritten DEF DeliveryInv, WorkInv
<1>2. AttemptsApart'
  BY ApartStays DEF DeliveryInv, WorkInv
<1>3. \A x \in Workers \ {w} : Still(x) /\ KeepsAttempt(x)
  BY RunsOn DEF OnlyWorker
<1>4. \A x \in Workers : at[x] \in Decided => Served(x) \in Associations
  BY ServedParts, PlaceSets DEF DeliveryInv
<1> QED BY <1>1, <1>2, <1>3, <1>4, EmptyIsNoAssociation, Assembled

(* Reading.                                                                 *)
LEMMA SourceIs ==
    ASSUME TypeInv, RowsInv, NEW a \in Associations, GoldSource(a) # 0
    PROVE  /\ GoldSource(a) \in DOMAIN dqRuns /\ dqRuns[GoldSource(a)].association = a
           /\ Successful(dqRuns[GoldSource(a)].attempt, "SILVER")
           /\ association[a].status \in Finalized
           /\ dqRuns[GoldSource(a)].valid = (a[2] \notin AllRejected)
<1>1. LatestDqRun(a) # 0 /\ GoldSource(a) = LatestDqRun(a)
  BY DEF GoldSource, SilverDone
<1>2. /\ GoldSource(a) \in DOMAIN dqRuns /\ dqRuns[GoldSource(a)].association = a
      /\ Successful(dqRuns[GoldSource(a)].attempt, "SILVER")
  BY <1>1, DqRunIn DEF TypeInv, TableTypes
<1> HIDE DEF GoldSource
<1> QED BY <1>2 DEF RowsInv

LEMMA ReadsMoves ==
    ASSUME DeliveryInv, NEW w \in Workers, Reads(w)
    PROVE  Moved(w) /\ OnlyWorker(w) /\ attempt'[w] \in {0, attempt[w]}
<1> DEFINE a == Served(w)
<1>0. /\ Stage(w) /\ a \in Associations /\ attempts' = attempts /\ association' = association
      /\ dqRuns' = dqRuns /\ goldRuns' = goldRuns /\ upload' = upload /\ TypeInv /\ RowsInv
      /\ sharedDeliveries' = sharedDeliveries
  BY StageServes, ReadsWrites DEF Stage, DeliveryInv, WorkInv
<1>1. CASE Ends(w) \/ (GoesOn(w) /\ at'[w] = "gold" /\ attempt'[w] = 0)
  BY <1>1, FreshEnds, Fresh DEF GoesOn
<1>2. ASSUME GoesOn(w) PROVE OnlyWorker(w) /\ Served(w)' = Served(w)
  BY <1>0, <1>2 DEF GoesOn, Served, AssociationOf
<1>3. CASE GoesOn(w) /\ FindSilver(w) /\ at'[w] = "silver_reuse" /\ attempt'[w] = attempt[w]
  <2>1. BehindGold(association[a].status)
    <3>1. at[w] # at'[w]
      BY <1>3 DEF FindSilver
    <3> DEFINE place == IF BehindGold(association[a].status) THEN "silver_reuse" ELSE "gold"
    <3>2. BehindGold(association[a].status) \/ AfterSilver(w)
      BY <1>3 DEF FindSilver, Served
    <3>3. AfterSilver(w) => at'[w] # "silver_reuse"
      BY <1>0, SilverEnds, StageServes DEF Ends
    <3> QED BY <1>3, <3>2, <3>3
  <2>2. association[a].status \in Finalized
    BY <2>1 DEF BehindGold, Finalized
  <2>3. Knows(w)'
    BY <1>0, <1>2, <1>3, <2>2 DEF Knows, Inspecting, Running
  <2>4. Owns(w)'
    BY <1>0, <1>2, <1>3, <2>1 DEF Owns, Expects, BehindGold
  <2> QED BY <1>2, <1>3, <2>3, <2>4 DEF Moved
<1>4. CASE GoesOn(w) /\ PlanSilver(w) /\ at'[w] = "silver_open" /\ attempt'[w] = attempt[w]
  <2>1. association[a].status \in {"READY_FOR_SILVER", "SILVER_FAILED", "READY_FOR_GOLD", "GOLD_FAILED"}
    BY <1>4 DEF PlanSilver, SilverAllowed, Served
  <2>2. association[a].status \in Finalized /\ association[a].status \notin Terminal
    BY <2>1 DEF Finalized, Terminal
  <2>3. Knows(w)'
    BY <1>0, <1>2, <1>4, <2>2 DEF Knows, Inspecting, Running
  <2>4. Owns(w)'
    BY <1>0, <1>2, <1>4, <2>2 DEF Owns, Expects
  <2> QED BY <1>2, <1>4, <2>3, <2>4 DEF Moved
<1>5. CASE GoesOn(w) /\ FindEmpty(w) /\ at'[w] = "gold_skip" /\ attempt'[w] = attempt[w]
  <2>1. GoldSource(a) # 0 /\ ~dqRuns[GoldSource(a)].valid
    BY <1>5 DEF FindEmpty, Served
  <2>2. association[a].status \in Finalized /\ a[2] \in AllRejected
    BY <1>0, <2>1, SourceIs
  <2>3. Knows(w)'
    BY <1>0, <1>2, <1>5, <2>2 DEF Knows, Inspecting, Running
  <2>4. Owns(w)'
    BY <1>5 DEF Owns, Expects
  <2> QED BY <1>2, <1>5, <2>3, <2>4 DEF Moved
<1>6. CASE GoesOn(w) /\ FindGold(w) /\ at'[w] = "gold_reuse" /\ attempt'[w] = attempt[w]
  <2>1. GoldSource(a) # 0 /\ SuccessfulGoldRun(a, GoldSource(a)) # 0
    BY <1>6 DEF FindGold, Plannable, Served
  <2>2. association[a].status \in Finalized /\ Successful(dqRuns[GoldSource(a)].attempt, "SILVER")
    BY <1>0, <2>1, SourceIs
  <2> HIDE DEF a
  <2>3. PICK i \in DOMAIN goldRuns :
           /\ goldRuns[i].association = a /\ goldRuns[i].dq = GoldSource(a)
           /\ Successful(goldRuns[i].attempt, "GOLD")
    BY <1>0, <2>1, GoldRunIn DEF TypeInv, TableTypes
  <2> USE DEF a
  <2>4. Knows(w)'
    BY <1>0, <1>2, <1>6, <2>2, <2>3 DEF Knows, Inspecting, Running, Built
  <2>5. Owns(w)'
    BY <1>0, <1>2, <1>6, <2>2, <2>3 DEF Owns, Expects, Lineage, Successful
  <2> QED BY <1>2, <1>6, <2>4, <2>5 DEF Moved
<1>7. CASE /\ GoesOn(w) /\ PlanGold(w) /\ at'[w] = "gold_open" /\ attempt'[w] = attempt[w]
           /\ source'[w] = GoldSource(a)
           /\ recovery'[w] = GoldPublication(a, GoldSource(a))
  <2> DEFINE k == GoldSource(a)
             g == GoldPublication(a, k)
  <2>1. /\ k # 0 /\ dqRuns[k].valid /\ association[a].status \in {"READY_FOR_GOLD", "GOLD_FAILED"}
    BY <1>7 DEF PlanGold, GoldAllowed, Plannable, Served
  <2>2. /\ k \in DOMAIN dqRuns /\ dqRuns[k].association = a /\ Successful(dqRuns[k].attempt, "SILVER")
    BY <1>0, <2>1, SourceIs
  <2>3. /\ g # 0 => g \in DOMAIN goldRuns /\ goldRuns[g].association = a /\ goldRuns[g].dq = k
        /\ g = 0 => \A i \in DOMAIN goldRuns : ~(goldRuns[i].association = a /\ goldRuns[i].dq = k)
    <3> HIDE DEF a, k
    <3> QED BY <1>0, GoldRunIn DEF TypeInv, TableTypes
  <2>4. source'[w] = k /\ recovery'[w] = g
    BY <1>7
  <2> HIDE DEF k, g
  <2>5. association[a].status \in Finalized /\ association[a].status \notin Terminal
    BY <2>1 DEF Finalized, Terminal
  <2>6. Knows(w)'
    BY <1>0, <1>2, <1>7, <2>1, <2>2, <2>3, <2>4, <2>5 DEF Knows, Inspecting, Running
  <2>7. g = 0 => \A i \in DOMAIN goldRuns : goldRuns[i].dq # k
    BY <1>0, <2>2, <2>3 DEF RowsInv
  <2>8. Owns(w)'
    BY <1>0, <1>2, <1>7, <2>2, <2>4, <2>5, <2>7 DEF Owns, Expects, Successful
  <2> QED BY <1>2, <1>7, <2>6, <2>8 DEF Moved
<1>8. ~Marks(w) /\ ~Opens(w) /\ ~Refines(w) /\ ~Publishes(w)
  <2>1. at[w] \in {"silver", "silver_open", "gold", "gold_open"}
    BY DEF Reads, FindSilver, PlanSilver, RefuseSilver, ApplyFails, FindEmpty, FindGold, PlanGold, RefuseGold
  <2>2. ~Opens(w)
    <3>1. Len(attempts) \in Nat /\ Len(attempts') = Len(attempts)
      BY <1>0 DEF TypeInv, TableTypes
    <3> QED BY <1>0, <3>1, StageTables
  <2> QED BY <2>1, <2>2, MarksWrites, SilverRecorded, GoldTyped
          DEF Refines, Publishes, PublishSilver, LoseSilver, PublishGold, LoseGold, RecordSilver, PublishesGold
<1> QED BY <1>0, <1>1, <1>3, <1>4, <1>5, <1>6, <1>7, <1>8, StageMoves DEF Marks, Opens, Refines, Publishes

(* Writing: the requests beside the one that writes.                        *)
LEMMA OthersKeep ==
    ASSUME DeliveryInv, NEW w \in Workers, OnlyWorker(w),
           \A i \in DOMAIN attempts : i # attempt[w] => attempts'[i] = attempts[i]
    PROVE  \A x \in Workers \ {w} : Still(x) /\ KeepsAttempt(x)
<1> SUFFICES ASSUME NEW x \in Workers \ {w} PROVE Still(x) /\ KeepsAttempt(x)
  OBVIOUS
<1>1. Still(x)
  BY DEF OnlyWorker
<1>2. CASE attempt[x] \in DOMAIN attempts
  <2>1. attempt[x] # 0
    BY <1>2 DEF DeliveryInv, TypeInv, TableTypes
  <2>2. attempt[x] # attempt[w]
    BY <2>1 DEF DeliveryInv, WorkInv, AttemptsApart
  <2> QED BY <1>1, <1>2, <2>2, RunsOn
<1>3. CASE attempt[x] \notin DOMAIN attempts
  BY <1>1, <1>3, AttemptIn DEF DeliveryInv, KeepsAttempt, Running
<1> QED BY <1>1, <1>2, <1>3

LEMMA OthersApart ==
    ASSUME DeliveryInv, Monotone, SharedGrow, NEW w \in Workers, OnlyWorker(w), at[w] \in Continuing,
           \A i \in DOMAIN attempts : i # attempt[w] => attempts'[i] = attempts[i]
    PROVE  \A x \in Workers \ {w} :
              /\ Still(x) /\ KeepsAttempt(x)
              /\ at[x] \in Decided /\ Served(x) = Served(w) => Served(w) \in sharedDeliveries'
<1> SUFFICES ASSUME NEW x \in Workers \ {w}
             PROVE  /\ Still(x) /\ KeepsAttempt(x)
                    /\ at[x] \in Decided /\ Served(x) = Served(w) => Served(w) \in sharedDeliveries'
  OBVIOUS
<1>1. Still(x) /\ KeepsAttempt(x)
  BY OthersKeep
<1>2. at[x] \in Decided /\ Served(x) = Served(w) => Served(w) \in sharedDeliveries'
  BY PlaceSets DEF DeliveryInv, ControlInv, OneContinues, SharedGrow
<1> QED BY <1>1, <1>2

(* A stage writes the status of its own association.                        *)
LEMMA OwnStatus ==
    ASSUME TypeInv, NEW a \in Associations, NEW status \in Finalized, SetStatus(a, status),
           association[a].status \in Finalized
    PROVE  /\ association'[a].status = status
           /\ \A b \in Associations :
                 /\ association[b].status \in Finalized =>
                       association'[b].status \in Finalized /\ association'[b].pin = association[b].pin
                 /\ b # a => association'[b] = association[b]
<1>1. status \in Statuses /\ association \in [Associations -> AssociationRows]
  BY DEF Statuses, TypeInv, TableTypes
<1> QED BY <1>1, StatusSet

LEMMA FinalStatuses ==
    /\ {"READY_FOR_GOLD", "SUCCESS_WITH_WARNINGS", "SUCCESS", "SILVER_PROCESSING",
        "GOLD_PROCESSING", "SILVER_FAILED", "GOLD_FAILED"} \subseteq Finalized
  BY DEF Finalized, Terminal

LEMMA StageShares == ASSUME TypeInv, NEW w \in Workers, Stage(w) PROVE SharedGrow /\ upload' = upload
  BY StageServes DEF SharedGrow

LEMMA MarksData ==
    ASSUME DeliveryInv, TypeInv', NEW w \in Workers, Marks(w)
    PROVE  WorkInv' /\ SoleInv'
<1> DEFINE a == Served(w)
<1>0. /\ Stage(w) /\ a \in Associations /\ attempts' = attempts /\ SharedGrow
      /\ dqRuns' = dqRuns /\ goldRuns' = goldRuns /\ upload' = upload /\ TypeInv /\ RowsInv
      /\ at[w] \in Continuing /\ at[w] \in Decided /\ Knows(w) /\ (a \in sharedDeliveries \/ Owns(w))
  <2>1. Stage(w)
    BY DEF Stage
  <2>2. at[w] \in Decided
    BY MarksWrites DEF Decided, Continuing
  <2>3. at[w] \in Continuing
    BY <2>1, StageServes DEF DeliveryInv
  <2> QED BY <2>1, <2>2, <2>3, StageServes, StageShares, MarksWrites DEF DeliveryInv, WorkInv, SoleInv
<1>1. association[a].status \in Finalized
  BY <1>0 DEF Knows
<1>2. \E status \in {"READY_FOR_GOLD", "SUCCESS_WITH_WARNINGS", "SUCCESS"} :
        /\ SetStatus(a, status)
        /\ status = "SUCCESS_WITH_WARNINGS" => at[w] = "gold_skip"
        /\ status = "SUCCESS" => at[w] = "gold_reuse"
  BY MarksWrites
<1>3. PICK status \in {"READY_FOR_GOLD", "SUCCESS_WITH_WARNINGS", "SUCCESS"} :
        /\ SetStatus(a, status)
        /\ status = "SUCCESS_WITH_WARNINGS" => at[w] = "gold_skip"
        /\ status = "SUCCESS" => at[w] = "gold_reuse"
  BY <1>2
<1>4. /\ association'[a].status = status
      /\ \A b \in Associations :
            /\ association[b].status \in Finalized =>
                  association'[b].status \in Finalized /\ association'[b].pin = association[b].pin
            /\ b # a => association'[b] = association[b]
  <2> HIDE DEF a
  <2> QED BY <1>0, <1>1, <1>3, OwnStatus, FinalStatuses
<1>5. Monotone
  BY <1>0, <1>4 DEF Monotone
<1>6. RowsInv'
  BY <1>0, <1>5, RowsStay
<1>7. \A b \in Associations \ {a} : Kept(b)
  BY <1>0, <1>4 DEF Kept
<1>8. OnlyWorker(w) /\ attempt'[w] = 0 /\ Moved(w)
  <2>1. Ends(w) \/ (GoesOn(w) /\ at'[w] = "gold" /\ attempt'[w] = 0)
    <3>1. CASE ReuseSilver(w)
      BY <1>0, <3>1, SilverEnds DEF ReuseSilver
    <3>2. CASE SkipGold(w) \/ ReuseGold(w)
      BY <1>0, <3>2, Leaves DEF SkipGold, ReuseGold
    <3> QED BY <3>1, <3>2 DEF Marks
  <2> QED BY <2>1, FreshEnds, Fresh DEF GoesOn
<1>9. AttemptsApart'
  BY <1>0, <1>8, ApartStays DEF DeliveryInv, WorkInv
<1>10. \A x \in Workers \ {w} :
          /\ Still(x) /\ KeepsAttempt(x)
          /\ at[x] \in Decided /\ Served(x) = a => a \in sharedDeliveries'
  BY <1>0, <1>5, <1>8, OthersApart
<1>11. \E b \in Associations : b = a
  BY <1>0
<1>12. PICK b \in Associations : b = a
  BY <1>11
<1>13. Finished(b)'
  <2>1. b[2] \in AllRejected \/ status # "SUCCESS_WITH_WARNINGS"
    BY <1>0, <1>3, <1>12 DEF Knows
  <2>2. Built(b) \/ status # "SUCCESS"
    BY <1>0, <1>3, <1>12 DEF Knows
  <2> QED BY <1>4, <1>5, <1>12, <2>1, <2>2, BuiltStays DEF Finished
<1>14. b \in sharedDeliveries' \/ Sole(b)'
  <2>1. CASE a \in sharedDeliveries
    BY <1>0, <1>12, <2>1 DEF SharedGrow
  <2>2. CASE a \notin sharedDeliveries
    <3>1. Sole(b)
      BY <1>12, <2>2 DEF DeliveryInv, SoleInv
    <3>2. status = "SUCCESS" => Lineage(b)
      BY <1>0, <1>3, <1>12, <2>2 DEF Owns
    <3>3. Lineage(b) => Lineage(b)'
      BY <1>0 DEF Lineage, Successful
    <3> QED BY <1>0, <1>4, <1>12, <3>1, <3>2, <3>3 DEF Sole
  <2> QED BY <2>1, <2>2
<1> HIDE DEF a
<1> QED BY <1>0, <1>5, <1>6, <1>7, <1>8, <1>9, <1>10, <1>12, <1>13, <1>14, Assembled

LEMMA StageFacts ==
    ASSUME DeliveryInv, NEW w \in Workers, Stage(w)
    PROVE  /\ TypeInv /\ RowsInv /\ AttemptsApart /\ SharedGrow /\ upload' = upload
           /\ Served(w) \in Associations /\ at[w] \in Continuing /\ Knows(w)
           /\ Served(w) \in sharedDeliveries \/ Owns(w)
           /\ at[w] \in Decided => association[Served(w)].status \in Finalized
<1>1. TypeInv /\ RowsInv /\ AttemptsApart /\ Knows(w)
  BY DEF DeliveryInv, WorkInv
<1>2. at[w] \in Continuing /\ Served(w) \in Associations
  BY <1>1, StageServes
<1>3. Served(w) \in sharedDeliveries \/ Owns(w)
  BY <1>2 DEF DeliveryInv, SoleInv
<1> QED BY <1>1, <1>2, <1>3, StageShares DEF Knows

LEMMA OpensData ==
    ASSUME DeliveryInv, TypeInv', NEW w \in Workers, Opens(w)
    PROVE  WorkInv' /\ SoleInv'
<1> DEFINE a == Served(w)
           n == Len(attempts) + 1
<1>0. Stage(w)
  BY DEF Stage
<1>1. /\ TypeInv /\ RowsInv /\ AttemptsApart /\ SharedGrow /\ upload' = upload
      /\ a \in Associations /\ a[2] \in Files /\ at[w] \in Continuing /\ Knows(w)
      /\ a \in sharedDeliveries \/ Owns(w)
  BY <1>0, StageFacts, StageServes
<1>2. at[w] \in Decided /\ association[a].status \in Finalized
  <2>1. at[w] \in Decided
    BY OpensWrites DEF Decided, Continuing
  <2> QED BY <1>0, <2>1, StageFacts
<1>3. /\ dqRuns' = dqRuns /\ goldRuns' = goldRuns
      /\ job' = job /\ held' = held /\ source' = source /\ recovery' = recovery
  BY OpensWrites
<1>4. \E s \in {"SILVER", "GOLD"} :
        /\ CreateAttempt(w, a[2], a, s)
        /\ SetStatus(a, IF s = "SILVER" THEN "SILVER_PROCESSING" ELSE "GOLD_PROCESSING")
        /\ at[w] = IF s = "SILVER" THEN "silver_open" ELSE "gold_open"
        /\ at' = [at EXCEPT ![w] = IF s = "SILVER" THEN "silver_running" ELSE "gold_running"]
  BY OpensWrites
<1>5. PICK s \in {"SILVER", "GOLD"} :
        /\ CreateAttempt(w, a[2], a, s)
        /\ SetStatus(a, IF s = "SILVER" THEN "SILVER_PROCESSING" ELSE "GOLD_PROCESSING")
        /\ at[w] = IF s = "SILVER" THEN "silver_open" ELSE "gold_open"
        /\ at' = [at EXCEPT ![w] = IF s = "SILVER" THEN "silver_running" ELSE "gold_running"]
  BY <1>4
<1> DEFINE status == IF s = "SILVER" THEN "SILVER_PROCESSING" ELSE "GOLD_PROCESSING"
           place == IF s = "SILVER" THEN "silver_running" ELSE "gold_running"
<1>6. /\ Len(attempts) \in Nat /\ DOMAIN attempts' = DOMAIN attempts \cup {n}
      /\ \A k \in DOMAIN attempts : attempts'[k] = attempts[k]
      /\ attempts'[n].association = a /\ attempts'[n].stage = s /\ attempts'[n].status = "PROCESSING"
      /\ attempt' = [attempt EXCEPT ![w] = n]
  <2>1. attempts \in Seq(AttemptRows)
    BY <1>1 DEF TypeInv, TableTypes
  <2>2. CASE s = "SILVER"
    <3>1. CreateAttempt(w, a[2], a, "SILVER")
      BY <1>5, <2>2
    <3> QED BY <1>1, <2>1, <2>2, <3>1, Created
  <2>3. CASE s = "GOLD"
    <3>1. CreateAttempt(w, a[2], a, "GOLD")
      BY <1>5, <2>3
    <3> QED BY <1>1, <2>1, <2>3, <3>1, Created
  <2> QED BY <2>2, <2>3
<1>7. /\ association'[a].status = status
      /\ \A b \in Associations :
            /\ association[b].status \in Finalized =>
                  association'[b].status \in Finalized /\ association'[b].pin = association[b].pin
            /\ b # a => association'[b] = association[b]
  <2>1. status \in Finalized
    BY DEF Finalized
  <2> HIDE DEF a, status
  <2>2. SetStatus(a, status)
    BY <1>5 DEF status
  <2> QED BY <1>1, <1>2, <2>1, <2>2, OwnStatus
<1>8. at'[w] = place /\ attempt'[w] = n
  BY <1>1, <1>5, <1>6 DEF TypeInv, WorkerTypes
<1>9. OnlyWorker(w)
  <2>1. ~Ends(w)
    BY <1>8 DEF Ends
  <2> QED BY <1>0, <1>1, <2>1, StageMoves DEF GoesOn
<1>10. Monotone
  BY <1>1, <1>3, <1>6, <1>7 DEF Monotone
<1>11. RowsInv'
  BY <1>1, <1>3, <1>10, RowsStay
<1>12. AttemptsApart'
  BY <1>1, <1>8, <1>9, ApartStays
<1>13. \A b \in Associations \ {a} : Kept(b)
  BY <1>3, <1>6, <1>7 DEF Kept
<1>14. \A x \in Workers \ {w} :
          /\ Still(x) /\ KeepsAttempt(x)
          /\ at[x] \in Decided /\ Served(x) = a => a \in sharedDeliveries'
  BY <1>1, <1>6, <1>9, <1>10, OthersApart
<1>15. PICK b \in Associations : b = a
  BY <1>1
<1>16. status \notin Terminal /\ status # "SUCCESS" /\ status # "SUCCESS_WITH_WARNINGS"
  BY DEF Terminal
<1>17. Finished(b)'
  BY <1>7, <1>15, <1>16 DEF Finished
<1>18. b \in sharedDeliveries' \/ Sole(b)'
  <2>1. b \in sharedDeliveries \/ Sole(b)
    BY DEF DeliveryInv, SoleInv
  <2> QED BY <1>1, <1>3, <1>7, <1>15, <1>16, <2>1 DEF Sole, SharedGrow
<1>19. Served(w)' = a
  BY <1>1, <1>3 DEF Served, AssociationOf
<1>20. Knows(w)'
  <2>1. association'[a].status \in Finalized
    BY <1>1, <1>2, <1>7
  <2>2. at[w] = "gold_open" =>
          /\ source[w] \in DOMAIN dqRuns /\ dqRuns[source[w]].association = a
          /\ dqRuns[source[w]].valid
          /\ recovery[w] # 0 => /\ recovery[w] \in DOMAIN goldRuns
                                /\ goldRuns[recovery[w]].association = a
                                /\ goldRuns[recovery[w]].dq = source[w]
    BY <1>1 DEF Knows
  <2> QED BY <1>3, <1>5, <1>6, <1>8, <1>19, <2>1, <2>2 DEF Knows, Inspecting, Running
<1>21. Served(w)' \in sharedDeliveries' \/ Owns(w)'
  <2>1. CASE a \in sharedDeliveries
    BY <1>1, <1>19, <2>1 DEF SharedGrow
  <2>2. CASE Owns(w)
    <3>1. ASSUME at[w] = "gold_open"
          PROVE  /\ attempts'[dqRuns[source[w]].attempt].stage = "SILVER"
                 /\ attempts'[dqRuns[source[w]].attempt].status = "SUCCESS"
                 /\ recovery[w] = 0 => \A i \in DOMAIN goldRuns : goldRuns[i].dq # source[w]
      <4>1. source[w] \in DOMAIN dqRuns
        BY <1>1, <3>1 DEF Knows
      <4>2. dqRuns[source[w]].attempt \in DOMAIN attempts
        BY <1>1, <4>1 DEF RowsInv
      <4> QED BY <1>6, <2>2, <3>1, <4>2 DEF Owns, Successful
    <3> QED BY <1>3, <1>5, <1>7, <1>8, <1>19, <3>1 DEF Owns, Expects, Successful
  <2> QED BY <1>1, <2>1, <2>2
<1>22. Moved(w)
  BY <1>20, <1>21 DEF Moved
<1> HIDE DEF a, n, status, place
<1> QED BY <1>1, <1>10, <1>11, <1>12, <1>13, <1>14, <1>15, <1>17, <1>18, <1>22, Assembled

LEMMA FailData ==
    ASSUME DeliveryInv, TypeInv', NEW w \in Workers, Fail(w)
    PROVE  WorkInv' /\ SoleInv'
<1> DEFINE a == Served(w)
           i == attempt[w]
<1>0. Stage(w)
  BY DEF Stage
<1>1. /\ TypeInv /\ RowsInv /\ AttemptsApart /\ SharedGrow /\ upload' = upload
      /\ a \in Associations /\ at[w] \in Continuing /\ Knows(w)
  BY <1>0, StageFacts
<1>2. /\ dqRuns' = dqRuns /\ goldRuns' = goldRuns
      /\ CompleteAttempt(i, "FAILED") /\ i \in DOMAIN attempts
      /\ at[w] \in Running /\ Leave(w)
  BY <1>1, FailWrites
<1>3. \E status \in {"SILVER_FAILED", "GOLD_FAILED"} : SetStatus(a, status)
  BY <1>1, FailWrites
<1>4. PICK status \in {"SILVER_FAILED", "GOLD_FAILED"} : SetStatus(a, status)
  BY <1>3
<1>5. association[a].status \in Finalized /\ attempts[i].association = a
  BY <1>0, <1>1, <1>2, StageFacts, PlaceSets DEF Knows
<1>6. /\ DOMAIN attempts' = DOMAIN attempts
      /\ \A k \in DOMAIN attempts :
            /\ attempts'[k].association = attempts[k].association
            /\ attempts'[k].stage = attempts[k].stage
            /\ k # i => attempts'[k] = attempts[k]
  <2> HIDE DEF i
  <2> QED BY <1>1, <1>2, Completed DEF TypeInv, TableTypes
<1>7. /\ association'[a].status = status
      /\ \A b \in Associations :
            /\ association[b].status \in Finalized =>
                  association'[b].status \in Finalized /\ association'[b].pin = association[b].pin
            /\ b # a => association'[b] = association[b]
  <2> HIDE DEF a
  <2> QED BY <1>1, <1>4, <1>5, OwnStatus, FinalStatuses
<1>8. Moved(w) /\ OnlyWorker(w) /\ attempt'[w] = 0
  BY <1>1, <1>2, Leaves, FreshEnds
<1>9. Monotone
  BY <1>1, <1>2, <1>6, <1>7 DEF Monotone
<1>10. RowsInv'
  BY <1>1, <1>2, <1>9, RowsStay
<1>11. AttemptsApart'
  BY <1>1, <1>8, ApartStays
<1>12. \A b \in Associations \ {a} : Kept(b)
  BY <1>2, <1>5, <1>6, <1>7 DEF Kept
<1>13. \A x \in Workers \ {w} :
          /\ Still(x) /\ KeepsAttempt(x)
          /\ at[x] \in Decided /\ Served(x) = a => a \in sharedDeliveries'
  BY <1>1, <1>6, <1>8, <1>9, OthersApart
<1>14. PICK b \in Associations : b = a
  BY <1>1
<1>15. Finished(b)'
  BY <1>7, <1>14 DEF Finished
<1>16. b \in sharedDeliveries' \/ Sole(b)'
  <2>1. b \in sharedDeliveries \/ Sole(b)
    BY DEF DeliveryInv, SoleInv
  <2> QED BY <1>1, <1>2, <1>7, <1>14, <2>1 DEF Sole, SharedGrow
<1> HIDE DEF a, i
<1> QED BY <1>1, <1>8, <1>9, <1>10, <1>11, <1>12, <1>13, <1>14, <1>15, <1>16, Assembled

LEMMA SilverData ==
    ASSUME DeliveryInv, TypeInv', NEW w \in Workers, Refines(w)
    PROVE  WorkInv' /\ SoleInv'
<1> DEFINE a == Served(w)
           i == attempt[w]
           n == Len(dqRuns) + 1
<1>0. Stage(w) /\ RecordSilver(w)
  BY DEF Stage, Refines, PublishSilver, LoseSilver
<1>1. /\ TypeInv /\ RowsInv /\ AttemptsApart /\ SharedGrow /\ upload' = upload
      /\ a \in Associations /\ at[w] \in Continuing /\ Knows(w)
  BY <1>0, StageFacts
<1>2. /\ DOMAIN dqRuns' = DOMAIN dqRuns \cup {n}
      /\ \A k \in DOMAIN dqRuns : dqRuns'[k] = dqRuns[k]
      /\ dqRuns'[n].association = a /\ dqRuns'[n].attempt = i
      /\ dqRuns'[n].rules = association[a].pin
      /\ dqRuns'[n].valid = (a[2] \notin AllRejected)
      /\ goldRuns' = goldRuns /\ at[w] = "silver_running"
      /\ CompleteAttempt(i, "SUCCESS") /\ i \in DOMAIN attempts
      /\ SetStatus(a, "READY_FOR_GOLD")
  BY <1>0, <1>1, SilverRecorded
<1>3. /\ association[a].status \in Finalized
      /\ attempts[i].association = a /\ attempts[i].stage = "SILVER"
  <2>1. at[w] \in Decided /\ at[w] \in Running
    BY <1>2 DEF Decided, Continuing, Running
  <2> QED BY <1>0, <1>1, <1>2, <2>1, StageFacts DEF Knows
<1>4. /\ DOMAIN attempts' = DOMAIN attempts
      /\ \A k \in DOMAIN attempts :
            /\ attempts'[k].association = attempts[k].association
            /\ attempts'[k].stage = attempts[k].stage
            /\ k # i => attempts'[k] = attempts[k]
  <2> HIDE DEF i
  <2> QED BY <1>1, <1>2, Completed DEF TypeInv, TableTypes
<1>5. /\ association'[a].status = "READY_FOR_GOLD"
      /\ \A b \in Associations :
            /\ association[b].status \in Finalized =>
                  association'[b].status \in Finalized /\ association'[b].pin = association[b].pin
            /\ b # a => association'[b] = association[b]
  <2> HIDE DEF a
  <2> QED BY <1>1, <1>2, <1>3, OwnStatus, FinalStatuses
<1>6. Monotone
  BY <1>1, <1>2, <1>4, <1>5 DEF Monotone
<1>7. RowsInv'
  <2>1. ASSUME NEW k \in DOMAIN dqRuns
        PROVE  /\ dqRuns[k].association \in Associations
               /\ association'[dqRuns[k].association].status \in Finalized
               /\ association'[dqRuns[k].association].pin = association[dqRuns[k].association].pin
    <3>1. dqRuns \in Seq(DqRows)
      BY <1>1 DEF TypeInv, TableTypes
    <3>2. dqRuns[k] \in DqRows
      BY <3>1
    <3>3. dqRuns[k].association \in Associations
      BY <3>2 DEF DqRows
    <3> QED BY <1>1, <1>5, <3>3 DEF RowsInv
  <2>2. association'[a].status \in Finalized /\ association'[a].pin = association[a].pin
    BY <1>1, <1>3, <1>5
  <2>3. /\ dqRuns'[n].attempt \in DOMAIN attempts'
        /\ attempts'[dqRuns'[n].attempt].association = a
    BY <1>2, <1>3, <1>4
  <2> HIDE DEF a, i, n
  <2>4. ASSUME NEW k \in DOMAIN dqRuns'
        PROVE  /\ dqRuns'[k].attempt \in DOMAIN attempts'
               /\ attempts'[dqRuns'[k].attempt].association = dqRuns'[k].association
               /\ dqRuns'[k].valid = (dqRuns'[k].association[2] \notin AllRejected)
               /\ association'[dqRuns'[k].association].status \in Finalized
               /\ dqRuns'[k].rules = association'[dqRuns'[k].association].pin
    <3>1. CASE k = n
      BY <1>2, <2>2, <2>3, <3>1
    <3>2. CASE k \in DOMAIN dqRuns
      BY <1>1, <1>2, <1>4, <2>1, <3>2 DEF RowsInv
    <3> QED BY <1>2, <3>1, <3>2
  <2>5. ASSUME NEW k \in DOMAIN goldRuns'
        PROVE  /\ goldRuns'[k].attempt \in DOMAIN attempts'
               /\ attempts'[goldRuns'[k].attempt].association = goldRuns'[k].association
               /\ goldRuns'[k].dq \in DOMAIN dqRuns'
               /\ dqRuns'[goldRuns'[k].dq].association = goldRuns'[k].association
               /\ dqRuns'[goldRuns'[k].dq].valid
    BY <1>1, <1>2, <1>4 DEF RowsInv
  <2> QED BY <2>4, <2>5 DEF RowsInv
<1>8. \/ Ends(w) \/ (GoesOn(w) /\ at'[w] = "gold" /\ attempt'[w] = 0)
      \/ GoesOn(w) /\ at'[w] = "silver_lost" /\ attempt'[w] = i
  <2>1. CASE PublishSilver(w)
    BY <1>1, <2>1, SilverEnds DEF PublishSilver
  <2>2. CASE LoseSilver(w)
    <3>1. /\ Goto(w, "silver_lost") /\ attempt' = attempt /\ job' = job /\ want' = want
          /\ held' = held /\ source' = source /\ recovery' = recovery
      BY <2>2 DEF LoseSilver, request, plan
    <3>2. GoesOn(w) /\ at'[w] = "silver_lost"
      BY <1>1, <3>1, StepsOn DEF Continuing, Inside
    <3> QED BY <3>1, <3>2
  <2> QED BY <2>1, <2>2 DEF Refines
<1>9. Moved(w) /\ OnlyWorker(w) /\ attempt'[w] \in {0, i}
  <2>1. CASE Ends(w) \/ (GoesOn(w) /\ at'[w] = "gold" /\ attempt'[w] = 0)
    BY <2>1, FreshEnds, Fresh DEF GoesOn
  <2>2. CASE GoesOn(w) /\ at'[w] = "silver_lost" /\ attempt'[w] = i
    <3>1. Served(w)' = a /\ OnlyWorker(w)
      BY <1>1, <2>2 DEF GoesOn, Served, AssociationOf
    <3>2. /\ attempts'[i].association = a /\ attempts'[i].stage = "SILVER"
          /\ association'[a].status \in Finalized
      BY <1>1, <1>2, <1>3, <1>4, <1>5
    <3>3. Knows(w)'
      BY <2>2, <3>1, <3>2 DEF Knows, Inspecting
    <3>4. Owns(w)'
      BY <1>5, <2>2, <3>1 DEF Owns, Expects
    <3> QED BY <2>2, <3>1, <3>3, <3>4 DEF Moved
  <2> QED BY <1>8, <2>1, <2>2
<1>10. AttemptsApart'
  BY <1>1, <1>9, ApartStays
<1>11. \A b \in Associations \ {a} : Kept(b)
  BY <1>2, <1>3, <1>4, <1>5 DEF Kept
<1>12. \A x \in Workers \ {w} :
          /\ Still(x) /\ KeepsAttempt(x)
          /\ at[x] \in Decided /\ Served(x) = a => a \in sharedDeliveries'
  BY <1>1, <1>4, <1>6, <1>9, OthersApart
<1>13. PICK b \in Associations : b = a
  BY <1>1
<1>14. Finished(b)'
  BY <1>5, <1>13 DEF Finished
<1>15. b \in sharedDeliveries' \/ Sole(b)'
  <2>1. b \in sharedDeliveries \/ Sole(b)
    BY DEF DeliveryInv, SoleInv
  <2> QED BY <1>1, <1>2, <1>5, <1>13, <2>1 DEF Sole, SharedGrow
<1> HIDE DEF a, i, n
<1> QED BY <1>1, <1>6, <1>7, <1>9, <1>10, <1>11, <1>12, <1>13, <1>14, <1>15, Assembled

LEMMA GoldData ==
    ASSUME DeliveryInv, TypeInv', NEW w \in Workers, Publishes(w)
    PROVE  WorkInv' /\ SoleInv'
<1> DEFINE a == Served(w)
           i == attempt[w]
           dq == source[w]
<1>0. Stage(w) /\ PublishesGold(w)
  BY DEF Stage, Publishes, PublishGold, LoseGold
<1>1. /\ TypeInv /\ RowsInv /\ AttemptsApart /\ SharedGrow /\ upload' = upload
      /\ a \in Associations /\ at[w] \in Continuing /\ Knows(w)
      /\ a \in sharedDeliveries \/ Owns(w)
  BY <1>0, StageFacts
<1>2. at[w] = "gold_running"
  BY <1>0 DEF PublishesGold
<1>3. /\ association[a].status \in Finalized
      /\ attempts[i].association = a /\ attempts[i].stage = "GOLD"
      /\ dq \in DOMAIN dqRuns /\ dqRuns[dq].association = a /\ dqRuns[dq].valid
      /\ recovery[w] # 0 => /\ recovery[w] \in DOMAIN goldRuns
                            /\ goldRuns[recovery[w]].association = a
                            /\ goldRuns[recovery[w]].dq = dq
  <2>1. at[w] \in Decided /\ at[w] \in Running
    BY <1>2 DEF Decided, Continuing, Running
  <2> QED BY <1>0, <1>1, <1>2, <2>1, StageFacts DEF Knows
<1>4. /\ dqRuns' = dqRuns
      /\ CompleteAttempt(i, "SUCCESS") /\ i \in DOMAIN attempts
      /\ SetStatus(a, "SUCCESS")
      /\ \A j \in DOMAIN goldRuns :
            /\ j \in DOMAIN goldRuns' /\ goldRuns'[j].association = goldRuns[j].association
            /\ goldRuns'[j].dq = goldRuns[j].dq
            /\ goldRuns'[j] = goldRuns[j] \/ goldRuns[j].association = a
      /\ \E k \in DOMAIN goldRuns' :
            /\ goldRuns'[k].association = a /\ goldRuns'[k].dq = dq /\ goldRuns'[k].attempt = i
            /\ \A j \in DOMAIN goldRuns' \ {k} : j \in DOMAIN goldRuns /\ goldRuns'[j] = goldRuns[j]
            /\ k \in DOMAIN goldRuns \/ recovery[w] = 0
  BY <1>0, <1>1, <1>3, GoldRecorded
<1>5. PICK k \in DOMAIN goldRuns' :
        /\ goldRuns'[k].association = a /\ goldRuns'[k].dq = dq /\ goldRuns'[k].attempt = i
        /\ \A j \in DOMAIN goldRuns' \ {k} : j \in DOMAIN goldRuns /\ goldRuns'[j] = goldRuns[j]
        /\ k \in DOMAIN goldRuns \/ recovery[w] = 0
  BY <1>4
<1>6. /\ DOMAIN attempts' = DOMAIN attempts
      /\ attempts'[i].status = "SUCCESS"
      /\ \A j \in DOMAIN attempts :
            /\ attempts'[j].association = attempts[j].association
            /\ attempts'[j].stage = attempts[j].stage
            /\ j # i => attempts'[j] = attempts[j]
  <2> HIDE DEF i
  <2> QED BY <1>1, <1>4, Completed DEF TypeInv, TableTypes
<1>7. /\ association'[a].status = "SUCCESS"
      /\ \A b \in Associations :
            /\ association[b].status \in Finalized =>
                  association'[b].status \in Finalized /\ association'[b].pin = association[b].pin
            /\ b # a => association'[b] = association[b]
  <2> HIDE DEF a
  <2> QED BY <1>1, <1>3, <1>4, OwnStatus, FinalStatuses
<1>8. Monotone
  BY <1>1, <1>4, <1>6, <1>7 DEF Monotone
<1>9. RowsInv'
  <2>1. ASSUME NEW j \in DOMAIN dqRuns
        PROVE  /\ association'[dqRuns[j].association].status \in Finalized
               /\ association'[dqRuns[j].association].pin = association[dqRuns[j].association].pin
    <3>1. dqRuns \in Seq(DqRows)
      BY <1>1 DEF TypeInv, TableTypes
    <3>2. dqRuns[j] \in DqRows
      BY <3>1
    <3>3. dqRuns[j].association \in Associations
      BY <3>2 DEF DqRows
    <3> QED BY <1>1, <1>7, <3>3 DEF RowsInv
  <2>2. ASSUME NEW j \in DOMAIN dqRuns'
        PROVE  /\ dqRuns'[j].attempt \in DOMAIN attempts'
               /\ attempts'[dqRuns'[j].attempt].association = dqRuns'[j].association
               /\ dqRuns'[j].valid = (dqRuns'[j].association[2] \notin AllRejected)
               /\ association'[dqRuns'[j].association].status \in Finalized
               /\ dqRuns'[j].rules = association'[dqRuns'[j].association].pin
    BY <1>1, <1>4, <1>6, <2>1 DEF RowsInv
  <2>3. ASSUME NEW j \in DOMAIN goldRuns'
        PROVE  /\ goldRuns'[j].attempt \in DOMAIN attempts'
               /\ attempts'[goldRuns'[j].attempt].association = goldRuns'[j].association
               /\ goldRuns'[j].dq \in DOMAIN dqRuns'
               /\ dqRuns'[goldRuns'[j].dq].association = goldRuns'[j].association
               /\ dqRuns'[goldRuns'[j].dq].valid
    <3>1. CASE j = k
      BY <1>3, <1>4, <1>5, <1>6, <3>1
    <3>2. CASE j # k
      BY <1>1, <1>4, <1>5, <1>6, <3>2 DEF RowsInv
    <3> QED BY <3>1, <3>2
  <2> QED BY <2>2, <2>3 DEF RowsInv
<1>10. \/ Ends(w)
       \/ GoesOn(w) /\ at'[w] = "gold_lost" /\ attempt'[w] = i
  <2>1. CASE PublishGold(w)
    BY <1>1, <2>1, Leaves DEF PublishGold
  <2>2. CASE LoseGold(w)
    <3>1. /\ Goto(w, "gold_lost") /\ attempt' = attempt /\ job' = job /\ want' = want
          /\ held' = held /\ source' = source /\ recovery' = recovery
      BY <2>2 DEF LoseGold, request, plan
    <3>2. GoesOn(w) /\ at'[w] = "gold_lost"
      BY <1>1, <3>1, StepsOn DEF Continuing, Inside
    <3> QED BY <3>1, <3>2
  <2> QED BY <2>1, <2>2 DEF Publishes
<1>11. Moved(w) /\ OnlyWorker(w) /\ attempt'[w] \in {0, i}
  <2>1. CASE Ends(w)
    BY <2>1, FreshEnds
  <2>2. CASE GoesOn(w) /\ at'[w] = "gold_lost" /\ attempt'[w] = i
    <3>1. Served(w)' = a /\ OnlyWorker(w)
      BY <1>1, <2>2 DEF GoesOn, Served, AssociationOf
    <3>2. /\ attempts'[i].association = a /\ attempts'[i].stage = "GOLD"
          /\ association'[a].status \in Finalized
      BY <1>1, <1>3, <1>4, <1>6, <1>7
    <3>3. Knows(w)'
      BY <2>2, <3>1, <3>2 DEF Knows, Inspecting
    <3>4. Owns(w)'
      BY <1>7, <2>2, <3>1 DEF Owns, Expects
    <3> QED BY <2>2, <3>1, <3>3, <3>4 DEF Moved
  <2> QED BY <1>10, <2>1, <2>2
<1>12. AttemptsApart'
  BY <1>1, <1>11, ApartStays
<1>13. \A b \in Associations \ {a} : Kept(b)
  <2>1. \A j \in DOMAIN goldRuns' \ DOMAIN goldRuns : goldRuns'[j].association = a
    BY <1>5
  <2> QED BY <1>3, <1>4, <1>6, <1>7, <2>1 DEF Kept
<1>14. \A x \in Workers \ {w} :
          /\ Still(x) /\ KeepsAttempt(x)
          /\ at[x] \in Decided /\ Served(x) = a => a \in sharedDeliveries'
  BY <1>1, <1>6, <1>8, <1>11, OthersApart
<1>15. PICK b \in Associations : b = a
  BY <1>1
<1>16. Finished(b)'
  BY <1>5, <1>7, <1>15 DEF Finished, Built
<1>17. b \in sharedDeliveries' \/ Sole(b)'
  <2>1. CASE a \in sharedDeliveries
    BY <1>1, <1>15, <2>1 DEF SharedGrow
  <2>2. CASE a \notin sharedDeliveries
    <3>1. Sole(b) /\ Owns(w)
      BY <1>1, <1>15, <2>2 DEF DeliveryInv, SoleInv
    <3>2. /\ attempts[dqRuns[dq].attempt].stage = "SILVER" /\ attempts[dqRuns[dq].attempt].status = "SUCCESS"
          /\ recovery[w] = 0 => \A j \in DOMAIN goldRuns : goldRuns[j].dq # dq
      BY <1>2, <3>1 DEF Owns, Successful
    <3>3. /\ dqRuns[dq].attempt \in DOMAIN attempts /\ dqRuns[dq].attempt # i
      BY <1>1, <1>3, <3>2 DEF RowsInv
    <3>4. Lineage(b)'
      BY <1>3, <1>4, <1>5, <1>6, <1>15, <3>2, <3>3 DEF Lineage, Successful
    <3>5. ASSUME NEW j \in DOMAIN goldRuns' \ {k}, goldRuns'[j].dq = dq
          PROVE  goldRuns'[j].association # b
      <4>1. j \in DOMAIN goldRuns /\ goldRuns'[j] = goldRuns[j]
        BY <1>5
      <4>2. k \in DOMAIN goldRuns /\ goldRuns[k].association = b /\ goldRuns[k].dq = dq
        BY <1>4, <1>5, <1>15, <3>2, <3>5, <4>1
      <4> QED BY <3>1, <3>5, <4>1, <4>2 DEF Sole
    <3>6. \A j, m \in DOMAIN goldRuns' :
            goldRuns'[j].association = b /\ goldRuns'[m].association = b /\ goldRuns'[j].dq = goldRuns'[m].dq =>
                j = m
      <4>1. ASSUME NEW j \in DOMAIN goldRuns', NEW m \in DOMAIN goldRuns',
                   goldRuns'[j].association = b, goldRuns'[m].association = b, goldRuns'[j].dq = goldRuns'[m].dq
            PROVE  j = m
        <5>1. CASE j = k
          BY <1>5, <3>5, <4>1, <5>1
        <5>2. CASE m = k
          BY <1>5, <3>5, <4>1, <5>2
        <5>3. CASE j # k /\ m # k
          BY <1>5, <3>1, <4>1, <5>3 DEF Sole
        <5> QED BY <5>1, <5>2, <5>3
      <4> QED BY <4>1
    <3> QED BY <3>4, <3>6 DEF Sole
  <2> QED BY <2>1, <2>2
<1> HIDE DEF a, i, dq
<1> QED BY <1>1, <1>8, <1>9, <1>11, <1>12, <1>13, <1>14, <1>15, <1>16, <1>17, Assembled

(* A recovery ends the one attempt of an association, whose request, if it  *)
(* has one, has lost its lock.                                              *)
LEMMA RecoverData ==
    ASSUME DeliveryInv, TypeInv', SharedGrow, UNCHANGED <<uploads, runs>>,
           NEW a \in Associations, Recover(a), TakeDelivery(a),
           \/ \A x \in Workers : Still(x)
           \/ \E w \in Workers : Ends(w) \/ \E u \in Uploads : Enters(w, u)
    PROVE  WorkInv' /\ SoleInv'
<1>1. /\ TypeInv /\ RowsInv /\ AttemptsApart /\ upload' = upload
      /\ dqRuns' = dqRuns /\ goldRuns' = goldRuns
  BY DEF DeliveryInv, WorkInv, uploads, runs
<1>2. CASE UNCHANGED <<attempts, association>>
  <2>1. UNCHANGED <<attempts, association, runs>>
    BY <1>2
  <2>2. ASSUME NEW w \in Workers, Ends(w) \/ \E u \in Uploads : Enters(w, u) PROVE WorkInv' /\ SoleInv'
    BY <1>1, <2>1, <2>2, FreshEnds, OneMoves
  <2> QED BY <1>1, <2>1, <2>2, NoneMoves
<1>3. ASSUME NEW i \in DOMAIN attempts,
             attempts[i].association = a, attempts[i].status = "PROCESSING",
             CompleteAttempt(i, "CRASHED"),
             \/ association' = association /\ association[a].status \in Terminal
             \/ /\ association[a].status \notin Terminal
                /\ \E status \in {"SILVER_FAILED", "GOLD_FAILED"} : SetStatus(a, status)
      PROVE  WorkInv' /\ SoleInv'
  <2>1. /\ DOMAIN attempts' = DOMAIN attempts
        /\ \A k \in DOMAIN attempts :
              /\ attempts'[k].association = attempts[k].association
              /\ attempts'[k].stage = attempts[k].stage
              /\ k # i => attempts'[k] = attempts[k]
    BY <1>1, <1>3, Completed DEF TypeInv, TableTypes
  <2>2. \/ association' = association
        \/ /\ association'[a].status \in {"SILVER_FAILED", "GOLD_FAILED"}
           /\ association'[a].pin = association[a].pin
           /\ \A b \in Associations : b # a => association'[b] = association[b]
    <3>1. ASSUME NEW status \in {"SILVER_FAILED", "GOLD_FAILED"}, SetStatus(a, status)
          PROVE  /\ association'[a].status = status /\ association'[a].pin = association[a].pin
                 /\ \A b \in Associations : b # a => association'[b] = association[b]
      <4>1. status \in Statuses
        BY DEF Statuses, Finalized
      <4> QED BY <1>1, <3>1, <4>1, StatusSet DEF TypeInv, TableTypes
    <3> QED BY <1>3, <3>1
  <2>3. Monotone
    BY <1>1, <2>1, <2>2, FinalStatuses DEF Monotone
  <2>4. RowsInv'
    BY <1>1, <2>3, RowsStay
  <2>5. \A b \in Associations \ {a} : Kept(b)
    BY <1>1, <1>3, <2>1, <2>2 DEF Kept
  <2>6. ASSUME NEW x \in Workers, Still(x)
        PROVE  /\ KeepsAttempt(x)
               /\ at[x] \in Decided /\ Served(x) = a => a \in sharedDeliveries'
    <3>1. DeliveryTaken(a) /\ DeliveryFree(a)
      BY LocksTaken DEF TakeDelivery
    <3>2. KeepsAttempt(x)
      <4> SUFFICES ASSUME at[x] \in {"silver_running", "gold_running"}, "delivery" \in held'[x]
                   PROVE  attempts'[attempt[x]].status = "PROCESSING"
        BY DEF KeepsAttempt
      <4>1. "delivery" \in held[x] /\ Knows(x) /\ attempt[x] \in DOMAIN attempts
        BY <1>1, <2>6, AttemptIn DEF Still, DeliveryInv, WorkInv, Running
      <4>2. /\ attempts[attempt[x]].association = Served(x) /\ attempts[attempt[x]].status = "PROCESSING"
        BY <4>1 DEF Knows, Running
      <4>3. Served(x) # a
        BY <3>1, <4>1 DEF DeliveryFree, Served
      <4> QED BY <1>3, <2>1, <4>1, <4>2, <4>3
    <3>3. at[x] \in Decided /\ Served(x) = a => a \in sharedDeliveries'
      BY <3>1, PlaceSets DEF DeliveryTaken
    <3> QED BY <3>2, <3>3
  <2>7. /\ AttemptsApart'
        /\ \A x \in Workers :
              \/ Moved(x)
              \/ /\ Still(x) /\ KeepsAttempt(x)
                 /\ at[x] \in Decided /\ Served(x) = a => a \in sharedDeliveries'
    <3>1. CASE \A x \in Workers : Still(x)
      BY <1>1, <2>6, <3>1 DEF AttemptsApart, Still
    <3>2. ASSUME NEW w \in Workers, Ends(w) \/ \E u \in Uploads : Enters(w, u)
          PROVE  /\ AttemptsApart'
                 /\ \A x \in Workers :
                       \/ Moved(x)
                       \/ /\ Still(x) /\ KeepsAttempt(x)
                          /\ at[x] \in Decided /\ Served(x) = a => a \in sharedDeliveries'
      <4>1. Moved(w) /\ OnlyWorker(w) /\ attempt'[w] = 0
        BY <3>2, FreshEnds
      <4>2. AttemptsApart'
        BY <1>1, <4>1, ApartStays
      <4> QED BY <2>6, <4>1, <4>2 DEF OnlyWorker
    <3> QED BY <3>1, <3>2
  <2>8. Finished(a)'
    <3>1. Finished(a)
      BY DEF DeliveryInv, WorkInv
    <3> QED BY <1>1, <2>2, <3>1 DEF Finished, Built
  <2>9. a \in sharedDeliveries' \/ Sole(a)'
    <3>1. CASE a \in sharedDeliveries
      BY <3>1 DEF SharedGrow
    <3>2. CASE Sole(a)
      <4>1. Lineage(a) => Lineage(a)'
        <5>1. \A k \in DOMAIN attempts : attempts[k].status = "SUCCESS" => attempts'[k] = attempts[k]
          BY <1>3, <2>1
        <5>2. ASSUME NEW j \in DOMAIN goldRuns, goldRuns[j].association = a
              PROVE  /\ goldRuns[j].attempt \in DOMAIN attempts
                     /\ dqRuns[goldRuns[j].dq].attempt \in DOMAIN attempts
          BY <1>1, <5>2 DEF RowsInv
        <5> QED BY <1>1, <5>1, <5>2 DEF Lineage, Successful
      <4>2. association'[a].status = "SUCCESS" => association[a].status = "SUCCESS"
        BY <2>2
      <4> QED BY <1>1, <3>2, <4>1, <4>2 DEF Sole
    <3> QED BY <3>1, <3>2 DEF DeliveryInv, SoleInv
  <2> QED BY <1>1, <2>3, <2>4, <2>5, <2>7, <2>8, <2>9, Assembled
<1>4. \/ UNCHANGED <<attempts, association>>
      \/ \E i \in DOMAIN attempts :
            /\ attempts[i].association = a /\ attempts[i].status = "PROCESSING"
            /\ CompleteAttempt(i, "CRASHED")
            /\ \/ association' = association /\ association[a].status \in Terminal
               \/ /\ association[a].status \notin Terminal
                  /\ \E status \in {"SILVER_FAILED", "GOLD_FAILED"} : SetStatus(a, status)
  BY <1>1, Recovers DEF TypeInv
<1> QED BY <1>2, <1>3, <1>4

-----------------------------------------------------------------------------
(* Before the rules are pinned nobody has decided anything on a delivery.   *)
LEMMA EarlyData ==
    ASSUME DeliveryInv, TypeInv', SharedGrow, AttemptsApart',
           upload' = upload, dqRuns' = dqRuns, goldRuns' = goldRuns,
           DOMAIN attempts \subseteq DOMAIN attempts',
           \A i \in DOMAIN attempts :
              /\ attempts'[i].association = attempts[i].association
              /\ attempts'[i].stage = attempts[i].stage
              /\ attempts[i].association # <<>> => attempts'[i] = attempts[i],
           NEW c \in Associations,
           \/ association' = association
           \/ /\ association[c].status \notin Finalized /\ association'[c].status \notin Terminal
              /\ \A b \in Associations : b # c => association'[b] = association[b],
           \A x \in Workers : Moved(x) \/ (Still(x) /\ KeepsAttempt(x))
    PROVE  WorkInv' /\ SoleInv'
<1>1. TypeInv /\ RowsInv
  BY DEF DeliveryInv, WorkInv
<1>2. Monotone
  BY DEF Monotone
<1>3. RowsInv'
  BY <1>1, <1>2, RowsStay
<1>4. \A a \in Associations : a # c \/ association' = association => Kept(a)
  BY EmptyIsNoAssociation DEF Kept
<1>5. CASE association' = association
  <2>1. \A x \in Workers : at[x] \in Decided => Served(x) # <<>>
    BY <1>1, ServedParts, PlaceSets, EmptyIsNoAssociation
  <2> QED BY <1>2, <1>3, <1>4, <1>5, <2>1, EmptyIsNoAssociation, Assembled
<1>6. CASE /\ association[c].status \notin Finalized /\ association'[c].status \notin Terminal
           /\ \A b \in Associations : b # c => association'[b] = association[b]
  <2>1. \A x \in Workers : ~(at[x] \in Decided /\ Served(x) = c)
    BY <1>6 DEF DeliveryInv, WorkInv, Knows
  <2>2. Finished(c)'
    BY <1>6 DEF Finished, Terminal
  <2>3. c \in sharedDeliveries' \/ Sole(c)'
    <3>1. c \in sharedDeliveries \/ Sole(c)
      BY DEF DeliveryInv, SoleInv
    <3> QED BY <1>6, <3>1 DEF Sole, Terminal, SharedGrow
  <2> QED BY <1>2, <1>3, <1>4, <2>1, <2>2, <2>3, Assembled
<1> QED BY <1>5, <1>6

LEMMA BronzeData ==
    ASSUME DeliveryInv, TypeInv', NEW w \in Workers, Bronze(w)
    PROVE  WorkInv' /\ SoleInv'
<1> DEFINE n == Len(attempts) + 1
<1>1. /\ TypeInv /\ AttemptsApart /\ Knows(w) /\ attempts \in Seq(AttemptRows) /\ Len(attempts) \in Nat
      /\ attempt[w] \in Nat /\ (attempt[w] # 0 => attempt[w] \in DOMAIN attempts)
  BY AttemptIn DEF DeliveryInv, WorkInv, TypeInv, TableTypes
<1>2. /\ at[w] \in Inspecting /\ Served(w) \in Associations /\ upload[job[w]].file \in Files
      /\ upload' = upload /\ dqRuns' = dqRuns /\ goldRuns' = goldRuns /\ SharedGrow
  BY <1>1, BronzeServes DEF SharedGrow
<1>3. attempt[w] # 0 => attempts[attempt[w]].association = <<>>
  BY <1>1, <1>2 DEF Knows
<1>4. /\ DOMAIN attempts \subseteq DOMAIN attempts'
      /\ \A i \in DOMAIN attempts :
            /\ attempts'[i].association = attempts[i].association
            /\ attempts'[i].stage = attempts[i].stage
            /\ i # attempt[w] => attempts'[i] = attempts[i]
      /\ OpenBronze(w) /\ CreateAttempt(w, upload[job[w]].file, <<>>, "BRONZE") =>
            n \in DOMAIN attempts' /\ attempts'[n].association = <<>>
  <2>1. CASE attempts' = attempts
    <3>1. ~CreateAttempt(w, upload[job[w]].file, <<>>, "BRONZE")
      <4>1. ASSUME CreateAttempt(w, upload[job[w]].file, <<>>, "BRONZE") PROVE Len(attempts') = Len(attempts) + 1
        BY <1>1, <1>2, <4>1, Created
      <4> QED BY <1>1, <2>1, <4>1
    <3> QED BY <2>1, <3>1
  <2>2. CASE CreateAttempt(w, upload[job[w]].file, <<>>, "BRONZE")
    BY <1>1, <1>2, <2>2, Created
  <2>3. ASSUME attempt[w] # 0, NEW status \in {"SUCCESS", "FAILED"}, CompleteAttempt(attempt[w], status)
        PROVE  /\ DOMAIN attempts \subseteq DOMAIN attempts'
               /\ \A i \in DOMAIN attempts :
                     /\ attempts'[i].association = attempts[i].association
                     /\ attempts'[i].stage = attempts[i].stage
                     /\ i # attempt[w] => attempts'[i] = attempts[i]
               /\ ~CreateAttempt(w, upload[job[w]].file, <<>>, "BRONZE")
    <3>1. /\ Len(attempts') = Len(attempts) /\ DOMAIN attempts' = DOMAIN attempts
          /\ \A i \in DOMAIN attempts :
                /\ attempts'[i].association = attempts[i].association
                /\ attempts'[i].stage = attempts[i].stage
                /\ i # attempt[w] => attempts'[i] = attempts[i]
      BY <1>1, <2>3, Completed
    <3>2. ASSUME CreateAttempt(w, upload[job[w]].file, <<>>, "BRONZE") PROVE Len(attempts') = Len(attempts) + 1
      BY <1>1, <1>2, <3>2, Created
    <3>3. ~CreateAttempt(w, upload[job[w]].file, <<>>, "BRONZE")
      <4> DEFINE length == Len(attempts)
      <4>0. length \in Nat /\ Len(attempts') = length
        BY <1>1, <3>1
      <4> HIDE DEF length
      <4>1. Len(attempts') # length + 1
        BY <4>0
      <4> USE DEF length
      <4> QED BY <3>2, <4>1
    <3> QED BY <3>1, <3>3
  <2> QED BY <1>1, <2>1, <2>2, <2>3, BronzeAttempts
<1>5. /\ OnlyWorker(w) /\ attempt'[w] \in {0, attempt[w], n} /\ Moved(w)
  <2>1. CASE Ends(w)
    BY <2>1, FreshEnds
  <2>2. CASE /\ GoesOn(w)
             /\ \/ attempt'[w] = attempt[w]
                \/ /\ CreateAttempt(w, upload[job[w]].file, <<>>, "BRONZE")
                   /\ attempt'[w] = n
    <3>1. at'[w] \in Inspecting /\ OnlyWorker(w)
      BY <1>2, <2>2, PlaceSets DEF GoesOn
    <3>2. attempt'[w] # 0 => attempts'[attempt'[w]].association = <<>>
      <4>1. CASE attempt'[w] = attempt[w]
        BY <1>1, <1>3, <1>4, <4>1
      <4>2. CASE CreateAttempt(w, upload[job[w]].file, <<>>, "BRONZE") /\ attempt'[w] = n
        BY <1>1, <1>2, <4>2, Created
      <4> QED BY <2>2, <4>1, <4>2
    <3>3. at'[w] \notin Running \cup Decided \cup Continuing
      BY <3>1, PlaceSets
    <3>4. Knows(w)'
      BY <3>2, <3>3 DEF Knows, Running, Decided, Continuing
    <3> QED BY <2>2, <3>1, <3>3, <3>4 DEF Moved
  <2> QED BY <1>1, <2>1, <2>2, BronzeMoves
<1>6. AttemptsApart'
  BY <1>1, <1>5, ApartStays
<1>7. \A x \in Workers \ {w} : Still(x) /\ KeepsAttempt(x)
  BY <1>1, <1>4, <1>5, OthersKeep
<1>8. \/ association' = association
      \/ /\ association[Served(w)].status \notin Finalized
         /\ association'[Served(w)].status \notin Terminal
         /\ \A b \in Associations : b # Served(w) => association'[b] = association[b]
  BY <1>1, BronzeAssociation DEF Finalized, Terminal
<1>9. PICK c \in Associations : c = Served(w)
  BY <1>2
<1>10. \A i \in DOMAIN attempts : attempts[i].association # <<>> => attempts'[i] = attempts[i]
  BY <1>1, <1>3, <1>4
<1> HIDE DEF n
<1> QED BY <1>2, <1>4, <1>5, <1>6, <1>7, <1>8, <1>9, <1>10, EarlyData

LEMMA FinalizeData ==
    ASSUME DeliveryInv, TypeInv', NEW a \in Associations, Finalize(a)
    PROVE  WorkInv' /\ SoleInv'
<1>1. /\ association[a].status \notin Finalized /\ UNCHANGED workers /\ SharedGrow
      /\ upload' = upload /\ dqRuns' = dqRuns /\ goldRuns' = goldRuns /\ attempts' = attempts
  BY DEF Finalize, Finalized, Terminal, uploads, runs, shared, SharedGrow
<1>2. /\ association'[a].status = "READY_FOR_SILVER"
      /\ \A b \in Associations : b # a => association'[b] = association[b]
  BY DEF Finalize, DeliveryInv, TypeInv, TableTypes
<1>3. \A x \in Workers : Still(x) /\ KeepsAttempt(x)
  BY <1>1, WorkersStay, RunsOn DEF DeliveryInv
<1>4. AttemptsApart'
  BY <1>3 DEF DeliveryInv, WorkInv, AttemptsApart, Still
<1>5. association'[a].status \notin Terminal
  BY <1>2 DEF Terminal
<1> QED BY <1>1, <1>2, <1>3, <1>4, <1>5, EarlyData

-----------------------------------------------------------------------------
LEMMA DataStep == DeliveryInv /\ TypeInv' /\ [Next]_vars => WorkInv' /\ SoleInv'
<1> SUFFICES ASSUME DeliveryInv, TypeInv', [Next]_vars PROVE WorkInv' /\ SoleInv'
  OBVIOUS
<1>0. TypeInv /\ upload' = upload /\ SharedGrow
  BY Steps DEF DeliveryInv
<1>1. ASSUME NEW w \in Workers, NEW u \in Uploads, Request(w, u) PROVE WorkInv' /\ SoleInv'
  <2>1. AssociationOf(u) \in Associations
    BY <1>0, UploadParts DEF TypeInv, TableTypes
  <2>2. (\A x \in Workers : Still(x)) \/ Ends(w) \/ Enters(w, u)
    BY <1>0, <1>1, RequestMoves, WorkersStay DEF PendingRecovers
  <2>3. CASE UNCHANGED <<attempts, association>>
    <3>1. UNCHANGED <<attempts, association, runs>>
      BY <1>0, <1>1, <2>3, RequestWrites
    <3> QED BY <1>0, <2>2, <3>1, NoneMoves, OneMoves, FreshEnds
  <2>4. CASE Recover(AssociationOf(u)) /\ TakeDelivery(AssociationOf(u))
    <3>1. PICK a \in Associations : a = AssociationOf(u)
      BY <2>1
    <3>2. UNCHANGED <<uploads, runs>> /\ Recover(a) /\ TakeDelivery(a)
      BY <1>0, <1>1, <2>4, <3>1, RequestWrites
    <3> QED BY <1>0, <2>2, <3>2, RecoverData
  <2> QED BY <1>0, <1>1, <2>3, <2>4, RequestWrites
<1>2. ASSUME NEW w \in Workers, ContinueStarted(w) PROVE WorkInv' /\ SoleInv'
  <2>1. job[w] \in Uploads /\ (Ends(w) \/ Enters(w, job[w]))
    BY <1>0, <1>2, StartedMoves
  <2>2. CASE UNCHANGED <<attempts, association>>
    <3>1. UNCHANGED <<attempts, association, runs>>
      BY <1>0, <1>2, <2>2, StartedMoves
    <3> QED BY <1>0, <2>1, <3>1, OneMoves, FreshEnds
  <2>3. CASE Recover(Served(w)) /\ TakeDelivery(Served(w))
    <3>1. Served(w) \in Associations
      BY <1>0, <2>1, UploadParts DEF TypeInv, TableTypes, Served
    <3>2. PICK a \in Associations : a = Served(w)
      BY <3>1
    <3>3. UNCHANGED <<uploads, runs>> /\ Recover(a) /\ TakeDelivery(a)
      BY <1>0, <1>2, <2>3, <3>2, StartedMoves
    <3> QED BY <1>0, <2>1, <3>3, RecoverData
  <2> QED BY <1>0, <1>2, <2>2, <2>3, StartedMoves
<1>3. ASSUME NEW w \in Workers, CheckArchive(w) \/ Archive(w) PROVE WorkInv' /\ SoleInv'
  <2>1. /\ UNCHANGED <<attempts, association, runs>>
        /\ Ends(w) \/ (GoesOn(w) /\ at'[w] = "archive" /\ attempt' = attempt)
    BY <1>0, <1>3, ArchiveMoves
  <2>2. OnlyWorker(w) /\ attempt'[w] \in {0, attempt[w]} /\ Moved(w)
    BY <2>1, Fresh, FreshEnds DEF GoesOn
  <2> QED BY <1>0, <2>1, <2>2, OneMoves
<1>4. ASSUME NEW w \in Workers, Crash(w) PROVE WorkInv' /\ SoleInv'
  <2>1. UNCHANGED <<attempts, association, runs>> /\ Ends(w)
    BY <1>0, <1>4, Leaves DEF Crash, tables
  <2> QED BY <1>0, <2>1, OneMoves, FreshEnds
<1>5. ASSUME NEW w \in Workers, LoseLock(w) PROVE WorkInv' /\ SoleInv'
  <2>1. UNCHANGED <<attempts, association, runs>> /\ \A x \in Workers : Still(x)
    BY <1>0, <1>5, LockLost DEF tables
  <2> QED BY <1>0, <2>1, NoneMoves
<1>6. ASSUME NEW w \in Workers, Stage(w) PROVE WorkInv' /\ SoleInv'
  <2>1. CASE Reads(w)
    <3>1. UNCHANGED <<attempts, association, runs>>
      BY <2>1, ReadsWrites DEF runs
    <3> QED BY <1>0, <2>1, <3>1, ReadsMoves, OneMoves
  <2> QED BY <1>6, <2>1, MarksData, OpensData, FailData, SilverData, GoldData DEF Stage
<1>7. ASSUME NEW a \in Associations, Submission(a) PROVE WorkInv' /\ SoleInv'
  <2>1. UNCHANGED <<attempts, association, runs, workers>>
    BY <1>7 DEF Submission, SubmitAnswers
  <2>2. \A x \in Workers : Still(x)
    BY <1>0, <2>1, WorkersStay
  <2> QED BY <1>0, <2>1, <2>2, NoneMoves
<1>8. CASE UNCHANGED vars
  <2>1. UNCHANGED <<attempts, association, runs>> /\ \A x \in Workers : Still(x)
    BY <1>0, <1>8, Unchanged DEF tables
  <2> QED BY <1>0, <2>1, NoneMoves
<1> QED BY <1>0, <1>1, <1>2, <1>3, <1>4, <1>5, <1>6, <1>7, <1>8, BronzeData, FinalizeData, Cases

LEMMA DataInit == Init => WorkInv /\ SoleInv
<1> SUFFICES ASSUME Init PROVE WorkInv /\ SoleInv
  OBVIOUS
<1>1. RowsInv /\ AttemptsApart
  BY DEF Init, RowsInv, AttemptsApart
<1>2. \A w \in Workers : Knows(w)
  BY DEF Init, Knows, Inspecting, Running, Decided, Continuing
<1>3. \A a \in Associations : Finished(a) /\ Sole(a)
  BY DEF Init, Finished, Sole
<1>4. \A w \in Workers : at[w] \notin Continuing
  BY DEF Init, Continuing
<1> QED BY <1>1, <1>2, <1>3, <1>4 DEF WorkInv, SoleInv

LEMMA DeliveryAlways == Spec => []DeliveryInv
<1>1. Init => DeliveryInv
  BY TypeInit, ControlInit, RuleInit, DataInit DEF DeliveryInv
<1>2. DeliveryInv /\ [Next]_vars => DeliveryInv'
  BY TypeStep, ControlStep, RuleStep, DataStep DEF DeliveryInv
<1> QED BY <1>1, <1>2, PTL DEF Spec
-----------------------------------------------------------------------------
(* The tables and the requests have the types of the schema.                *)
THEOREM DeliveryTypeCorrect == Spec => []TypeOK
<1>1. DeliveryInv => TypeOK
  BY TypeImplies DEF DeliveryInv
<1> QED BY <1>1, DeliveryAlways, PTL

(* While a request holds its delivery lock its attempt stays PROCESSING and *)
(* its own, whatever other requests do that lost the lock before.           *)
THEOREM LiveAttemptIsSafe == Spec => []LiveAttemptIsNotRecovered
<1>1. ASSUME DeliveryInv PROVE LiveAttemptIsNotRecovered
  <2>1. ASSUME NEW w \in Workers, at[w] \in {"silver_running", "gold_running"}, "delivery" \in held[w]
        PROVE  /\ attempts[attempt[w]].status = "PROCESSING"
               /\ attempts[attempt[w]].association = AssociationOf(job[w])
    <3>1. Knows(w)
      BY <1>1 DEF DeliveryInv, WorkInv
    <3> QED BY <2>1, <3>1 DEF Knows, Running, Served
  <2> QED BY <2>1 DEF LiveAttemptIsNotRecovered
<1> QED BY <1>1, DeliveryAlways, PTL

(* No request works on an archived delivery, unless one that lost its       *)
(* lifecycle lock went on beside another that took it.                      *)
THEOREM ArchivedDeliveryIsIdle == Spec => []ArchivedIsIdle
<1>1. DeliveryInv => ArchivedIsIdle
  BY DEF DeliveryInv, ControlInv
<1> QED BY <1>1, DeliveryAlways, PTL

(* A Silver run has one Gold run, unless its delivery was worked on without *)
(* the delivery lock while another request had it.                          *)
THEOREM GoldIsPublishedOnce == Spec => []OneGoldRunPerSilver
<1>1. ASSUME DeliveryInv PROVE OneGoldRunPerSilver
  <2>1. TypeInv /\ RowsInv
    BY <1>1 DEF DeliveryInv, WorkInv
  <2>2. ASSUME NEW i \in DOMAIN goldRuns, NEW j \in DOMAIN goldRuns, goldRuns[i].dq = goldRuns[j].dq
        PROVE  i = j \/ goldRuns[i].association \in sharedDeliveries
    <3>1. goldRuns[i].association = goldRuns[j].association
      BY <2>1, <2>2 DEF RowsInv
    <3>2. goldRuns[i].association \in Associations
      <4>1. goldRuns \in Seq(GoldRows)
        BY <2>1 DEF TypeInv, TableTypes
      <4>2. goldRuns[i] \in GoldRows
        BY <4>1
      <4> QED BY <4>2 DEF GoldRows
    <3>3. PICK a \in Associations : a = goldRuns[i].association
      BY <3>2
    <3>4. a \in sharedDeliveries \/ Sole(a)
      BY <1>1 DEF DeliveryInv, SoleInv
    <3> QED BY <2>2, <3>1, <3>3, <3>4 DEF Sole
  <2> QED BY <2>2 DEF OneGoldRunPerSilver
<1> QED BY <1>1, DeliveryAlways, PTL

(* A successful delivery has a Gold run of a valid Silver run under its     *)
(* pinned rules; both attempts are successful unless the delivery was       *)
(* shared by requests that lost their lock.                                 *)
THEOREM SuccessIsTrue == Spec => []SuccessHasLineage
<1>1. ASSUME DeliveryInv PROVE SuccessHasLineage
  <2>1. RowsInv
    BY <1>1 DEF DeliveryInv, WorkInv
  <2>2. ASSUME NEW a \in Associations, association[a].status = "SUCCESS"
        PROVE  \E i \in DOMAIN goldRuns :
                  /\ goldRuns[i].association = a
                  /\ dqRuns[goldRuns[i].dq].valid
                  /\ dqRuns[goldRuns[i].dq].rules = association[a].pin
                  /\ \/ a \in sharedDeliveries
                     \/ /\ Successful(goldRuns[i].attempt, "GOLD")
                        /\ Successful(dqRuns[goldRuns[i].dq].attempt, "SILVER")
    <3>1. ASSUME NEW i \in DOMAIN goldRuns, goldRuns[i].association = a
          PROVE  /\ dqRuns[goldRuns[i].dq].valid
                 /\ dqRuns[goldRuns[i].dq].rules = association[a].pin
      BY <2>1, <3>1 DEF RowsInv
    <3>2. CASE a \in sharedDeliveries
      <4>1. Built(a)
        BY <1>1, <2>2 DEF DeliveryInv, WorkInv, Finished
      <4> QED BY <3>1, <3>2, <4>1 DEF Built
    <3>3. CASE a \notin sharedDeliveries
      <4>1. Lineage(a)
        BY <1>1, <2>2, <3>3 DEF DeliveryInv, SoleInv, Sole
      <4> QED BY <3>1, <4>1 DEF Lineage
    <3> QED BY <3>2, <3>3
  <2> QED BY <2>2 DEF SuccessHasLineage
<1> QED BY <1>1, DeliveryAlways, PTL

(* The approved snapshot of the current rule version is what the draft says.*)
THEOREM SnapshotIsTheDraft == Spec => []ApprovalIsTheDraft
<1>1. DeliveryInv => ApprovalIsTheDraft
  BY DEF DeliveryInv, RuleInv, DraftInv, ApprovalIsTheDraft
<1> QED BY <1>1, DeliveryAlways, PTL

(* A delivery that reuses an approval has every question of its own         *)
(* profile answered.                                                        *)
THEOREM ReusedRulesCover == Spec => []ReusedIsAnswered
<1>1. DeliveryInv => ReusedIsAnswered
  BY DEF DeliveryInv, RuleInv
<1> QED BY <1>1, DeliveryAlways, PTL

(* What a step may do to the status of a successful delivery.               *)
StatusStays(a) ==
    association[a].status \in Terminal /\ association'[a].status # association[a].status =>
        \/ a \in sharedDeliveries
        \/ \E w \in Workers : at[w] = "gold_lost" /\ AssociationOf(job[w]) = a

LEMMA StatusIsWritten ==
    ASSUME TypeInv, NEW b \in Associations, NEW status \in Statuses, SetStatus(b, status),
           association[b].status \in Terminal => association[b].status = status \/ b \in sharedDeliveries
    PROVE  \A a \in Associations : StatusStays(a)
<1>1. /\ association'[b].status = status
      /\ \A a \in Associations : a # b => association'[a] = association[a]
  BY StatusSet DEF TypeInv, TableTypes
<1> QED BY <1>1 DEF StatusStays

LEMMA RecoverStays ==
    ASSUME TypeInv, NEW b \in Associations, Recover(b)
    PROVE  \A a \in Associations : StatusStays(a)
<1>1. \/ association' = association
      \/ /\ association[b].status \notin Terminal
         /\ \E status \in {"SILVER_FAILED", "GOLD_FAILED"} : SetStatus(b, status)
  BY Recovers DEF TypeInv
<1>2. CASE association' = association
  BY <1>2 DEF StatusStays
<1>3. ASSUME association[b].status \notin Terminal, NEW status \in {"SILVER_FAILED", "GOLD_FAILED"},
             SetStatus(b, status)
      PROVE  \A a \in Associations : StatusStays(a)
  <2>1. status \in Statuses
    BY DEF Statuses, Finalized
  <2> QED BY <1>3, <2>1, StatusIsWritten
<1> QED BY <1>1, <1>2, <1>3

LEMMA StageStays ==
    ASSUME DeliveryInv, NEW w \in Workers, Stage(w)
    PROVE  \A a \in Associations : StatusStays(a)
<1>0. /\ TypeInv /\ RowsInv /\ Served(w) \in Associations /\ Knows(w)
      /\ Served(w) \in sharedDeliveries \/ Owns(w)
  BY StageFacts
<1>1. PICK b \in Associations : b = Served(w)
  BY <1>0
<1>2. /\ "READY_FOR_GOLD" \in Statuses /\ "SILVER_PROCESSING" \in Statuses
      /\ "GOLD_PROCESSING" \in Statuses /\ "SILVER_FAILED" \in Statuses /\ "GOLD_FAILED" \in Statuses
      /\ "SUCCESS" \in Statuses /\ "SUCCESS_WITH_WARNINGS" \in Statuses
  BY DEF Statuses, Finalized, Terminal
<1>3. CASE association' = association
  BY <1>3 DEF StatusStays
<1>4. b \in sharedDeliveries \/ Expects(w, association[b].status)
  BY <1>0, <1>1 DEF Owns
<1>5. at[w] \in {"silver_reuse", "silver_open", "silver_running", "silver_lost", "gold_open", "gold_running"} =>
        b \in sharedDeliveries \/ association[b].status \notin Terminal
  BY <1>4 DEF Expects, BehindGold, Terminal
<1>6. ASSUME NEW i \in DOMAIN goldRuns, goldRuns[i].association = b PROVE b[2] \notin AllRejected
  BY <1>0, <1>6 DEF RowsInv
<1>7. CASE ReuseSilver(w)
  <2>1. SetStatus(b, "READY_FOR_GOLD") /\ at[w] = "silver_reuse"
    BY <1>1, <1>7 DEF ReuseSilver, Served
  <2> QED BY <1>0, <1>2, <1>5, <2>1, StatusIsWritten
<1>8. CASE SkipGold(w)
  <2>1. SetStatus(b, "SUCCESS_WITH_WARNINGS") /\ at[w] = "gold_skip"
    BY <1>1, <1>8 DEF SkipGold, Served
  <2>2. b[2] \in AllRejected
    BY <1>0, <1>1, <2>1 DEF Knows
  <2>3. association[b].status # "SUCCESS"
    BY <1>6, <2>2 DEF DeliveryInv, WorkInv, Finished, Built
  <2> QED BY <1>0, <1>2, <2>1, <2>3, StatusIsWritten DEF Terminal
<1>9. CASE ReuseGold(w)
  <2>1. SetStatus(b, "SUCCESS") /\ at[w] = "gold_reuse"
    BY <1>1, <1>9 DEF ReuseGold, Served
  <2>2. b[2] \notin AllRejected
    BY <1>0, <1>1, <1>6, <2>1 DEF Knows, Built
  <2>3. association[b].status # "SUCCESS_WITH_WARNINGS"
    BY <2>2 DEF DeliveryInv, WorkInv, Finished
  <2> QED BY <1>0, <1>2, <2>1, <2>3, StatusIsWritten DEF Terminal
<1>10. CASE Opens(w)
  <2>1. /\ SetStatus(b, "SILVER_PROCESSING") \/ SetStatus(b, "GOLD_PROCESSING")
        /\ at[w] \in {"silver_open", "gold_open"}
    BY <1>1, <1>10, OpensWrites
  <2> QED BY <1>0, <1>2, <1>5, <2>1, StatusIsWritten
<1>11. CASE Refines(w)
  <2>1. SetStatus(b, "READY_FOR_GOLD") /\ at[w] = "silver_running"
    BY <1>1, <1>11 DEF Refines, PublishSilver, LoseSilver, RecordSilver, Served
  <2> QED BY <1>0, <1>2, <1>5, <2>1, StatusIsWritten
<1>12. CASE Publishes(w)
  <2>1. SetStatus(b, "SUCCESS") /\ at[w] = "gold_running"
    BY <1>1, <1>12 DEF Publishes, PublishGold, LoseGold, PublishesGold, Served
  <2> QED BY <1>0, <1>2, <1>5, <2>1, StatusIsWritten
<1>13. CASE SilverFails(w) \/ SilverLost(w) \/ GoldFails(w)
  <2>1. /\ SetStatus(b, "SILVER_FAILED") \/ SetStatus(b, "GOLD_FAILED")
        /\ at[w] \in {"silver_running", "silver_lost", "gold_running"}
    BY <1>1, <1>13 DEF SilverFails, SilverLost, GoldFails, Fails, Served
  <2> QED BY <1>0, <1>2, <1>5, <2>1, StatusIsWritten
<1>14. CASE GoldLost(w)
  <2>1. at[w] = "gold_lost" /\ SetStatus(b, "GOLD_FAILED")
    BY <1>1, <1>14 DEF GoldLost, Fails, Served
  <2>2. \A a \in Associations : a # b => association'[a] = association[a]
    BY <1>0, <1>2, <2>1, StatusSet DEF TypeInv, TableTypes
  <2> QED BY <1>1, <2>1, <2>2 DEF StatusStays, Served
<1>15. CASE Reads(w)
  BY <1>3, <1>15, ReadsWrites
<1> QED BY <1>7, <1>8, <1>9, <1>10, <1>11, <1>12, <1>13, <1>14, <1>15 DEF Stage, Marks, Fail

LEMMA SuccessStep == DeliveryInv /\ [Next]_vars => \A a \in Associations : StatusStays(a)
<1> SUFFICES ASSUME DeliveryInv, [Next]_vars PROVE \A a \in Associations : StatusStays(a)
  OBVIOUS
<1>0. TypeInv
  BY DEF DeliveryInv
<1>1. ASSUME association' = association PROVE \A a \in Associations : StatusStays(a)
  BY <1>1 DEF StatusStays
<1>2. ASSUME NEW w \in Workers, NEW u \in Uploads, Request(w, u)
      PROVE  \A a \in Associations : StatusStays(a)
  <2>1. PICK b \in Associations : b = AssociationOf(u)
    BY <1>0, UploadParts DEF TypeInv, TableTypes
  <2>2. association' = association \/ Recover(b)
    BY <1>0, <1>2, <2>1, RequestWrites
  <2> QED BY <1>0, <1>1, <2>2, RecoverStays
<1>3. ASSUME NEW w \in Workers, ContinueStarted(w) PROVE \A a \in Associations : StatusStays(a)
  <2>1. Served(w) \in Associations
    BY <1>0, <1>3, StartedMoves, UploadParts DEF TypeInv, TableTypes, Served
  <2>2. PICK b \in Associations : b = Served(w)
    BY <2>1
  <2>3. association' = association \/ Recover(b)
    BY <1>0, <1>3, <2>2, StartedMoves
  <2> QED BY <1>0, <1>1, <2>3, RecoverStays
<1>4. ASSUME NEW w \in Workers, Bronze(w) PROVE \A a \in Associations : StatusStays(a)
  <2>1. \/ association' = association
        \/ /\ association[Served(w)].status \in {"ABSENT", "UPLOADED", "AWAITING_RULES"}
           /\ \A b \in Associations \ {Served(w)} : association'[b] = association[b]
    BY <1>0, <1>4, BronzeAssociation
  <2> QED BY <1>1, <2>1 DEF StatusStays, Terminal
<1>5. ASSUME NEW w \in Workers, CheckArchive(w) \/ Archive(w) \/ Crash(w) \/ LoseLock(w)
      PROVE  \A a \in Associations : StatusStays(a)
  <2>1. association' = association
    BY <1>5 DEF CheckArchive, Archive, Crash, LoseLock, tables
  <2> QED BY <1>1, <2>1
<1>6. ASSUME NEW w \in Workers, Stage(w) PROVE \A a \in Associations : StatusStays(a)
  BY <1>6, StageStays
<1>7. ASSUME NEW b \in Associations, Finalize(b) PROVE \A a \in Associations : StatusStays(a)
  <2>1. association[b].status = "AWAITING_RULES"
        /\ \A a \in Associations : a # b => association'[a] = association[a]
    BY <1>0, <1>7 DEF Finalize, TypeInv, TableTypes
  <2> QED BY <2>1 DEF StatusStays, Terminal
<1>8. ASSUME NEW b \in Associations, Submission(b) PROVE \A a \in Associations : StatusStays(a)
  BY <1>1, <1>8 DEF Submission, SubmitAnswers
<1>9. CASE UNCHANGED vars
  BY <1>1, <1>9 DEF vars, tables
<1> QED BY <1>0, <1>2, <1>3, <1>4, <1>5, <1>6, <1>7, <1>8, <1>9, Cases

(* A successful delivery does not regress on a repeated continuation, a     *)
(* recovery or a repeated Bronze: only the worker that published and lost   *)
(* the answer takes the status back, or one that went on without the lock.  *)
THEOREM SuccessIsKept == Spec => SuccessStays
<1>1. DeliveryInv /\ [Next]_vars =>
        [\A a \in Associations :
            association[a].status \in Terminal /\ association'[a].status # association[a].status =>
                \/ a \in sharedDeliveries
                \/ \E w \in Workers : at[w] = "gold_lost" /\ AssociationOf(job[w]) = a]_vars
  BY SuccessStep DEF StatusStays
<1> QED BY <1>1, DeliveryAlways, PTL DEF Spec, SuccessStays
=============================================================================
