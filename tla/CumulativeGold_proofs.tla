------------------------- MODULE CumulativeGold_proofs -------------------------
(***************************************************************************)
(* Theorems about IncrementalApplication and CumulativeGold, for every set  *)
(* of uploads, workers and refreshers and every assignment of rules.        *)
(***************************************************************************)
EXTENDS CumulativeGold, SequenceTheorems, TLAPS

(* A request that runs serves an upload; unless it archives it, the         *)
(* application of the upload is pinned to a policy.                         *)
Served == \A w \in Workers :
    /\ at[w] # "idle" => job[w] \in Uploads
    /\ at[w] \notin {"idle", "archiving"} => application[job[w]].status # "ABSENT"

Pinned == \A u \in Uploads : application[u].status # "ABSENT" => application[u].policy # 0

ApplicationInv == ApplicationTypeOK /\ Served /\ Pinned

Rows(n) == [upload : Uploads, previous : Nat, policy : 1 .. n, version : {1, 2},
            status : {"STAGED", "PUBLISHED"}, contents : SUBSET Uploads]

LEMMA RowsGrow ==
  ASSUME NEW n \in Nat, NEW m \in Nat, n <= m
  PROVE  Rows(n) \subseteq Rows(m)
BY DEF Rows

LEMMA StatesType ==
  ASSUME ApplicationTypeOK
  PROVE  /\ states \in Seq(Rows(Len(policies)))
         /\ Len(states) \in Nat /\ DOMAIN states = 1 .. Len(states)
         /\ \A s \in 1 .. Len(states) : states[s] \in Rows(Len(policies))
         /\ Len(policies) \in Nat /\ DOMAIN policies = 1 .. Len(policies)
         /\ head \in 0 .. Len(states)
<1>1. states \in Seq(Rows(Len(policies))) /\ policies \in Seq(Strategies) /\ head \in 0 .. Len(states)
  BY DEF ApplicationTypeOK, Rows
<1>2. QED
  BY <1>1, LenProperties, ElementOfSeq

LEMMA ApplicationType ==
  ASSUME ApplicationTypeOK, NEW u \in Uploads
  PROVE  application[u] \in [status : {"ABSENT", "PREPARED", "RUNNING", "FAILED", "SUCCESS"},
                             policy : 0 .. Len(policies), result : 0 .. Len(states)]
BY DEF ApplicationTypeOK

(* Everything an application may become keeps its type.                     *)
LEMMA ApplicationChanges ==
  ASSUME ApplicationTypeOK, NEW u \in Uploads
  PROVE  /\ \A status \in {"ABSENT", "PREPARED", "RUNNING", "FAILED", "SUCCESS"} :
              [application[u] EXCEPT !.status = status] \in
                 [status : {"ABSENT", "PREPARED", "RUNNING", "FAILED", "SUCCESS"},
                  policy : 0 .. Len(policies), result : 0 .. Len(states)]
BY ApplicationType

LEMMA LeaveType ==
  ASSUME ApplicationTypeOK, NEW w \in Workers, Leave(w), UNCHANGED <<states, policies>>
  PROVE  /\ at' \in [Workers -> {"idle", "prepared", "archiving"} \cup InTry]
         /\ job' \in [Workers -> {0} \cup Uploads]
         /\ held' \in [Workers -> SUBSET {"dataset", "lifecycle"}]
         /\ base' \in [Workers -> 0 .. Len(states')]
         /\ candidate' \in [Workers -> 0 .. Len(states')]
         /\ \A v \in Workers : at'[v] # "idle" => v # w /\ at'[v] = at[v] /\ job'[v] = job[v]
BY StatesType DEF Leave, Goto, ApplicationTypeOK

LEMMA ApplicationInit == Init => ApplicationInv
<1> SUFFICES ASSUME Init PROVE ApplicationInv
  OBVIOUS
<1>1. policies = <<>> /\ states = <<>> /\ Len(policies) = 0 /\ Len(states) = 0
  BY EmptySeq DEF Init
<1>2. ApplicationTypeOK
  BY <1>1, EmptySeq DEF Init, ApplicationTypeOK, Unapplied
<1>3. Served /\ Pinned
  BY DEF Init, Served, Pinned, Unapplied
<1>4. QED
  BY <1>2, <1>3 DEF ApplicationInv

LEMMA ApplicationStep == ApplicationInv /\ [Next]_applied => ApplicationInv'
<1> SUFFICES ASSUME ApplicationInv, [Next]_applied
             PROVE  ApplicationInv'
  OBVIOUS
<1> USE DEF tables, workers
<1>0. ApplicationTypeOK /\ Served /\ Pinned
  BY DEF ApplicationInv
<1>a. /\ Len(states) \in Nat /\ DOMAIN states = 1 .. Len(states)
      /\ Len(policies) \in Nat /\ head \in 0 .. Len(states)
  BY <1>0, StatesType
<1>1. ASSUME NEW strategy \in Strategies, NEW expected \in 0 .. MaxPolicies,
             SavePolicy(strategy, expected)
      PROVE  ApplicationInv'
  <2>1. policies' \in Seq(Strategies) /\ Len(policies') = Len(policies) + 1
    BY <1>0, <1>1, AppendProperties DEF SavePolicy, ApplicationTypeOK
  <2>2. states' \in Seq(Rows(Len(policies')))
    BY <1>0, <1>1, <1>a, <2>1, StatesType, RowsGrow, SeqMonotonic DEF SavePolicy
  <2>3. ApplicationTypeOK'
    BY <1>0, <1>1, <1>a, <2>1, <2>2 DEF SavePolicy, ApplicationTypeOK, Rows
  <2>4. QED
    BY <1>0, <1>1, <2>3 DEF SavePolicy, ApplicationInv, Served, Pinned
<1>2. ASSUME NEW u \in Uploads, DeclareSnapshot(u)
      PROVE  ApplicationInv'
  BY <1>0, <1>2 DEF DeclareSnapshot, ApplicationInv, ApplicationTypeOK, Served, Pinned
<1>3. ASSUME NEW w \in Workers, NEW u \in Uploads, BeginApply(w, u)
      PROVE  ApplicationInv'
  <2>1. Len(policies) # 0
    BY <1>0, <1>3, EmptySeq, StatesType DEF BeginApply, ApplicationTypeOK
  <2>2. SelectedPolicy(u) \in 1 .. Len(policies)
    BY <1>0, <1>a, <2>1, ApplicationType DEF SelectedPolicy
  <2>3. ApplicationTypeOK'
    BY <1>0, <1>3, <1>a, <2>2 DEF BeginApply, Prepared, Goto, ApplicationTypeOK
  <2>4. \A v \in Uploads : application'[v].status # "ABSENT" => application'[v].policy # 0
    BY <1>0, <1>3, <2>2 DEF BeginApply, Prepared, Pinned, ApplicationTypeOK
  <2>5. application'[u].status # "ABSENT"
    BY <1>0, <1>3 DEF BeginApply, Prepared, ApplicationTypeOK
  <2>6. \A v \in Uploads : application[v].status # "ABSENT" => application'[v].status # "ABSENT"
    BY <1>0, <1>3 DEF BeginApply, Prepared, ApplicationTypeOK
  <2>7. Served'
    BY <1>0, <1>3, <2>5, <2>6 DEF BeginApply, Goto, Served, ApplicationTypeOK
  <2>8. QED
    BY <2>3, <2>4, <2>7 DEF ApplicationInv, Pinned
<1>4. ASSUME NEW w \in Workers, StartApply(w)
      PROVE  ApplicationInv'
  <2>1. job[w] \in Uploads /\ application' = [application EXCEPT ![job[w]].status = "RUNNING"]
    BY <1>0, <1>4 DEF StartApply, SetApplication, Served
  <2>2. ApplicationTypeOK'
    BY <1>0, <1>4, <2>1, ApplicationChanges DEF StartApply, Goto, InTry, ApplicationTypeOK
  <2>3. /\ \A v \in Uploads : /\ application'[v].policy = application[v].policy
                              /\ application[v].status # "ABSENT" <=> application'[v].status # "ABSENT"
        /\ \A v \in Workers : at'[v] \notin {"idle", "archiving"} => at[v] \notin {"idle", "archiving"}
        /\ \A v \in Workers : at'[v] # "idle" => at[v] # "idle"
        /\ job' = job
    <3>1. at[w] = "prepared" /\ application[job[w]].status # "ABSENT"
      BY <1>0, <1>4 DEF StartApply, Served
    <3>2. QED
      BY <1>0, <1>4, <2>1, <3>1 DEF StartApply, Goto, ApplicationTypeOK
  <2>4. Served'
    <3>1. ASSUME NEW v \in Workers
          PROVE  /\ at'[v] # "idle" => job'[v] \in Uploads
                 /\ at'[v] \notin {"idle", "archiving"} => application'[job'[v]].status # "ABSENT"
      BY <1>0, <2>3 DEF Served
    <3>2. QED
      BY <3>1 DEF Served
  <2>5. Pinned'
    BY <1>0, <2>3 DEF Pinned
  <2>6. QED
    BY <2>2, <2>4, <2>5 DEF ApplicationInv
<1>5. ASSUME NEW w \in Workers, DeliveryManifest(w) \/ ReadHead(w) \/ RequireActive(w)
      PROVE  ApplicationInv'
  <2>1. job[w] \in Uploads
    BY <1>0, <1>5 DEF DeliveryManifest, ReadHead, RequireActive, Served
  <2>2. manifests' \subseteq Uploads /\ base' \in [Workers -> 0 .. Len(states)]
    BY <1>0, <1>5, <1>a, <2>1 DEF DeliveryManifest, ReadHead, RequireActive, ApplicationTypeOK
  <2>3. at' \in [Workers -> {"idle", "prepared", "archiving"} \cup InTry]
    BY <1>0, <1>5 DEF DeliveryManifest, ReadHead, RequireActive, Goto, InTry, ApplicationTypeOK
  <2>4. UNCHANGED <<policies, declared, application, states, head, archived, job, held, candidate, overtaken>>
    BY <1>5 DEF DeliveryManifest, ReadHead, RequireActive
  <2>5. ApplicationTypeOK'
    BY <1>0, <2>2, <2>3, <2>4 DEF ApplicationTypeOK
  <2>6. QED
    BY <1>0, <1>5, <2>5 DEF DeliveryManifest, ReadHead, RequireActive, Goto, ApplicationInv, ApplicationTypeOK,
                            Served, Pinned
<1>6. ASSUME NEW w \in Workers, Stage(w)
      PROVE  ApplicationInv'
  <2> DEFINE u == job[w]
             row == [upload |-> u, previous |-> base[w], policy |-> application[u].policy,
                     version |-> ManifestVersion(u), status |-> "STAGED",
                     contents |-> Contents(base[w]) \cup {u}]
  <2>1. u \in Uploads /\ application[u].policy \in 1 .. Len(policies) /\ base[w] \in 0 .. Len(states)
    <3>1. u \in Uploads /\ application[u].status # "ABSENT" /\ base[w] \in 0 .. Len(states)
      BY <1>0, <1>6 DEF Stage, Served, ApplicationTypeOK
    <3>2. QED
      BY <1>0, <1>a, <3>1, ApplicationType DEF Pinned
  <2>2. Contents(base[w]) \subseteq Uploads
    BY <1>0, <1>a, <2>1, StatesType DEF Contents, Rows
  <2>3. row \in Rows(Len(policies))
    BY <1>a, <2>1, <2>2 DEF Rows, ManifestVersion
  <2>4. states' = Append(states, row)
    BY <1>6 DEF Stage
  <2> HIDE DEF row
  <2>5. states' \in Seq(Rows(Len(policies))) /\ Len(states') = Len(states) + 1
    BY <1>0, <2>3, <2>4, StatesType, AppendProperties
  <2>6. /\ at' \in [Workers -> {"idle", "prepared", "archiving"} \cup InTry]
        /\ base' \in [Workers -> 0 .. Len(states')]
        /\ candidate' \in [Workers -> 0 .. Len(states')]
    <3>1. candidate' = [candidate EXCEPT ![w] = Len(states')] /\ base' = base
      BY <1>6, <2>5 DEF Stage
    <3>2. base \in [Workers -> 0 .. Len(states')] /\ candidate \in [Workers -> 0 .. Len(states')]
      BY <1>0, <1>a, <2>5 DEF ApplicationTypeOK
    <3>3. Len(states') \in 0 .. Len(states')
      BY <1>a, <2>5
    <3>4. QED
      BY <1>0, <1>6, <3>1, <3>2, <3>3 DEF Stage, Goto, InTry, ApplicationTypeOK
  <2>7. /\ application' \in [Uploads -> [status : {"ABSENT", "PREPARED", "RUNNING", "FAILED", "SUCCESS"},
                                        policy : 0 .. Len(policies'), result : 0 .. Len(states')]]
        /\ head' \in 0 .. Len(states')
    BY <1>0, <1>6, <1>a, <2>5 DEF Stage, ApplicationTypeOK
  <2>8. UNCHANGED <<policies, declared, manifests, archived, job, held, overtaken>>
    BY <1>6 DEF Stage
  <2>9. ApplicationTypeOK'
    BY <1>0, <2>5, <2>6, <2>7, <2>8 DEF Rows, ApplicationTypeOK
  <2>10. QED
    BY <1>0, <1>6, <2>9 DEF Stage, Goto, ApplicationInv, ApplicationTypeOK, Served, Pinned
<1>7. ASSUME NEW w \in Workers, Publish(w)
      PROVE  ApplicationInv'
  <2> DEFINE u == job[w]
             s == candidate[w]
  <2>1. u \in Uploads /\ s \in 0 .. Len(states)
    BY <1>0, <1>7 DEF Publish, Served, ApplicationTypeOK
  <2>2. /\ states' = [states EXCEPT ![s].status = "PUBLISHED"]
        /\ head' = s
        /\ application' = [application EXCEPT ![u].status = "SUCCESS", ![u].result = s]
        /\ UNCHANGED <<rulesOf, policies, declared, manifests, archived, overtaken>>
    BY <1>7 DEF Publish
  <2>3. states' \in Seq(Rows(Len(policies))) /\ Len(states') = Len(states)
    <3>1. CASE s = 0
      <4>1. states' = states
        BY <1>0, <1>a, <2>2, <3>1, StatesType
      <4>2. QED
        BY <1>0, <4>1, StatesType
    <3>2. CASE s # 0
      <4>1. s \in 1 .. Len(states)
        BY <1>a, <2>1, <3>2
      <4>2. states[s] \in Rows(Len(policies))
        BY <1>0, <4>1, StatesType
      <4>3. [states[s] EXCEPT !.status = "PUBLISHED"] \in Rows(Len(policies))
        BY <4>2 DEF Rows
      <4>4. QED
        BY <1>0, <2>2, <4>1, <4>3, StatesType, ExceptSeq
    <3>3. QED
      BY <3>1, <3>2
  <2>4. /\ at' \in [Workers -> {"idle", "prepared", "archiving"} \cup InTry]
        /\ job' \in [Workers -> {0} \cup Uploads]
        /\ held' \in [Workers -> SUBSET {"dataset", "lifecycle"}]
        /\ base' \in [Workers -> 0 .. Len(states)]
        /\ candidate' \in [Workers -> 0 .. Len(states)]
        /\ \A v \in Workers : at'[v] # "idle" => job'[v] = job[v] /\ (v = w \/ at'[v] = at[v])
    <3>1. CASE Leave(w)
      BY <1>0, <1>a, <3>1 DEF Leave, Goto, InTry, ApplicationTypeOK
    <3>2. CASE Goto(w, "lost") /\ UNCHANGED <<job, held, base, candidate>>
      BY <1>0, <1>7, <3>2 DEF Publish, Goto, InTry, ApplicationTypeOK
    <3>3. QED
      BY <1>7, <3>1, <3>2 DEF Publish
  <2>5. application' \in [Uploads -> [status : {"ABSENT", "PREPARED", "RUNNING", "FAILED", "SUCCESS"},
                                      policy : 0 .. Len(policies), result : 0 .. Len(states)]]
    BY <1>0, <2>1, <2>2 DEF ApplicationTypeOK
  <2>6. ApplicationTypeOK'
    BY <1>0, <2>1, <2>2, <2>3, <2>4, <2>5 DEF ApplicationTypeOK, Rows
  <2>7. \A v \in Uploads : /\ application'[v].policy = application[v].policy
                           /\ application[v].status # "ABSENT" => application'[v].status # "ABSENT"
                           /\ application'[v].status # "ABSENT" => application[v].status # "ABSENT" \/ v = u
    BY <1>0, <2>1, <2>2 DEF ApplicationTypeOK
  <2>8. application[u].policy # 0
    BY <1>0, <1>7, <2>1 DEF Publish, Served, Pinned
  <2>9. Served' /\ Pinned'
    BY <1>0, <1>7, <2>4, <2>7, <2>8 DEF Publish, Served, Pinned
  <2>10. QED
    BY <2>6, <2>9 DEF ApplicationInv
<1>8. ASSUME NEW w \in Workers, ApplyFails(w)
      PROVE  ApplicationInv'
  <2>1. /\ job[w] \in Uploads /\ Leave(w)
        /\ UNCHANGED <<rulesOf, policies, declared, manifests, states, head, archived, overtaken>>
    BY <1>0, <1>8 DEF ApplyFails, Served, InTry
  <2>2. \/ application' = application
        \/ application' = [application EXCEPT ![job[w]].status = "FAILED"]
    BY <1>8 DEF ApplyFails, FailedUnlessSuccess
  <2>3. /\ application' \in [Uploads -> [status : {"ABSENT", "PREPARED", "RUNNING", "FAILED", "SUCCESS"},
                                      policy : 0 .. Len(policies), result : 0 .. Len(states)]]
        /\ \A v \in Uploads : application'[v].policy = application[v].policy
        /\ \A v \in Uploads : application[v].status # "ABSENT" => application'[v].status # "ABSENT"
        /\ \A v \in Uploads : application'[v].status # "ABSENT" => application[v].status # "ABSENT" \/ v = job[w]
    <3>1. CASE application' = application
      BY <1>0, <3>1 DEF ApplicationTypeOK
    <3>2. CASE application' = [application EXCEPT ![job[w]].status = "FAILED"]
      BY <1>0, <2>1, <3>2 DEF ApplicationTypeOK
    <3>3. QED
      BY <2>2, <3>1, <3>2
  <2>4. ApplicationTypeOK'
    BY <1>0, <2>1, <2>3, LeaveType DEF ApplicationTypeOK
  <2>5. Served' /\ Pinned'
    <3>1. application[job[w]].status # "ABSENT"
      BY <1>0, <1>8 DEF ApplyFails, Served, InTry
    <3>2. Served'
      BY <1>0, <2>1, <2>3, LeaveType DEF Served
    <3>3. Pinned'
      BY <1>0, <2>1, <2>3, <3>1 DEF Pinned
    <3>4. QED
      BY <3>2, <3>3
  <2>6. QED
    BY <2>4, <2>5 DEF ApplicationInv
<1>9. ASSUME NEW w \in Workers, RefuseExact(w) \/ CrashApply(w)
      PROVE  ApplicationInv'
  <2>1. Leave(w) /\ UNCHANGED <<tables, overtaken>>
    BY <1>9 DEF RefuseExact, CrashApply
  <2>2. ApplicationTypeOK'
    BY <1>0, <2>1, LeaveType DEF ApplicationTypeOK
  <2>3. QED
    BY <1>0, <2>1, <2>2, LeaveType DEF ApplicationInv, Served, Pinned
<1>10. ASSUME NEW w \in Workers, LoseLock(w)
       PROVE  ApplicationInv'
  BY <1>0, <1>10 DEF LoseLock, ApplicationInv, ApplicationTypeOK, Served, Pinned
<1>10a. ASSUME NEW w \in Workers, NEW u \in Uploads, BeginArchive(w, u)
        PROVE  ApplicationInv'
  BY <1>0, <1>10a DEF BeginArchive, Goto, ApplicationInv, ApplicationTypeOK, Served, Pinned
<1>10b. ASSUME NEW w \in Workers, Archive(w)
        PROVE  ApplicationInv'
  <2>1. job[w] \in Uploads /\ Leave(w)
    BY <1>0, <1>10b DEF Archive, Served
  <2>2. archived' \subseteq Uploads /\ overtaken' \subseteq Uploads
    BY <1>0, <1>10b, <2>1 DEF Archive, Overtaken, ApplicationTypeOK
  <2>3. UNCHANGED <<rulesOf, policies, declared, application, manifests, states, head>>
    BY <1>10b DEF Archive
  <2>4. ApplicationTypeOK'
    BY <1>0, <2>1, <2>2, <2>3, LeaveType DEF ApplicationTypeOK
  <2>5. QED
    BY <1>0, <2>1, <2>3, <2>4, LeaveType DEF ApplicationInv, Served, Pinned
<1>11. CASE UNCHANGED applied
  BY <1>0, <1>11 DEF applied, ApplicationInv, ApplicationTypeOK, Served, Pinned
<1>12. QED
  BY <1>1, <1>2, <1>3, <1>4, <1>5, <1>6, <1>7, <1>8, <1>9, <1>10, <1>10a, <1>10b, <1>11
     DEF Next, Owner, Unpublished, Apply

(* Every reachable state of the application is well formed, every request   *)
(* serves a pinned application.                                             *)
THEOREM ApplicationTypeCorrect == Spec => []ApplicationInv
<1>1. [Next]_applicationVars => [Next]_applied
  BY DEF applicationVars, applied
<1>2. QED
  BY <1>1, ApplicationInit, ApplicationStep, PTL DEF Spec
-----------------------------------------------------------------------------
(* What a state is, what a worker knows, and what head stands for.          *)

(* Delivery u may extend state s: no state, or one of its manifest version  *)
(* and, for an exact delivery, of its rules.                                *)
Fits(s, u) ==
    s # 0 => /\ s \in DOMAIN states /\ states[s].version = ManifestVersion(u)
             /\ Exact(u) => rulesOf[Source(s)] = rulesOf[u]

RowInv == \A s \in DOMAIN states :
    /\ states[s].version = ManifestVersion(Source(s))
    /\ Fits(states[s].previous, Source(s))
    /\ states[s].contents = Contents(states[s].previous) \cup {Source(s)}

(* A worker builds on a state its delivery fits, though the head may have   *)
(* moved since, and publishes the candidate it staged itself.               *)
WorkInv == \A w \in Workers :
    /\ at[w] = "read" => Fits(base[w], job[w])
    /\ at[w] \in {"staged", "checked"} => candidate[w] \in DOMAIN states /\ Source(candidate[w]) = job[w]

HeadInv == IF head = 0 THEN \A s \in DOMAIN states : ~Published(s) ELSE Published(head)

ChainInv == RowInv /\ WorkInv /\ HeadInv /\ PublishedIsChain /\ NoLostDelivery /\ AppliedOnce

(* A publishing transaction has the row of its application to itself; an    *)
(* archive beside it is an overtaking one. Who holds the lifecycle lock of  *)
(* an upload holds it alone.                                                *)
CheckInv ==
    /\ \A w, v \in Workers : at[w] = "checked" /\ at[v] = "checked" /\ job[w] = job[v] => w = v
    /\ \A w \in Workers : at[w] = "checked" =>
          /\ application[job[w]].status = "RUNNING"
          /\ job[w] \in archived => job[w] \in overtaken
    /\ \A w, v \in Workers : "lifecycle" \in held[w] /\ "lifecycle" \in held[v] /\ job[w] = job[v] => w = v

(* What Stage appends.                                                      *)
Row(w) == [upload |-> job[w], previous |-> base[w], policy |-> application[job[w]].policy,
           version |-> ManifestVersion(job[w]), status |-> "STAGED",
           contents |-> Contents(base[w]) \cup {job[w]}]

LEMMA StageEffect ==
  ASSUME ApplicationInv, NEW w \in Workers, Stage(w)
  PROVE  /\ at[w] = "read" /\ job[w] \in Uploads /\ base[w] \in 0 .. Len(states)
         /\ Len(states') = Len(states) + 1 /\ DOMAIN states' = 1 .. Len(states) + 1
         /\ \A s \in 1 .. Len(states) : states'[s] = states[s]
         /\ states'[Len(states) + 1] = Row(w)
         /\ at' = [at EXCEPT ![w] = "staged"]
         /\ candidate' = [candidate EXCEPT ![w] = Len(states) + 1]
         /\ UNCHANGED <<rulesOf, policies, application, head, archived, job, base>>
<1>1. at[w] = "read" /\ job[w] \in Uploads /\ base[w] \in 0 .. Len(states)
  BY DEF ApplicationInv, ApplicationTypeOK, Served, Stage
<1>2. states' = Append(states, Row(w)) /\ states \in Seq(Rows(Len(policies))) /\ Len(states) \in Nat
  BY StatesType DEF ApplicationInv, Stage, Row
<1>3. states \in Seq(Rows(Len(policies)) \cup {Row(w)})
  BY <1>2, SeqMonotonic
<1>4. /\ Append(states, Row(w)) \in Seq(Rows(Len(policies)) \cup {Row(w)})
      /\ Len(Append(states, Row(w))) = Len(states) + 1
      /\ \A s \in 1 .. Len(states) : Append(states, Row(w))[s] = states[s]
      /\ Append(states, Row(w))[Len(states) + 1] = Row(w)
  BY <1>3, AppendProperties
<1>5. DOMAIN states' = 1 .. Len(states) + 1
  BY <1>2, <1>4, LenProperties
<1>6. QED
  BY <1>1, <1>2, <1>4, <1>5 DEF Stage, Goto

LEMMA PublishEffect ==
  ASSUME ApplicationInv, ChainInv, CheckInv, NEW w \in Workers, Publish(w)
  PROVE  /\ job[w] \in Uploads /\ candidate[w] \in 1 .. Len(states)
         /\ Source(candidate[w]) = job[w]
         /\ application[job[w]].status = "RUNNING" /\ (job[w] \in archived => job[w] \in overtaken)
         /\ head = states[candidate[w]].previous
         /\ head # 0 => states[head].policy = states[candidate[w]].policy
         /\ DOMAIN states' = 1 .. Len(states)
         /\ \A s \in 1 .. Len(states) : states'[s] = IF s = candidate[w]
                                                     THEN [states[s] EXCEPT !.status = "PUBLISHED"]
                                                     ELSE states[s]
         /\ head' = candidate[w]
         /\ application' = [application EXCEPT ![job[w]].status = "SUCCESS",
                                               ![job[w]].result = candidate[w]]
         /\ \A v \in Workers : /\ at'[v] \in {"read", "staged", "checked"} => at'[v] = at[v]
                               /\ at'[v] # "idle" => job'[v] = job[v]
         /\ \A v \in Workers : at'[v] # "idle" => base'[v] = base[v] /\ candidate'[v] = candidate[v]
         /\ UNCHANGED <<rulesOf, policies, archived, overtaken>>
<1>1. /\ job[w] \in Uploads /\ candidate[w] \in 1 .. Len(states)
      /\ Source(candidate[w]) = job[w]
      /\ states \in Seq(Rows(Len(policies))) /\ DOMAIN states = 1 .. Len(states)
  BY StatesType DEF ApplicationInv, Served, Publish, ChainInv, WorkInv
<1>2. states' = [states EXCEPT ![candidate[w]].status = "PUBLISHED"]
  BY DEF Publish
<1>3. /\ DOMAIN states' = 1 .. Len(states)
      /\ \A s \in 1 .. Len(states) : states'[s] = IF s = candidate[w]
                                                  THEN [states[s] EXCEPT !.status = "PUBLISHED"]
                                                  ELSE states[s]
  BY <1>1, <1>2
<1>4. /\ \A v \in Workers : /\ at'[v] \in {"read", "staged", "checked"} => at'[v] = at[v]
                            /\ at'[v] # "idle" => job'[v] = job[v]
      /\ \A v \in Workers : at'[v] # "idle" => base'[v] = base[v] /\ candidate'[v] = candidate[v]
  BY DEF Publish, Leave, Goto, ApplicationInv, ApplicationTypeOK
<1>5. QED
  BY <1>1, <1>3, <1>4 DEF Publish, CheckInv, HeadUnchanged

(* Every other step leaves states and head alone, and who succeeded.        *)
Quiet ==
    /\ UNCHANGED <<rulesOf, states, head>>
    /\ \A u \in Uploads :
        /\ application'[u].status = "SUCCESS" <=> application[u].status = "SUCCESS"
        /\ application[u].status = "SUCCESS" => application'[u].result = application[u].result

LEMMA QuietSteps ==
  ASSUME ApplicationInv, [Next]_applied, \A w \in Workers : ~Stage(w) /\ ~Publish(w)
  PROVE  Quiet
<1> USE DEF tables, workers
<1>0. ApplicationTypeOK /\ Served
  BY DEF ApplicationInv
<1>1. ASSUME NEW w \in Workers, NEW u \in Uploads, BeginApply(w, u)
      PROVE  Quiet
  BY <1>0, <1>1 DEF BeginApply, Prepared, Quiet, ApplicationTypeOK
<1>2. ASSUME NEW w \in Workers, StartApply(w)
      PROVE  Quiet
  BY <1>0, <1>2 DEF StartApply, SetApplication, Quiet, ApplicationTypeOK, Served
<1>3. ASSUME NEW w \in Workers, ApplyFails(w)
      PROVE  Quiet
  BY <1>0, <1>3 DEF ApplyFails, FailedUnlessSuccess, Quiet, ApplicationTypeOK
<1>4. ASSUME NEW w \in Workers,
             \/ DeliveryManifest(w) \/ ReadHead(w) \/ RequireActive(w) \/ RefuseExact(w)
             \/ Archive(w) \/ CrashApply(w) \/ LoseLock(w) \/ \E u \in Uploads : BeginArchive(w, u)
      PROVE  Quiet
  BY <1>4 DEF DeliveryManifest, ReadHead, RequireActive, RefuseExact, Archive, CrashApply, LoseLock,
              BeginArchive, Quiet
<1>5. CASE Owner
  BY <1>5 DEF Owner, SavePolicy, DeclareSnapshot, Quiet
<1>6. CASE UNCHANGED applied
  BY <1>6 DEF applied, Quiet
<1>7. QED
  BY <1>1, <1>2, <1>3, <1>4, <1>5, <1>6 DEF Next, Unpublished, Apply

(* A worker that has read or staged did so before, or reads in this step.   *)
LEMMA WorkSteps ==
  ASSUME ApplicationInv, [Next]_applied, \A w \in Workers : ~Stage(w) /\ ~Publish(w),
         NEW v \in Workers
  PROVE  /\ at'[v] \in {"staged", "checked"} =>
                at[v] \in {"staged", "checked"} /\ candidate'[v] = candidate[v] /\ job'[v] = job[v]
         /\ at'[v] = "read" => \/ at[v] = "read" /\ base'[v] = base[v] /\ job'[v] = job[v]
                               \/ Compatible(job[v]) /\ base'[v] = head /\ job'[v] = job[v]
<1> DEFINE Goal == /\ at'[v] \in {"staged", "checked"} =>
                        at[v] \in {"staged", "checked"} /\ candidate'[v] = candidate[v] /\ job'[v] = job[v]
                   /\ at'[v] = "read" => \/ at[v] = "read" /\ base'[v] = base[v] /\ job'[v] = job[v]
                                         \/ Compatible(job[v]) /\ base'[v] = head /\ job'[v] = job[v]
<1> USE DEF tables, workers, Goto
<1>0. ApplicationTypeOK
  BY DEF ApplicationInv
<1>1. ASSUME NEW w \in Workers,
             StartApply(w) \/ DeliveryManifest(w) \/ ReadHead(w) \/ RequireActive(w) \/ LoseLock(w)
      PROVE  Goal
  BY <1>0, <1>1 DEF StartApply, DeliveryManifest, ReadHead, RequireActive, LoseLock, ApplicationTypeOK
<1>2. ASSUME NEW w \in Workers, NEW u \in Uploads, BeginApply(w, u) \/ BeginArchive(w, u)
      PROVE  Goal
  BY <1>0, <1>2 DEF BeginApply, BeginArchive, ApplicationTypeOK
<1>3. ASSUME NEW w \in Workers, ApplyFails(w) \/ RefuseExact(w) \/ CrashApply(w) \/ Archive(w)
      PROVE  Goal
  <2>1. Leave(w)
    BY <1>3 DEF ApplyFails, RefuseExact, CrashApply, Archive
  <2>2. QED
    BY <1>0, <2>1 DEF Leave, ApplicationTypeOK
<1>4. CASE Owner \/ UNCHANGED applied
  BY <1>4 DEF Owner, SavePolicy, DeclareSnapshot, applied
<1>5. QED
  BY <1>1, <1>2, <1>3, <1>4 DEF Next, Unpublished, Apply

LEMMA ChainInit == Init => ChainInv
<1> SUFFICES ASSUME Init PROVE ChainInv
  OBVIOUS
<1>1. states = <<>> /\ DOMAIN states = {} /\ head = 0
  BY DEF Init
<1>2. QED
  BY <1>1 DEF Init, ChainInv, RowInv, WorkInv, HeadInv, PublishedIsChain, NoLostDelivery, AppliedOnce, Unapplied

LEMMA ChainStage ==
  ASSUME ApplicationInv, ChainInv, NEW w \in Workers, Stage(w)
  PROVE  ChainInv'
<1>0. PICK n \in Nat : n = Len(states)
  BY StatesType DEF ApplicationInv
<1>1. /\ at[w] = "read" /\ job[w] \in Uploads /\ base[w] \in 0 .. n
      /\ DOMAIN states' = 1 .. n + 1
      /\ \A s \in 1 .. n : states'[s] = states[s]
      /\ states'[n + 1] = Row(w)
      /\ at' = [at EXCEPT ![w] = "staged"]
      /\ candidate' = [candidate EXCEPT ![w] = n + 1]
      /\ UNCHANGED <<rulesOf, policies, application, head, archived, job, base>>
  BY <1>0, StageEffect
<1>2. n \in Nat /\ DOMAIN states = 1 .. n /\ head \in 0 .. n
  BY <1>0, StatesType DEF ApplicationInv
<1>3. \A s \in 1 .. n : states[s].previous \in 0 .. n
  <2>1. \A s \in 1 .. n : states[s].previous \in Nat
    BY <1>0, StatesType DEF ApplicationInv, Rows
  <2>2. \A s \in 1 .. n : states[s].previous # 0 => states[s].previous \in 1 .. n
    BY <1>2 DEF ChainInv, RowInv, Fits
  <2>3. QED
    BY <1>2, <2>1, <2>2
<1>3a. \A s \in 1 .. n : Source(s) \in Uploads
  BY <1>0, <1>2, StatesType DEF ApplicationInv, Source, Rows
<1>4. Fits(base[w], job[w])
  BY <1>1 DEF ChainInv, WorkInv
<1>5. ASSUME NEW s \in 0 .. n, NEW u, Fits(s, u)
      PROVE  Fits(s, u)' /\ Contents(s)' = Contents(s)
  BY <1>1, <1>2, <1>5 DEF Fits, Contents, Source, ManifestVersion, Exact
<1>6. RowInv'
  <2>1. ASSUME NEW s \in 1 .. n
        PROVE  /\ states'[s].version = ManifestVersion(Source(s))'
               /\ Fits(states[s].previous, Source(s))'
               /\ states'[s].contents = Contents(states[s].previous)' \cup {Source(s)'}
    <3>1. /\ states[s].version = ManifestVersion(Source(s))
          /\ Fits(states[s].previous, Source(s))
          /\ states[s].contents = Contents(states[s].previous) \cup {Source(s)}
      BY <1>2 DEF ChainInv, RowInv
    <3>2. Fits(states[s].previous, Source(s))' /\ Contents(states[s].previous)' = Contents(states[s].previous)
      <4>1. PICK t \in 0 .. n, u \in Uploads : t = states[s].previous /\ u = Source(s)
        BY <1>3, <1>3a
      <4>2. Fits(t, u)' /\ Contents(t)' = Contents(t)
        BY <1>5, <3>1, <4>1
      <4>3. states'[s].previous = t /\ Source(s)' = u
        BY <1>1, <4>1 DEF Source
      <4>4. QED
        BY <4>1, <4>2, <4>3
    <3>3. QED
      BY <1>1, <3>1, <3>2 DEF Source, ManifestVersion, Exact
  <2>2. /\ states'[n + 1].version = ManifestVersion(job[w])
        /\ states'[n + 1].previous = base[w]
        /\ Source(n + 1)' = job[w]
        /\ states'[n + 1].contents = Contents(base[w]) \cup {job[w]}
    BY <1>1 DEF Row, Source
  <2>3. Fits(base[w], job[w])' /\ Contents(base[w])' = Contents(base[w]) /\ job' = job /\ base' = base
    BY <1>1, <1>4, <1>5
  <2>4. /\ states'[n + 1].version = ManifestVersion(Source(n + 1))'
        /\ Fits(states[n + 1].previous, Source(n + 1))'
        /\ states'[n + 1].contents = Contents(states[n + 1].previous)' \cup {Source(n + 1)'}
    BY <1>1, <2>2, <2>3 DEF ManifestVersion, Exact, Contents, Fits
  <2>5. ASSUME NEW s \in 1 .. n + 1
        PROVE  /\ states'[s].version = ManifestVersion(Source(s))'
               /\ Fits(states[s].previous, Source(s))'
               /\ states'[s].contents = Contents(states[s].previous)' \cup {Source(s)'}
    <3>1. CASE s \in 1 .. n
      <4>1. states'[s].previous = states[s].previous
        BY <1>1, <3>1
      <4>2. QED
        BY <2>1, <3>1, <4>1 DEF Fits, Contents
    <3>2. CASE s = n + 1
      BY <2>4, <3>2
    <3>3. QED
      BY <1>2, <3>1, <3>2
  <2>6. QED
    BY <1>1, <2>5 DEF RowInv
<1>7. WorkInv'
  <2>1. ASSUME NEW v \in Workers
        PROVE  /\ at'[v] = "read" => Fits(base[v], job[v])'
               /\ at'[v] \in {"staged", "checked"} => candidate'[v] \in 1 .. n + 1 /\ Source(candidate[v])' = job'[v]
    <3>1. at \in [Workers -> {"idle", "prepared", "archiving"} \cup InTry] /\ base[v] \in 0 .. n
          /\ candidate \in [Workers -> 0 .. n]
      BY <1>0, <1>2 DEF ApplicationInv, ApplicationTypeOK
    <3>2. CASE v = w
      BY <1>1, <1>2, <3>1, <3>2 DEF Row, Source
    <3>3. CASE v # w
      <4>1. at'[v] = at[v] /\ candidate'[v] = candidate[v] /\ job'[v] = job[v] /\ base'[v] = base[v]
        BY <1>1, <3>1, <3>3
      <4>2. /\ at[v] = "read" => Fits(base[v], job[v])
            /\ at[v] \in {"staged", "checked"} => candidate[v] \in 1 .. n /\ Source(candidate[v]) = job[v]
        BY <1>2 DEF ChainInv, WorkInv
      <4>3. at[v] = "read" => Fits(base[v], job[v])'
        <5>1. CASE at[v] = "read"
          <6>1. Fits(base[v], job[v])'
            BY <1>1, <1>5, <3>1, <4>2, <5>1
          <6>2. QED
            BY <6>1
        <5>2. QED
          BY <5>1
      <4>4. QED
        BY <1>1, <1>2, <4>1, <4>2, <4>3 DEF Source
    <3>4. QED
      BY <3>2, <3>3
  <2>2. QED
    BY <1>1, <2>1 DEF WorkInv
<1>8. \A s \in DOMAIN states' : Published(s)' <=> s \in 1 .. n /\ Published(s)
  BY <1>1, <1>2 DEF Published, Row
<1>9. HeadInv'
  BY <1>1, <1>2, <1>8 DEF ChainInv, HeadInv
<1>10. PublishedIsChain'
  BY <1>1, <1>2, <1>8, <1>9 DEF ChainInv, PublishedIsChain, HeadInv, Source
<1>11. NoLostDelivery'
  BY <1>1, <1>2 DEF ChainInv, NoLostDelivery, Contents
<1>12. AppliedOnce'
  <2>1. ASSUME NEW u \in Uploads
        PROVE  {s \in DOMAIN states' : Published(s)' /\ Source(s)' = u}
                 = {s \in DOMAIN states : Published(s) /\ Source(s) = u}
    BY <1>1, <1>2, <1>8 DEF Source
  <2>2. QED
    BY <1>1, <2>1 DEF ChainInv, AppliedOnce
<1>13. QED
  BY <1>6, <1>7, <1>9, <1>10, <1>11, <1>12 DEF ChainInv

LEMMA ChainPublish ==
  ASSUME ApplicationInv, ChainInv, CheckInv, NEW w \in Workers, Publish(w)
  PROVE  ChainInv'
<1>0. PICK n \in Nat : n = Len(states)
  BY StatesType DEF ApplicationInv
<1>1. PICK c \in 1 .. n, u \in Uploads : n = Len(states) /\ c = candidate[w] /\ u = job[w]
  BY <1>0, PublishEffect
<1>2. /\ Source(c) = u
      /\ application[u].status = "RUNNING"
      /\ head = states[c].previous
      /\ head # 0 => states[head].policy = states[c].policy
      /\ DOMAIN states' = 1 .. n
      /\ \A s \in 1 .. n : states'[s] = IF s = c THEN [states[s] EXCEPT !.status = "PUBLISHED"]
                                                 ELSE states[s]
      /\ head' = c
      /\ application' = [application EXCEPT ![u].status = "SUCCESS", ![u].result = c]
      /\ \A v \in Workers : /\ at'[v] \in {"read", "staged", "checked"} => at'[v] = at[v]
                            /\ at'[v] # "idle" => job'[v] = job[v]
      /\ \A v \in Workers : at'[v] # "idle" => base'[v] = base[v] /\ candidate'[v] = candidate[v]
      /\ rulesOf' = rulesOf
  BY <1>1, PublishEffect
<1>3. /\ DOMAIN states = 1 .. n /\ head \in 0 .. n
      /\ \A s \in 1 .. n : states[s] \in Rows(Len(policies))
  BY <1>1, StatesType DEF ApplicationInv
<1>4. \A s \in 1 .. n : /\ states'[s].upload = states[s].upload
                        /\ states'[s].previous = states[s].previous
                        /\ states'[s].policy = states[s].policy
                        /\ states'[s].version = states[s].version
                        /\ states'[s].contents = states[s].contents
                        /\ states'[s].status = IF s = c THEN "PUBLISHED" ELSE states[s].status
  BY <1>2, <1>3 DEF Rows
<1>5. \A s, v : Fits(s, v)' <=> Fits(s, v)
  BY <1>2, <1>3, <1>4 DEF Fits, Source, ManifestVersion, Exact
<1>6. \A s \in 0 .. n : Contents(s)' = Contents(s)
  BY <1>4 DEF Contents
<1>7. \A s \in 1 .. n : states[s].previous \in 0 .. n
  BY <1>3 DEF ChainInv, RowInv, Fits, Rows
<1>8. RowInv'
  BY <1>2, <1>3, <1>4, <1>5, <1>6, <1>7 DEF ChainInv, RowInv, Source, ManifestVersion, Exact
<1>9. WorkInv'
  BY <1>2, <1>3, <1>4, <1>5 DEF ChainInv, WorkInv, Source
<1>10. \A s \in 1 .. n : Published(s)' <=> Published(s) \/ s = c
  BY <1>4 DEF Published
<1>11. HeadInv'
  BY <1>1, <1>2, <1>10 DEF HeadInv
<1>12. ~Published(c)
  BY <1>1, <1>2, <1>3 DEF ChainInv, AppliedOnce
<1>13. PublishedIsChain'
  <2>1. Fits(head, u) /\ states[c].version = ManifestVersion(u)
    BY <1>2, <1>3 DEF ChainInv, RowInv
  <2>2. head # 0 => /\ states[head].policy = states[c].policy
                    /\ states[head].version = states[c].version
                    /\ states[c].version = 2 => rulesOf[Source(head)] = rulesOf[u]
    BY <1>2, <2>1 DEF Fits, ManifestVersion
  <2>3. ASSUME NEW s \in 1 .. n, Published(s)'
        PROVE  /\ s = c \/ \E t \in 1 .. n : Published(t)' /\ states'[t].previous = s
               /\ states'[s].policy = states'[c].policy /\ states'[s].version = states'[c].version
               /\ states'[s].version = 2 => rulesOf[Source(s)'] = rulesOf[Source(c)']
    <3>1. CASE s = c
      BY <3>1
    <3>2. CASE s # c
      <4>1. Published(s)
        BY <1>10, <2>3, <3>2
      <4>2. head # 0
        BY <1>3, <4>1 DEF ChainInv, HeadInv
      <4>3. /\ s = head \/ \E t \in 1 .. n : Published(t) /\ states[t].previous = s
            /\ states[s].policy = states[head].policy /\ states[s].version = states[head].version
            /\ states[s].version = 2 => rulesOf[Source(s)] = rulesOf[Source(head)]
        BY <1>3, <4>1 DEF ChainInv, PublishedIsChain
      <4>4. s = head => Published(c)' /\ states'[c].previous = s
        BY <1>2, <1>4, <1>10
      <4>5. s = c \/ \E t \in 1 .. n : Published(t)' /\ states'[t].previous = s
        BY <1>4, <1>10, <4>3, <4>4
      <4>6. Source(s)' = Source(s) /\ Source(c)' = u
        BY <1>2, <1>4 DEF Source
      <4>7. QED
        BY <1>4, <2>2, <4>2, <4>3, <4>5, <4>6
    <3>3. QED
      BY <3>1, <3>2
  <2>4. QED
    BY <1>2, <2>3 DEF PublishedIsChain
<1>14. application' \in [Uploads -> [status : {"ABSENT", "PREPARED", "RUNNING", "FAILED", "SUCCESS"},
                                     policy : Nat, result : Nat]]
       /\ \A v \in Uploads : IF v = u THEN application'[v].status = "SUCCESS" /\ application'[v].result = c
                                      ELSE application'[v] = application[v]
  <2>1. application \in [Uploads -> [status : {"ABSENT", "PREPARED", "RUNNING", "FAILED", "SUCCESS"},
                                     policy : Nat, result : Nat]]
    BY <1>1, StatesType DEF ApplicationInv, ApplicationTypeOK
  <2>2. QED
    BY <1>1, <1>2, <2>1
<1>15. NoLostDelivery'
  <2>1. Contents(c) = Contents(head) \cup {u}
    BY <1>2, <1>3 DEF ChainInv, RowInv, Contents
  <2>2. Contents(head)' = Contents(c)
    BY <1>2, <1>6 DEF Contents
  <2>3. QED
    BY <1>14, <2>1, <2>2 DEF ChainInv, NoLostDelivery
<1>16. AppliedOnce'
  <2>1. ASSUME NEW v \in Uploads
        PROVE  {s \in 1 .. n : Published(s)' /\ Source(s)' = v}
                 = IF application'[v].status = "SUCCESS" THEN {application'[v].result} ELSE {}
    <3>1. {s \in 1 .. n : Published(s) /\ Source(s) = v}
             = IF application[v].status = "SUCCESS" THEN {application[v].result} ELSE {}
      BY <1>3 DEF ChainInv, AppliedOnce
    <3>2. \A s \in 1 .. n : Source(s)' = Source(s)
      BY <1>4 DEF Source
    <3>3. CASE v = u
      <4>1. {s \in 1 .. n : Published(s) /\ Source(s) = u} = {}
        BY <1>2, <3>1, <3>3
      <4>2. \A s \in 1 .. n : Published(s)' /\ Source(s)' = u <=> s = c
        BY <1>2, <1>10, <3>2, <4>1
      <4>3. QED
        BY <1>14, <3>3, <4>2
    <3>4. CASE v # u
      <4>1. \A s \in 1 .. n : Published(s)' /\ Source(s)' = v <=> Published(s) /\ Source(s) = v
        BY <1>2, <1>10, <3>2, <3>4
      <4>2. QED
        BY <1>14, <3>1, <3>4, <4>1
    <3>5. QED
      BY <3>3, <3>4
  <2>2. QED
    BY <1>2, <2>1 DEF AppliedOnce
<1>17. QED
  BY <1>8, <1>9, <1>11, <1>13, <1>15, <1>16 DEF ChainInv

LEMMA ChainQuiet ==
  ASSUME ApplicationInv, ChainInv, [Next]_applied, \A w \in Workers : ~Stage(w) /\ ~Publish(w)
  PROVE  ChainInv'
<1>1. Quiet
  BY QuietSteps
<1>2. RowInv' /\ HeadInv' /\ PublishedIsChain'
  BY <1>1 DEF Quiet, ChainInv, RowInv, HeadInv, PublishedIsChain, Fits, Contents, Source, Published,
              ManifestVersion, Exact
<1>3. NoLostDelivery' /\ AppliedOnce'
  BY <1>1 DEF Quiet, ChainInv, NoLostDelivery, AppliedOnce, Contents, Source, Published
<1>4. \A u : Compatible(u) => Fits(head, u)
  BY StatesType DEF ApplicationInv, Compatible, Fits
<1>5. \A s, u : Fits(s, u)' <=> Fits(s, u)
  BY <1>1 DEF Quiet, Fits, Source, ManifestVersion, Exact
<1>6. WorkInv'
  <2>1. ASSUME NEW v \in Workers
        PROVE  /\ at'[v] = "read" => Fits(base[v], job[v])'
               /\ at'[v] \in {"staged", "checked"} =>
                     candidate'[v] \in DOMAIN states' /\ Source(candidate[v])' = job'[v]
    <3>1. /\ at'[v] \in {"staged", "checked"} =>
                at[v] \in {"staged", "checked"} /\ candidate'[v] = candidate[v] /\ job'[v] = job[v]
          /\ at'[v] = "read" => \/ at[v] = "read" /\ base'[v] = base[v] /\ job'[v] = job[v]
                                \/ Compatible(job[v]) /\ base'[v] = head /\ job'[v] = job[v]
      BY WorkSteps
    <3>2. /\ at[v] = "read" => Fits(base[v], job[v])
          /\ at[v] \in {"staged", "checked"} => candidate[v] \in DOMAIN states /\ Source(candidate[v]) = job[v]
      BY DEF ChainInv, WorkInv
    <3>3. at'[v] = "read" => Fits(base'[v], job'[v])
      BY <1>4, <3>1, <3>2
    <3>4. at'[v] = "read" => Fits(base[v], job[v])'
      BY <1>1, <3>3 DEF Quiet, Fits, Source, ManifestVersion, Exact
    <3>5. QED
      BY <1>1, <3>1, <3>2, <3>4 DEF Quiet, Source
  <2>2. QED
    BY <2>1 DEF WorkInv
<1>7. QED
  BY <1>2, <1>3, <1>6 DEF ChainInv

LEMMA ChainStep == ApplicationInv /\ ChainInv /\ CheckInv /\ [Next]_applied => ChainInv'
BY ChainStage, ChainPublish, ChainQuiet

LEMMA CheckInit == Init => CheckInv
BY DEF Init, CheckInv

LEMMA CheckStep ==
  ASSUME ApplicationInv, CheckInv, [Next]_applied
  PROVE  CheckInv'
<1> USE DEF tables, workers, Goto
<1>0. /\ at \in [Workers -> {"idle", "prepared", "archiving"} \cup InTry]
      /\ job \in [Workers -> {0} \cup Uploads]
      /\ held \in [Workers -> SUBSET {"dataset", "lifecycle"}]
      /\ application \in [Uploads -> [status : {"ABSENT", "PREPARED", "RUNNING", "FAILED", "SUCCESS"},
                                      policy : 0 .. Len(policies), result : 0 .. Len(states)]]
      /\ \A w \in Workers : at[w] # "idle" => job[w] \in Uploads
  BY DEF ApplicationInv, ApplicationTypeOK, Served
<1>1. ASSUME NEW w \in Workers, NEW u \in Uploads, BeginApply(w, u) \/ BeginArchive(w, u)
      PROVE  CheckInv'
  <2>1. \A v \in Uploads : application[v].status = "RUNNING" => application'[v] = application[v]
    <3>1. CASE BeginApply(w, u)
      BY <1>0, <3>1 DEF BeginApply, Prepared
    <3>2. CASE BeginArchive(w, u)
      BY <3>2 DEF BeginArchive
    <3>3. QED
      BY <1>1, <3>1, <3>2
  <2>2. /\ at[w] = "idle" /\ LifecycleFree(u) /\ UNCHANGED <<archived, overtaken>>
        /\ job' = [job EXCEPT ![w] = u]
    BY <1>1 DEF BeginApply, BeginArchive
  <2>3. \A v \in Workers \ {w} : at'[v] = at[v] /\ held'[v] = held[v]
    BY <1>0, <1>1 DEF BeginApply, BeginArchive
  <2>4. at'[w] # "checked"
    BY <1>0, <1>1 DEF BeginApply, BeginArchive
  <2>5. QED
    BY <1>0, <2>1, <2>2, <2>3, <2>4 DEF LifecycleFree, CheckInv
<1>2. ASSUME NEW w \in Workers, StartApply(w)
      PROVE  CheckInv'
  BY <1>0, <1>2 DEF StartApply, SetApplication, RowFree, CheckInv
<1>3. ASSUME NEW w \in Workers, ApplyFails(w)
      PROVE  CheckInv'
  <2>1. job[w] \in Uploads
    BY <1>0, <1>3 DEF ApplyFails, InTry
  <2>2. \A v \in Uploads \ {job[w]} : application'[v] = application[v]
    BY <1>0, <1>3, <2>1 DEF ApplyFails, FailedUnlessSuccess
  <2>3. QED
    BY <1>0, <1>3, <2>1, <2>2 DEF ApplyFails, Leave, RowFree, CheckInv
<1>4. ASSUME NEW w \in Workers, RequireActive(w)
      PROVE  CheckInv'
  BY <1>0, <1>4 DEF RequireActive, Publishable, RowFree, CheckInv
<1>5. ASSUME NEW w \in Workers, Publish(w)
      PROVE  CheckInv'
  <2>1. job[w] \in Uploads /\ at[w] = "checked" /\ UNCHANGED <<archived, overtaken>>
    BY <1>0, <1>5 DEF Publish
  <2>2. \A v \in Uploads \ {job[w]} : application'[v] = application[v]
    BY <1>0, <1>5, <2>1 DEF Publish
  <2>3. \A v \in Workers : /\ at'[v] = "checked" => v # w /\ at[v] = "checked" /\ job'[v] = job[v]
                           /\ "lifecycle" \in held'[v] => "lifecycle" \in held[v] /\ job'[v] = job[v]
    BY <1>0, <1>5 DEF Publish, Leave
  <2>4. QED
    BY <1>0, <2>1, <2>2, <2>3 DEF CheckInv
<1>6. ASSUME NEW w \in Workers, Archive(w)
      PROVE  CheckInv'
  <2>1. /\ \A v \in Workers : at[v] = "checked" /\ job[v] = job[w] => job[w] \in Overtaken(w)
        /\ Leave(w) /\ application' = application
        /\ archived' = archived \cup {job[w]} /\ overtaken' = overtaken \cup Overtaken(w)
    BY <1>0, <1>6 DEF Archive, Overtaken, CheckInv
  <2>2. QED
    BY <1>0, <2>1 DEF Leave, CheckInv
<1>7. ASSUME NEW w \in Workers, DeliveryManifest(w) \/ ReadHead(w) \/ Stage(w) \/ LoseLock(w)
      PROVE  CheckInv'
  <2>1. UNCHANGED <<job, application, archived, overtaken>>
    BY <1>7 DEF DeliveryManifest, ReadHead, Stage, LoseLock
  <2>2. \A v \in Workers : at'[v] = "checked" => at[v] = "checked"
    BY <1>0, <1>7 DEF DeliveryManifest, ReadHead, Stage, LoseLock
  <2>3. \A v \in Workers : held'[v] \subseteq held[v]
    BY <1>0, <1>7 DEF DeliveryManifest, ReadHead, Stage, LoseLock
  <2>4. QED
    BY <1>0, <2>1, <2>2, <2>3 DEF CheckInv
<1>8. ASSUME NEW w \in Workers, RefuseExact(w) \/ CrashApply(w)
      PROVE  CheckInv'
  <2>1. Leave(w) /\ UNCHANGED <<application, archived, overtaken>>
    BY <1>8 DEF RefuseExact, CrashApply
  <2>2. /\ \A v \in Workers : at'[v] = "checked" => v # w /\ at[v] = "checked"
        /\ \A v \in Workers \ {w} : job'[v] = job[v] /\ held'[v] = held[v]
        /\ held'[w] = {}
    BY <1>0, <2>1 DEF Leave
  <2>3. QED
    BY <1>0, <2>1, <2>2 DEF CheckInv
<1>9. CASE Owner \/ UNCHANGED applied
  BY <1>9 DEF Owner, SavePolicy, DeclareSnapshot, applied, CheckInv
<1>10. QED
  BY <1>1, <1>2, <1>3, <1>4, <1>5, <1>6, <1>7, <1>8, <1>9 DEF Next, Unpublished, Apply

LEMMA ArchivedStep ==
  ASSUME ApplicationInv, ChainInv, CheckInv, [Next]_applied, head' # head
  PROVE  Source(head)' \in archived => Source(head)' \in overtaken
<1>1. PICK w \in Workers : Stage(w) \/ Publish(w)
  BY QuietSteps DEF Quiet
<1>2. Publish(w)
  BY <1>1 DEF Stage
<1>3. PICK c \in 1 .. Len(states) : /\ c = candidate[w] /\ Source(c) = job[w] /\ head' = c
                                    /\ job[w] \in archived => job[w] \in overtaken
  BY <1>2, PublishEffect
<1>4. states'[c].upload = states[c].upload
  <2>1. states'[c] = [states[c] EXCEPT !.status = "PUBLISHED"]
    <3>1. c = candidate[w] /\ c \in 1 .. Len(states)
      BY <1>3
    <3>2. \A s \in 1 .. Len(states) : states'[s] = IF s = candidate[w]
                                                   THEN [states[s] EXCEPT !.status = "PUBLISHED"]
                                                   ELSE states[s]
      BY <1>2, PublishEffect
    <3>3. QED
      BY <3>1, <3>2
  <2>2. states[c] \in Rows(Len(policies))
    BY StatesType DEF ApplicationInv
  <2>3. QED
    BY <2>1, <2>2 DEF Rows
<1>5. UNCHANGED <<archived, overtaken>>
  BY <1>2, PublishEffect
<1>6. QED
  BY <1>3, <1>4, <1>5 DEF Source

(* The analytics only read what an application writes: a step of both is a  *)
(* step of the application or leaves its tables and workers alone.          *)
LEMMA ApplicationPart == [GoldNext]_vars => [Next]_applied
<1> USE DEF applied
<1>1. ASSUME NEW w \in Workers, NEW u \in Uploads, Alone(BeginApply(w, u)) \/ Alone(BeginArchive(w, u))
      PROVE  Next
  BY <1>1 DEF Alone, Next, Unpublished
<1>2. ASSUME NEW w \in Workers,
             \/ Alone(StartApply(w)) \/ Alone(DeliveryManifest(w)) \/ Alone(ReadHead(w)) \/ Alone(Stage(w))
             \/ Alone(Archive(w)) \/ Alone(RequireActive(w))
             \/ Alone(ApplyFails(w)) \/ Alone(RefuseExact(w)) \/ Alone(CrashApply(w)) \/ Alone(LoseLock(w))
             \/ PublishState(w)
      PROVE  Next
  BY <1>2 DEF Alone, PublishState, Next, Unpublished, Apply
<1>3. ASSUME NEW strategy \in Strategies, NEW expected \in 0 .. MaxPolicies,
             Alone(SavePolicy(strategy, expected))
      PROVE  Next
  BY <1>3 DEF Alone, Next, Owner
<1>4. ASSUME NEW u \in Uploads, Alone(DeclareSnapshot(u))
      PROVE  Next
  BY <1>4 DEF Alone, Next, Owner
<1>5. ASSUME NEW r \in Refreshers,
             \/ BeginRefresh(r) \/ ReuseRun(r) \/ OpenRun(r) \/ PublishRun(r) \/ RefreshFails(r)
             \/ SourceMoved(r) \/ CrashRefresh(r) \/ LoseRefreshLock(r)
             \/ PrepareExact(r) \/ RecheckExact(r) \/ PinExact(r) \/ RefuseExactGold(r)
             \/ BeginPublishExact(r) \/ PublishExact(r)
      PROVE  UNCHANGED applied
  BY <1>5 DEF BeginRefresh, ReuseRun, OpenRun, PublishRun, RefreshFails, SourceMoved, CrashRefresh,
              LoseRefreshLock, PrepareExact, RecheckExact, PinExact, RefuseExactGold,
              BeginPublishExact, PublishExact
<1>6. ASSUME InsertExactRun \/ \E scale \in Scales : Approve(scale)
      PROVE  UNCHANGED applied
  BY <1>6 DEF InsertExactRun, Approve
<1>7. CASE UNCHANGED vars
  BY <1>7 DEF vars, applicationVars
<1>8. QED
  BY <1>1, <1>2, <1>3, <1>4, <1>5, <1>6, <1>7 DEF GoldNext

(* Applications run the same with and without analytics beside them.        *)
LEMMA ChainAlways == (Spec \/ GoldSpec) => [](ApplicationInv /\ ChainInv /\ CheckInv)
<1>1. [Next]_applicationVars => [Next]_applied
  BY DEF applicationVars, applied
<1>2. GoldInit => Init
  BY DEF GoldInit
<1>3. QED
  BY <1>1, <1>2, ApplicationPart, ApplicationInit, ApplicationStep, ChainInit, ChainStep, CheckInit, CheckStep, PTL
     DEF Spec, GoldSpec

(* Whatever locks are lost and whoever stages and publishes beside, a       *)
(* delivery reported as applied stays in the current state.                 *)
THEOREM NothingIsLost == (Spec \/ GoldSpec) => []NoLostDelivery
BY ChainAlways, PTL DEF ChainInv

(* The published states of a dataset are one chain that ends in its head,   *)
(* under one policy, manifest version and, when exact, rule version.        *)
THEOREM StatesAreChain == (Spec \/ GoldSpec) => []PublishedIsChain
BY ChainAlways, PTL DEF ChainInv

(* Each successful application published exactly one of its candidates.     *)
THEOREM EachAppliedOnce == (Spec \/ GoldSpec) => []AppliedOnce
BY ChainAlways, PTL DEF ChainInv

(* No step publishes a delivery that was archived before the publication    *)
(* looked at the mark, also when the lifecycle lock was lost; and none that *)
(* was archived after it while both of them hold their lifecycle lock.      *)
THEOREM ArchivedIsNotPublished == (Spec \/ GoldSpec) => ArchivedStaysOut
<1>1. ApplicationInv /\ ChainInv /\ CheckInv /\ [Next]_applied
        => [head' # head /\ Source(head)' \in archived => Source(head)' \in overtaken]_applicationVars
  BY ArchivedStep
<1>2. [Next]_applicationVars => [Next]_applied
  BY DEF applicationVars, applied
<1>3. QED
  BY <1>1, <1>2, ApplicationPart, ChainAlways, PTL DEF Spec, GoldSpec, ArchivedStaysOut
-----------------------------------------------------------------------------
(* What the analytics know of the states they are built from.               *)

RunInv == \A i \in DOMAIN goldRuns : goldRuns[i].build = states[goldRuns[i].source].version

ApprovalInv == \A s \in 1 .. MaxStates :
    approvals[s] # 0 => s \in DOMAIN states /\ states[s].version = 2

(* A request works on a state of its format, and on a run of that state     *)
(* once it has one.                                                         *)
RequestInv == \A r \in Refreshers :
    /\ place[r] = "preflight" => source[r] \in DOMAIN states /\ states[source[r]].version = 1
    /\ place[r] \in {"building", "published", "preparing", "prepared", "validating"} =>
          run[r] \in DOMAIN goldRuns /\ goldRuns[run[r]].source = source[r]

FreshInv == freshness = "FRESH" =>
    /\ pointer \in DOMAIN goldRuns /\ goldRuns[pointer].source = head
    /\ goldRuns[pointer].status = "SUCCESS"

GoldInv == /\ GoldTypeOK /\ Len(states) <= MaxStates
           /\ RunInv /\ ApprovalInv /\ RequestInv /\ FreshInv

GoldRows == [source : DOMAIN states, build : {1, 2}, scale : {0} \cup Scales,
             status : {"REFRESHING", "SUCCESS", "FAILED"}, pin : 0 .. Len(builds)]

Tables ==
    /\ goldRuns \in Seq(GoldRows)
    /\ pointer \in 0 .. Len(goldRuns)
    /\ freshness \in {"NONE", "STALE", "REFRESHING", "FRESH", "FAILED"}
    /\ approvals \in [1 .. MaxStates -> {0} \cup Scales]
    /\ builds \in Seq(DOMAIN goldRuns)

Requests ==
    /\ place \in [Refreshers -> {"idle", "preflight", "building", "published", "preparing", "prepared", "validating"}]
    /\ source \in [Refreshers -> 0 .. Len(states)]
    /\ run \in [Refreshers -> 0 .. Len(goldRuns)]
    /\ hand \in [Refreshers -> 0 .. Len(builds)]
    /\ refreshing \in [Refreshers -> BOOLEAN]

LEMMA GoldParts ==
  /\ GoldTypeOK <=> ApplicationTypeOK /\ Tables /\ Requests
  /\ GoldTypeOK' <=> ApplicationTypeOK' /\ Tables' /\ Requests'
BY DEF GoldTypeOK, Tables, Requests, GoldRows

LEMMA GoldTypes ==
  ASSUME GoldInv
  PROVE  /\ ApplicationTypeOK /\ Tables /\ Requests
         /\ Len(states) \in Nat /\ DOMAIN states = 1 .. Len(states) /\ head \in 0 .. Len(states)
         /\ \A s \in DOMAIN states : states[s].version \in {1, 2}
         /\ Len(goldRuns) \in Nat /\ DOMAIN goldRuns = 1 .. Len(goldRuns)
         /\ \A i \in DOMAIN goldRuns : goldRuns[i] \in GoldRows
         /\ Len(builds) \in Nat /\ DOMAIN builds = 1 .. Len(builds)
<1>1. ApplicationTypeOK /\ Tables /\ Requests
  BY GoldParts DEF GoldInv
<1>2. goldRuns \in Seq(GoldRows) /\ builds \in Seq(DOMAIN goldRuns)
  BY <1>1 DEF Tables
<1>3. Len(goldRuns) \in Nat /\ DOMAIN goldRuns = 1 .. Len(goldRuns) /\ \A i \in DOMAIN goldRuns : goldRuns[i] \in GoldRows
  BY <1>2, LenProperties, ElementOfSeq
<1>4. Len(builds) \in Nat /\ DOMAIN builds = 1 .. Len(builds)
  BY <1>2, LenProperties
<1>5. \A s \in DOMAIN states : states[s].version \in {1, 2}
  BY <1>1, StatesType DEF Rows
<1>6. QED
  BY <1>1, <1>3, <1>4, <1>5, StatesType

(* The runs of a step keep what they are built from.                        *)
RunsKept == \A i \in DOMAIN goldRuns :
    i \in DOMAIN goldRuns' /\ goldRuns'[i].source = goldRuns[i].source /\ goldRuns'[i].build = goldRuns[i].build

LEMMA RunChanged ==
  ASSUME GoldInv, UNCHANGED <<states, builds>>, NEW i \in DOMAIN goldRuns, NEW row \in GoldRows,
         row.source = goldRuns[i].source, row.build = goldRuns[i].build,
         goldRuns' = [goldRuns EXCEPT ![i] = row]
  PROVE  /\ goldRuns' \in Seq(GoldRows') /\ Len(goldRuns') = Len(goldRuns)
         /\ builds' \in Seq(DOMAIN goldRuns') /\ RunsKept /\ RunInv'
<1>1. goldRuns' \in Seq(GoldRows) /\ Len(goldRuns') = Len(goldRuns) /\ DOMAIN goldRuns' = DOMAIN goldRuns
  BY GoldTypes, ExceptSeq DEF Tables
<1>2. GoldRows' = GoldRows
  BY DEF GoldRows
<1>3. RunsKept
  BY <1>1, GoldTypes DEF RunsKept
<1>4. RunInv'
  BY <1>1, <1>3 DEF GoldInv, RunInv, RunsKept
<1>5. QED
  BY <1>1, <1>2, <1>3, <1>4, GoldTypes DEF Tables

LEMMA RunAdded ==
  ASSUME GoldInv, UNCHANGED <<states, builds>>, NEW row \in GoldRows,
         row.build = states[row.source].version,
         goldRuns' = Append(goldRuns, row)
  PROVE  /\ goldRuns' \in Seq(GoldRows') /\ Len(goldRuns') = Len(goldRuns) + 1
         /\ builds' \in Seq(DOMAIN goldRuns') /\ RunsKept /\ RunInv'
         /\ goldRuns'[Len(goldRuns) + 1] = row
         /\ \A i \in DOMAIN goldRuns : goldRuns'[i] = goldRuns[i]
<1>1. /\ goldRuns' \in Seq(GoldRows) /\ Len(goldRuns') = Len(goldRuns) + 1
      /\ DOMAIN goldRuns' = 1 .. Len(goldRuns) + 1
      /\ \A i \in 1 .. Len(goldRuns) : goldRuns'[i] = goldRuns[i]
      /\ goldRuns'[Len(goldRuns) + 1] = row
  BY GoldTypes, AppendProperties, LenProperties DEF Tables
<1>2. GoldRows' = GoldRows
  BY DEF GoldRows
<1>3. RunsKept
  BY <1>1, GoldTypes DEF RunsKept
<1>4. RunInv'
  BY <1>1, GoldTypes DEF GoldInv, RunInv
<1>5. builds' \in Seq(DOMAIN goldRuns')
  <2>1. builds \in Seq(DOMAIN goldRuns) /\ DOMAIN goldRuns \subseteq DOMAIN goldRuns'
    BY <1>1, GoldTypes DEF Tables
  <2>2. QED
    BY <2>1, SeqMonotonic
<1>6. QED
  BY <1>1, <1>2, <1>3, <1>4, <1>5, GoldTypes

(* A request that ends leaves the others what they know.                    *)
LEMMA Ended ==
  ASSUME GoldInv, NEW r \in Refreshers, End(r), UNCHANGED <<states, builds>>,
         RunsKept, Len(goldRuns') \in Nat, Len(goldRuns) <= Len(goldRuns')
  PROVE  Requests' /\ RequestInv'
<1>1. Requests'
  BY GoldTypes DEF End, To, Requests
<1>2. \A q \in Refreshers : place'[q] # "idle" =>
         place'[q] = place[q] /\ source'[q] = source[q] /\ run'[q] = run[q]
  BY GoldTypes DEF End, To, Requests
<1>3. RequestInv'
  BY <1>2, GoldTypes DEF GoldInv, RequestInv, RunsKept
<1>4. QED
  BY <1>1, <1>3

(* A step of an application only adds states, up to the bound.              *)
LEMMA StatesGrow ==
  ASSUME ApplicationInv, [Next]_applied
  PROVE  /\ \A s \in DOMAIN states : s \in DOMAIN states' /\ states'[s].version = states[s].version
         /\ Len(states') <= Len(states) \/ Len(states') <= MaxStates
         /\ Len(states') \in Nat /\ Len(states) <= Len(states')
<1>0. /\ \A s \in DOMAIN states : states[s] \in Rows(Len(policies))
      /\ DOMAIN states = 1 .. Len(states) /\ Len(states) \in Nat
  BY StatesType DEF ApplicationInv
<1>1. ASSUME NEW w \in Workers, Stage(w)
      PROVE  /\ \A s \in DOMAIN states : s \in DOMAIN states' /\ states'[s].version = states[s].version
             /\ Len(states') <= MaxStates
             /\ Len(states') \in Nat /\ Len(states) <= Len(states') /\ head' = head
  <2>1. Len(states') = Len(states) + 1 /\ Len(states) < MaxStates /\ MaxStates \in Nat
    BY <1>1, StageEffect, ApplicationAssumption DEF Stage
  <2>2. QED
    BY <1>0, <1>1, <2>1, StageEffect
<1>2. ASSUME NEW w \in Workers, Publish(w)
      PROVE  /\ \A s \in DOMAIN states : s \in DOMAIN states' /\ states'[s].version = states[s].version
             /\ Len(states') = Len(states)
  <2>1. /\ DOMAIN states' = DOMAIN states
        /\ \A s \in DOMAIN states : states'[s] = IF s = candidate[w]
                                                 THEN [states[s] EXCEPT !.status = "PUBLISHED"]
                                                 ELSE states[s]
    BY <1>0, <1>2 DEF Publish
  <2>2. Len(states') = Len(states)
    <3>1. states' \in Seq(Rows(Len(policies')))
      BY ApplicationStep, <1>2 DEF Next, ApplicationInv, ApplicationTypeOK, Rows
    <3>2. DOMAIN states' = 1 .. Len(states') /\ Len(states') \in Nat
      BY <3>1, LenProperties
    <3>3. \A m, n \in Nat : 1 .. m = 1 .. n => m = n
      <4>1. \A m, n \in Nat : m < n => n \in 1 .. n /\ n \notin 1 .. m
        OBVIOUS
      <4>2. QED
        BY <4>1
    <3>4. QED
      BY <1>0, <2>1, <3>2, <3>3
  <2>3. QED
    BY <1>0, <2>1, <2>2 DEF Rows
<1>3. CASE \A w \in Workers : ~Stage(w) /\ ~Publish(w)
  BY <1>0, <1>3, QuietSteps DEF Quiet
<1>4. QED
  BY <1>0, <1>1, <1>2, <1>3

(* An application step beside the analytics.                                *)
LEMMA GoldBeside ==
  ASSUME ApplicationInv, GoldInv, [Next]_applied, UNCHANGED <<goldRuns, pointer, approvals, builds, refreshers>>,
         \/ freshness' = freshness /\ head' = head
         \/ freshness' = "STALE"
  PROVE  GoldInv'
<1>1. ApplicationTypeOK'
  BY ApplicationStep DEF ApplicationInv
<1>0. MaxStates \in Nat /\ Len(states) \in Nat /\ Len(states) <= MaxStates
  BY ApplicationAssumption, GoldTypes DEF GoldInv
<1>2. /\ \A s \in DOMAIN states : s \in DOMAIN states' /\ states'[s].version = states[s].version
      /\ Len(states') <= MaxStates /\ Len(states') \in Nat /\ Len(states) <= Len(states')
      /\ freshness' = "STALE" \/ (freshness' = freshness /\ head' = head)
  <2>1. /\ \A s \in DOMAIN states : s \in DOMAIN states' /\ states'[s].version = states[s].version
        /\ Len(states') <= Len(states) \/ Len(states') <= MaxStates
        /\ Len(states') \in Nat /\ Len(states) <= Len(states')
    BY StatesGrow
  <2>2. Len(states') <= MaxStates
    BY <1>0, <2>1
  <2>3. QED
    BY <2>1, <2>2
<1>3. Tables'
  <2>1. GoldRows \subseteq GoldRows'
    BY <1>2 DEF GoldRows
  <2>2. goldRuns' \in Seq(GoldRows')
    BY <2>1, GoldTypes, SeqMonotonic DEF Tables
  <2>3. QED
    BY <1>2, <2>2, GoldTypes DEF Tables
<1>4. Requests'
  BY <1>2, GoldTypes DEF Requests, refreshers
<1>5. RunInv'
  BY <1>2, GoldTypes DEF GoldInv, RunInv, GoldRows
<1>6. ApprovalInv' /\ RequestInv' /\ FreshInv'
  BY <1>2, GoldTypes DEF GoldInv, ApprovalInv, RequestInv, FreshInv, refreshers
<1>7. QED
  BY <1>1, <1>2, <1>3, <1>4, <1>5, <1>6, GoldParts DEF GoldInv

LEMMA GoldStart == GoldInit => GoldInv
<1> SUFFICES ASSUME GoldInit PROVE GoldInv
  OBVIOUS
<1>1. ApplicationTypeOK
  BY ApplicationInit DEF GoldInit, ApplicationInv
<1>2. states = <<>> /\ goldRuns = <<>> /\ builds = <<>> /\ Len(states) = 0 /\ Len(goldRuns) = 0 /\ Len(builds) = 0
      /\ DOMAIN goldRuns = {}
  BY EmptySeq DEF GoldInit, Init
<1>3. Tables /\ Requests
  BY <1>2, EmptySeq DEF GoldInit, Tables, Requests
<1>4. RunInv /\ ApprovalInv /\ RequestInv /\ FreshInv
  BY <1>2 DEF GoldInit, RunInv, ApprovalInv, RequestInv, FreshInv
<1>5. QED
  BY <1>1, <1>2, <1>3, <1>4, GoldParts, ApplicationAssumption DEF GoldInv

(* A step of the analytics that begins or goes on with a request.           *)
LEMMA GoldRequests ==
  ASSUME ApplicationInv, GoldInv, NEW r \in Refreshers,
         BeginRefresh(r) \/ RecheckExact(r) \/ LoseRefreshLock(r) \/ BeginPublishExact(r)
  PROVE  GoldInv'
<1> USE DEF applied, tables, gold
<1>1. UNCHANGED <<states, head, gold>> /\ ApplicationTypeOK'
  BY GoldTypes DEF BeginRefresh, RecheckExact, LoseRefreshLock, BeginPublishExact, workers, ApplicationTypeOK
<1>2. Tables' /\ RunInv' /\ ApprovalInv' /\ FreshInv' /\ Len(states') <= MaxStates
  BY <1>1, GoldTypes DEF Tables, GoldRows, GoldInv, RunInv, ApprovalInv, FreshInv
<1>3. CASE BeginRefresh(r)
  <2>1. Requests'
    BY <1>1, <1>3, GoldTypes DEF BeginRefresh, RefreshLock, To, Requests
  <2>2. RequestInv'
    BY <1>1, <1>3, GoldTypes DEF BeginRefresh, RefreshLock, To, Requests, GoldInv, RequestInv
  <2>3. QED
    BY <1>1, <1>2, <2>1, <2>2, GoldParts DEF GoldInv
<1>4. CASE RecheckExact(r)
  <2>1. Requests'
    BY <1>1, <1>4, GoldTypes DEF RecheckExact, To, Requests
  <2>2. RequestInv'
    BY <1>1, <1>4, GoldTypes DEF RecheckExact, To, Requests, GoldInv, RequestInv
  <2>3. QED
    BY <1>1, <1>2, <2>1, <2>2, GoldParts DEF GoldInv
<1>5. CASE LoseRefreshLock(r)
  <2>1. Requests'
    BY <1>1, <1>5, GoldTypes DEF LoseRefreshLock, Requests
  <2>2. RequestInv'
    BY <1>1, <1>5, GoldTypes DEF LoseRefreshLock, GoldInv, RequestInv
  <2>3. QED
    BY <1>1, <1>2, <2>1, <2>2, GoldParts DEF GoldInv
<1>6. CASE BeginPublishExact(r)
  <2>1. PICK i \in DOMAIN goldRuns : /\ goldRuns[i].source = head
                                     /\ source' = [source EXCEPT ![r] = head]
                                     /\ run' = [run EXCEPT ![r] = i]
                                     /\ hand' = [hand EXCEPT ![r] = goldRuns[i].pin]
    BY <1>6 DEF BeginPublishExact, LoadPins, RunOf
  <2>2. goldRuns[i].pin \in 0 .. Len(builds)
    BY <2>1, GoldTypes DEF GoldRows
  <2>3. Requests'
    BY <1>1, <1>6, <2>1, <2>2, GoldTypes DEF BeginPublishExact, RefreshLock, To, Requests
  <2>4. RequestInv'
    BY <1>1, <1>6, <2>1, GoldTypes DEF BeginPublishExact, RefreshLock, To, Requests, GoldInv, RequestInv
  <2>5. QED
    BY <1>1, <1>2, <2>3, <2>4, GoldParts DEF GoldInv
<1>7. QED
  BY <1>3, <1>4, <1>5, <1>6

(* A step of the analytics that ends a request, or fails it.                *)
LEMMA GoldEnds ==
  ASSUME ApplicationInv, GoldInv, NEW r \in Refreshers,
         ReuseRun(r) \/ SourceMoved(r) \/ CrashRefresh(r) \/ RefuseExactGold(r)
  PROVE  GoldInv'
<1> USE DEF applied, tables, gold
<1>1. /\ UNCHANGED <<states, head, goldRuns, builds, approvals>> /\ End(r)
      /\ ApplicationTypeOK'
  BY GoldTypes DEF ReuseRun, SourceMoved, CrashRefresh, RefuseExactGold, workers, ApplicationTypeOK
<1>2. RunsKept /\ Len(goldRuns') \in Nat /\ Len(goldRuns) <= Len(goldRuns')
  BY <1>1, GoldTypes DEF RunsKept
<1>3. Requests' /\ RequestInv'
  BY <1>1, <1>2, Ended
<1>4. Tables' /\ FreshInv'
  <2>1. CASE ReuseRun(r)
    <3>1. PICK i \in DOMAIN goldRuns : /\ goldRuns[i].source = head /\ goldRuns[i].status = "SUCCESS"
                                       /\ pointer' = i /\ freshness' = "FRESH"
      BY <2>1 DEF ReuseRun, RunOf
    <3>2. QED
      BY <1>1, <3>1, GoldTypes DEF Tables, GoldRows, FreshInv
  <2>2. CASE UNCHANGED <<pointer, freshness>>
    BY <1>1, <2>2, GoldTypes DEF Tables, GoldRows, GoldInv, FreshInv
  <2>3. QED
    BY <2>1, <2>2 DEF SourceMoved, CrashRefresh, RefuseExactGold
<1>5. RunInv' /\ ApprovalInv' /\ Len(states') <= MaxStates
  BY <1>1 DEF GoldInv, RunInv, ApprovalInv
<1>6. QED
  BY <1>1, <1>3, <1>4, <1>5, GoldParts DEF GoldInv

RunsExtended ==
    /\ goldRuns' \in Seq(GoldRows') /\ builds' \in Seq(DOMAIN goldRuns')
    /\ Len(goldRuns') \in Nat /\ Len(goldRuns) <= Len(goldRuns') /\ DOMAIN goldRuns' = 1 .. Len(goldRuns')
    /\ RunsKept /\ RunInv'

LEMMA GoldOpens ==
  ASSUME ApplicationInv, GoldInv, NEW r \in Refreshers, OpenRun(r)
  PROVE  GoldInv'
<1> USE DEF applied, tables
<1> DEFINE s == source[r]
           row == [source |-> s, build |-> 1, status |-> "REFRESHING", scale |-> approvals[s], pin |-> 0]
<1>1. /\ UNCHANGED <<states, head, pointer, approvals, builds, source, hand, refreshing>>
      /\ freshness' = "REFRESHING" /\ place' = [place EXCEPT ![r] = "building"]
      /\ ApplicationTypeOK'
  BY GoldTypes DEF OpenRun, To, workers, ApplicationTypeOK
<1>2. s \in DOMAIN states /\ states[s].version = 1 /\ s = head
  BY DEF OpenRun, GoldInv, RequestInv
<1>3. RunsExtended /\ \E i \in DOMAIN goldRuns' : run' = [run EXCEPT ![r] = i] /\ goldRuns'[i].source = s
  <2>1. ASSUME NEW i \in DOMAIN goldRuns, goldRuns[i].source = s,
               goldRuns' = Reopened(i), run' = [run EXCEPT ![r] = i]
        PROVE  RunsExtended /\ \E j \in DOMAIN goldRuns' : run' = [run EXCEPT ![r] = j] /\ goldRuns'[j].source = s
    <3>1. goldRuns[i] \in GoldRows
      BY GoldTypes
    <3>2. PICK new \in GoldRows : new = [goldRuns[i] EXCEPT !.status = "REFRESHING"]
      BY <3>1 DEF GoldRows
    <3>3. goldRuns' = [goldRuns EXCEPT ![i] = new] /\ new.source = goldRuns[i].source /\ new.build = goldRuns[i].build
      BY <2>1, <3>1, <3>2 DEF Reopened, GoldRows
    <3>4. /\ goldRuns' \in Seq(GoldRows') /\ Len(goldRuns') = Len(goldRuns)
          /\ builds' \in Seq(DOMAIN goldRuns') /\ RunsKept /\ RunInv'
      BY <1>1, <3>3, RunChanged
    <3>5. DOMAIN goldRuns' = 1 .. Len(goldRuns')
      BY <3>4, LenProperties
    <3>6. RunsExtended
      BY <3>4, <3>5, GoldTypes DEF RunsExtended
    <3>7. i \in DOMAIN goldRuns' /\ goldRuns'[i].source = s
      BY <2>1, <3>4 DEF RunsKept
    <3>8. QED
      BY <2>1, <3>6, <3>7
  <2>2. ASSUME goldRuns' = Append(goldRuns, row), run' = [run EXCEPT ![r] = Len(goldRuns) + 1]
        PROVE  RunsExtended /\ \E j \in DOMAIN goldRuns' : run' = [run EXCEPT ![r] = j] /\ goldRuns'[j].source = s
    <3>1. row \in GoldRows /\ row.source = s /\ row.build = 1
      <4>1. s \in 1 .. MaxStates
        BY <1>2, GoldTypes, ApplicationAssumption DEF GoldInv
      <4>2. approvals[s] \in {0} \cup Scales
        BY <4>1, GoldTypes DEF Tables
      <4>3. QED
        BY <1>2, <4>2, GoldTypes DEF GoldRows
    <3> HIDE DEF row
    <3>2. /\ goldRuns' \in Seq(GoldRows') /\ Len(goldRuns') = Len(goldRuns) + 1
          /\ builds' \in Seq(DOMAIN goldRuns') /\ RunsKept /\ RunInv'
          /\ goldRuns'[Len(goldRuns) + 1] = row
      BY <1>1, <1>2, <2>2, <3>1, RunAdded
    <3>3. DOMAIN goldRuns' = 1 .. Len(goldRuns')
      BY <3>2, LenProperties
    <3>4. Len(goldRuns) + 1 \in DOMAIN goldRuns'
      BY <3>2, <3>3, GoldTypes
    <3>5. RunsExtended
      BY <3>2, <3>3, GoldTypes DEF RunsExtended
    <3>6. QED
      BY <2>2, <3>1, <3>2, <3>4, <3>5
  <2>3. QED
    BY <1>2, <2>1, <2>2 DEF OpenRun, RunOf, NewRun
<1>4. Tables'
  BY <1>1, <1>3, GoldTypes DEF Tables, RunsExtended
<1>5. PICK i \in DOMAIN goldRuns' : run' = [run EXCEPT ![r] = i] /\ goldRuns'[i].source = s
  BY <1>3
<1>6. Requests'
  BY <1>1, <1>3, <1>5, GoldTypes DEF Requests, RunsExtended
<1>7. RequestInv'
  BY <1>1, <1>2, <1>3, <1>5, GoldTypes DEF Requests, RunsExtended, RunsKept, GoldInv, RequestInv
<1>8. FreshInv' /\ ApprovalInv' /\ Len(states') <= MaxStates
  BY <1>1 DEF FreshInv, GoldInv, ApprovalInv
<1>9. QED
  BY <1>1, <1>3, <1>4, <1>6, <1>7, <1>8, GoldParts DEF GoldInv, RunsExtended

(* Only a request that works on it moves a run, and not from SUCCESS.       *)
LEMMA GoldSettles ==
  ASSUME ApplicationInv, GoldInv, NEW r \in Refreshers, PublishRun(r) \/ RefreshFails(r) \/ PublishExact(r)
  PROVE  GoldInv'
<1> USE DEF applied, tables
<1> DEFINE i == run[r]
<1>1. UNCHANGED <<states, head, approvals, builds>> /\ ApplicationTypeOK'
  BY GoldTypes DEF PublishRun, RefreshFails, PublishExact, workers, ApplicationTypeOK
<1>2. i \in DOMAIN goldRuns /\ goldRuns[i].source = source[r]
  BY DEF PublishRun, RefreshFails, PublishExact, GoldInv, RequestInv
<1>3. goldRuns[i] \in GoldRows
  BY <1>2, GoldTypes
<1> DEFINE Settled == /\ \A j \in DOMAIN goldRuns : j # i => goldRuns'[j] = goldRuns[j]
                      /\ goldRuns[i].status = "SUCCESS" => goldRuns'[i].status = "SUCCESS"
<1>4. RunsExtended /\ Len(goldRuns') = Len(goldRuns) /\ Settled
  <2>1. ASSUME NEW status \in {"SUCCESS", "FAILED"}, goldRuns' = [goldRuns EXCEPT ![i].status = status],
               status = "FAILED" => goldRuns[i].status # "SUCCESS"
        PROVE  RunsExtended /\ Len(goldRuns') = Len(goldRuns) /\ Settled
    <3>1. PICK new \in GoldRows : new = [goldRuns[i] EXCEPT !.status = status]
      BY <1>3 DEF GoldRows
    <3>2. /\ goldRuns' = [goldRuns EXCEPT ![i] = new]
          /\ new.source = goldRuns[i].source /\ new.build = goldRuns[i].build /\ new.status = status
      BY <1>2, <1>3, <2>1, <3>1 DEF GoldRows
    <3>3. /\ goldRuns' \in Seq(GoldRows') /\ Len(goldRuns') = Len(goldRuns)
          /\ builds' \in Seq(DOMAIN goldRuns') /\ RunsKept /\ RunInv'
      BY <1>1, <1>2, <3>2, RunChanged
    <3>4. DOMAIN goldRuns' = 1 .. Len(goldRuns')
      BY <3>3, LenProperties
    <3>5. goldRuns'[i] = new /\ \A j \in DOMAIN goldRuns : j # i => goldRuns'[j] = goldRuns[j]
      BY <1>2, <3>2
    <3>6. Settled
      BY <2>1, <3>2, <3>5
    <3>7. QED
      BY <3>3, <3>4, <3>6, GoldTypes DEF RunsExtended
  <2>2. ASSUME goldRuns' = goldRuns
        PROVE  RunsExtended /\ Len(goldRuns') = Len(goldRuns) /\ Settled
    <3>1. GoldRows' = GoldRows
      BY <1>1 DEF GoldRows
    <3>2. RunInv'
      BY <1>1, <2>2 DEF GoldInv, RunInv
    <3>3. QED
      BY <1>1, <2>2, <3>1, <3>2, GoldTypes DEF Tables, RunsExtended, RunsKept
  <2>3. QED
    BY <2>1, <2>2 DEF PublishRun, RefreshFails, PublishExact, Regressible
<1>5. CASE PublishRun(r)
  <2>1. goldRuns'[i].status = "SUCCESS"
    BY <1>2, <1>3, <1>5 DEF PublishRun, GoldRows
  <2>2. \/ pointer' = i /\ freshness' = "FRESH" /\ goldRuns[i].source = head
        \/ UNCHANGED <<pointer, freshness>>
    BY <1>5 DEF PublishRun, Current
  <2>3. FreshInv' /\ pointer' \in 0 .. Len(goldRuns') /\ freshness' \in {"FRESH", freshness}
    <3>1. CASE pointer' = i /\ freshness' = "FRESH" /\ goldRuns[i].source = head
      BY <1>1, <1>2, <1>4, <2>1, <3>1, GoldTypes DEF FreshInv, RunsExtended, RunsKept
    <3>2. CASE UNCHANGED <<pointer, freshness>>
      BY <1>1, <1>2, <1>4, <3>2, GoldTypes DEF Tables, GoldInv, FreshInv, RunsExtended, RunsKept
    <3>3. QED
      BY <2>2, <3>1, <3>2
  <2>4. Tables'
    BY <1>1, <1>4, <2>3, GoldTypes DEF Tables, RunsExtended
  <2>5. Requests' /\ RequestInv'
    <3>1. CASE End(r)
      BY <1>1, <1>4, <3>1, GoldTypes, Ended DEF RunsExtended
    <3>2. CASE To(r, "published") /\ UNCHANGED <<source, run, hand, refreshing>>
      BY <1>1, <1>2, <1>4, <3>2, GoldTypes DEF To, Requests, GoldInv, RequestInv, RunsExtended, RunsKept
    <3>3. QED
      BY <1>5, <3>1, <3>2 DEF PublishRun
  <2>6. QED
    BY <1>1, <1>4, <2>3, <2>4, <2>5, GoldParts DEF GoldInv, ApprovalInv, RunsExtended
<1>6. CASE RefreshFails(r)
  <2>1. freshness' \in {"FAILED", freshness} /\ pointer' = pointer
    BY <1>6 DEF RefreshFails
  <2>2. FreshInv'
    BY <1>1, <1>2, <1>4, <2>1, GoldTypes DEF GoldInv, FreshInv, RunsExtended, RunsKept
  <2>3. Tables'
    BY <1>1, <1>4, <2>1, GoldTypes DEF Tables, RunsExtended
  <2>4. Requests' /\ RequestInv'
    BY <1>1, <1>4, <1>6, GoldTypes, Ended DEF RefreshFails, RunsExtended
  <2>5. QED
    BY <1>1, <1>4, <2>2, <2>3, <2>4, GoldParts DEF GoldInv, ApprovalInv, RunsExtended
<1>7. CASE PublishExact(r)
  <2>1. goldRuns'[i].status = "SUCCESS"
    BY <1>2, <1>3, <1>7 DEF PublishExact, GoldRows
  <2>2. pointer' = i /\ freshness' = "FRESH" /\ goldRuns[i].source = head /\ End(r)
    BY <1>2, <1>7 DEF PublishExact
  <2>3. FreshInv' /\ pointer' \in 0 .. Len(goldRuns')
    BY <1>1, <1>2, <1>4, <2>1, <2>2, GoldTypes DEF FreshInv, RunsExtended, RunsKept
  <2>4. Tables'
    BY <1>1, <1>4, <2>2, <2>3, GoldTypes DEF Tables, RunsExtended
  <2>5. Requests' /\ RequestInv'
    BY <1>1, <1>4, <2>2, GoldTypes, Ended DEF RunsExtended
  <2>6. QED
    BY <1>1, <1>4, <2>3, <2>4, <2>5, GoldParts DEF GoldInv, ApprovalInv, RunsExtended
<1>8. QED
  BY <1>5, <1>6, <1>7

LEMMA GoldExact ==
  ASSUME ApplicationInv, GoldInv, NEW r \in Refreshers, PrepareExact(r) \/ PinExact(r)
  PROVE  GoldInv'
<1> USE DEF applied, tables
<1>1. UNCHANGED <<states, head, pointer, freshness, approvals>> /\ ApplicationTypeOK'
  BY GoldTypes DEF PrepareExact, PinExact, workers, ApplicationTypeOK
<1>2. ApprovalInv' /\ Len(states') <= MaxStates
  BY <1>1 DEF GoldInv, ApprovalInv
<1>3. CASE PrepareExact(r)
  <2>1. PICK i \in DOMAIN goldRuns : /\ goldRuns[i].source = head
                                     /\ source' = [source EXCEPT ![r] = head]
                                     /\ run' = [run EXCEPT ![r] = i]
                                     /\ builds' = Append(builds, i)
                                     /\ hand' = [hand EXCEPT ![r] = Len(builds) + 1]
    BY <1>3 DEF PrepareExact, LoadPins, RunOf
  <2>2. place' = [place EXCEPT ![r] = "preparing"] /\ UNCHANGED <<goldRuns, refreshing>>
    BY <1>3 DEF PrepareExact, To
  <2>3. builds' \in Seq(DOMAIN goldRuns) /\ Len(builds') = Len(builds) + 1
    BY <2>1, GoldTypes, AppendProperties DEF Tables
  <2>4. goldRuns' \in Seq(GoldRows')
    <3>1. GoldRows \subseteq GoldRows'
      BY <1>1, <2>3, GoldTypes DEF GoldRows
    <3>2. QED
      BY <2>2, <3>1, GoldTypes, SeqMonotonic DEF Tables
  <2>5. Tables'
    BY <1>1, <2>2, <2>3, <2>4, GoldTypes DEF Tables
  <2>6. Requests'
    BY <1>1, <2>1, <2>2, <2>3, GoldTypes DEF Requests
  <2>7. RunInv' /\ FreshInv'
    BY <1>1, <2>2 DEF GoldInv, RunInv, FreshInv
  <2>8. RequestInv'
    BY <1>1, <2>1, <2>2, GoldTypes DEF Requests, GoldInv, RequestInv
  <2>9. QED
    BY <1>1, <1>2, <2>5, <2>6, <2>7, <2>8, GoldParts DEF GoldInv
<1>4. CASE PinExact(r)
  <2> DEFINE i == run[r]
  <2>1. i \in DOMAIN goldRuns /\ End(r) /\ goldRuns[i].status = "REFRESHING" /\ builds' = builds
    BY <1>4 DEF PinExact, Pinnable, GoldInv, RequestInv
  <2>2. goldRuns[i] \in GoldRows /\ hand[r] \in 0 .. Len(builds)
    BY <2>1, GoldTypes DEF Requests
  <2>3. PICK new \in GoldRows : new = [goldRuns[i] EXCEPT !.pin = hand[r]]
    BY <2>2 DEF GoldRows
  <2>4. /\ goldRuns' = [goldRuns EXCEPT ![i] = new]
        /\ new.source = goldRuns[i].source /\ new.build = goldRuns[i].build /\ new.status = goldRuns[i].status
    BY <1>4, <2>2, <2>3 DEF PinExact, GoldRows
  <2>5. /\ goldRuns' \in Seq(GoldRows') /\ Len(goldRuns') = Len(goldRuns)
        /\ builds' \in Seq(DOMAIN goldRuns') /\ RunsKept /\ RunInv'
    BY <1>1, <2>1, <2>4, RunChanged
  <2>6. \A j \in DOMAIN goldRuns : goldRuns'[j].status = goldRuns[j].status
    BY <2>1, <2>4
  <2>7. FreshInv' /\ Tables'
    BY <1>1, <2>5, <2>6, GoldTypes DEF Tables, GoldInv, FreshInv, RunsKept
  <2>8. Requests' /\ RequestInv'
    BY <1>1, <2>1, <2>5, GoldTypes, Ended
  <2>9. QED
    BY <1>1, <1>2, <2>5, <2>7, <2>8, GoldParts DEF GoldInv
<1>5. QED
  BY <1>3, <1>4

LEMMA GoldOwner ==
  ASSUME ApplicationInv, GoldInv, InsertExactRun \/ \E scale \in Scales : Approve(scale)
  PROVE  GoldInv'
<1> USE DEF applied, tables
<1>1. UNCHANGED <<states, head, pointer, freshness, builds, refreshers>> /\ ApplicationTypeOK'
  BY GoldTypes DEF InsertExactRun, Approve, workers, ApplicationTypeOK
<1>2. head \in 1 .. MaxStates /\ head \in DOMAIN states
  BY GoldTypes, ApplicationAssumption DEF InsertExactRun, Approve, GoldInv
<1>3. ASSUME NEW scale \in Scales, Approve(scale)
      PROVE  GoldInv'
  <2>1. goldRuns' = goldRuns /\ approvals' = [approvals EXCEPT ![head] = scale] /\ states[head].version = 2
    BY <1>3 DEF Approve
  <2>2. Tables' /\ Requests'
    BY <1>1, <2>1, GoldTypes DEF Tables, GoldRows, Requests, refreshers
  <2>3. ApprovalInv'
    BY <1>1, <1>2, <2>1, GoldTypes DEF GoldInv, ApprovalInv, Tables
  <2>4. RunInv' /\ RequestInv' /\ FreshInv' /\ Len(states') <= MaxStates
    BY <1>1, <2>1 DEF GoldInv, RunInv, RequestInv, FreshInv, refreshers
  <2>5. QED
    BY <1>1, <2>2, <2>3, <2>4, GoldParts DEF GoldInv
<1>4. CASE InsertExactRun
  <2> DEFINE row == [source |-> head, build |-> 2, status |-> "REFRESHING", scale |-> approvals[head], pin |-> 0]
  <2>1. goldRuns' = Append(goldRuns, row) /\ approvals' = approvals /\ states[head].version = 2
    BY <1>2, <1>4 DEF InsertExactRun, NewRun, GoldInv, ApprovalInv
  <2>2. row \in GoldRows /\ row.build = states[row.source].version
    BY <1>2, <2>1, GoldTypes DEF Tables, GoldRows
  <2> HIDE DEF row
  <2>3. /\ goldRuns' \in Seq(GoldRows') /\ Len(goldRuns') = Len(goldRuns) + 1
        /\ builds' \in Seq(DOMAIN goldRuns') /\ RunsKept /\ RunInv'
        /\ \A i \in DOMAIN goldRuns : goldRuns'[i] = goldRuns[i]
    BY <1>1, <2>1, <2>2, RunAdded
  <2>4. Tables'
    BY <1>1, <2>1, <2>3, GoldTypes DEF Tables
  <2>5. Requests' /\ RequestInv'
    BY <1>1, <2>3, GoldTypes DEF Requests, refreshers, GoldInv, RequestInv, RunsKept
  <2>6. FreshInv' /\ ApprovalInv' /\ Len(states') <= MaxStates
    BY <1>1, <2>1, <2>3 DEF GoldInv, FreshInv, ApprovalInv, RunsKept
  <2>7. QED
    BY <1>1, <2>3, <2>4, <2>5, <2>6, GoldParts DEF GoldInv
<1>5. QED
  BY <1>3, <1>4

LEMMA GoldStep == ApplicationInv /\ GoldInv /\ [GoldNext]_vars => GoldInv'
<1> SUFFICES ASSUME ApplicationInv, GoldInv, [GoldNext]_vars
             PROVE  GoldInv'
  OBVIOUS
<1>1. [Next]_applied
  BY ApplicationPart
<1>2. ASSUME UNCHANGED goldVars, head' = head
      PROVE  GoldInv'
  BY <1>1, <1>2, GoldBeside DEF goldVars, gold
<1>3. ASSUME NEW w \in Workers, PublishState(w)
      PROVE  GoldInv'
  BY <1>1, <1>3, GoldBeside DEF PublishState
<1>4. ASSUME NEW w \in Workers,
             \/ \E u \in Uploads : Alone(BeginApply(w, u)) \/ Alone(BeginArchive(w, u))
             \/ Alone(StartApply(w)) \/ Alone(DeliveryManifest(w)) \/ Alone(ReadHead(w)) \/ Alone(Stage(w))
             \/ Alone(Archive(w)) \/ Alone(RequireActive(w))
             \/ Alone(ApplyFails(w)) \/ Alone(RefuseExact(w)) \/ Alone(CrashApply(w)) \/ Alone(LoseLock(w))
      PROVE  UNCHANGED goldVars /\ head' = head
  BY <1>4 DEF Alone, BeginApply, BeginArchive, StartApply, DeliveryManifest, ReadHead, Stage, Archive,
              RequireActive, ApplyFails, RefuseExact, CrashApply, LoseLock, tables
<1>5. ASSUME \/ \E strategy \in Strategies, expected \in 0 .. MaxPolicies : Alone(SavePolicy(strategy, expected))
             \/ \E u \in Uploads : Alone(DeclareSnapshot(u))
      PROVE  UNCHANGED goldVars /\ head' = head
  BY <1>5 DEF Alone, SavePolicy, DeclareSnapshot
<1>6. ASSUME NEW r \in Refreshers,
             \/ BeginRefresh(r) \/ ReuseRun(r) \/ OpenRun(r) \/ PublishRun(r) \/ RefreshFails(r)
             \/ SourceMoved(r) \/ CrashRefresh(r) \/ LoseRefreshLock(r)
             \/ PrepareExact(r) \/ RecheckExact(r) \/ PinExact(r) \/ RefuseExactGold(r)
             \/ BeginPublishExact(r) \/ PublishExact(r)
      PROVE  GoldInv'
  BY <1>6, GoldRequests, GoldEnds, GoldOpens, GoldSettles, GoldExact
<1>7. CASE UNCHANGED vars
  BY <1>2, <1>7 DEF vars, applicationVars, tables
<1>8. QED
  BY <1>2, <1>3, <1>4, <1>5, <1>6, <1>7, GoldOwner DEF GoldNext

LEMMA GoldAlways == GoldSpec => [](ApplicationInv /\ GoldInv)
BY ChainAlways, GoldStart, GoldStep, PTL DEF GoldSpec

(* Every reachable state of the analytics is well formed: a run belongs to  *)
(* a state that exists, and has the format of that state.                   *)
THEOREM GoldTypeCorrect == GoldSpec => [](GoldTypeOK /\ RunInv)
BY GoldAlways, PTL DEF GoldInv

(* FRESH analytics are those of the state that is the head now, however     *)
(* long a build took and whatever was published or failed meanwhile.        *)
THEOREM AnalyticsAreCurrent == GoldSpec => []FreshIsCurrent
<1>1. GoldInv => FreshIsCurrent
  BY DEF GoldInv, FreshInv, RunInv, FreshIsCurrent
<1>2. QED
  BY <1>1, GoldAlways, PTL

LEMMA GoldFinalStep ==
  ASSUME ApplicationInv, GoldInv, [GoldNext]_vars, NEW i \in DOMAIN goldRuns
  PROVE  /\ goldRuns[i].status = "SUCCESS" => goldRuns'[i] = goldRuns[i]
         /\ goldRuns[i].pin # 0 => goldRuns'[i].pin = goldRuns[i].pin
<1> DEFINE Final == /\ goldRuns[i].status = "SUCCESS" => goldRuns'[i] = goldRuns[i]
                    /\ goldRuns[i].pin # 0 => goldRuns'[i].pin = goldRuns[i].pin
<1>0. /\ \A j \in DOMAIN goldRuns : goldRuns[j] \in GoldRows
      /\ goldRuns \in Seq(GoldRows) /\ Len(goldRuns) \in Nat /\ DOMAIN goldRuns = 1 .. Len(goldRuns)
  BY GoldTypes DEF Tables
<1>1. ASSUME goldRuns' = goldRuns
      PROVE  Final
  BY <1>1
<1>2. ASSUME NEW j, NEW status, goldRuns' = [goldRuns EXCEPT ![j].status = status],
             goldRuns[j].status = "SUCCESS" => status = "SUCCESS"
      PROVE  Final
  BY <1>0, <1>2 DEF GoldRows
<1>3. ASSUME NEW row, goldRuns' = Append(goldRuns, row)
      PROVE  Final
  <2>1. goldRuns'[i] = goldRuns[i]
    BY <1>0, <1>3
  <2>2. QED
    BY <2>1
<1>4. ASSUME NEW r \in Refreshers, OpenRun(r)
      PROVE  Final
  <2>1. \/ \E j \in DOMAIN goldRuns : /\ goldRuns[j].status # "SUCCESS"
                                       /\ goldRuns' = [goldRuns EXCEPT ![j].status = "REFRESHING"]
        \/ goldRuns' = NewRun(head, 1)
    BY <1>4 DEF OpenRun, Reopened, RunOf
  <2>2. ASSUME NEW j \in DOMAIN goldRuns, goldRuns[j].status # "SUCCESS",
               goldRuns' = [goldRuns EXCEPT ![j].status = "REFRESHING"]
        PROVE  Final
    BY <1>2, <2>2
  <2>3. CASE goldRuns' = NewRun(head, 1)
    BY <1>3, <2>3 DEF NewRun
  <2>4. QED
    BY <2>1, <2>2, <2>3
<1>5. ASSUME NEW r \in Refreshers, PublishRun(r) \/ RefreshFails(r) \/ PublishExact(r)
      PROVE  Final
  BY <1>1, <1>2, <1>5 DEF PublishRun, RefreshFails, PublishExact, Regressible
<1>6. ASSUME NEW r \in Refreshers, PinExact(r)
      PROVE  Final
  BY <1>0, <1>6 DEF PinExact, Pinnable, GoldRows
<1>7. ASSUME InsertExactRun
      PROVE  Final
  BY <1>3, <1>7 DEF InsertExactRun, NewRun
<1>8. ASSUME NEW r \in Refreshers,
             \/ BeginRefresh(r) \/ ReuseRun(r) \/ SourceMoved(r) \/ CrashRefresh(r) \/ LoseRefreshLock(r)
             \/ PrepareExact(r) \/ RecheckExact(r) \/ RefuseExactGold(r) \/ BeginPublishExact(r)
      PROVE  goldRuns' = goldRuns
  BY <1>8 DEF BeginRefresh, ReuseRun, SourceMoved, CrashRefresh, LoseRefreshLock, PrepareExact, RecheckExact,
              RefuseExactGold, BeginPublishExact, gold
<1>9. ASSUME \/ \E w \in Workers : PublishState(w)
             \/ \E scale \in Scales : Approve(scale)
             \/ UNCHANGED goldVars \/ UNCHANGED vars
      PROVE  goldRuns' = goldRuns
  BY <1>9 DEF PublishState, Approve, vars, goldVars, gold
<1>10. QED
  BY <1>1, <1>4, <1>5, <1>6, <1>7, <1>8, <1>9 DEF GoldNext, Alone

(* Published Gold and pinned candidates are immutable: no failure, second   *)
(* refresh or second candidate changes them in any step.                    *)
THEOREM GoldIsFinal == GoldSpec => PublishedGoldIsFinal
<1>1. ApplicationInv /\ GoldInv /\ [GoldNext]_vars
        => [/\ \A i \in DOMAIN goldRuns : goldRuns[i].status = "SUCCESS" => goldRuns'[i] = goldRuns[i]
            /\ \A i \in DOMAIN goldRuns : goldRuns[i].pin # 0 => goldRuns'[i].pin = goldRuns[i].pin]_vars
  BY GoldFinalStep
<1>2. QED
  BY <1>1, GoldAlways, PTL DEF GoldSpec, PublishedGoldIsFinal

=============================================================================
