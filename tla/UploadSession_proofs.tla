------------------------- MODULE UploadSession_proofs -------------------------
(***************************************************************************)
(* Theorems about UploadSession, for every set of sessions, contents and    *)
(* names, any number of workers and any number of faults.                   *)
(***************************************************************************)
EXTENDS UploadSession, TLAPS

Completing == Transaction \cup {"cleanup", "failing"}
Uploading == {"create", "upload", "store", "stored"}

SessionJobs == [kind : {"SESSION"}, session : Sessions, content : Contents, name : Names]
DirectJobs == [kind : {"DIRECT"}, content : Contents, name : Names]

TypeInv ==
    /\ client \in [Sessions -> [content : Contents, name : Names]]
    /\ session \in [Sessions -> [status : {"INITIATED", "FAILED", "UPLOADED"}, completed : BOOLEAN,
                                 result : {"NONE", "NEW", "DUPLICATE"}]]
    /\ staging \subseteq Sessions /\ raw \subseteq Contents \X Names
    /\ files \in [Contents -> [status : {"NONE", "UPLOADING", "UPLOADED", "FAILED"},
                               path : {"NONE"} \cup Names, creator : {"NONE", "DIRECT"} \cup Sessions]]
    /\ at \in [Workers -> {"idle"} \cup Completing \cup Uploading]
    /\ job \in [Workers -> {NoJob} \cup SessionJobs \cup DirectJobs]
    /\ \A w \in Workers : at[w] = "idle" <=> job[w] = NoJob
    /\ found \in [Workers -> BOOLEAN]

(* A worker completes the session it began with, as that was announced.     *)
JobInv == \A w \in Workers :
    /\ at[w] \in Completing => /\ job[w].kind = "SESSION"
                               /\ job[w].content = client[job[w].session].content
    /\ at[w] \in Uploading => job[w].kind = "DIRECT"

(* The row lock of a session has one holder, and the session is open.       *)
LockInv == \A w \in Workers : at[w] \in Transaction =>
    /\ ~session[job[w].session].completed
    /\ \A v \in Workers : at[v] \in Transaction /\ job[v].session = job[w].session => v = w

(* Bytes come before the row that names them.                               *)
BytesInv == \A w \in Workers : at[w] \in {"insert", "store"} => <<job[w].content, job[w].name>> \in raw

(* Who is about to report a new file, or reported one, made it.             *)
MadeBy(s) == Exists(client[s].content) /\ files[client[s].content].creator = s

NewInv ==
    /\ \A w \in Workers : at[w] = "finish" /\ ~found[w] => MadeBy(job[w].session)
    /\ \A s \in Sessions : session[s].result = "NEW" => MadeBy(s)

UploadInv == TypeInv /\ JobInv /\ LockInv /\ BytesInv /\ NewInv /\ UploadedHasObject

LEMMA JobTypes ==
  ASSUME TypeInv, JobInv, NEW w \in Workers
  PROVE  /\ at[w] \in Completing => /\ job[w] \in SessionJobs /\ job[w].session \in Sessions
                                    /\ job[w].content = client[job[w].session].content
         /\ at[w] \in Uploading => job[w] \in DirectJobs
         /\ at[w] \notin {"idle"} => job[w].content \in Contents /\ job[w].name \in Names
<1>1. job[w] \in {NoJob} \cup SessionJobs \cup DirectJobs
  BY DEF TypeInv
<1>2. NoJob.kind = "NONE" /\ (\A j \in SessionJobs : j.kind = "SESSION") /\ \A j \in DirectJobs : j.kind = "DIRECT"
  BY DEF NoJob, SessionJobs, DirectJobs
<1>3. at[w] \in Completing => job[w] \in SessionJobs
  BY <1>1, <1>2 DEF JobInv
<1>4. at[w] \in Uploading => job[w] \in DirectJobs
  BY <1>1, <1>2 DEF JobInv
<1>5. at[w] # "idle" => at[w] \in Completing \cup Uploading
  BY DEF TypeInv
<1>6. QED
  BY <1>3, <1>4, <1>5 DEF JobInv, SessionJobs, DirectJobs

LEMMA UploadInit == Init => UploadInv
BY DEF Init, UploadInv, TypeInv, Initiated, NoFile, JobInv, LockInv, BytesInv, NewInv,
       UploadedHasObject, Completing, Uploading, Transaction

(* Leaving frees a worker of everything the invariant says of it.           *)
LEMMA Left ==
  ASSUME TypeInv, NEW w \in Workers, Leave(w)
  PROVE  /\ at' = [at EXCEPT ![w] = "idle"] /\ job' = [job EXCEPT ![w] = NoJob]
         /\ job' \in [Workers -> {NoJob} \cup SessionJobs \cup DirectJobs]
         /\ at' \in [Workers -> {"idle"} \cup Completing \cup Uploading]
         /\ \A v \in Workers : at'[v] = "idle" <=> job'[v] = NoJob
         /\ found' \in [Workers -> BOOLEAN]
         /\ \A v \in Workers : at'[v] # "idle" =>
               v # w /\ at'[v] = at[v] /\ job'[v] = job[v] /\ found'[v] = found[v]
<1>1. /\ at \in [Workers -> {"idle"} \cup Completing \cup Uploading]
      /\ job \in [Workers -> {NoJob} \cup SessionJobs \cup DirectJobs]
      /\ found \in [Workers -> BOOLEAN]
      /\ \A v \in Workers : at[v] = "idle" <=> job[v] = NoJob
  BY DEF TypeInv
<1>2. QED
  BY <1>1 DEF Leave, Goto

LEMMA TypeImplies == TypeInv => UploadTypeOK
<1>1. {"idle", "cleanup", "failing", "create", "upload", "store", "stored"} \cup Transaction
        = {"idle"} \cup Completing \cup Uploading
  BY DEF Completing, Uploading
<1>2. QED
  BY <1>1 DEF TypeInv, UploadTypeOK

LEMMA MakerStays ==
  ASSUME TypeInv, client' = client,
         \A c \in Contents : Exists(c) => Exists(c)' /\ files'[c].creator = files[c].creator,
         NEW s \in Sessions, MadeBy(s)
  PROVE  MadeBy(s)'
BY DEF TypeInv, MadeBy

(* A worker that only goes from one place to the next.                      *)
LEMMA Moves ==
  ASSUME UploadInv, NEW w \in Workers, VerifyObject(w) \/ FindByHash(w) \/ PromoteObject(w) \/ UploadObject(w)
  PROVE  UploadInv'
<1> USE DEF stored, Goto
<1>1. TypeInv /\ JobInv
  BY DEF UploadInv
<1>2. /\ UNCHANGED <<client, session, staging, files, job>>
      /\ raw \subseteq raw' /\ raw' \subseteq raw \cup {<<job[w].content, job[w].name>>}
      /\ at[w] \in {"begun", "sized", "promote", "upload"}
      /\ \E place \in {"sized", "finish", "promote", "insert", "store"} : at' = [at EXCEPT ![w] = place]
      /\ at'[w] \in Transaction <=> at[w] \in Transaction
      /\ at'[w] \in Completing <=> at[w] \in Completing
      /\ at'[w] \in Uploading <=> at[w] \in Uploading
  BY <1>1 DEF VerifyObject, FindByHash, AfterFind, PromoteObject, UploadObject, TypeInv, Transaction, Completing,
              Uploading
<1>3. TypeInv'
  <2>1. raw' \subseteq Contents \X Names
    BY <1>1, <1>2, JobTypes DEF TypeInv
  <2>2. found' \in [Workers -> BOOLEAN]
    <3>1. Exists(job[w].content) \in BOOLEAN
      BY DEF Exists
    <3>2. found' = found \/ found' = [found EXCEPT ![w] = Exists(job[w].content)]
      BY DEF VerifyObject, FindByHash, PromoteObject, UploadObject
    <3>3. QED
      BY <1>1, <3>1, <3>2 DEF TypeInv
  <2>3. at' \in [Workers -> {"idle"} \cup Completing \cup Uploading] /\ at[w] # "idle" /\ at'[w] # "idle"
    BY <1>1, <1>2 DEF TypeInv, Completing, Uploading, Transaction
  <2>4. QED
    BY <1>1, <1>2, <2>1, <2>2, <2>3 DEF TypeInv
<1>4. JobInv' /\ LockInv'
  BY <1>1, <1>2 DEF UploadInv, TypeInv, JobInv, LockInv
<1>5. BytesInv'
  <2>1. at'[w] \in {"insert", "store"} => <<job[w].content, job[w].name>> \in raw'
    BY <1>1 DEF VerifyObject, FindByHash, AfterFind, PromoteObject, UploadObject, TypeInv
  <2>2. QED
    BY <1>1, <1>2, <2>1 DEF UploadInv, TypeInv, BytesInv
<1>6. NewInv'
  <2>1. at'[w] = "finish" => found'[w]
    BY <1>1 DEF VerifyObject, FindByHash, AfterFind, PromoteObject, UploadObject, TypeInv
  <2>2. \A v \in Workers : v # w => found'[v] = found[v] /\ at'[v] = at[v]
    BY <1>1, <1>2 DEF VerifyObject, FindByHash, PromoteObject, UploadObject, TypeInv
  <2>3. QED
    BY <1>2, <2>1, <2>2 DEF UploadInv, NewInv, MadeBy, Exists
<1>7. UploadedHasObject'
  BY <1>2 DEF UploadInv, UploadedHasObject
<1>8. QED
  BY <1>3, <1>4, <1>5, <1>6, <1>7 DEF UploadInv

(* A worker that ends: nothing is said of it any more.                      *)
LEMMA Ends ==
  ASSUME UploadInv, NEW w \in Workers, Leave(w), UNCHANGED <<client, raw>>, staging' \subseteq Sessions,
         \/ /\ UNCHANGED session
            /\ files' = files \/ \E c \in Contents : \E status \in {"UPLOADED", "FAILED"}, path \in {"NONE"} \cup Names :
                  /\ files' = [files EXCEPT ![c].status = status, ![c].path = path]
                  /\ status = "UPLOADED" => <<c, path>> \in raw
         \/ UNCHANGED files /\ \E s \in Sessions : session' = [session EXCEPT ![s].status = "FAILED"]
  PROVE  UploadInv'
<1>1. TypeInv /\ JobInv
  BY DEF UploadInv
<1>2. /\ files' \in [Contents -> [status : {"NONE", "UPLOADING", "UPLOADED", "FAILED"},
                                  path : {"NONE"} \cup Names, creator : {"NONE", "DIRECT"} \cup Sessions]]
      /\ \A c \in Contents : Exists(c) => Exists(c)' /\ files'[c].creator = files[c].creator
      /\ UploadedHasObject'
  <2>1. CASE files' = files
    BY <1>1, <2>1 DEF UploadInv, TypeInv, Exists, UploadedHasObject
  <2>2. ASSUME NEW c \in Contents, NEW status \in {"UPLOADED", "FAILED"}, NEW path \in {"NONE"} \cup Names,
               files' = [files EXCEPT ![c].status = status, ![c].path = path],
               status = "UPLOADED" => <<c, path>> \in raw
        PROVE  <1>2!1 /\ <1>2!2 /\ <1>2!3
    <3>1. /\ DOMAIN files' = Contents
          /\ \A d \in Contents : files'[d] = IF d = c THEN [files[c] EXCEPT !.status = status, !.path = path]
                                                      ELSE files[d]
      BY <1>1, <2>2 DEF TypeInv
    <3>2. /\ files'[c] \in [status : {"NONE", "UPLOADING", "UPLOADED", "FAILED"},
                            path : {"NONE"} \cup Names, creator : {"NONE", "DIRECT"} \cup Sessions]
          /\ files'[c].status = status /\ files'[c].path = path /\ files'[c].creator = files[c].creator
      <4>1. files[c] \in [status : {"NONE", "UPLOADING", "UPLOADED", "FAILED"},
                          path : {"NONE"} \cup Names, creator : {"NONE", "DIRECT"} \cup Sessions]
        BY <1>1 DEF TypeInv
      <4>2. files'[c] = [files[c] EXCEPT !.status = status, !.path = path]
        BY <3>1
      <4>3. QED
        BY <4>1, <4>2
    <3>3. <1>2!1
      <4>1. files' = [d \in Contents |-> files'[d]]
        BY <1>1, <2>2 DEF TypeInv
      <4>2. QED
        BY <1>1, <3>1, <3>2, <4>1 DEF TypeInv
    <3>4. <1>2!2
      BY <1>1, <2>2, <3>1, <3>2 DEF Exists
    <3>5. <1>2!3
      BY <1>1, <2>2, <3>1, <3>2 DEF UploadInv, UploadedHasObject
    <3>6. QED
      BY <3>3, <3>4, <3>5
  <2>3. QED
    BY <2>1, <2>2
<1>3. /\ session' \in [Sessions -> [status : {"INITIATED", "FAILED", "UPLOADED"}, completed : BOOLEAN,
                                    result : {"NONE", "NEW", "DUPLICATE"}]]
      /\ \A s \in Sessions : session'[s].completed = session[s].completed /\ session'[s].result = session[s].result
  <2>1. CASE session' = session
    BY <1>1, <2>1 DEF TypeInv
  <2>2. ASSUME NEW s \in Sessions, session' = [session EXCEPT ![s].status = "FAILED"]
        PROVE  <1>3!1 /\ <1>3!2
    BY <1>1, <2>2 DEF TypeInv
  <2>3. QED
    BY <2>1, <2>2
<1>4. TypeInv'
  BY <1>1, <1>2, <1>3, Left DEF TypeInv
<1>5. \A v \in Workers : at'[v] # "idle" => v # w /\ at'[v] = at[v] /\ job'[v] = job[v] /\ found'[v] = found[v]
  BY <1>1, Left
<1>6. JobInv' /\ BytesInv'
  BY <1>1, <1>5 DEF UploadInv, JobInv, BytesInv, Completing, Uploading, Transaction
<1>7. LockInv'
  BY <1>1, <1>3, <1>5, JobTypes DEF UploadInv, LockInv, Completing, Transaction
<1>8. NewInv'
  <2>1. ASSUME NEW s \in Sessions, MadeBy(s) PROVE MadeBy(s)'
    BY <1>1, <1>2, <2>1, MakerStays
  <2>2. ASSUME NEW v \in Workers, at'[v] = "finish", ~found'[v]
        PROVE  MadeBy(job[v].session)'
    <3>1. MadeBy(job[v].session) /\ job'[v] = job[v]
      BY <1>5, <2>2 DEF UploadInv, NewInv
    <3>2. job[v].session \in Sessions
      BY <1>1, <1>5, <2>2, JobTypes DEF Completing, Transaction
    <3>3. PICK s \in Sessions : s = job[v].session
      BY <3>2
    <3>4. QED
      BY <2>1, <3>1, <3>3 DEF MadeBy
  <2>3. ASSUME NEW s \in Sessions, session'[s].result = "NEW"
        PROVE  MadeBy(s)'
    BY <1>3, <2>1, <2>3 DEF UploadInv, NewInv
  <2>4. QED
    BY <2>2, <2>3 DEF NewInv
<1>9. QED
  BY <1>2, <1>4, <1>6, <1>7, <1>8 DEF UploadInv
LEMMA EndSteps ==
  ASSUME UploadInv, NEW w \in Workers, Leave(w),
         \/ CleanUp(w) \/ FailSession(w) \/ UploadFails(w) \/ StoreFile(w) \/ (CreateFile(w) /\ Exists(job[w].content))
         \/ Crash(w)
  PROVE  UploadInv'
<1> USE DEF stored
<1>0. TypeInv /\ JobInv
  BY DEF UploadInv
<1>1. UNCHANGED <<client, raw>> /\ staging' \subseteq Sessions
  BY <1>0 DEF CleanUp, FailSession, UploadFails, StoreFile, CreateFile, Crash, TypeInv
<1>2. CASE FailSession(w)
  <2>1. PICK s \in Sessions : s = job[w].session
    BY <1>0, <1>2, JobTypes DEF FailSession, Completing
  <2>2. \/ session' = session
        \/ session' = [session EXCEPT ![s].status = "FAILED"]
    BY <1>2, <2>1 DEF FailSession, FailedUnlessCompleted
  <2>3. UNCHANGED files
    BY <1>2 DEF FailSession
  <2>4. QED
    BY <1>1, <2>2, <2>3, Ends
<1>3. CASE UploadFails(w) \/ StoreFile(w)
  <2>1. /\ job[w].content \in Contents /\ job[w].name \in Names
        /\ at[w] = "store" => <<job[w].content, job[w].name>> \in raw
    BY <1>0, <1>3, JobTypes DEF UploadFails, StoreFile, Uploading, UploadInv, BytesInv
  <2>2. PICK c \in Contents, name \in Names : c = job[w].content /\ name = job[w].name
    BY <2>1
  <2>3. \E status \in {"UPLOADED", "FAILED"}, path \in {"NONE"} \cup Names :
           /\ files' = [files EXCEPT ![c].status = status, ![c].path = path]
           /\ status = "UPLOADED" => <<c, path>> \in raw
    <3>1. CASE UploadFails(w)
      <4>1. files' = [files EXCEPT ![c].status = "FAILED", ![c].path = "NONE"]
        BY <2>2, <3>1 DEF UploadFails
      <4>2. QED
        BY <4>1
    <3>2. CASE StoreFile(w)
      <4>1. files' = [files EXCEPT ![c].status = "UPLOADED", ![c].path = name] /\ <<c, name>> \in raw
        BY <2>1, <2>2, <3>2 DEF StoreFile
      <4>2. QED
        BY <4>1
    <3>3. QED
      BY <1>3, <3>1, <3>2
  <2>4. UNCHANGED session
    BY <1>3 DEF UploadFails, StoreFile
  <2>5. QED
    BY <1>1, <2>3, <2>4, Ends
<1>4. CASE CleanUp(w) \/ (CreateFile(w) /\ Exists(job[w].content)) \/ Crash(w)
  <2>1. UNCHANGED <<session, files>>
    BY <1>4 DEF CleanUp, CreateFile, Crash
  <2>2. QED
    BY <1>1, <2>1, Ends
<1>5. QED
  BY <1>2, <1>3, <1>4

LEMMA Begins ==
  ASSUME UploadInv, NEW w \in Workers, NEW s \in Sessions, BeginComplete(w, s)
  PROVE  UploadInv'
<1> DEFINE new == [kind |-> "SESSION", session |-> s, content |-> client[s].content, name |-> client[s].name]
<1>0. TypeInv /\ JobInv
  BY DEF UploadInv
<1>1. /\ at' = [at EXCEPT ![w] = "begun"] /\ job' = [job EXCEPT ![w] = new]
      /\ UNCHANGED <<client, session, staging, raw, files, found>>
      /\ at[w] = "idle" /\ RowFree(s) /\ ~session[s].completed
  BY DEF BeginComplete, Goto, stored
<1>2. new \in SessionJobs /\ new.kind = "SESSION" /\ new.session = s /\ new.content = client[s].content
      /\ new # NoJob
  BY <1>0 DEF TypeInv, SessionJobs, NoJob
<1> HIDE DEF new
<1>3. /\ at'[w] = "begun" /\ job'[w] = new
      /\ \A v \in Workers : v # w => at'[v] = at[v] /\ job'[v] = job[v]
  BY <1>0, <1>1 DEF TypeInv
<1>4. TypeInv'
  BY <1>0, <1>1, <1>2 DEF TypeInv, Completing, Transaction
<1>5. JobInv' /\ BytesInv'
  BY <1>1, <1>2, <1>3 DEF UploadInv, JobInv, BytesInv, Completing, Uploading, Transaction
<1>6. LockInv'
  <2>1. \A v \in Workers : at[v] \in Transaction => job[v].session # s
    BY <1>0, <1>1 DEF RowFree, Holds, JobInv, Completing
  <2>2. ASSUME NEW v \in Workers, at'[v] \in Transaction
        PROVE  /\ ~session[job'[v].session].completed
               /\ \A u \in Workers : at'[u] \in Transaction /\ job'[u].session = job'[v].session => u = v
    <3>1. CASE v = w
      BY <1>1, <1>2, <1>3, <2>1, <3>1
    <3>2. CASE v # w
      BY <1>1, <1>2, <1>3, <2>1, <2>2, <3>2 DEF UploadInv, LockInv
    <3>3. QED
      BY <3>1, <3>2
  <2>3. QED
    BY <1>1, <2>2 DEF LockInv
<1>7. NewInv' /\ UploadedHasObject'
  <2>1. \A v \in Workers : at'[v] = "finish" => at[v] = "finish" /\ job'[v] = job[v]
    BY <1>3
  <2>2. QED
    BY <1>1, <2>1 DEF UploadInv, NewInv, MadeBy, Exists, UploadedHasObject
<1>8. QED
  BY <1>4, <1>5, <1>6, <1>7 DEF UploadInv

LEMMA BeginsDirect ==
  ASSUME UploadInv, NEW w \in Workers, NEW c \in Contents, NEW name \in Names, BeginUpload(w, c, name)
  PROVE  UploadInv'
<1> DEFINE new == [kind |-> "DIRECT", content |-> c, name |-> name]
<1>0. TypeInv /\ JobInv
  BY DEF UploadInv
<1>1. /\ at' = [at EXCEPT ![w] = "create"] /\ job' = [job EXCEPT ![w] = new]
      /\ UNCHANGED <<client, session, staging, raw, files, found>>
      /\ at[w] = "idle"
  BY DEF BeginUpload, Goto, stored
<1>2. new \in DirectJobs /\ new.kind = "DIRECT" /\ new # NoJob
  BY DEF DirectJobs, NoJob
<1> HIDE DEF new
<1>3. /\ at'[w] = "create" /\ job'[w] = new
      /\ \A v \in Workers : v # w => at'[v] = at[v] /\ job'[v] = job[v]
  BY <1>0, <1>1 DEF TypeInv
<1>4. TypeInv'
  BY <1>0, <1>1, <1>2 DEF TypeInv, Uploading
<1>5. JobInv' /\ BytesInv'
  BY <1>1, <1>2, <1>3 DEF UploadInv, JobInv, BytesInv, Completing, Uploading, Transaction
<1>6. \A v \in Workers : at'[v] \in Transaction => at[v] \in Transaction /\ job'[v] = job[v] /\ at'[v] = at[v]
  BY <1>3 DEF Transaction
<1>7. LockInv'
  BY <1>1, <1>6 DEF UploadInv, LockInv
<1>8. NewInv' /\ UploadedHasObject'
  BY <1>1, <1>6 DEF UploadInv, NewInv, MadeBy, Exists, UploadedHasObject, Transaction
<1>9. QED
  BY <1>4, <1>5, <1>7, <1>8 DEF UploadInv
(* Rows are inserted for bytes that are there, by their first claimant.     *)
LEMMA Inserts ==
  ASSUME UploadInv, NEW w \in Workers, InsertFile(w)
  PROVE  UploadInv'
<1>0. TypeInv /\ JobInv
  BY DEF UploadInv
<1>1. PICK c \in Contents, name \in Names, s \in Sessions :
         /\ c = job[w].content /\ name = job[w].name /\ s = job[w].session /\ client[s].content = c
         /\ <<c, name>> \in raw /\ at[w] = "insert"
  BY <1>0, JobTypes DEF InsertFile, UploadInv, BytesInv, Completing, Transaction, SessionJobs
<1>2. /\ files' = IF Exists(c) THEN files
                  ELSE [files EXCEPT ![c] = [status |-> "UPLOADED", path |-> name, creator |-> s]]
      /\ found' = [found EXCEPT ![w] = Exists(c)]
      /\ at' = [at EXCEPT ![w] = "finish"]
      /\ UNCHANGED <<client, session, staging, raw, job>>
  BY <1>1 DEF InsertFile, LostInsert, Goto
<1>3. /\ files' \in [Contents -> [status : {"NONE", "UPLOADING", "UPLOADED", "FAILED"},
                                  path : {"NONE"} \cup Names, creator : {"NONE", "DIRECT"} \cup Sessions]]
      /\ \A d \in Contents : Exists(d) => files'[d] = files[d]
      /\ \A d \in Contents : d # c => files'[d] = files[d]
      /\ Exists(c) \/ files'[c] = [status |-> "UPLOADED", path |-> name, creator |-> s]
  BY <1>0, <1>2 DEF TypeInv, Exists
<1>4. TypeInv'
  BY <1>0, <1>1, <1>2, <1>3 DEF TypeInv, Completing, Transaction, Exists
<1>5. JobInv' /\ LockInv'
  BY <1>0, <1>1, <1>2 DEF UploadInv, TypeInv, JobInv, LockInv, Completing, Uploading, Transaction
<1>6. BytesInv' /\ UploadedHasObject'
  BY <1>0, <1>1, <1>2, <1>3 DEF UploadInv, TypeInv, BytesInv, UploadedHasObject
<1>7. NewInv'
  <2>1. ASSUME NEW t \in Sessions, MadeBy(t) PROVE MadeBy(t)'
    BY <1>0, <1>2, <1>3, <2>1 DEF TypeInv, MadeBy, Exists
  <2>2. ~Exists(c) => MadeBy(s)'
    BY <1>1, <1>2, <1>3 DEF MadeBy, Exists
  <2>3. ASSUME NEW v \in Workers, at'[v] = "finish", ~found'[v]
        PROVE  MadeBy(job[v].session)'
    <3>1. CASE v = w
      BY <1>0, <1>1, <1>2, <2>2, <2>3, <3>1 DEF TypeInv, MadeBy
    <3>2. CASE v # w
      <4>1. at[v] = "finish" /\ ~found[v] /\ job'[v] = job[v]
        BY <1>0, <1>2, <2>3, <3>2 DEF TypeInv
      <4>2. PICK t \in Sessions : t = job[v].session
        BY <1>0, <4>1, JobTypes DEF Completing, Transaction
      <4>3. MadeBy(t)'
        BY <2>1, <4>1, <4>2 DEF UploadInv, NewInv
      <4>4. QED
        BY <4>1, <4>2, <4>3 DEF MadeBy
    <3>3. QED
      BY <3>1, <3>2
  <2>4. QED
    BY <1>2, <2>1, <2>3 DEF UploadInv, NewInv
<1>8. QED
  BY <1>4, <1>5, <1>6, <1>7 DEF UploadInv

LEMMA Completes ==
  ASSUME UploadInv, NEW w \in Workers, CompleteSession(w)
  PROVE  UploadInv'
<1>0. TypeInv /\ JobInv
  BY DEF UploadInv
<1>1. PICK s \in Sessions : s = job[w].session /\ at[w] = "finish"
  BY <1>0, JobTypes DEF CompleteSession, Completing, Transaction
<1>2. /\ session' = [session EXCEPT ![s] = [status |-> "UPLOADED", completed |-> TRUE,
                                            result |-> IF found[w] THEN "DUPLICATE" ELSE "NEW"]]
      /\ UNCHANGED <<client, staging, raw, files>>
  BY <1>1 DEF CompleteSession, stored
<1>3. /\ session' \in [Sessions -> [status : {"INITIATED", "FAILED", "UPLOADED"}, completed : BOOLEAN,
                                    result : {"NONE", "NEW", "DUPLICATE"}]]
      /\ \A t \in Sessions : t # s => session'[t] = session[t]
      /\ session'[s].result = "NEW" => ~found[w]
  BY <1>0, <1>2 DEF TypeInv
<1>4. /\ at' \in [Workers -> {"idle"} \cup Completing \cup Uploading]
      /\ job' \in [Workers -> {NoJob} \cup SessionJobs \cup DirectJobs]
      /\ \A v \in Workers : at'[v] = "idle" <=> job'[v] = NoJob
      /\ found' \in [Workers -> BOOLEAN]
      /\ \A v \in Workers : at'[v] # "idle" =>
            /\ IF v = w THEN at'[v] = "cleanup" ELSE at'[v] = at[v]
            /\ job'[v] = job[v] /\ found'[v] = found[v]
  <2>1. CASE Leave(w)
    BY <1>0, <2>1, Left
  <2>2. CASE Goto(w, "cleanup") /\ UNCHANGED <<job, found>>
    BY <1>0, <1>1, <2>2 DEF TypeInv, Goto, Completing
  <2>3. QED
    BY <2>1, <2>2 DEF CompleteSession
<1>5. TypeInv'
  BY <1>0, <1>2, <1>3, <1>4 DEF TypeInv
<1>6. JobInv' /\ BytesInv' /\ UploadedHasObject'
  BY <1>0, <1>1, <1>2, <1>4
     DEF UploadInv, JobInv, BytesInv, UploadedHasObject, Completing, Uploading, Transaction
<1>7. \A v \in Workers : at'[v] \in Transaction =>
         /\ v # w /\ at[v] \in Transaction /\ at'[v] = at[v] /\ job'[v] = job[v] /\ found'[v] = found[v]
         /\ job[v].session # s
  BY <1>1, <1>4 DEF UploadInv, LockInv, Transaction
<1>8. LockInv'
  <2>1. \A v \in Workers : at'[v] \in Transaction => job[v].session \in Sessions
    BY <1>0, <1>7, JobTypes DEF Completing
  <2>2. QED
    BY <1>3, <1>7, <2>1 DEF UploadInv, LockInv
<1>9. NewInv'
  BY <1>1, <1>2, <1>3, <1>7 DEF UploadInv, NewInv, MadeBy, Exists, Transaction
<1>10. QED
  BY <1>5, <1>6, <1>8, <1>9 DEF UploadInv

LEMMA CompletionEnds ==
  ASSUME UploadInv, NEW w \in Workers, CompletionFails(w)
  PROVE  UploadInv'
<1>0. TypeInv /\ JobInv
  BY DEF UploadInv
<1>1. /\ at' = [at EXCEPT ![w] = "failing"] /\ at[w] \in Transaction
      /\ UNCHANGED <<client, session, staging, raw, files, job, found>>
  BY DEF CompletionFails, KeepStaging, Goto
<1>2. TypeInv' /\ JobInv'
  BY <1>0, <1>1 DEF TypeInv, JobInv, Completing, Uploading, Transaction
<1>3. \A v \in Workers : at'[v] \in Transaction \cup {"store"} => at'[v] = at[v]
  BY <1>0, <1>1 DEF TypeInv, Transaction
<1>4. LockInv' /\ BytesInv' /\ NewInv' /\ UploadedHasObject'
  BY <1>1, <1>3 DEF UploadInv, LockInv, BytesInv, NewInv, MadeBy, Exists, UploadedHasObject, Transaction
<1>5. QED
  BY <1>2, <1>4 DEF UploadInv

(* A direct upload that goes on after it wrote its row.                     *)
LEMMA DirectGoesOn ==
  ASSUME UploadInv, NEW w \in Workers, CreateFile(w) \/ StoreFile(w), ~Leave(w)
  PROVE  UploadInv'
<1>0. TypeInv /\ JobInv
  BY DEF UploadInv
<1>1. PICK c \in Contents, name \in Names :
         c = job[w].content /\ name = job[w].name /\ (at[w] = "store" => <<c, name>> \in raw)
  BY <1>0, JobTypes DEF CreateFile, StoreFile, Uploading, UploadInv, BytesInv
<1>2. /\ UNCHANGED <<client, session, staging, raw, job, found>>
      /\ at[w] \in {"create", "store"}
      /\ \E place \in {"upload", "stored"} : at' = [at EXCEPT ![w] = place]
  BY DEF CreateFile, StoreFile, Goto
<1>3. /\ files' \in [Contents -> [status : {"NONE", "UPLOADING", "UPLOADED", "FAILED"},
                                  path : {"NONE"} \cup Names, creator : {"NONE", "DIRECT"} \cup Sessions]]
      /\ \A d \in Contents : Exists(d) => Exists(d)' /\ files'[d].creator = files[d].creator
      /\ UploadedHasObject'
  <2>1. CASE CreateFile(w)
    <3>1. /\ ~Exists(c)
          /\ files' = [files EXCEPT ![c] = [status |-> "UPLOADING", path |-> "NONE", creator |-> "DIRECT"]]
      BY <1>1, <2>1 DEF CreateFile
    <3>2. QED
      BY <1>0, <1>2, <3>1 DEF TypeInv, UploadInv, Exists, UploadedHasObject
  <2>2. CASE StoreFile(w)
    <3>1. files' = [files EXCEPT ![c].status = "UPLOADED", ![c].path = name] /\ <<c, name>> \in raw
      BY <1>1, <2>2 DEF StoreFile
    <3>2. files[c] \in [status : {"NONE", "UPLOADING", "UPLOADED", "FAILED"},
                        path : {"NONE"} \cup Names, creator : {"NONE", "DIRECT"} \cup Sessions]
      BY <1>0 DEF TypeInv
    <3>3. PICK row : row = [files[c] EXCEPT !.status = "UPLOADED", !.path = name]
      OBVIOUS
    <3>4. /\ row \in [status : {"NONE", "UPLOADING", "UPLOADED", "FAILED"},
                      path : {"NONE"} \cup Names, creator : {"NONE", "DIRECT"} \cup Sessions]
          /\ row.status = "UPLOADED" /\ row.path = name /\ row.creator = files[c].creator
      BY <3>2, <3>3
    <3>5. files' = [files EXCEPT ![c] = row]
      BY <1>0, <3>1, <3>3 DEF TypeInv
    <3>6. <1>3!1
      BY <1>0, <3>4, <3>5 DEF TypeInv
    <3>7. <1>3!2
      BY <1>0, <3>4, <3>5 DEF TypeInv, Exists
    <3>8. <1>3!3
      BY <1>0, <1>2, <3>1, <3>4, <3>5 DEF TypeInv, UploadInv, UploadedHasObject
    <3>9. QED
      BY <3>6, <3>7, <3>8
  <2>3. QED
    BY <2>1, <2>2
<1>4. TypeInv'
  BY <1>0, <1>2, <1>3 DEF TypeInv, Uploading, Completing, Transaction
<1>5. JobInv'
  BY <1>0, <1>2 DEF TypeInv, JobInv, Completing, Uploading, Transaction
<1>6. \A v \in Workers : at'[v] \in Transaction \cup {"store"} => at'[v] = at[v]
  BY <1>0, <1>2 DEF TypeInv, Transaction
<1>7. LockInv' /\ BytesInv'
  BY <1>2, <1>6 DEF UploadInv, LockInv, BytesInv, Transaction
<1>8. NewInv'
  <2>1. ASSUME NEW s \in Sessions, MadeBy(s) PROVE MadeBy(s)'
    BY <1>0, <1>2, <1>3, <2>1, MakerStays
  <2>2. ASSUME NEW v \in Workers, at'[v] = "finish", ~found'[v]
        PROVE  MadeBy(job[v].session)'
    <3>1. MadeBy(job[v].session) /\ job'[v] = job[v] /\ at[v] = "finish"
      BY <1>2, <1>6, <2>2 DEF UploadInv, NewInv, Transaction
    <3>2. PICK s \in Sessions : s = job[v].session
      BY <1>0, <3>1, JobTypes DEF Completing, Transaction
    <3>3. QED
      BY <2>1, <3>1, <3>2 DEF MadeBy
  <2>3. QED
    BY <1>2, <2>1, <2>2 DEF UploadInv, NewInv
<1>9. QED
  BY <1>3, <1>4, <1>5, <1>7, <1>8 DEF UploadInv

LEMMA Puts ==
  ASSUME UploadInv, (\E s \in Sessions : PutObject(s)) \/ UNCHANGED vars
  PROVE  UploadInv'
<1>1. UNCHANGED <<client, session, raw, files, at, job, found>> /\ staging' \subseteq Sessions
  BY DEF UploadInv, TypeInv, PutObject, vars, stored, calls
<1>2. QED
  BY <1>1 DEF UploadInv, TypeInv, JobInv, LockInv, BytesInv, NewInv, MadeBy, Exists, UploadedHasObject

LEMMA UploadStep == UploadInv /\ [Next]_vars => UploadInv'
<1> SUFFICES ASSUME UploadInv, [Next]_vars PROVE UploadInv'
  OBVIOUS
<1>1. ASSUME NEW w \in Workers, CreateFile(w) \/ StoreFile(w)
      PROVE  UploadInv'
  <2>1. CASE Leave(w) /\ (StoreFile(w) \/ (CreateFile(w) /\ Exists(job[w].content)))
    BY <2>1, EndSteps
  <2>2. CASE ~Leave(w)
    BY <1>1, <2>2, DirectGoesOn
  <2>3. ASSUME Leave(w), CreateFile(w), ~Exists(job[w].content)
        PROVE  FALSE
    BY <2>3 DEF Leave, CreateFile, Goto, UploadInv, TypeInv
  <2>4. QED
    BY <1>1, <2>1, <2>2, <2>3
<1>2. ASSUME NEW w \in Workers, CleanUp(w) \/ FailSession(w) \/ UploadFails(w) \/ Crash(w)
      PROVE  UploadInv'
  BY <1>2, EndSteps DEF CleanUp, FailSession, UploadFails, Crash
<1>3. ASSUME NEW w \in Workers, Completion(w) \/ DirectUpload(w) \/ Crash(w)
      PROVE  UploadInv'
  BY <1>1, <1>2, <1>3, Moves, Inserts, Completes, CompletionEnds DEF Completion, DirectUpload
<1>4. QED
  BY <1>3, Begins, BeginsDirect, Puts DEF Next

LEMMA UploadAlways == Spec => []UploadInv
BY UploadInit, UploadStep, PTL DEF Spec

(* Every reachable state of the uploads is well formed.                     *)
THEOREM UploadTypeCorrect == Spec => []UploadTypeOK
BY UploadAlways, TypeImplies, PTL DEF UploadInv

(* A registered file is UPLOADED only with its bytes in the raw store,      *)
(* whoever wrote the row, raced for it or died in between.                  *)
THEOREM UploadedBytesExist == Spec => []UploadedHasObject
BY UploadAlways, PTL DEF UploadInv

(* An upload that was answered as new made the file, however many           *)
(* completions and direct uploads of the same bytes raced.                  *)
THEOREM NewIsTheCreator == Spec => []ReportedNewOnce
<1>1. UploadInv => ReportedNewOnce
  BY DEF UploadInv, NewInv, MadeBy, ReportedNewOnce
<1>2. QED
  BY <1>1, UploadAlways, PTL

(* A completed upload keeps its answer in every step.                       *)
THEOREM CompletedUploadStands == Spec => CompletionStands
<1>1. UploadInv /\ [Next]_vars => [\A s \in Sessions : session[s].completed => session'[s] = session[s]]_vars
  <2> SUFFICES ASSUME UploadInv, [Next]_vars, NEW s \in Sessions, session[s].completed
               PROVE  session'[s] = session[s]
    OBVIOUS
  <2>0. TypeInv /\ JobInv
    BY DEF UploadInv
  <2>1. ASSUME NEW w \in Workers, CompleteSession(w)
        PROVE  session'[s] = session[s]
    <3>1. job[w].session # s
      BY <2>1 DEF CompleteSession, UploadInv, LockInv, Transaction
    <3>2. QED
      BY <2>0, <2>1, <3>1 DEF CompleteSession, TypeInv
  <2>2. ASSUME NEW w \in Workers, FailSession(w)
        PROVE  session'[s] = session[s]
    BY <2>0, <2>2 DEF FailSession, FailedUnlessCompleted, TypeInv
  <2>3. ASSUME NEW w \in Workers,
               \/ VerifyObject(w) \/ FindByHash(w) \/ PromoteObject(w) \/ InsertFile(w)
               \/ CleanUp(w) \/ CompletionFails(w) \/ DirectUpload(w) \/ Crash(w)
        PROVE  session' = session
    BY <2>3 DEF VerifyObject, FindByHash, PromoteObject, InsertFile, CleanUp, CompletionFails, DirectUpload,
                CreateFile, UploadObject, StoreFile, UploadFails, Crash
  <2>4. ASSUME NEW w \in Workers, \/ \E t \in Sessions : BeginComplete(w, t)
                                  \/ \E c \in Contents, name \in Names : BeginUpload(w, c, name)
        PROVE  session' = session
    BY <2>4 DEF BeginComplete, BeginUpload
  <2>5. CASE (\E t \in Sessions : PutObject(t)) \/ UNCHANGED vars
    BY <2>5 DEF PutObject, vars
  <2>6. QED
    BY <2>1, <2>2, <2>3, <2>4, <2>5 DEF Next, Completion
<1>2. QED
  BY <1>1, UploadAlways, PTL DEF Spec, CompletionStands
=============================================================================
