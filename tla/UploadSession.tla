---------------------------- MODULE UploadSession ----------------------------
(***************************************************************************)
(* Uploads: presigned sessions (upload_session_service) beside direct      *)
(* uploads (register_file), over one registry of physical files that is    *)
(* unique by content hash. A content stands for its hash; a raw object is  *)
(* named by hash and file name. finalize_presigned_upload has no caller in *)
(* the application.                                                        *)
(***************************************************************************)
EXTENDS Integers, FiniteSets

CONSTANTS
    Sessions, Workers, Contents, Names,
    MaxFaults           \* bound: storage or database errors, lost answers, crashes

ASSUME UploadAssumption == IsFiniteSet(Sessions) /\ IsFiniteSet(Workers) /\ MaxFaults \in Nat

VARIABLES
    client,             \* the content and the file name a session announced
    session,            \* upload_requests
    staging,            \* sessions whose staging object is there and is what they announced
    raw,                \* raw objects: <<hash, name>>
    files,              \* physical_files by hash
    at, job, found,     \* workers: place, request, and whether they met an existing row
    faults

stored == <<staging, raw, files>>
calls == <<at, job, found>>
vars == <<client, session, stored, calls, faults>>

Initiated == [status |-> "INITIATED", completed |-> FALSE, result |-> "NONE"]
NoFile == [status |-> "NONE", path |-> "NONE", creator |-> "NONE"]
NoJob == [kind |-> "NONE"]

Transaction == {"begun", "sized", "promote", "insert", "finish"}

Init ==
    /\ client \in [Sessions -> [content : Contents, name : Names]]
    /\ session = [s \in Sessions |-> Initiated]
    /\ staging = {} /\ raw = {}
    /\ files = [c \in Contents |-> NoFile]
    /\ at = [w \in Workers |-> "idle"]
    /\ job = [w \in Workers |-> NoJob]
    /\ found = [w \in Workers |-> FALSE]
    /\ faults = 0
-----------------------------------------------------------------------------
Exists(c) == files[c].status # "NONE"

(* The session whose row lock a worker holds.                               *)
Holds(w, s) == job[w].kind = "SESSION" /\ job[w].session = s /\ at[w] \in Transaction
RowFree(s) == \A w \in Workers : ~Holds(w, s)

Fault == faults < MaxFaults /\ faults' = faults + 1
Goto(w, place) == at' = [at EXCEPT ![w] = place]
Leave(w) ==
    /\ Goto(w, "idle")
    /\ job' = [job EXCEPT ![w] = NoJob]
    /\ found' = [found EXCEPT ![w] = FALSE]

(* The presigned URL lets its client write the object, and write it again;  *)
(* an object of another size, type or hash than announced counts as none.   *)
PutObject(s) ==
    /\ staging' = staging \cup {s}
    /\ UNCHANGED <<client, session, raw, files, calls, faults>>
-----------------------------------------------------------------------------
(* complete_upload_session: the row lock, then the answer of a completed    *)
(* session or the verification of an open one.                              *)
BeginComplete(w, s) ==
    /\ at[w] = "idle" /\ RowFree(s)
    /\ ~session[s].completed
    /\ Goto(w, "begun")
    /\ job' = [job EXCEPT ![w] = [kind |-> "SESSION", session |-> s,
                                  content |-> client[s].content, name |-> client[s].name]]
    /\ UNCHANGED <<client, session, stored, found, faults>>

Verified(w) == job[w].session \in staging

VerifyObject(w) ==
    /\ at[w] = "begun"
    /\ Verified(w)
    /\ Goto(w, "sized")
    /\ UNCHANGED <<client, session, stored, job, found, faults>>

(* Slip: the row is inserted before its object is there.                    *)
RegisterFirst(exists) == IF exists THEN "finish" ELSE "insert"

(* find_physical_file_by_hash: known content is reused, new one promoted.   *)
AfterFind(exists) == IF exists THEN "finish" ELSE "promote"

FindByHash(w) ==
    /\ at[w] = "sized"
    /\ found' = [found EXCEPT ![w] = Exists(job[w].content)]
    /\ Goto(w, AfterFind(Exists(job[w].content)))
    /\ UNCHANGED <<client, session, stored, job, faults>>

PromoteObject(w) ==
    /\ at[w] = "promote"
    /\ raw' = raw \cup {<<job[w].content, job[w].name>>}
    /\ Goto(w, "insert")
    /\ UNCHANGED <<client, session, staging, files, job, found, faults>>

(* Slip: whoever promoted an object reports a new file.                     *)
PromotedIsNew(w) == FALSE

(* "treat this request as a duplicate": the other insert won.               *)
LostInsert(w) == Exists(job[w].content)

(* create_uploaded_physical_file: ON CONFLICT (file_hash) DO NOTHING, in a  *)
(* transaction of its own.                                                  *)
InsertFile(w) ==
    LET c == job[w].content IN
    /\ at[w] = "insert"
    /\ files' = IF Exists(c) THEN files
                ELSE [files EXCEPT ![c] = [status |-> "UPLOADED", path |-> job[w].name,
                                           creator |-> job[w].session]]
    /\ found' = [found EXCEPT ![w] = LostInsert(w)]
    /\ Goto(w, "finish")
    /\ UNCHANGED <<client, session, staging, raw, job, faults>>

(* complete_session and the commit; its answer may be lost.                 *)
CompleteSession(w) ==
    LET s == job[w].session IN
    /\ at[w] = "finish"
    /\ session' = [session EXCEPT ![s] = [status |-> "UPLOADED", completed |-> TRUE,
                                          result |-> IF found[w] THEN "DUPLICATE" ELSE "NEW"]]
    /\ \/ Goto(w, "cleanup") /\ UNCHANGED <<job, found, faults>>
       \/ Fault /\ Leave(w)
    /\ UNCHANGED <<client, stored>>

(* The staging copy goes only now; a failure to delete it is ignored.       *)
CleanUp(w) ==
    /\ at[w] = "cleanup"
    /\ \/ staging' = staging \ {job[w].session} /\ UNCHANGED faults
       \/ UNCHANGED staging /\ Fault
    /\ Leave(w)
    /\ UNCHANGED <<client, session, raw, files>>

(* Slip: a failed verification discards the staged object.                  *)
DiscardStaging(s) == staging \ {s}

KeepStaging(s) == staging

(* Any exception: roll back, which frees the row.                           *)
CompletionFails(w) ==
    /\ job[w].kind = "SESSION" /\ at[w] \in Transaction
    /\ \/ at[w] = "begun" /\ ~Verified(w) /\ UNCHANGED faults
       \/ Fault
    /\ staging' = KeepStaging(job[w].session)
    /\ Goto(w, "failing")
    /\ UNCHANGED <<client, session, raw, files, job, found>>

(* Slip: the failure is recorded whatever happened since the rollback.      *)
FailedAnyway(s) == [session EXCEPT ![s].status = "FAILED"]

FailedUnlessCompleted(s) ==
    IF session[s].completed THEN session ELSE [session EXCEPT ![s].status = "FAILED"]

(* The second transaction.                                                  *)
FailSession(w) ==
    /\ at[w] = "failing"
    /\ RowFree(job[w].session)
    /\ session' = FailedUnlessCompleted(job[w].session)
    /\ Leave(w)
    /\ UNCHANGED <<client, stored, faults>>
-----------------------------------------------------------------------------
(* register_file: the content comes with the request.                       *)
BeginUpload(w, c, name) ==
    /\ at[w] = "idle"
    /\ ~Exists(c)
    /\ Goto(w, "create")
    /\ job' = [job EXCEPT ![w] = [kind |-> "DIRECT", content |-> c, name |-> name]]
    /\ UNCHANGED <<client, session, stored, found, faults>>

(* create_physical_file raises when the hash is there by now.               *)
CreateFile(w) ==
    LET c == job[w].content IN
    /\ at[w] = "create"
    /\ IF Exists(c)
       THEN Leave(w) /\ UNCHANGED files
       ELSE /\ files' = [files EXCEPT ![c] = [status |-> "UPLOADING", path |-> "NONE", creator |-> "DIRECT"]]
            /\ Goto(w, "upload") /\ UNCHANGED <<job, found>>
    /\ UNCHANGED <<client, session, staging, raw, faults>>

UploadObject(w) ==
    /\ at[w] = "upload"
    /\ raw' = raw \cup {<<job[w].content, job[w].name>>}
    /\ Goto(w, "store")
    /\ UNCHANGED <<client, session, staging, files, job, found, faults>>

(* update_physical_file_storage; its answer may be lost.                    *)
StoreFile(w) ==
    /\ at[w] = "store"
    /\ files' = [files EXCEPT ![job[w].content].status = "UPLOADED", ![job[w].content].path = job[w].name]
    /\ \/ Leave(w) /\ UNCHANGED faults
       \/ Goto(w, "stored") /\ Fault /\ UNCHANGED <<job, found>>
    /\ UNCHANGED <<client, session, staging, raw>>

UploadFails(w) ==
    /\ at[w] \in {"upload", "store", "stored"}
    /\ \/ at[w] = "stored" /\ UNCHANGED faults
       \/ Fault
    /\ files' = [files EXCEPT ![job[w].content].status = "FAILED", ![job[w].content].path = "NONE"]
    /\ Leave(w)
    /\ UNCHANGED <<client, session, staging, raw>>

(* Process death; the database rolls an open transaction back.              *)
Crash(w) == at[w] # "idle" /\ Fault /\ Leave(w) /\ UNCHANGED <<client, session, stored>>
-----------------------------------------------------------------------------
Completion(w) ==
    \/ VerifyObject(w) \/ FindByHash(w) \/ PromoteObject(w) \/ InsertFile(w)
    \/ CompleteSession(w) \/ CleanUp(w) \/ CompletionFails(w) \/ FailSession(w)

DirectUpload(w) == CreateFile(w) \/ UploadObject(w) \/ StoreFile(w) \/ UploadFails(w)

Next ==
    \/ \E s \in Sessions : PutObject(s)
    \/ \E w \in Workers :
        \/ Completion(w) \/ DirectUpload(w) \/ Crash(w)
        \/ \E s \in Sessions : BeginComplete(w, s)
        \/ \E c \in Contents, name \in Names : BeginUpload(w, c, name)

(* A running call goes on, and a client repeats the request for its upload  *)
(* ("retry the same upload_request_id"); nothing makes it send the object   *)
(* again.                                                                   *)
Fairness ==
    /\ \A w \in Workers : WF_vars(Completion(w) \/ DirectUpload(w))
    /\ \A s \in Sessions : SF_vars(\E w \in Workers : BeginComplete(w, s))

Spec == Init /\ [][Next]_vars
FairSpec == Spec /\ Fairness
-----------------------------------------------------------------------------
UploadTypeOK ==
    /\ session \in [Sessions -> [status : {"INITIATED", "FAILED", "UPLOADED"}, completed : BOOLEAN,
                                 result : {"NONE", "NEW", "DUPLICATE"}]]
    /\ staging \subseteq Sessions /\ raw \subseteq Contents \X Names
    /\ files \in [Contents -> [status : {"NONE", "UPLOADING", "UPLOADED", "FAILED"},
                               path : {"NONE"} \cup Names, creator : {"NONE", "DIRECT"} \cup Sessions]]
    /\ at \in [Workers -> {"idle", "cleanup", "failing", "create", "upload", "store", "stored"} \cup Transaction]
    /\ \A w \in Workers : at[w] = "idle" <=> job[w] = NoJob
    /\ found \in [Workers -> BOOLEAN]

(* A registered file is UPLOADED only with its bytes in the raw store,      *)
(* whichever of the racing uploads wrote the row and whoever died between.  *)
UploadedHasObject == \A c \in Contents : files[c].status = "UPLOADED" => <<c, files[c].path>> \in raw

(* "A concurrent completion for identical bytes may have won the insert     *)
(* race": an upload is reported as new only if it made the file.            *)
ReportedNewOnce ==
    \A s \in Sessions : session[s].result = "NEW" => files[client[s].content].creator = s

(* A completed upload stays completed with the answer it gave, also when    *)
(* the failure of an earlier attempt is recorded after it.                  *)
CompletionStands == [][\A s \in Sessions : session[s].completed => session'[s] = session[s]]_vars

(* "Staging survives all incomplete transactions": an object sent once, and *)
(* as announced, is enough: repeating the completion completes the upload,  *)
(* whatever failed before.                                                  *)
RetriedUploadCompletes == \A s \in Sessions : s \in staging ~> session[s].completed
=============================================================================
