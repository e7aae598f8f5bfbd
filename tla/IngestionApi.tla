---------------------------- MODULE IngestionApi ----------------------------
(* The document endpoints of apps/api/routes.py: upload, confirm and retry.   *)
(* A handler is a sequence of store calls.  upload_document is a coroutine    *)
(* that never awaits after it has read the body, so the uploads of one API    *)
(* process run one after the other; confirm and retry are plain functions     *)
(* that run on threads and interleave with everything.                        *)
EXTENDS DocumentStore

CONSTANTS Loop,     \* the API process whose event loop serves each upload
          Confirms, \* requests to POST /documents/{id}/confirm
          Retries,  \* requests to POST /documents/{id}/retry
          MaxApiFaults \* bound: store calls of the API that raise

VARIABLES upload,   \* program counter of each upload request
          req,      \* program counter and target of each confirm and retry
          apiFaults \* store calls of the API that have raised

apiVars == <<upload, req, apiFaults>>
Requests == Confirms \cup Retries

UploadPcs == {"idle", "put", "create", "audit", "enqueue", "done", "duplicate", "failed"}
UploadBusy == {"put", "create", "audit", "enqueue"}
RequestPcs == {"idle", "update", "enqueue", "progress", "audit", "done", "refused", "failed"}
RequestBusy == {"update", "enqueue", "progress", "audit"}

ApiTypeOK ==
  /\ upload \in [Docs -> UploadPcs]
  /\ req \in [Requests -> [pc: RequestPcs, doc: Docs]]
  /\ apiFaults \in Nat

ApiInit ==
  /\ upload = [d \in Docs |-> "idle"]
  /\ req \in [Requests -> [pc: {"idle"}, doc: Docs]]
  /\ apiFaults = 0

-----------------------------------------------------------------------------
(* POST /documents/upload, for a file that passed validation.                 *)

UploadTo(d, from, to) ==
  /\ upload[d] = from
  /\ upload' = [upload EXCEPT ![d] = to]
  /\ UNCHANGED <<req, apiFaults>>

LoopFree(d) == \A e \in Docs : Loop[e] = Loop[d] => upload[e] \notin UploadBusy

UploadFind(d) ==
  /\ LoopFree(d)
  /\ UploadTo(d, "idle", IF FindByHash(Content[d]) = {} THEN "put" ELSE "duplicate")
  /\ UNCHANGED storeVars

UploadPut(d) ==
  /\ UploadTo(d, "put", "create")
  /\ PutObject(d)
  /\ UNCHANGED <<docs, jobs, audit>>

\* Mutant of UploadCreate: the upload is not audited.
UploadCreateUnaudited(d) ==
  /\ UploadTo(d, "create", "enqueue")
  /\ Create(d)
  /\ UNCHANGED <<objects, jobs, audit>>

UploadCreate(d) ==
  /\ UploadTo(d, "create", "audit")
  /\ Create(d)
  /\ UNCHANGED <<objects, jobs, audit>>

\* Another API process inserted the same bytes first: the UNIQUE hash raises.
UploadConflict(d) ==
  /\ FindByHash(Content[d]) # {}
  /\ UploadTo(d, "create", "failed")
  /\ UNCHANGED storeVars

UploadAudit(d) ==
  /\ UploadTo(d, "audit", "enqueue")
  /\ AddAudit(d, "UPLOAD_RECEIVED")
  /\ UNCHANGED <<objects, docs, jobs>>

UploadEnqueue(d) ==
  /\ UploadTo(d, "enqueue", "done")
  /\ EnqueueJob(d)
  /\ UNCHANGED <<objects, docs, audit>>

-----------------------------------------------------------------------------
(* POST /documents/{id}/confirm and POST /documents/{id}/retry.               *)

RequestTo(r, from, to) ==
  /\ req[r].pc = from
  /\ req' = [req EXCEPT ![r].pc = to]
  /\ UNCHANGED <<upload, apiFaults>>

ConfirmGet(r) ==
  LET d == req[r].doc IN
  /\ r \in Confirms
  /\ RequestTo(r, "idle", IF Present(d) /\ ~docs[d].errors THEN "update" ELSE "refused")
  /\ UNCHANGED storeVars

\* Mutant of ConfirmUpdate: the confirmation is not audited.
ConfirmUpdateUnaudited(r) ==
  /\ RequestTo(r, "update", "done")
  /\ Confirm(req[r].doc)
  /\ UNCHANGED <<objects, jobs, audit>>

ConfirmUpdate(r) ==
  /\ RequestTo(r, "update", "audit")
  /\ Confirm(req[r].doc)
  /\ UNCHANGED <<objects, jobs, audit>>

ConfirmRefused(r) ==
  /\ ~CanConfirm(req[r].doc)
  /\ RequestTo(r, "update", "refused")
  /\ UNCHANGED storeVars

\* The last step of both handlers.
RequestAudit(r) ==
  /\ RequestTo(r, "audit", "done")
  /\ AddAudit(req[r].doc,
              IF r \in Confirms THEN "IMPORT_CONFIRMED" ELSE "INGESTION_RETRY_REQUESTED")
  /\ UNCHANGED <<objects, docs, jobs>>

RetryGet(r) ==
  /\ r \in Retries
  /\ RequestTo(r, "idle",
       IF docs[req[r].doc].status \in {"FAILED", "UPLOADED"} THEN "enqueue" ELSE "refused")
  /\ UNCHANGED storeVars

RetryEnqueue(r) ==
  /\ RequestTo(r, "enqueue", "progress")
  /\ EnqueueJob(req[r].doc)
  /\ UNCHANGED <<objects, docs, audit>>

RetryProgress(r) ==
  /\ RequestTo(r, "progress", "audit")
  /\ UpdateProgress(req[r].doc, "UPLOADED")
  /\ UNCHANGED <<objects, jobs, audit>>

-----------------------------------------------------------------------------
(* A store call that raises ends its handler with a 500.  The death of the    *)
(* API process is several of these: the API keeps no state of its own.        *)

ApiRaises ==
  /\ apiFaults < MaxApiFaults
  /\ apiFaults' = apiFaults + 1
  /\ \/ \E d \in Docs : /\ upload[d] \in UploadBusy
                        /\ upload' = [upload EXCEPT ![d] = "failed"]
                        /\ UNCHANGED req
     \/ \E r \in Requests : /\ req[r].pc \in RequestBusy
                            /\ req' = [req EXCEPT ![r].pc = "failed"]
                            /\ UNCHANGED upload
  /\ UNCHANGED storeVars

UploadStep(d) ==
  \/ UploadFind(d) \/ UploadPut(d) \/ UploadCreate(d)
  \/ UploadConflict(d) \/ UploadAudit(d) \/ UploadEnqueue(d)

RequestStep(r) ==
  \/ ConfirmGet(r) \/ ConfirmUpdate(r) \/ ConfirmRefused(r)
  \/ RetryGet(r) \/ RetryEnqueue(r) \/ RetryProgress(r)
  \/ RequestAudit(r)

ApiNext ==
  \/ \E d \in Docs : UploadStep(d)
  \/ \E r \in Requests : RequestStep(r)
  \/ ApiRaises
==============================================================================
