---------------------------- MODULE DocumentStore ----------------------------
(* The tables of apps/api/storage.py that ingestion reads and writes: the     *)
(* object store, ingestion_documents, ingestion_jobs and audit_events.        *)
(*                                                                            *)
(* Every method of DocumentStore opens its own transaction, so each operator  *)
(* below is one atomic step on one table; the handlers of the API and of the  *)
(* worker are sequences of these steps and interleave between any two.        *)
(* A document is named by the id its upload request mints (uuid4).  Progress  *)
(* figures, messages, previews and record bodies are abstracted away; whether *)
(* errors_json is empty is kept, since confirmation depends on it.            *)
EXTENDS Naturals, Sequences

CONSTANTS Docs,     \* ids of documents, one for each upload request
          Content   \* sha256 of the bytes each upload request carries

VARIABLES objects,  \* the documents whose bytes are in the object store
          docs,     \* the rows of ingestion_documents
          jobs,     \* the rows of ingestion_jobs, by document (document_id is UNIQUE)
          audit     \* the audit trail of each document, in order of insertion

storeVars == <<objects, docs, jobs, audit>>

DocStatus == {"UPLOADED", "INGESTING", "PARSED", "CONFIRMED", "FAILED"}
JobStatus == {"QUEUED", "RUNNING", "RETRY", "COMPLETED", "FAILED"}
Events == {"UPLOAD_RECEIVED", "INGESTION_STARTED", "INGESTION_COMPLETED",
           "INGESTION_FAILED", "INGESTION_RETRY_SCHEDULED",
           "INGESTION_RETRY_EXHAUSTED", "INGESTION_RETRY_REQUESTED",
           "IMPORT_CONFIRMED"}

StoreTypeOK ==
  /\ objects \subseteq Docs
  /\ docs \in [Docs -> [status: DocStatus \cup {"ABSENT"}, errors: BOOLEAN]]
  /\ jobs \in [Docs -> [status: JobStatus \cup {"ABSENT"}, attempts: Nat]]
  /\ audit \in [Docs -> Seq(Events)]

StoreInit ==
  /\ objects = {}
  /\ docs = [d \in Docs |-> [status |-> "ABSENT", errors |-> FALSE]]
  /\ jobs = [d \in Docs |-> [status |-> "ABSENT", attempts |-> 0]]
  /\ audit = [d \in Docs |-> <<>>]

Present(d) == docs[d].status # "ABSENT"

-----------------------------------------------------------------------------
(* Reads.                                                                     *)

FindByHash(c) == {d \in Docs : Present(d) /\ Content[d] = c}

\* Mutant of Claimable: without RETRY.
ClaimableQueued(d) == jobs[d].status = "QUEUED"

\* QUEUED or RETRY; how long a retry backs off is abstracted, so a job that
\* waits may be claimed at any later time, in any order.
Claimable(d) == jobs[d].status \in {"QUEUED", "RETRY"}

-----------------------------------------------------------------------------
(* Object store and ingestion_documents.                                      *)

PutObject(d) == objects' = objects \cup {d}

\* Mutants of Create: no UNIQUE hash; a row born INGESTING.
CreateAgain(d) ==
  docs' = [docs EXCEPT ![d] = [status |-> "UPLOADED", errors |-> FALSE]]
CreateIngesting(d) ==
  /\ FindByHash(Content[d]) = {}
  /\ docs' = [docs EXCEPT ![d] = [status |-> "INGESTING", errors |-> FALSE]]

\* INSERT: raises IntegrityError (no step of this kind) when the hash exists.
Create(d) ==
  /\ FindByHash(Content[d]) = {}
  /\ docs' = [docs EXCEPT ![d] = [status |-> "UPLOADED", errors |-> FALSE]]

\* UPDATE ... WHERE id = :id, whatever the status was; errors_json stays.
UpdateProgress(d, s) ==
  docs' = [docs EXCEPT ![d].status = IF Present(d) THEN s ELSE @]

\* Mutant of UpdateResult: an empty error list does not overwrite an old one.
UpdateResultKeeping(d, s, errs) ==
  docs' = [docs EXCEPT ![d] = [status |-> s, errors |-> errs \/ @.errors]]

\* One UPDATE writes the status and the errors it follows from.
UpdateResult(d, s, errs) ==
  docs' = [docs EXCEPT ![d] = IF Present(d) THEN [status |-> s, errors |-> errs] ELSE @]

\* The compare-and-set of confirm: true when a PARSED row became CONFIRMED.
CanConfirm(d) == docs[d].status = "PARSED"
\* Mutant of Confirm: UPDATE without its status condition.
ConfirmAny(d) == docs' = [docs EXCEPT ![d].status = "CONFIRMED"]

Confirm(d) ==
  /\ CanConfirm(d)
  /\ docs' = [docs EXCEPT ![d].status = "CONFIRMED"]

-----------------------------------------------------------------------------
(* ingestion_jobs and audit_events.                                           *)

\* INSERT ... ON CONFLICT (document_id) DO UPDATE: a new or a recycled row.
EnqueueJob(d) == jobs' = [jobs EXCEPT ![d] = [status |-> "QUEUED", attempts |-> 0]]

\* The UPDATE of claim_job: it does not look at the status again.
MarkRunning(d) ==
  jobs' = [jobs EXCEPT ![d].status = "RUNNING", ![d].attempts = @ + 1]

\* complete_job, retry_job and fail_job: by id, whatever the row holds.
SetJob(d, s) == jobs' = [jobs EXCEPT ![d].status = s]

AddAudit(d, e) == audit' = [audit EXCEPT ![d] = Append(@, e)]
==============================================================================
