--------------------------- MODULE IngestionWorker ---------------------------
(* services/ingestion/worker.py: run_worker's loop around run_once and        *)
(* process_document, for any number of worker processes.                      *)
EXTENDS DocumentStore

CONSTANTS Workers,
          NoJob,        \* what an idle worker holds
          Pdf,          \* the documents whose file name ends in .pdf
          Parse,        \* what parsing each document may yield
          MaxAttempts,  \* MAX_INGESTION_ATTEMPTS
          SkipLocked,   \* the dialect is postgresql: claim_job locks the row
          FaultPoints,  \* the steps of process_document whose store call may raise
          MaxFaults,    \* bound: store calls of the workers that raise
          MaxCrashes    \* bound: worker processes that die while they hold a job

ParseOutcomes == {"clean", "errors", "raises"}

\* The try block of run_once, in order; then its except block.
TryPcs == {"get", "reading", "started", "load", "parsing", "parse", "extracting",
           "records", "result", "report", "complete"}
Computing == {"parse", "records"}
ExceptPcs == {"handler", "exhausting", "exhausted", "rescheduling", "rescheduled"}
WorkerPcs == {"idle", "selected"} \cup TryPcs \cup ExceptPcs

ASSUME WorkerAssumption ==
  /\ NoJob \notin Docs
  /\ Pdf \subseteq Docs
  /\ Parse \in [Docs -> SUBSET ParseOutcomes]
  /\ MaxAttempts \in Nat
  /\ SkipLocked \in BOOLEAN
  /\ FaultPoints \subseteq TryPcs \ Computing
  /\ MaxFaults \in Nat
  /\ MaxCrashes \in Nat

VARIABLES wk,       \* each worker: program counter, job in hand, the attempts
                    \* claim_job returned, whether the parse found errors
          faults,
          crashes

workerVars == <<wk, faults, crashes>>

Idle == [pc |-> "idle", job |-> NoJob, attempts |-> 0, errors |-> FALSE]

WorkerTypeOK ==
  /\ wk \in [Workers -> [pc: WorkerPcs, job: Docs \cup {NoJob}, attempts: Nat, errors: BOOLEAN]]
  /\ faults \in Nat
  /\ crashes \in Nat

WorkerInit ==
  /\ wk = [w \in Workers |-> Idle]
  /\ faults = 0
  /\ crashes = 0

\* From the claim until the worker writes the outcome of the job.
Processing(w) == wk[w].pc \in TryPcs \cup {"handler"}

-----------------------------------------------------------------------------
(* claim_job.  On PostgreSQL the SELECT ... FOR UPDATE SKIP LOCKED and the    *)
(* UPDATE are one atomic step; on SQLite another worker may select the same   *)
(* row in between, and the attempts returned are those of the row selected.   *)

Take(w, d, pc) ==
  wk' = [wk EXCEPT ![w] =
           [pc |-> pc, job |-> d, attempts |-> jobs[d].attempts + 1, errors |-> FALSE]]

Claim(w) ==
  /\ SkipLocked
  /\ wk[w].pc = "idle"
  /\ \E d \in Docs : Claimable(d) /\ Take(w, d, "get") /\ MarkRunning(d)
  /\ UNCHANGED <<faults, crashes, objects, docs, audit>>

\* Mutant of ClaimSelect: FOR UPDATE SKIP LOCKED is forgotten on PostgreSQL.
ClaimSelectUnlocked(w) ==
  /\ wk[w].pc = "idle"
  /\ \E d \in Docs : Claimable(d) /\ Take(w, d, "selected")
  /\ UNCHANGED <<faults, crashes, storeVars>>

ClaimSelect(w) ==
  /\ ~SkipLocked
  /\ wk[w].pc = "idle"
  /\ \E d \in Docs : Claimable(d) /\ Take(w, d, "selected")
  /\ UNCHANGED <<faults, crashes, storeVars>>

GoTo(w, from, to) ==
  /\ wk[w].pc = from
  /\ wk' = [wk EXCEPT ![w].pc = to]
  /\ UNCHANGED <<faults, crashes>>

ClaimUpdate(w) ==
  /\ GoTo(w, "selected", "get")
  /\ MarkRunning(wk[w].job)
  /\ UNCHANGED <<objects, docs, audit>>

-----------------------------------------------------------------------------
(* process_document.                                                          *)

GetDocument(w) ==
  /\ GoTo(w, "get", IF Present(wk[w].job) THEN "reading" ELSE "handler")
  /\ UNCHANGED storeVars

Progress(w, from, to) ==
  /\ GoTo(w, from, to)
  /\ UpdateProgress(wk[w].job, "INGESTING")
  /\ UNCHANGED <<objects, jobs, audit>>

Audit(w, from, to, e) ==
  /\ GoTo(w, from, to)
  /\ AddAudit(wk[w].job, e)
  /\ UNCHANGED <<objects, docs, jobs>>

LoadObject(w) ==
  /\ GoTo(w, "load", IF wk[w].job \in objects THEN "parsing" ELSE "handler")
  /\ UNCHANGED storeVars

\* extract_pdf, whose pages become records after one more progress update.
ExtractPdf(w) ==
  /\ wk[w].job \in Pdf
  /\ \/ GoTo(w, "parse", "extracting")
     \/ "raises" \in Parse[wk[w].job] /\ GoTo(w, "parse", "handler")
  /\ UNCHANGED storeVars

\* Pure computation on what was read: records and errors, or an exception.
ParseObject(w) ==
  LET d == wk[w].job IN
  /\ wk[w].pc = IF d \in Pdf THEN "records" ELSE "parse"
  /\ \E o \in Parse[d] :
       wk' = [wk EXCEPT ![w].pc = IF o = "raises" THEN "handler" ELSE "result",
                        ![w].errors = o = "errors"]
  /\ UNCHANGED <<faults, crashes, storeVars>>

StoreResult(w) ==
  /\ GoTo(w, "result", "report")
  /\ UpdateResult(wk[w].job, IF wk[w].errors THEN "FAILED" ELSE "PARSED", wk[w].errors)
  /\ UNCHANGED <<objects, jobs, audit>>

\* The PDF branch reports completion whether or not there were errors.
Report(w) ==
  Audit(w, "report", "complete",
        IF wk[w].errors /\ wk[w].job \notin Pdf THEN "INGESTION_FAILED"
        ELSE "INGESTION_COMPLETED")

Release(w, from) ==
  /\ wk[w].pc = from
  /\ wk' = [wk EXCEPT ![w] = Idle]
  /\ UNCHANGED <<faults, crashes>>

\* Mutant of CompleteJob: a status no reader knows.
CompleteJobDone(w) ==
  /\ Release(w, "complete")
  /\ SetJob(wk[w].job, "DONE")
  /\ UNCHANGED <<objects, docs, audit>>

CompleteJob(w) ==
  /\ Release(w, "complete")
  /\ SetJob(wk[w].job, "COMPLETED")
  /\ UNCHANGED <<objects, docs, audit>>

-----------------------------------------------------------------------------
(* The except block of run_once.                                              *)

\* Mutant of HandleError: > for >=.
HandleErrorLate(w) ==
  LET last == wk[w].attempts > MaxAttempts IN
  /\ GoTo(w, "handler", IF last THEN "exhausting" ELSE "rescheduling")
  /\ SetJob(wk[w].job, IF last THEN "FAILED" ELSE "RETRY")
  /\ UNCHANGED <<objects, docs, audit>>

HandleError(w) ==
  LET last == wk[w].attempts >= MaxAttempts IN
  /\ GoTo(w, "handler", IF last THEN "exhausting" ELSE "rescheduling")
  /\ SetJob(wk[w].job, IF last THEN "FAILED" ELSE "RETRY")
  /\ UNCHANGED <<objects, docs, audit>>

\* Mutants of HandlerProgress: the statuses swapped; both rescheduled.
HandlerProgressSwapped(w) ==
  /\ \/ GoTo(w, "exhausting", "exhausted") /\ UpdateProgress(wk[w].job, "UPLOADED")
     \/ GoTo(w, "rescheduling", "rescheduled") /\ UpdateProgress(wk[w].job, "FAILED")
  /\ UNCHANGED <<objects, jobs, audit>>
HandlerProgressUploaded(w) ==
  /\ \/ GoTo(w, "exhausting", "exhausted") \/ GoTo(w, "rescheduling", "rescheduled")
  /\ UpdateProgress(wk[w].job, "UPLOADED")
  /\ UNCHANGED <<objects, jobs, audit>>

HandlerProgress(w) ==
  /\ \/ GoTo(w, "exhausting", "exhausted") /\ UpdateProgress(wk[w].job, "FAILED")
     \/ GoTo(w, "rescheduling", "rescheduled") /\ UpdateProgress(wk[w].job, "UPLOADED")
  /\ UNCHANGED <<objects, jobs, audit>>

HandlerAudit(w) ==
  /\ \/ /\ Release(w, "exhausted")
        /\ AddAudit(wk[w].job, "INGESTION_RETRY_EXHAUSTED")
     \/ /\ Release(w, "rescheduled")
        /\ AddAudit(wk[w].job, "INGESTION_RETRY_SCHEDULED")
  /\ UNCHANGED <<objects, docs, jobs>>

-----------------------------------------------------------------------------
(* A store call of the try block that raises enters the except block with its *)
(* transaction rolled back.  One that raises in the except block, or the      *)
(* death of the process anywhere, leaves run_worker; the process supervisor   *)
(* starts a fresh one, which knows nothing of the job its predecessor held.   *)

StoreRaises(w) ==
  /\ faults < MaxFaults
  /\ faults' = faults + 1
  /\ wk[w].pc \in FaultPoints
  /\ wk' = [wk EXCEPT ![w].pc = "handler"]
  /\ UNCHANGED <<crashes, storeVars>>

Crash(w) ==
  /\ crashes < MaxCrashes
  /\ crashes' = crashes + 1
  /\ wk[w].pc # "idle"
  /\ wk' = [wk EXCEPT ![w] = Idle]
  /\ UNCHANGED <<faults, storeVars>>

\* One iteration of the loop advances: everything but faults and crashes.
WorkerStep(w) ==
  \/ Claim(w) \/ ClaimSelect(w) \/ ClaimUpdate(w)
  \/ GetDocument(w)
  \/ Progress(w, "reading", "started")
  \/ Audit(w, "started", "load", "INGESTION_STARTED")
  \/ LoadObject(w)
  \/ Progress(w, "parsing", "parse")
  \/ ExtractPdf(w)
  \/ Progress(w, "extracting", "records")
  \/ ParseObject(w)
  \/ StoreResult(w) \/ Report(w) \/ CompleteJob(w)
  \/ HandleError(w) \/ HandlerProgress(w) \/ HandlerAudit(w)

WorkerNext == \E w \in Workers : WorkerStep(w) \/ StoreRaises(w) \/ Crash(w)
==============================================================================
