------------------------------ MODULE Ingestion ------------------------------
(* The ingestion subsystem: the document endpoints of the API and the worker  *)
(* processes, which share nothing but the tables of DocumentStore.            *)
EXTENDS IngestionApi, IngestionWorker

ASSUME IngestionAssumption ==
  /\ Docs # {}
  /\ Confirms \cap Retries = {}
  /\ MaxApiFaults \in Nat

vars == <<storeVars, apiVars, workerVars>>

Init == StoreInit /\ ApiInit /\ WorkerInit
Next == \/ ApiNext /\ UNCHANGED workerVars
        \/ WorkerNext /\ UNCHANGED apiVars
Spec == Init /\ [][Next]_vars

\* run_worker polls for ever and is restarted when it dies; a handler that has
\* begun runs on.  Nobody has to send a request, and nothing has to fail.
Fairness ==
  /\ \A w \in Workers : WF_vars(WorkerStep(w) /\ UNCHANGED apiVars)
  /\ \A d \in Docs : WF_vars(upload[d] # "idle" /\ UploadStep(d) /\ UNCHANGED workerVars)
  /\ \A r \in Requests : WF_vars(req[r].pc # "idle" /\ RequestStep(r) /\ UNCHANGED workerVars)

FairSpec == Spec /\ Fairness

TypeOK == StoreTypeOK /\ ApiTypeOK /\ WorkerTypeOK

-----------------------------------------------------------------------------
(* Safety.                                                                    *)

\* Nothing with parse errors is ever offered for confirmation or confirmed:
\* confirm_document reads errors and confirms in two transactions, workers may
\* store results and retries may rewind the status in between, and errors_json
\* outlives every status change but update_result's (routes.py, worker.py).
CleanImport ==
  \A d \in Docs : docs[d].status \in {"PARSED", "CONFIRMED"} => ~docs[d].errors

\* A row never points at bytes that are not in the object store, whichever step
\* of upload_document failed, so a job can always be run (again) from storage.
ObjectStored == \A d \in Docs : Present(d) => d \in objects

\* The same bytes are imported at most once, even when two API processes both
\* found no such hash before either had inserted it (upload_document, create).
OneDocumentPerContent ==
  \A d, e \in Docs : Present(d) /\ Present(e) /\ Content[d] = Content[e] => d = e

\* An upload whose handler died between create and enqueue_job is not lost: the
\* row without a job shows UPLOADED, the one status besides FAILED that the
\* retry endpoint accepts; and no job exists without its document.
LostUploadRetryable ==
  \A d \in Docs : /\ jobs[d].status = "ABSENT" => docs[d].status \in {"ABSENT", "UPLOADED"}
                  /\ jobs[d].status # "ABSENT" => Present(d)

\* claim_job gives a job to one worker at a time: two workers never process the
\* same document at once (run_once holds no other lock while it does).
SingleOwner ==
  \A v, w \in Workers :
    Processing(v) /\ Processing(w) /\ wk[v].job = wk[w].job => v = w

\* A document is processed at most MAX_INGESTION_ATTEMPTS times per enqueue.
AttemptsBounded ==
  \A w \in Workers : Processing(w) => wk[w].attempts <= MaxAttempts

\* While a worker processes a document the document's job says RUNNING, until
\* the worker itself decides the outcome of the job.
OwnerRunsJob ==
  \A w \in Workers : Processing(w) => jobs[wk[w].job].status = "RUNNING"

\* A confirmed import is final: no step takes a document out of CONFIRMED.
ConfirmedIsFinal ==
  [][\A d \in Docs : docs[d].status = "CONFIRMED" => docs'[d].status = "CONFIRMED"]_vars

\* The page stops asking once a document is PARSED or CONFIRMED: its
\* terminalStatuses (page.tsx:27) take for granted that without a retry request
\* neither is taken back, by a late step of run_once's except block for one.
VerdictStays ==
  [][\A d \in Docs : docs[d].status \in {"PARSED", "CONFIRMED"}
                       => docs'[d].status \in {"PARSED", "CONFIRMED"}]_vars

Positions(d, e) == {i \in DOMAIN audit[d] : audit[d][i] = e}

\* However many confirm requests race, the trail records one confirmation.
ConfirmedOnce ==
  \A d \in Docs : \A i, j \in Positions(d, "IMPORT_CONFIRMED") : i = j

\* A trail begins with the upload it is about, and a confirmation comes after
\* the worker that parsed the document began to ingest it.
TrailInOrder ==
  \A d \in Docs :
    /\ audit[d] # <<>> => audit[d][1] = "UPLOAD_RECEIVED"
    /\ \A j \in Positions(d, "IMPORT_CONFIRMED") :
         \E i \in Positions(d, "INGESTION_STARTED") : i < j

\* Nobody sees a confirmed import without its audit event for longer than the
\* handler that confirmed it runs.
ConfirmationAudited ==
  \A d \in Docs : docs[d].status = "CONFIRMED" =>
    \/ Positions(d, "IMPORT_CONFIRMED") # {}
    \/ \E r \in Confirms : req[r].doc = d /\ req[r].pc = "audit"

\* The page tells a user whose polling timed out "You can retry the job": a
\* document whose job no worker holds any more is one the endpoint will retry.
AbandonedIsRetryable ==
  \A d \in Docs :
    jobs[d].status = "RUNNING" /\ (\A w \in Workers : wk[w].job # d)
      => docs[d].status \in {"FAILED", "UPLOADED"}

-----------------------------------------------------------------------------
(* Refinement and liveness.                                                   *)

Lifecycle == INSTANCE DocumentLifecycle WITH status <- [d \in Docs |-> docs[d].status]

\* The tables implement the lifecycle the endpoints promise.
ImplementsLifecycle == Lifecycle!Spec

\* A queued job is brought to an end: no worker, retry or backoff loops for ever.
JobSettles ==
  \A d \in Docs : jobs[d].status = "QUEUED" ~> jobs[d].status \in {"COMPLETED", "FAILED"}

\* A document whose job is queued gets a verdict its user can act on, and no
\* late write of a worker takes the verdict away again.
DocumentSettles ==
  \A d \in Docs :
    jobs[d].status = "QUEUED" ~> [](docs[d].status \in {"PARSED", "FAILED", "CONFIRMED"})
==============================================================================
