--------------------------- MODULE IngestionProofs ---------------------------
(* Theorems about Ingestion, for any documents, uploads, requests, workers,   *)
(* dialect and number of faults and crashes.                                  *)
EXTENDS Ingestion, TLAPS

USE DEF DocStatus, JobStatus, UploadBusy, RequestBusy, TryPcs, Computing, ExceptPcs

-----------------------------------------------------------------------------
(* Type correctness, part by part: the store, the API, the workers.           *)

\* A step of an upload handler keeps the types of the store and of the API.
LEMMA UploadTyped ==
  ASSUME StoreTypeOK, ApiTypeOK, NEW d \in Docs, UploadStep(d)
  PROVE  StoreTypeOK' /\ ApiTypeOK'
<1> USE DEF StoreTypeOK, ApiTypeOK, UploadTo, UploadPcs
<1>1. CASE UploadFind(d)
  BY <1>1 DEF UploadFind, storeVars
<1>2. CASE UploadPut(d)
  BY <1>2 DEF UploadPut, PutObject
<1>3. CASE UploadCreate(d)
  BY <1>3 DEF UploadCreate, Create
<1>4. CASE UploadConflict(d)
  BY <1>4 DEF UploadConflict, storeVars
<1>5. CASE UploadAudit(d)
  BY <1>5 DEF UploadAudit, AddAudit, Events
<1>6. CASE UploadEnqueue(d)
  BY <1>6 DEF UploadEnqueue, EnqueueJob
<1> QED BY <1>1, <1>2, <1>3, <1>4, <1>5, <1>6 DEF UploadStep

\* A confirm or retry handler that moves on stays one.
LEMMA RequestMoves ==
  ASSUME ApiTypeOK, NEW r \in Requests, NEW from, NEW to \in RequestPcs, RequestTo(r, from, to)
  PROVE  ApiTypeOK' /\ req[r].doc \in Docs
<1>1. req[r] \in [pc: RequestPcs, doc: Docs] /\ req' = [req EXCEPT ![r].pc = to]
  BY DEF ApiTypeOK, RequestTo
<1>2. req' \in [Requests -> [pc: RequestPcs, doc: Docs]]
  BY <1>1 DEF ApiTypeOK
<1> QED BY <1>1, <1>2 DEF ApiTypeOK, RequestTo

\* A row that is updated is a row.
LEMMA RowsTyped ==
  ASSUME StoreTypeOK, NEW d \in Docs
  PROVE  /\ \A s \in DocStatus : UpdateProgress(d, s) =>
              docs' \in [Docs -> [status: DocStatus \cup {"ABSENT"}, errors: BOOLEAN]]
         /\ Confirm(d) => docs' \in [Docs -> [status: DocStatus \cup {"ABSENT"}, errors: BOOLEAN]]
         /\ EnqueueJob(d) \/ MarkRunning(d) =>
              jobs' \in [Docs -> [status: JobStatus \cup {"ABSENT"}, attempts: Nat]]
<1>1. docs[d] \in [status: DocStatus \cup {"ABSENT"}, errors: BOOLEAN]
  BY DEF StoreTypeOK
<1>2. ASSUME NEW s \in DocStatus \cup {"ABSENT"}, docs' = [docs EXCEPT ![d].status = s]
      PROVE  docs' \in [Docs -> [status: DocStatus \cup {"ABSENT"}, errors: BOOLEAN]]
  <2>1. [docs[d] EXCEPT !.status = s] \in [status: DocStatus \cup {"ABSENT"}, errors: BOOLEAN]
    BY <1>1
  <2> QED BY <1>2, <2>1 DEF StoreTypeOK
<1>3. ASSUME NEW s \in DocStatus, UpdateProgress(d, s)
      PROVE  docs' \in [Docs -> [status: DocStatus \cup {"ABSENT"}, errors: BOOLEAN]]
  <2> DEFINE t == IF Present(d) THEN s ELSE docs[d].status
  <2>1. t \in DocStatus \cup {"ABSENT"} /\ docs' = [docs EXCEPT ![d].status = t]
    BY <1>1, <1>3 DEF UpdateProgress
  <2> HIDE DEF t
  <2> QED BY <1>2, <2>1
<1>4. ASSUME Confirm(d) PROVE docs' \in [Docs -> [status: DocStatus \cup {"ABSENT"}, errors: BOOLEAN]]
  <2>1. "CONFIRMED" \in DocStatus /\ docs' = [docs EXCEPT ![d].status = "CONFIRMED"]
    BY <1>4 DEF Confirm
  <2> QED BY <1>2, <2>1
<1>5. ASSUME EnqueueJob(d) PROVE jobs' \in [Docs -> [status: JobStatus \cup {"ABSENT"}, attempts: Nat]]
  BY <1>5 DEF EnqueueJob, StoreTypeOK
<1>6. ASSUME MarkRunning(d) PROVE jobs' \in [Docs -> [status: JobStatus \cup {"ABSENT"}, attempts: Nat]]
  <2>1. jobs[d] \in [status: JobStatus \cup {"ABSENT"}, attempts: Nat]
    BY DEF StoreTypeOK
  <2>2. jobs'[d] \in [status: JobStatus \cup {"ABSENT"}, attempts: Nat]
    BY <1>6, <2>1 DEF MarkRunning, StoreTypeOK
  <2> QED BY <1>6, <2>2 DEF MarkRunning, StoreTypeOK
<1> QED BY <1>3, <1>4, <1>5, <1>6

\* So does a step of a confirm or retry handler.
LEMMA RequestTyped ==
  ASSUME StoreTypeOK, ApiTypeOK, NEW r \in Requests, RequestStep(r)
  PROVE  StoreTypeOK' /\ ApiTypeOK'
<1>0. req[r].doc \in Docs
  BY DEF ApiTypeOK
<1>1. CASE ConfirmGet(r) \/ ConfirmRefused(r) \/ RetryGet(r)
  <2>1. PICK from, to \in RequestPcs : RequestTo(r, from, to)
    BY <1>1 DEF ConfirmGet, ConfirmRefused, RetryGet, RequestPcs
  <2>2. StoreTypeOK'
    BY <1>1 DEF ConfirmGet, ConfirmRefused, RetryGet, storeVars, StoreTypeOK
  <2> QED BY <2>1, <2>2, RequestMoves
<1>2. CASE ConfirmUpdate(r)
  <2>1. ApiTypeOK'
    BY <1>2, RequestMoves DEF ConfirmUpdate, RequestPcs
  <2> QED BY <1>0, <1>2, <2>1, RowsTyped DEF ConfirmUpdate, StoreTypeOK
<1>3. CASE RetryEnqueue(r)
  <2>1. ApiTypeOK'
    BY <1>3, RequestMoves DEF RetryEnqueue, RequestPcs
  <2> QED BY <1>0, <1>3, <2>1, RowsTyped DEF RetryEnqueue, StoreTypeOK
<1>4. CASE RetryProgress(r)
  <2>1. ApiTypeOK'
    BY <1>4, RequestMoves DEF RetryProgress, RequestPcs
  <2>2. UpdateProgress(req[r].doc, "UPLOADED") /\ UNCHANGED <<objects, jobs, audit>>
    BY <1>4 DEF RetryProgress
  <2> QED BY <1>0, <2>1, <2>2, RowsTyped DEF StoreTypeOK
<1>5. CASE RequestAudit(r)
  <2>1. ApiTypeOK'
    BY <1>5, RequestMoves DEF RequestAudit, RequestPcs
  <2>2. PICK e \in Events : AddAudit(req[r].doc, e)
    BY <1>5 DEF RequestAudit, Events
  <2>3. audit' \in [Docs -> Seq(Events)]
    BY <1>0, <2>2 DEF AddAudit, StoreTypeOK
  <2> QED BY <1>5, <2>1, <2>3 DEF RequestAudit, StoreTypeOK
<1> QED BY <1>1, <1>2, <1>3, <1>4, <1>5 DEF RequestStep

\* A worker that is not idle holds a document, so that what it writes about the
\* job in its hand is a write to the row of a document.
Holding == \A w \in Workers : wk[w].pc # "idle" => wk[w].job \in Docs

\* A worker that moves on within its iteration keeps its types and its hold.
LEMMA MoveTyped ==
  ASSUME WorkerTypeOK, Holding, NEW w \in Workers,
         NEW from \in WorkerPcs \ {"idle"}, NEW to \in WorkerPcs \ {"idle"}, GoTo(w, from, to)
  PROVE  WorkerTypeOK' /\ Holding' /\ wk[w].job \in Docs
<1>1. wk[w].job \in Docs
  BY DEF GoTo, Holding
<1>2. wk' \in [Workers -> [pc: WorkerPcs, job: Docs \cup {NoJob}, attempts: Nat, errors: BOOLEAN]]
  BY DEF GoTo, WorkerTypeOK
<1>3. Holding'
  BY <1>1 DEF GoTo, Holding, WorkerTypeOK
<1> QED BY <1>1, <1>2, <1>3 DEF GoTo, WorkerTypeOK

\* So does one that takes a job or lets go of it.
LEMMA TakeTyped ==
  ASSUME StoreTypeOK, WorkerTypeOK, Holding, NEW w \in Workers, UNCHANGED <<faults, crashes>>,
         \/ \E d \in Docs, pc \in WorkerPcs : Take(w, d, pc)
         \/ wk' = [wk EXCEPT ![w] = Idle]
  PROVE  WorkerTypeOK' /\ Holding'
<1>1. CASE \E d \in Docs, pc \in WorkerPcs : Take(w, d, pc)
  BY <1>1 DEF Take, WorkerTypeOK, StoreTypeOK, Holding
<1>2. CASE wk' = [wk EXCEPT ![w] = Idle]
  BY <1>2 DEF Idle, WorkerTypeOK, Holding, WorkerPcs
<1> QED BY <1>1, <1>2

\* A step of a worker keeps the types and the hold.
LEMMA WorkerTyped ==
  ASSUME StoreTypeOK, WorkerTypeOK, Holding, NEW w \in Workers, WorkerStep(w)
  PROVE  StoreTypeOK' /\ WorkerTypeOK' /\ Holding'
<1> USE DEF storeVars
<1>1. CASE Claim(w)
  <2>1. WorkerTypeOK' /\ Holding'
    BY <1>1, TakeTyped DEF Claim, WorkerPcs
  <2>2. StoreTypeOK'
    BY <1>1, RowsTyped DEF Claim, StoreTypeOK
  <2> QED BY <2>1, <2>2
<1>2. CASE ClaimSelect(w)
  BY <1>2, TakeTyped DEF ClaimSelect, WorkerPcs, StoreTypeOK
<1>3. CASE ClaimUpdate(w)
  <2>1. WorkerTypeOK' /\ Holding' /\ wk[w].job \in Docs
    BY <1>3, MoveTyped DEF ClaimUpdate, WorkerPcs
  <2> QED BY <1>3, <2>1, RowsTyped DEF ClaimUpdate, StoreTypeOK
<1>4. CASE GetDocument(w)
  BY <1>4, MoveTyped DEF GetDocument, WorkerPcs, StoreTypeOK
<1>5. CASE \/ Progress(w, "reading", "started")
           \/ Progress(w, "parsing", "parse")
           \/ Progress(w, "extracting", "records")
  <2>1. WorkerTypeOK' /\ Holding' /\ wk[w].job \in Docs
    BY <1>5, MoveTyped DEF Progress, WorkerPcs
  <2>2. docs' \in [Docs -> [status: DocStatus \cup {"ABSENT"}, errors: BOOLEAN]]
    <3>1. UpdateProgress(wk[w].job, "INGESTING")
      BY <1>5 DEF Progress
    <3> QED BY <2>1, <3>1, RowsTyped
  <2> QED BY <1>5, <2>1, <2>2 DEF Progress, StoreTypeOK
<1>6. CASE Audit(w, "started", "load", "INGESTION_STARTED")
  <2>1. WorkerTypeOK' /\ Holding' /\ wk[w].job \in Docs
    BY <1>6, MoveTyped DEF Audit, WorkerPcs
  <2> QED BY <1>6, <2>1 DEF Audit, AddAudit, Events, StoreTypeOK
<1>7. CASE LoadObject(w) \/ ExtractPdf(w)
  BY <1>7, MoveTyped DEF LoadObject, ExtractPdf, WorkerPcs, StoreTypeOK
<1>8. CASE ParseObject(w)
  <2>1. wk' \in [Workers -> [pc: WorkerPcs, job: Docs \cup {NoJob}, attempts: Nat, errors: BOOLEAN]]
    <3>1. PICK p \in WorkerPcs, b \in BOOLEAN :
            wk' = [wk EXCEPT ![w].pc = p, ![w].errors = b]
      BY <1>8 DEF ParseObject, WorkerPcs
    <3> QED BY <3>1 DEF WorkerTypeOK
  <2>2. Holding'
    BY <1>8 DEF ParseObject, WorkerTypeOK, Holding
  <2> QED BY <1>8, <2>1, <2>2 DEF ParseObject, WorkerTypeOK, StoreTypeOK
<1>9. CASE StoreResult(w)
  <2>1. WorkerTypeOK' /\ Holding' /\ wk[w].job \in Docs
    BY <1>9, MoveTyped DEF StoreResult, WorkerPcs
  <2>2. wk[w].errors \in BOOLEAN
    BY DEF WorkerTypeOK
  <2>3. PICK s \in DocStatus, b \in BOOLEAN : UpdateResult(wk[w].job, s, b)
    BY <1>9, <2>2 DEF StoreResult
  <2>4. docs' \in [Docs -> [status: DocStatus \cup {"ABSENT"}, errors: BOOLEAN]]
    BY <2>1, <2>3 DEF UpdateResult, StoreTypeOK
  <2> QED BY <1>9, <2>1, <2>4 DEF StoreResult, StoreTypeOK
<1>10. CASE Report(w)
  <2>1. PICK e \in Events : Audit(w, "report", "complete", e)
    BY <1>10 DEF Report, Events
  <2>2. WorkerTypeOK' /\ Holding' /\ wk[w].job \in Docs
    BY <2>1, MoveTyped DEF Audit, WorkerPcs
  <2> QED BY <2>1, <2>2 DEF Audit, AddAudit, StoreTypeOK
<1>11. CASE CompleteJob(w)
  <2>1. WorkerTypeOK' /\ Holding'
    BY <1>11, TakeTyped DEF CompleteJob, Release
  <2>2. wk[w].job \in Docs
    BY <1>11 DEF CompleteJob, Release, Holding
  <2> QED BY <1>11, <2>1, <2>2 DEF CompleteJob, SetJob, StoreTypeOK
<1>12. CASE HandleError(w)
  <2>1. WorkerTypeOK' /\ Holding' /\ wk[w].job \in Docs
    BY <1>12, MoveTyped DEF HandleError, WorkerPcs
  <2>2. PICK s \in JobStatus : SetJob(wk[w].job, s)
    BY <1>12 DEF HandleError
  <2>3. jobs' \in [Docs -> [status: JobStatus \cup {"ABSENT"}, attempts: Nat]]
    BY <2>1, <2>2 DEF SetJob, StoreTypeOK
  <2> QED BY <1>12, <2>1, <2>3 DEF HandleError, StoreTypeOK
<1>13. CASE HandlerProgress(w)
  <2>1. WorkerTypeOK' /\ Holding' /\ wk[w].job \in Docs
    BY <1>13, MoveTyped DEF HandlerProgress, WorkerPcs
  <2>2. PICK s \in DocStatus : UpdateProgress(wk[w].job, s)
    BY <1>13 DEF HandlerProgress
  <2>3. docs' \in [Docs -> [status: DocStatus \cup {"ABSENT"}, errors: BOOLEAN]]
    BY <2>1, <2>2, RowsTyped
  <2> QED BY <1>13, <2>1, <2>3 DEF HandlerProgress, StoreTypeOK
<1>14. CASE HandlerAudit(w)
  <2>1. WorkerTypeOK' /\ Holding'
    BY <1>14, TakeTyped DEF HandlerAudit, Release
  <2>2. wk[w].job \in Docs
    BY <1>14 DEF HandlerAudit, Release, Holding
  <2>3. PICK e \in Events : AddAudit(wk[w].job, e)
    BY <1>14 DEF HandlerAudit, Events
  <2> QED BY <1>14, <2>1, <2>2, <2>3 DEF HandlerAudit, AddAudit, StoreTypeOK
<1> QED
  BY <1>1, <1>2, <1>3, <1>4, <1>5, <1>6, <1>7, <1>8, <1>9, <1>10, <1>11,
     <1>12, <1>13, <1>14 DEF WorkerStep

\* Every state of ingestion is well typed, and a busy worker holds a document.
THEOREM TypeCorrect == Spec => [](TypeOK /\ Holding)
<1> USE DEF TypeOK
<1>1. Init => TypeOK /\ Holding
  <2> SUFFICES ASSUME Init PROVE TypeOK /\ Holding
    OBVIOUS
  <2>1. StoreTypeOK
    BY DEF Init, StoreInit, StoreTypeOK
  <2>2. ApiTypeOK
    BY DEF Init, ApiInit, ApiTypeOK, UploadPcs, RequestPcs
  <2>3. WorkerTypeOK /\ Holding
    BY DEF Init, WorkerInit, WorkerTypeOK, WorkerPcs, Idle, Holding
  <2> QED BY <2>1, <2>2, <2>3
<1>2. TypeOK /\ Holding /\ [Next]_vars => TypeOK' /\ Holding'
  <2> SUFFICES ASSUME TypeOK, Holding, [Next]_vars PROVE TypeOK' /\ Holding'
    OBVIOUS
  <2>1. CASE ApiNext /\ UNCHANGED workerVars
    <3>1. WorkerTypeOK' /\ Holding'
      BY <2>1 DEF workerVars, WorkerTypeOK, Holding
    <3>2. CASE \E d \in Docs : UploadStep(d)
      BY <3>1, <3>2, UploadTyped
    <3>3. CASE \E r \in Requests : RequestStep(r)
      BY <3>1, <3>3, RequestTyped
    <3>4. CASE ApiRaises
      <4>1. StoreTypeOK'
        BY <3>4 DEF ApiRaises, StoreTypeOK, storeVars
      <4>2. upload' \in [Docs -> UploadPcs]
        BY <3>4 DEF ApiRaises, ApiTypeOK, UploadPcs
      <4>3. req' \in [Requests -> [pc: RequestPcs, doc: Docs]]
        BY <3>4 DEF ApiRaises, ApiTypeOK, RequestPcs
      <4> QED BY <3>1, <3>4, <4>1, <4>2, <4>3 DEF ApiRaises, ApiTypeOK
    <3> QED BY <2>1, <3>2, <3>3, <3>4 DEF ApiNext
  <2>2. CASE WorkerNext /\ UNCHANGED apiVars
    <3>1. ApiTypeOK'
      BY <2>2 DEF apiVars, ApiTypeOK
    <3>2. PICK w \in Workers : WorkerStep(w) \/ StoreRaises(w) \/ Crash(w)
      BY <2>2 DEF WorkerNext
    <3>3. CASE WorkerStep(w)
      BY <3>1, <3>3, WorkerTyped
    <3>4. CASE StoreRaises(w)
      <4>1. StoreTypeOK'
        BY <3>4 DEF StoreRaises, storeVars, StoreTypeOK
      <4>2. WorkerTypeOK'
        BY <3>4 DEF StoreRaises, WorkerTypeOK, WorkerPcs
      <4>3. Holding'
        BY <3>4, WorkerAssumption DEF StoreRaises, WorkerTypeOK, Holding
      <4> QED BY <3>1, <4>1, <4>2, <4>3
    <3>5. CASE Crash(w)
      <4>1. StoreTypeOK'
        BY <3>5 DEF Crash, storeVars, StoreTypeOK
      <4>2. WorkerTypeOK' /\ Holding'
        BY <3>5 DEF Crash, Idle, WorkerTypeOK, WorkerPcs, Holding
      <4> QED BY <3>1, <4>1, <4>2
    <3> QED BY <3>2, <3>3, <3>4, <3>5
  <2>3. CASE UNCHANGED vars
    BY <2>3 DEF vars, storeVars, apiVars, workerVars, StoreTypeOK, ApiTypeOK, WorkerTypeOK, Holding
  <2> QED BY <2>1, <2>2, <2>3 DEF Next
<1> QED BY <1>1, <1>2, PTL DEF Spec

-----------------------------------------------------------------------------
(* What a step can do to the tables.                                          *)

\* A worker's job has a row: it was claimed from one, and rows are never deleted.
HoldsRow == \A w \in Workers : wk[w].pc # "idle" => jobs[wk[w].job].status # "ABSENT"

\* The uploads and retries about to enqueue a job, or past it, have a document.
HandlersHaveDocument ==
  /\ \A d \in Docs : upload[d] \in {"audit", "enqueue"} => Present(d)
  /\ \A r \in Requests : req[r].pc \in {"enqueue", "progress"} => Present(req[r].doc)

\* The bytes are in the store before the row is inserted.
PutBeforeCreate == \A d \in Docs : upload[d] = "create" => d \in objects

WorkerWrites(w, s) ==
  /\ wk[w].pc # "idle"
  /\ s \in {"UPLOADED", "INGESTING", "FAILED"}
  /\ UpdateProgress(wk[w].job, s)

WorkerResult(w, b) ==
  /\ wk[w].pc # "idle"
  /\ UpdateResult(wk[w].job, IF b THEN "FAILED" ELSE "PARSED", b)

\* Every way a step of the system can change ingestion_documents.
DocsChange ==
  \/ docs' = docs
  \/ \E d \in Docs : upload[d] = "create" /\ Create(d)
  \/ \E d \in Docs : Confirm(d)
  \/ \E d \in Docs : UpdateProgress(d, "UPLOADED")
  \/ \E w \in Workers, s \in DocStatus : WorkerWrites(w, s)
  \/ \E w \in Workers, b \in BOOLEAN : WorkerResult(w, b)

\* Every way a step of the system can change ingestion_jobs.
JobsChange ==
  \/ jobs' = jobs
  \/ \E d \in Docs : Claimable(d) /\ MarkRunning(d)
  \/ \E d \in Docs : upload[d] = "enqueue" /\ EnqueueJob(d)
  \/ \E r \in Requests : req[r].pc = "enqueue" /\ EnqueueJob(req[r].doc)
  \/ \E w \in Workers : wk[w].pc # "idle" /\ MarkRunning(wk[w].job)
  \/ \E w \in Workers, s \in JobStatus : wk[w].pc # "idle" /\ SetJob(wk[w].job, s)

\* A step changes at most one of the two tables, in one of the ways above.
LEMMA TableSteps ==
  ASSUME TypeOK, Holding, [Next]_vars
  PROVE  /\ DocsChange /\ JobsChange
         /\ docs' = docs \/ (jobs' = jobs /\ objects' = objects)
         /\ objects \subseteq objects'
<1> USE DEF storeVars
<1>1. CASE \E d \in Docs : UploadStep(d)
  BY <1>1 DEF UploadStep, UploadTo, UploadFind, UploadPut, UploadCreate, UploadConflict,
     UploadAudit, UploadEnqueue, PutObject, DocsChange, JobsChange
<1>2. CASE \E r \in Requests : RequestStep(r)
  <2>1. PICK r \in Requests : RequestStep(r)
    BY <1>2
  <2>2. req[r].doc \in Docs
    BY DEF TypeOK, ApiTypeOK
  <2> QED
    BY <2>1, <2>2 DEF RequestStep, RequestTo, ConfirmGet, ConfirmUpdate, ConfirmRefused,
       RetryGet, RetryEnqueue, RetryProgress, RequestAudit, DocsChange, JobsChange
<1>3. CASE ApiRaises
  BY <1>3 DEF ApiRaises, DocsChange, JobsChange
<1>4. CASE WorkerNext
  <2>1. PICK w \in Workers : WorkerStep(w) \/ StoreRaises(w) \/ Crash(w)
    BY <1>4 DEF WorkerNext
  <2>2. CASE StoreRaises(w) \/ Crash(w)
    BY <2>2 DEF StoreRaises, Crash, DocsChange, JobsChange
  <2>3. CASE \/ Claim(w) \/ ClaimSelect(w) \/ ClaimUpdate(w)
    BY <2>3 DEF Claim, ClaimSelect, ClaimUpdate, GoTo, DocsChange, JobsChange
  <2>4. CASE \/ GetDocument(w) \/ LoadObject(w) \/ ExtractPdf(w) \/ ParseObject(w) \/ Report(w) \/ HandlerAudit(w)
             \/ Audit(w, "started", "load", "INGESTION_STARTED")
    BY <2>4 DEF GetDocument, LoadObject, ExtractPdf, ParseObject, Report, HandlerAudit, Audit,
       GoTo, DocsChange, JobsChange
  <2>5. CASE \/ Progress(w, "reading", "started")
             \/ Progress(w, "parsing", "parse")
             \/ Progress(w, "extracting", "records")
    <3>1. WorkerWrites(w, "INGESTING") /\ UNCHANGED <<objects, jobs>>
      BY <2>5 DEF Progress, GoTo, WorkerWrites
    <3> QED BY <3>1 DEF DocsChange, JobsChange
  <2>6. CASE StoreResult(w)
    <3>1. wk[w].errors \in BOOLEAN
      BY DEF TypeOK, WorkerTypeOK
    <3>2. WorkerResult(w, wk[w].errors) /\ UNCHANGED <<objects, jobs>>
      BY <2>6 DEF StoreResult, GoTo, WorkerResult
    <3> QED BY <3>1, <3>2 DEF DocsChange, JobsChange
  <2>7. CASE CompleteJob(w) \/ HandleError(w)
    <3>1. wk[w].pc # "idle" /\ UNCHANGED <<objects, docs>>
      BY <2>7 DEF CompleteJob, HandleError, Release, GoTo
    <3>2. PICK s \in JobStatus : SetJob(wk[w].job, s)
      BY <2>7 DEF CompleteJob, HandleError
    <3> QED BY <3>1, <3>2 DEF DocsChange, JobsChange
  <2>8. CASE HandlerProgress(w)
    <3>1. PICK s \in DocStatus : WorkerWrites(w, s)
      BY <2>8 DEF HandlerProgress, GoTo, WorkerWrites
    <3> QED BY <2>8, <3>1 DEF HandlerProgress, DocsChange, JobsChange
  <2> QED
    BY <2>1, <2>2, <2>3, <2>4, <2>5, <2>6, <2>7, <2>8 DEF WorkerStep
<1>5. CASE UNCHANGED vars
  BY <1>5 DEF vars, DocsChange, JobsChange
<1> QED BY <1>1, <1>2, <1>3, <1>4, <1>5 DEF Next, ApiNext

\* What a step does to one row of ingestion_documents: nothing, the insertion,
\* the confirmation, a progress update, or a result.
DocRow(d) ==
  \/ docs'[d] = docs[d]
  \/ /\ upload[d] = "create" /\ Create(d)
     /\ docs'[d] = [status |-> "UPLOADED", errors |-> FALSE]
  \/ /\ docs[d].status = "PARSED"
     /\ docs'[d].status = "CONFIRMED" /\ docs'[d].errors = docs[d].errors
  \/ /\ Present(d)
     /\ docs'[d].status \in {"UPLOADED", "INGESTING", "FAILED"}
     /\ docs'[d].errors = docs[d].errors
     /\ docs'[d].status = "UPLOADED" \/ \E w \in Workers : wk[w].pc # "idle" /\ wk[w].job = d
  \/ /\ Present(d)
     /\ docs'[d].status = IF docs'[d].errors THEN "FAILED" ELSE "PARSED"
     /\ docs'[d].errors \in BOOLEAN
     /\ \E w \in Workers : wk[w].pc # "idle" /\ wk[w].job = d

LEMMA DocRows ==
  ASSUME TypeOK, Holding, [Next]_vars, NEW d \in Docs
  PROVE  DocRow(d)
<1> USE DEF TypeOK, StoreTypeOK
<1>0. DocsChange
  BY TableSteps
<1>1. CASE docs' = docs
  BY <1>1 DEF DocRow
<1>2. CASE \E e \in Docs : upload[e] = "create" /\ Create(e)
  <2>1. PICK e \in Docs : upload[e] = "create" /\ Create(e)
    BY <1>2
  <2>2. CASE d = e
    BY <2>1, <2>2 DEF Create, DocRow
  <2>3. CASE d # e
    BY <2>1, <2>3 DEF Create, DocRow
  <2> QED BY <2>2, <2>3
<1>3. CASE \E e \in Docs : Confirm(e)
  BY <1>3 DEF Confirm, CanConfirm, DocRow
<1>4. CASE \E e \in Docs : UpdateProgress(e, "UPLOADED")
  <2>1. PICK e \in Docs : UpdateProgress(e, "UPLOADED")
    BY <1>4
  <2>2. CASE d = e /\ Present(d)
    BY <2>1, <2>2 DEF UpdateProgress, DocRow
  <2>3. CASE d # e \/ ~Present(d)
    BY <2>1, <2>3 DEF UpdateProgress, DocRow
  <2> QED BY <2>2, <2>3
<1>5. CASE \E w \in Workers, s \in DocStatus : WorkerWrites(w, s)
  <2>1. PICK w \in Workers, s \in DocStatus : WorkerWrites(w, s)
    BY <1>5
  <2>2. CASE d = wk[w].job /\ Present(d)
    BY <2>1, <2>2 DEF WorkerWrites, UpdateProgress, DocRow
  <2>3. CASE d # wk[w].job \/ ~Present(d)
    <3>1. docs'[d] = docs[d]
      BY <2>1, <2>3 DEF WorkerWrites, UpdateProgress, Holding
    <3> QED BY <3>1 DEF DocRow
  <2> QED BY <2>2, <2>3
<1>6. CASE \E w \in Workers, b \in BOOLEAN : WorkerResult(w, b)
  <2>1. PICK w \in Workers, b \in BOOLEAN : WorkerResult(w, b)
    BY <1>6
  <2>2. CASE d = wk[w].job /\ Present(d)
    BY <2>1, <2>2 DEF WorkerResult, UpdateResult, DocRow
  <2>3. CASE d # wk[w].job \/ ~Present(d)
    <3>1. docs'[d] = docs[d]
      BY <2>1, <2>3 DEF WorkerResult, UpdateResult, Holding
    <3> QED BY <3>1 DEF DocRow
  <2> QED BY <2>2, <2>3
<1> QED BY <1>0, <1>1, <1>2, <1>3, <1>4, <1>5, <1>6 DEF DocsChange

\* What a step does to one row of ingestion_jobs.
JobRow(d) ==
  \/ jobs'[d] = jobs[d]
  \/ Claimable(d) /\ jobs'[d].status = "RUNNING"
  \/ /\ jobs'[d] = [status |-> "QUEUED", attempts |-> 0]
     /\ \/ upload[d] = "enqueue"
        \/ \E r \in Requests : req[r].pc = "enqueue" /\ req[r].doc = d
  \/ /\ \E w \in Workers : wk[w].pc # "idle" /\ wk[w].job = d
     /\ jobs'[d].status \in JobStatus

LEMMA JobRows ==
  ASSUME TypeOK, Holding, [Next]_vars, NEW d \in Docs
  PROVE  JobRow(d)
<1> USE DEF TypeOK, StoreTypeOK
<1>0. JobsChange
  BY TableSteps
<1>1. CASE jobs' = jobs
  BY <1>1 DEF JobRow
<1>2. CASE \E e \in Docs : Claimable(e) /\ MarkRunning(e)
  BY <1>2 DEF MarkRunning, JobRow
<1>3. CASE \E e \in Docs : upload[e] = "enqueue" /\ EnqueueJob(e)
  BY <1>3 DEF EnqueueJob, JobRow
<1>4. CASE \E r \in Requests : req[r].pc = "enqueue" /\ EnqueueJob(req[r].doc)
  BY <1>4 DEF EnqueueJob, JobRow, ApiTypeOK
<1>5. CASE \E w \in Workers : wk[w].pc # "idle" /\ MarkRunning(wk[w].job)
  BY <1>5 DEF MarkRunning, JobRow, Holding
<1>6. CASE \E w \in Workers, s \in JobStatus : wk[w].pc # "idle" /\ SetJob(wk[w].job, s)
  BY <1>6 DEF SetJob, JobRow, Holding
<1> QED BY <1>0, <1>1, <1>2, <1>3, <1>4, <1>5, <1>6 DEF JobsChange

\* Rows are never deleted.
LEMMA RowsKept ==
  ASSUME TypeOK, Holding, [Next]_vars, NEW d \in Docs
  PROVE  /\ Present(d) => Present(d)'
         /\ jobs[d].status # "ABSENT" => jobs'[d].status # "ABSENT"
<1>1. Present(d) => Present(d)'
  BY DocRows DEF DocRow, Present
<1>2. jobs[d].status # "ABSENT" => jobs'[d].status # "ABSENT"
  BY JobRows DEF JobRow
<1> QED BY <1>1, <1>2

-----------------------------------------------------------------------------
(* The safety invariants of an import.                                        *)

ImportInv ==
  /\ CleanImport /\ OneDocumentPerContent
  /\ ObjectStored /\ PutBeforeCreate
  /\ LostUploadRetryable /\ HoldsRow /\ HandlersHaveDocument

\* What is PARSED or CONFIRMED has no errors: only update_result writes PARSED,
\* with the errors it follows from, and only confirm leads from it.
LEMMA CleanStep ==
  ASSUME TypeOK, Holding, CleanImport, [Next]_vars
  PROVE  CleanImport'
<1> SUFFICES ASSUME NEW d \in Docs, docs'[d].status \in {"PARSED", "CONFIRMED"}
             PROVE  ~docs'[d].errors
  BY DEF CleanImport
<1>1. DocRow(d)
  BY DocRows
<1> QED BY <1>1 DEF DocRow, CleanImport

\* A row appears only where no row has its hash.
LEMMA ContentStep ==
  ASSUME TypeOK, Holding, OneDocumentPerContent, [Next]_vars
  PROVE  OneDocumentPerContent'
<1> USE DEF TypeOK, StoreTypeOK
<1>1. CASE \E d \in Docs : Create(d)
  <2>1. PICK d \in Docs : Create(d)
    BY <1>1
  <2>2. \A e \in Docs : Present(e)' => e = d \/ Present(e)
    BY <2>1 DEF Create, Present
  <2>3. \A e \in Docs : Present(e) => Content[e] # Content[d]
    BY <2>1 DEF Create, FindByHash
  <2> QED BY <2>2, <2>3 DEF OneDocumentPerContent
<1>2. CASE \A d \in Docs : ~Create(d)
  <2>1. \A d \in Docs : Present(d)' => Present(d)
    BY <1>2, DocRows DEF DocRow, Present
  <2> QED BY <2>1 DEF OneDocumentPerContent
<1> QED BY <1>1, <1>2

\* An upload reaches create only through put, and objects only grow.
LEMMA ObjectStep ==
  ASSUME TypeOK, Holding, ObjectStored, PutBeforeCreate, [Next]_vars
  PROVE  ObjectStored' /\ PutBeforeCreate'
<1>1. objects \subseteq objects'
  BY TableSteps
<1>2. ObjectStored'
  <2>1. \A d \in Docs : Present(d)' => Present(d) \/ upload[d] = "create"
    BY DocRows DEF DocRow, Present
  <2> QED BY <1>1, <2>1 DEF ObjectStored, PutBeforeCreate
<1>3. PutBeforeCreate'
  <2>1. \A d \in Docs : upload'[d] = "create" => upload[d] = "create" \/ UploadPut(d)
    BY DEF Next, ApiNext, UploadStep, RequestStep, UploadTo, UploadFind, UploadPut, UploadCreate,
       UploadConflict, UploadAudit, UploadEnqueue, RequestTo, ConfirmGet, ConfirmUpdate,
       ConfirmRefused, RetryGet, RetryEnqueue, RetryProgress, RequestAudit, ApiRaises,
       vars, apiVars, TypeOK, ApiTypeOK
  <2> QED BY <1>1, <2>1 DEF PutBeforeCreate, UploadPut, PutObject
<1> QED BY <1>2, <1>3

\* What a step does to one confirm or retry handler.
RequestRow(r) ==
  /\ req'[r].doc = req[r].doc
  /\ req'[r].pc \in {"enqueue", "progress"} =>
       req[r].pc \in {"enqueue", "progress"} \/ Present(req[r].doc)

LEMMA RequestRows ==
  ASSUME TypeOK, [Next]_vars, NEW r \in Requests
  PROVE  RequestRow(r)
<1> USE DEF TypeOK, ApiTypeOK
<1>1. CASE req' = req
  BY <1>1 DEF RequestRow
<1>2. CASE \E q \in Requests : RequestStep(q)
  <2>1. PICK q \in Requests : RequestStep(q)
    BY <1>2
  <2>2. CASE ConfirmGet(q) \/ ConfirmUpdate(q) \/ ConfirmRefused(q) \/ RequestAudit(q)
    BY <2>2 DEF ConfirmGet, ConfirmUpdate, ConfirmRefused, RequestAudit, RequestTo, RequestRow
  <2>3. CASE RetryEnqueue(q) \/ RetryProgress(q)
    BY <2>3 DEF RetryEnqueue, RetryProgress, RequestTo, RequestRow
  <2>4. CASE RetryGet(q)
    BY <2>4 DEF RetryGet, RequestTo, RequestRow, Present
  <2> QED BY <2>1, <2>2, <2>3, <2>4 DEF RequestStep
<1>3. CASE ApiRaises
  BY <1>3 DEF ApiRaises, RequestRow
<1>4. CASE \E d \in Docs : UploadStep(d)
  <2>1. req' = req
    BY <1>4 DEF UploadStep, UploadTo, UploadFind, UploadPut, UploadCreate, UploadConflict,
       UploadAudit, UploadEnqueue
  <2> QED BY <1>1, <2>1
<1>5. CASE UNCHANGED apiVars
  BY <1>1, <1>5 DEF apiVars
<1> QED BY <1>2, <1>3, <1>4, <1>5 DEF Next, ApiNext, vars

\* What a step does to one worker: nothing, let go, take a claimable job, parse,
\* or move on with the job in hand.
WorkerRow(w) ==
  \/ wk'[w] = wk[w]
  \/ wk'[w] = Idle
  \/ wk[w].pc = "idle" /\ \E d \in Docs, pc \in {"get", "selected"} : Claimable(d) /\ Take(w, d, pc)
  \/ /\ wk[w].pc # "idle"
     /\ wk'[w].job = wk[w].job /\ wk'[w].attempts = wk[w].attempts

LEMMA WorkerRows ==
  ASSUME TypeOK, [Next]_vars, NEW w \in Workers
  PROVE  WorkerRow(w)
<1> USE DEF TypeOK, WorkerTypeOK
<1>1. CASE WorkerNext
  <2>1. PICK v \in Workers : WorkerStep(v) \/ StoreRaises(v) \/ Crash(v)
    BY <1>1 DEF WorkerNext
  <2>2. CASE Claim(v) \/ ClaimSelect(v)
    <3>1. CASE v = w
      BY <2>2, <3>1 DEF Claim, ClaimSelect, WorkerRow
    <3>2. CASE v # w
      BY <2>2, <3>2 DEF Claim, ClaimSelect, Take, WorkerRow
    <3> QED BY <3>1, <3>2
  <2>3. CASE StoreRaises(v)
    BY <2>3, WorkerAssumption DEF StoreRaises, WorkerRow
  <2>4. CASE Crash(v) \/ CompleteJob(v) \/ HandlerAudit(v)
    BY <2>4 DEF Crash, CompleteJob, HandlerAudit, Release, WorkerRow
  <2>5. CASE ParseObject(v)
    BY <2>5 DEF ParseObject, WorkerRow
  <2>6. CASE \E from \in WorkerPcs \ {"idle"}, to \in WorkerPcs : GoTo(v, from, to)
    BY <2>6 DEF GoTo, WorkerRow
  <2>7. CASE \/ Progress(v, "reading", "started")
             \/ Progress(v, "parsing", "parse")
             \/ Progress(v, "extracting", "records")
             \/ Audit(v, "started", "load", "INGESTION_STARTED")
    BY <2>6, <2>7 DEF Progress, Audit, WorkerPcs
  <2>8. CASE ClaimUpdate(v) \/ GetDocument(v) \/ LoadObject(v) \/ ExtractPdf(v)
    BY <2>6, <2>8 DEF ClaimUpdate, GetDocument, LoadObject, ExtractPdf, WorkerPcs
  <2>9. CASE StoreResult(v) \/ Report(v) \/ HandleError(v) \/ HandlerProgress(v)
    BY <2>6, <2>9 DEF StoreResult, Report, Audit, HandleError, HandlerProgress, WorkerPcs
  <2> QED
    BY <2>1, <2>2, <2>3, <2>4, <2>5, <2>7, <2>8, <2>9 DEF WorkerStep
<1>2. CASE UNCHANGED workerVars
  BY <1>2 DEF workerVars, WorkerRow
<1> QED BY <1>1, <1>2 DEF Next, vars

\* What jobs, workers and handlers hold refers to rows that exist.
LEMMA ReferenceStep ==
  ASSUME TypeOK, Holding, LostUploadRetryable, HoldsRow, HandlersHaveDocument, [Next]_vars
  PROVE  LostUploadRetryable' /\ HoldsRow' /\ HandlersHaveDocument'
<1> USE DEF TypeOK, StoreTypeOK
<1>1. HandlersHaveDocument'
  <2>1. \A d \in Docs : upload'[d] \in {"audit", "enqueue"} =>
                         upload[d] \in {"audit", "enqueue"} \/ UploadCreate(d)
    BY DEF Next, ApiNext, UploadStep, RequestStep, UploadTo, UploadFind, UploadPut, UploadCreate,
       UploadConflict, UploadAudit, UploadEnqueue, RequestTo, ConfirmGet, ConfirmUpdate,
       ConfirmRefused, RetryGet, RetryEnqueue, RetryProgress, RequestAudit, ApiRaises,
       vars, apiVars, ApiTypeOK
  <2>2. \A d \in Docs : UploadCreate(d) => Present(d)'
    BY DEF UploadCreate, Create, Present
  <2>3. \A d \in Docs : upload'[d] \in {"audit", "enqueue"} => Present(d)'
    BY <2>1, <2>2, RowsKept DEF HandlersHaveDocument
  <2>4. ASSUME NEW r \in Requests, req'[r].pc \in {"enqueue", "progress"}
        PROVE  docs'[req'[r].doc].status # "ABSENT"
    <3>1. RequestRow(r)
      BY RequestRows
    <3>2. req[r].doc \in Docs /\ Present(req[r].doc)
      BY <2>4, <3>1 DEF RequestRow, HandlersHaveDocument, ApiTypeOK
    <3>3. docs'[req[r].doc].status # "ABSENT"
      BY <3>2, RowsKept DEF Present
    <3> QED BY <3>1, <3>3 DEF RequestRow
  <2> QED BY <2>3, <2>4 DEF HandlersHaveDocument, Present
<1>2. LostUploadRetryable'
  <2> SUFFICES ASSUME NEW d \in Docs
               PROVE  /\ jobs'[d].status = "ABSENT" => docs'[d].status \in {"ABSENT", "UPLOADED"}
                      /\ jobs'[d].status # "ABSENT" => Present(d)'
    BY DEF LostUploadRetryable
  <2>1. jobs'[d].status = "ABSENT" => docs'[d].status \in {"ABSENT", "UPLOADED"}
    <3> SUFFICES ASSUME jobs'[d].status = "ABSENT"
                 PROVE  docs'[d].status \in {"ABSENT", "UPLOADED"}
      OBVIOUS
    <3>1. docs[d].status \in {"ABSENT", "UPLOADED"}
      BY RowsKept DEF LostUploadRetryable
    <3>2. jobs[d].status = "ABSENT"
      BY RowsKept
    <3>3. \A w \in Workers : wk[w].pc # "idle" => wk[w].job # d
      BY <3>2 DEF HoldsRow
    <3>4. DocRow(d)
      BY DocRows
    <3> QED BY <3>1, <3>3, <3>4 DEF DocRow
  <2>2. jobs'[d].status # "ABSENT" => Present(d)'
    <3>1. JobRow(d)
      BY JobRows
    <3>2. Present(d) \/ jobs'[d] = jobs[d]
      BY <3>1 DEF JobRow, Claimable, LostUploadRetryable, HoldsRow, HandlersHaveDocument
    <3> QED BY <3>2, RowsKept DEF LostUploadRetryable
  <2> QED BY <2>1, <2>2
<1>3. HoldsRow'
  <2> SUFFICES ASSUME NEW w \in Workers, wk'[w].pc # "idle"
               PROVE  jobs'[wk'[w].job].status # "ABSENT"
    BY DEF HoldsRow
  <2>1. WorkerRow(w)
    BY WorkerRows
  <2>2. wk'[w].job \in Docs /\ jobs[wk'[w].job].status # "ABSENT"
    BY <2>1 DEF WorkerRow, Take, Idle, Claimable, HoldsRow, Holding, WorkerTypeOK
  <2> QED BY <2>2, RowsKept
<1> QED BY <1>1, <1>2, <1>3

LEMMA ImportInvariant == Spec => []ImportInv
<1>1. Init => ImportInv
  BY DEF Init, StoreInit, ApiInit, WorkerInit, Idle, ImportInv, CleanImport, OneDocumentPerContent,
     ObjectStored, PutBeforeCreate, LostUploadRetryable, HoldsRow, HandlersHaveDocument, Present
<1>2. ImportInv /\ TypeOK /\ Holding /\ [Next]_vars => ImportInv'
  BY CleanStep, ContentStep, ObjectStep, ReferenceStep DEF ImportInv
<1> QED BY <1>1, <1>2, TypeCorrect, PTL DEF Spec

\* Under every interleaving of any number of API processes and workers, on either
\* dialect, with manual retries, failed calls and crashes: no import with errors
\* is confirmed, and no row lacks its bytes.
THEOREM ImportSafe == Spec => [](CleanImport /\ ObjectStored)
<1>1. ImportInv => CleanImport /\ ObjectStored
  BY DEF ImportInv
<1> QED BY <1>1, ImportInvariant, PTL

\* However many API processes receive the same bytes, they are imported once.
THEOREM ContentImportedOnce == Spec => []OneDocumentPerContent
<1>1. ImportInv => OneDocumentPerContent
  BY DEF ImportInv
<1> QED BY <1>1, ImportInvariant, PTL

\* Wherever an upload was lost, the retry endpoint accepts its document.
THEOREM UploadsRecoverable == Spec => []LostUploadRetryable
<1>1. ImportInv => LostUploadRetryable
  BY DEF ImportInv
<1> QED BY <1>1, ImportInvariant, PTL

-----------------------------------------------------------------------------
(* Ownership of jobs, when claiming is atomic and nobody retries by hand.     *)

Unqueued == {"idle", "put", "create", "audit", "enqueue"}

\* Why a job has one owner: it is RUNNING while it is processed, and only QUEUED
\* and RETRY jobs are claimed.  Why attempts are bounded: the row and its owner
\* agree on the count, and a claimable row has an attempt left.
OwnerInv ==
  /\ SingleOwner /\ OwnerRunsJob /\ AttemptsBounded
  /\ \A w \in Workers : wk[w].pc # "selected"
  /\ \A w \in Workers : Processing(w) => wk[w].attempts = jobs[wk[w].job].attempts
  /\ \A d \in Docs : Claimable(d) => jobs[d].attempts < MaxAttempts
  /\ \A d \in Docs : upload[d] \in Unqueued => jobs[d].status = "ABSENT"

\* A step that leaves the jobs alone and starts no processing keeps OwnerInv.
LEMMA QuietStep ==
  ASSUME OwnerInv, jobs' = jobs,
         \A w \in Workers : wk'[w].pc # "selected",
         \A w \in Workers : wk'[w].pc \in TryPcs \cup {"handler"} =>
                              /\ Processing(w)
                              /\ wk'[w].job = wk[w].job
                              /\ wk'[w].attempts = wk[w].attempts,
         \A d \in Docs : upload'[d] \in Unqueued => upload[d] \in Unqueued
  PROVE  OwnerInv'
<1>1. SingleOwner'
  BY DEF OwnerInv, SingleOwner, Processing
<1>2. OwnerRunsJob' /\ AttemptsBounded'
  BY DEF OwnerInv, OwnerRunsJob, AttemptsBounded, Processing
<1>3. \A w \in Workers : Processing(w)' => wk'[w].attempts = jobs'[wk'[w].job].attempts
  BY DEF OwnerInv, Processing
<1>4. \A d \in Docs : /\ Claimable(d)' => jobs'[d].attempts < MaxAttempts
                      /\ upload'[d] \in Unqueued => jobs'[d].status = "ABSENT"
  BY DEF OwnerInv, Claimable
<1>5. \A w \in Workers : wk'[w].pc # "selected"
  OBVIOUS
<1>6. /\ \A d \in Docs : Claimable(d)' => jobs'[d].attempts < MaxAttempts
      /\ \A d \in Docs : upload'[d] \in Unqueued => jobs'[d].status = "ABSENT"
  BY <1>4
<1> QED BY <1>1, <1>2, <1>3, <1>5, <1>6 DEF OwnerInv

\* A worker that only moves on processes no more than it did.
LEMMA MoveQuiet ==
  ASSUME TypeOK, OwnerInv, NEW w \in Workers,
         \/ \E from \in TryPcs \cup {"handler"}, to \in WorkerPcs \ {"selected"} : GoTo(w, from, to)
         \/ \E from \in WorkerPcs, to \in ExceptPcs \ {"handler"} : GoTo(w, from, to)
         \/ wk' = [wk EXCEPT ![w] = Idle]
         \/ ParseObject(w)
         \/ StoreRaises(w)
  PROVE  /\ \A v \in Workers : wk'[v].pc # "selected"
         /\ \A v \in Workers : wk'[v].pc \in TryPcs \cup {"handler"} =>
                                 /\ Processing(v)
                                 /\ wk'[v].job = wk[v].job
                                 /\ wk'[v].attempts = wk[v].attempts
<1> USE DEF TypeOK, WorkerTypeOK, OwnerInv, Processing
<1>1. CASE \E from \in TryPcs \cup {"handler"}, to \in WorkerPcs \ {"selected"} : GoTo(w, from, to)
  BY <1>1 DEF GoTo
<1>2. CASE \E from \in WorkerPcs, to \in ExceptPcs \ {"handler"} : GoTo(w, from, to)
  BY <1>2 DEF GoTo
<1>3. CASE wk' = [wk EXCEPT ![w] = Idle]
  BY <1>3 DEF Idle
<1>4. CASE ParseObject(w)
  <2>1. PICK p \in WorkerPcs \ {"selected"}, b \in BOOLEAN :
          wk' = [wk EXCEPT ![w].pc = p, ![w].errors = b]
    BY <1>4 DEF ParseObject, WorkerPcs
  <2>2. wk[w].pc \in Computing
    BY <1>4 DEF ParseObject
  <2>3. wk' \in [Workers -> [pc: WorkerPcs, job: Docs \cup {NoJob}, attempts: Nat, errors: BOOLEAN]]
    BY <2>1
  <2>4. \A v \in Workers : /\ wk'[v].pc \in {wk[v].pc, p}
                           /\ wk'[v].job = wk[v].job /\ wk'[v].attempts = wk[v].attempts
                           /\ v # w => wk'[v] = wk[v]
    BY <2>1
  <2> QED BY <2>2, <2>4
<1>5. CASE StoreRaises(w)
  BY <1>5, WorkerAssumption DEF StoreRaises
<1> QED BY <1>1, <1>2, <1>3, <1>4, <1>5

\* Without retry requests no handler is about to enqueue a job again.
NoRetrying == \A r \in Requests : req[r].pc # "enqueue"

LEMMA NoRetryStep ==
  ASSUME Retries = {}, TypeOK, NoRetrying, [Next]_vars
  PROVE  NoRetrying'
<1> USE DEF NoRetrying, TypeOK, ApiTypeOK
<1>1. CASE req' = req
  BY <1>1
<1>2. CASE \E q \in Requests : RequestStep(q)
  BY <1>2 DEF RequestStep, RequestTo, ConfirmGet, ConfirmUpdate, ConfirmRefused,
     RetryGet, RetryEnqueue, RetryProgress, RequestAudit
<1>3. CASE ApiRaises
  BY <1>3 DEF ApiRaises
<1>4. CASE \E d \in Docs : UploadStep(d)
  BY <1>1, <1>4 DEF UploadStep, UploadTo, UploadFind, UploadPut, UploadCreate, UploadConflict,
     UploadAudit, UploadEnqueue
<1> QED BY <1>1, <1>2, <1>3, <1>4 DEF Next, ApiNext, apiVars, vars

\* The steps of the API: only the first enqueue of an upload touches a job.
LEMMA OwnerApiStep ==
  ASSUME MaxAttempts > 0, TypeOK, OwnerInv, NoRetrying, ApiNext, UNCHANGED workerVars
  PROVE  OwnerInv'
<1> USE DEF TypeOK, StoreTypeOK, ApiTypeOK
<1>0. wk' = wk
  BY DEF workerVars
<1>1. CASE \E d \in Docs : UploadEnqueue(d)
  <2>1. PICK d \in Docs : UploadEnqueue(d)
    BY <1>1
  <2>2. jobs[d].status = "ABSENT"
    BY <2>1 DEF UploadEnqueue, UploadTo, OwnerInv, Unqueued
  <2>3. \A w \in Workers : Processing(w) => wk[w].job # d
    BY <2>2 DEF OwnerInv, OwnerRunsJob
  <2>4. /\ jobs'[d] = [status |-> "QUEUED", attempts |-> 0]
        /\ \A e \in Docs \ {d} : jobs'[e] = jobs[e]
    BY <2>1 DEF UploadEnqueue, EnqueueJob
  <2>5. /\ upload'[d] \notin Unqueued
        /\ \A e \in Docs \ {d} : upload'[e] = upload[e]
    BY <2>1 DEF UploadEnqueue, UploadTo, Unqueued
  <2>6. SingleOwner' /\ AttemptsBounded'
    BY <1>0 DEF OwnerInv, SingleOwner, AttemptsBounded, Processing
  <2>7. /\ OwnerRunsJob'
        /\ \A w \in Workers : Processing(w)' => wk'[w].attempts = jobs'[wk'[w].job].attempts
    <3> SUFFICES ASSUME NEW w \in Workers, Processing(w)
                 PROVE  jobs'[wk[w].job] = jobs[wk[w].job]
      BY <1>0 DEF OwnerInv, OwnerRunsJob, Processing
    <3>1. wk[w].job # d
      BY <2>3
    <3> QED BY <2>1, <3>1 DEF UploadEnqueue, EnqueueJob
  <2>8. \A e \in Docs : Claimable(e)' => jobs'[e].attempts < MaxAttempts
    <3> SUFFICES ASSUME NEW e \in Docs, Claimable(e)'
                 PROVE  jobs'[e].attempts < MaxAttempts
      OBVIOUS
    <3>1. CASE e = d
      BY <2>4, <3>1
    <3>2. CASE e # d
      <4>1. jobs'[e] = jobs[e]
        BY <2>4, <3>2
      <4> QED BY <4>1 DEF OwnerInv, Claimable
    <3> QED BY <3>1, <3>2
  <2>9. \A e \in Docs : upload'[e] \in Unqueued => jobs'[e].status = "ABSENT"
    BY <2>4, <2>5 DEF OwnerInv
  <2> QED BY <1>0, <2>6, <2>7, <2>8, <2>9 DEF OwnerInv
<1>2. CASE \E d \in Docs : UploadStep(d) /\ ~UploadEnqueue(d)
  <2>1. jobs' = jobs /\ \A d \in Docs : upload'[d] \in Unqueued => upload[d] \in Unqueued
    BY <1>2 DEF UploadStep, UploadTo, UploadFind, UploadPut, UploadCreate, UploadConflict,
       UploadAudit, Unqueued, storeVars
  <2> QED BY <1>0, <2>1, QuietStep DEF OwnerInv, Processing
<1>3. CASE \E r \in Requests : RequestStep(r)
  <2>1. PICK r \in Requests : RequestStep(r)
    BY <1>3
  <2>2. ~RetryEnqueue(r)
    BY DEF RetryEnqueue, RequestTo, NoRetrying
  <2>3. upload' = upload /\ jobs' = jobs
    BY <2>1, <2>2 DEF RequestStep, RequestTo, ConfirmGet, ConfirmUpdate, ConfirmRefused,
       RetryGet, RetryProgress, RequestAudit, storeVars
  <2> QED BY <1>0, <2>3, QuietStep DEF OwnerInv, Processing
<1>4. CASE ApiRaises
  <2>1. jobs' = jobs /\ \A d \in Docs : upload'[d] \in Unqueued => upload[d] \in Unqueued
    BY <1>4 DEF ApiRaises, storeVars, UploadBusy, Unqueued
  <2> QED BY <1>0, <2>1, QuietStep DEF OwnerInv, Processing
<1> QED BY <1>1, <1>2, <1>3, <1>4 DEF ApiNext

\* An atomic claim takes a job no worker processes and makes it RUNNING.
LEMMA OwnerClaim ==
  ASSUME TypeOK, Holding, OwnerInv, NEW w \in Workers, Claim(w), UNCHANGED upload
  PROVE  OwnerInv'
<1> USE DEF TypeOK, StoreTypeOK, WorkerTypeOK
<1>1. PICK d \in Docs : Claimable(d) /\ Take(w, d, "get") /\ MarkRunning(d)
  BY DEF Claim
<1>2. \A v \in Workers : Processing(v) => wk[v].job # d
  BY <1>1 DEF OwnerInv, OwnerRunsJob, Claimable
<1>3. /\ jobs'[d] = [status |-> "RUNNING", attempts |-> jobs[d].attempts + 1]
      /\ \A e \in Docs : e # d => jobs'[e] = jobs[e]
  BY <1>1 DEF MarkRunning
<1>4. /\ wk'[w].pc = "get" /\ wk'[w].job = d /\ wk'[w].attempts = jobs[d].attempts + 1
      /\ \A v \in Workers : v # w => wk'[v] = wk[v]
  BY <1>1 DEF Take
<1>5. jobs[d].attempts < MaxAttempts
  BY <1>1 DEF OwnerInv
<1>6. \A v \in Workers : v # w /\ Processing(v)' =>
         /\ Processing(v) /\ wk'[v] = wk[v] /\ wk[v].job # d
         /\ jobs'[wk[v].job] = jobs[wk[v].job]
  <2> SUFFICES ASSUME NEW v \in Workers, v # w, Processing(v)'
               PROVE  /\ Processing(v) /\ wk'[v] = wk[v] /\ wk[v].job # d
                      /\ jobs'[wk[v].job] = jobs[wk[v].job]
    OBVIOUS
  <2>1. wk'[v] = wk[v] /\ Processing(v)
    BY <1>4 DEF Processing
  <2>2. wk[v].job \in Docs /\ wk[v].job # d
    BY <1>2, <2>1 DEF Holding, Processing
  <2> QED BY <1>3, <2>1, <2>2
<1>7. SingleOwner'
  <2> SUFFICES ASSUME NEW u \in Workers, NEW v \in Workers,
                      Processing(u)', Processing(v)', wk'[u].job = wk'[v].job
               PROVE  u = v
    BY DEF SingleOwner
  <2>1. CASE u # w /\ v # w
    BY <1>6, <2>1 DEF OwnerInv, SingleOwner
  <2>2. CASE u = w \/ v = w
    BY <1>4, <1>6, <2>2
  <2> QED BY <2>1, <2>2
<1>8. OwnerRunsJob'
  <2> SUFFICES ASSUME NEW v \in Workers, Processing(v)'
               PROVE  jobs'[wk'[v].job].status = "RUNNING"
    BY DEF OwnerRunsJob
  <2>1. CASE v = w
    BY <1>3, <1>4, <2>1
  <2>2. CASE v # w
    BY <1>6, <2>2 DEF OwnerInv, OwnerRunsJob
  <2> QED BY <2>1, <2>2
<1>9. AttemptsBounded'
  <2> SUFFICES ASSUME NEW v \in Workers, Processing(v)'
               PROVE  wk'[v].attempts <= MaxAttempts
    BY DEF AttemptsBounded
  <2>1. CASE v = w
    BY <1>4, <1>5, <2>1, WorkerAssumption
  <2>2. CASE v # w
    BY <1>6, <2>2 DEF OwnerInv, AttemptsBounded
  <2> QED BY <2>1, <2>2
<1>10. \A v \in Workers : Processing(v)' => wk'[v].attempts = jobs'[wk'[v].job].attempts
  <2> SUFFICES ASSUME NEW v \in Workers, Processing(v)'
               PROVE  wk'[v].attempts = jobs'[wk'[v].job].attempts
    OBVIOUS
  <2>1. CASE v = w
    BY <1>3, <1>4, <2>1
  <2>2. CASE v # w
    BY <1>6, <2>2 DEF OwnerInv
  <2> QED BY <2>1, <2>2
<1>11. \A e \in Docs : Claimable(e)' => jobs'[e].attempts < MaxAttempts
  <2> SUFFICES ASSUME NEW e \in Docs, Claimable(e)' PROVE jobs'[e].attempts < MaxAttempts
    OBVIOUS
  <2>1. e # d /\ jobs'[e] = jobs[e]
    BY <1>3 DEF Claimable
  <2> QED BY <2>1 DEF OwnerInv, Claimable
<1>12. \A e \in Docs : upload'[e] \in Unqueued => jobs'[e].status = "ABSENT"
  BY <1>1, <1>3 DEF OwnerInv, Claimable
<1>13. \A v \in Workers : wk'[v].pc # "selected"
  BY <1>4 DEF OwnerInv
<1> QED BY <1>7, <1>8, <1>9, <1>10, <1>11, <1>12, <1>13 DEF OwnerInv

\* The owner of a job writes its outcome and owns it no longer.
LEMMA OwnerOutcome ==
  ASSUME TypeOK, Holding, OwnerInv, NEW w \in Workers, CompleteJob(w) \/ HandleError(w),
         UNCHANGED upload
  PROVE  OwnerInv'
<1> USE DEF TypeOK, StoreTypeOK, WorkerTypeOK
<1> DEFINE d == wk[w].job
<1>1. Processing(w) /\ d \in Docs
  BY DEF CompleteJob, HandleError, Release, GoTo, Processing, Holding
<1>2. /\ jobs'[d].attempts = jobs[d].attempts
      /\ jobs'[d].status \in {"COMPLETED", "FAILED", "RETRY"}
      /\ jobs'[d].status = "RETRY" => wk[w].attempts < MaxAttempts
      /\ \A e \in Docs : e # d => jobs'[e] = jobs[e]
  <2>1. CASE CompleteJob(w)
    BY <1>1, <2>1 DEF CompleteJob, SetJob
  <2>2. CASE HandleError(w)
    <3>1. CASE wk[w].attempts >= MaxAttempts
      BY <1>1, <2>2, <3>1 DEF HandleError, SetJob
    <3>2. CASE ~(wk[w].attempts >= MaxAttempts)
      <4>1. wk[w].attempts < MaxAttempts
        BY <3>2, WorkerAssumption
      <4> QED BY <1>1, <2>2, <3>2, <4>1 DEF HandleError, SetJob
    <3> QED BY <3>1, <3>2
  <2> QED BY <2>1, <2>2
<1>3. /\ wk'[w].pc \in {"idle", "exhausting", "rescheduling"}
      /\ \A v \in Workers : v # w => wk'[v] = wk[v]
  BY DEF CompleteJob, HandleError, Release, GoTo, Idle
<1>4. \A v \in Workers : Processing(v)' => /\ v # w /\ Processing(v) /\ wk[v].job # d
                                          /\ jobs'[wk[v].job] = jobs[wk[v].job]
  <2> SUFFICES ASSUME NEW v \in Workers, Processing(v)'
               PROVE  /\ v # w /\ Processing(v) /\ wk[v].job # d
                      /\ jobs'[wk[v].job] = jobs[wk[v].job]
    OBVIOUS
  <2>1. v # w /\ Processing(v)
    BY <1>3 DEF Processing
  <2>2. wk[v].job # d
    BY <1>1, <2>1 DEF OwnerInv, SingleOwner
  <2>3. wk[v].job \in Docs
    BY <2>1 DEF Holding, Processing
  <2> QED BY <1>2, <2>1, <2>2, <2>3
<1>5. wk[w].attempts = jobs[d].attempts /\ jobs[d].status = "RUNNING"
  BY <1>1 DEF OwnerInv, OwnerRunsJob
<1>6. SingleOwner' /\ OwnerRunsJob' /\ AttemptsBounded'
  BY <1>3, <1>4 DEF OwnerInv, SingleOwner, OwnerRunsJob, AttemptsBounded
<1>7. \A v \in Workers : Processing(v)' => wk'[v].attempts = jobs'[wk'[v].job].attempts
  BY <1>3, <1>4 DEF OwnerInv
<1>8. \A e \in Docs : Claimable(e)' => jobs'[e].attempts < MaxAttempts
  <2> SUFFICES ASSUME NEW e \in Docs, Claimable(e)' PROVE jobs'[e].attempts < MaxAttempts
    OBVIOUS
  <2>1. CASE e = d
    BY <1>2, <1>5, <2>1 DEF Claimable
  <2>2. CASE e # d
    <3>1. jobs'[e] = jobs[e]
      BY <1>2, <2>2
    <3> QED BY <3>1 DEF OwnerInv, Claimable
  <2> QED BY <2>1, <2>2
<1>9. \A e \in Docs : upload'[e] \in Unqueued => jobs'[e].status = "ABSENT"
  <2> SUFFICES ASSUME NEW e \in Docs, upload'[e] \in Unqueued PROVE jobs'[e].status = "ABSENT"
    OBVIOUS
  <2>1. jobs[e].status = "ABSENT"
    BY DEF OwnerInv
  <2>2. e # d
    BY <1>5, <2>1
  <2> QED BY <1>2, <2>1, <2>2
<1>10. \A v \in Workers : wk'[v].pc # "selected"
  BY <1>3 DEF OwnerInv
<1> QED BY <1>6, <1>7, <1>8, <1>9, <1>10 DEF OwnerInv

\* The steps of a worker.
LEMMA OwnerWorkerStep ==
  ASSUME SkipLocked, TypeOK, Holding, OwnerInv, WorkerNext, UNCHANGED apiVars
  PROVE  OwnerInv'
<1>0. upload' = upload
  BY DEF apiVars
<1>1. PICK w \in Workers : WorkerStep(w) \/ StoreRaises(w) \/ Crash(w)
  BY DEF WorkerNext
<1>2. CASE Claim(w)
  BY <1>0, <1>2, OwnerClaim
<1>3. CASE ClaimSelect(w) \/ ClaimUpdate(w)
  BY <1>3 DEF ClaimSelect, ClaimUpdate, GoTo, OwnerInv
<1>4. CASE CompleteJob(w) \/ HandleError(w)
  BY <1>0, <1>4, OwnerOutcome
<1>5. CASE \/ GetDocument(w) \/ LoadObject(w) \/ ExtractPdf(w) \/ StoreResult(w) \/ Report(w)
           \/ Progress(w, "reading", "started")
           \/ Progress(w, "parsing", "parse")
           \/ Progress(w, "extracting", "records")
           \/ Audit(w, "started", "load", "INGESTION_STARTED")
  <2>1. PICK from \in TryPcs \cup {"handler"}, to \in WorkerPcs \ {"selected"} : GoTo(w, from, to)
    BY <1>5 DEF GetDocument, LoadObject, ExtractPdf, StoreResult, Report, Progress, Audit, WorkerPcs
  <2>2. jobs' = jobs
    BY <1>5 DEF GetDocument, LoadObject, ExtractPdf, StoreResult, Report, Progress, Audit, storeVars
  <2> QED BY <1>0, <2>1, <2>2, MoveQuiet, QuietStep
<1>6. CASE HandlerProgress(w)
  <2>1. PICK from \in WorkerPcs, to \in ExceptPcs \ {"handler"} : GoTo(w, from, to)
    BY <1>6 DEF HandlerProgress, WorkerPcs
  <2>2. jobs' = jobs
    BY <1>6 DEF HandlerProgress
  <2> QED BY <1>0, <2>1, <2>2, MoveQuiet, QuietStep
<1>7. CASE HandlerAudit(w) \/ Crash(w)
  <2>1. wk' = [wk EXCEPT ![w] = Idle] /\ jobs' = jobs
    BY <1>7 DEF HandlerAudit, Release, Crash, storeVars
  <2> QED BY <1>0, <2>1, MoveQuiet, QuietStep
<1>8. CASE ParseObject(w) \/ StoreRaises(w)
  <2>1. jobs' = jobs
    BY <1>8 DEF ParseObject, StoreRaises, storeVars
  <2> QED BY <1>0, <1>8, <2>1, MoveQuiet, QuietStep
<1> QED
  BY <1>1, <1>2, <1>3, <1>4, <1>5, <1>6, <1>7, <1>8 DEF WorkerStep

LEMMA OwnerInvariant ==
  ASSUME SkipLocked, Retries = {}, MaxAttempts > 0
  PROVE  Spec => []OwnerInv
<1>1. Init => OwnerInv /\ NoRetrying
  BY DEF Init, StoreInit, ApiInit, WorkerInit, Idle, OwnerInv, NoRetrying, SingleOwner,
     OwnerRunsJob, AttemptsBounded, Processing, Claimable
<1>2. OwnerInv /\ NoRetrying /\ TypeOK /\ Holding /\ [Next]_vars => OwnerInv' /\ NoRetrying'
  <2> SUFFICES ASSUME OwnerInv, NoRetrying, TypeOK, Holding, [Next]_vars
               PROVE  OwnerInv' /\ NoRetrying'
    OBVIOUS
  <2>1. NoRetrying'
    BY NoRetryStep
  <2>2. CASE ApiNext /\ UNCHANGED workerVars
    BY <2>1, <2>2, OwnerApiStep
  <2>3. CASE WorkerNext /\ UNCHANGED apiVars
    BY <2>1, <2>3, OwnerWorkerStep
  <2>4. CASE UNCHANGED vars
    <3>1. jobs' = jobs /\ wk' = wk /\ upload' = upload
      BY <2>4 DEF vars, storeVars, apiVars, workerVars
    <3> QED BY <2>1, <3>1, QuietStep DEF OwnerInv, Processing
  <2> QED BY <2>2, <2>3, <2>4 DEF Next
<1> QED BY <1>1, <1>2, TypeCorrect, PTL DEF Spec

\* On PostgreSQL and without manual retries, whatever fails or dies: a job has
\* one owner at a time, and says RUNNING while it has one.
THEOREM JobOwnership ==
  ASSUME SkipLocked, Retries = {}, MaxAttempts > 0
  PROVE  Spec => [](SingleOwner /\ OwnerRunsJob)
<1>1. OwnerInv => SingleOwner /\ OwnerRunsJob
  BY DEF OwnerInv
<1> QED BY <1>1, OwnerInvariant, PTL

\* There, a document is processed at most MAX_INGESTION_ATTEMPTS times.
THEOREM AttemptsCounted ==
  ASSUME SkipLocked, Retries = {}, MaxAttempts > 0
  PROVE  Spec => []AttemptsBounded
<1>1. OwnerInv => AttemptsBounded
  BY DEF OwnerInv
<1> QED BY <1>1, OwnerInvariant, PTL

-----------------------------------------------------------------------------
(* The deployment: one worker, nobody retries by hand, and no store call of   *)
(* the worker raises between the result and the end of the job.               *)

Deployment ==
  (\E w : Workers = {w}) /\ Retries = {} /\ FaultPoints \cap {"report", "complete"} = {}

IngestingPcs == {"started", "load", "parsing", "parse", "extracting", "records", "result"}
OpenPcs == {"selected", "get", "reading", "handler", "exhausting", "rescheduling"} \cup IngestingPcs

\* What the worker, wherever it is, knows of the two rows in its hand.
WorkerKnows(w) ==
  LET d == wk[w].job IN
  /\ wk[w].pc \in OpenPcs => docs[d].status \in {"UPLOADED", "INGESTING"}
  /\ wk[w].pc \in IngestingPcs => docs[d].status = "INGESTING"
  /\ wk[w].pc \in TryPcs \cup {"handler"} => jobs[d].status = "RUNNING"
  /\ wk[w].pc = "selected" => Claimable(d)
  /\ wk[w].pc \in {"exhausting", "exhausted"} => jobs[d].status = "FAILED"
  /\ wk[w].pc \in {"rescheduling", "rescheduled"} => jobs[d].status = "RETRY"

\* Only open documents are claimed, and a document is queued once.
RowsOpen ==
  /\ \A d \in Docs : Claimable(d) => docs[d].status \in {"UPLOADED", "INGESTING"}
  /\ \A d \in Docs : upload[d] \in Unqueued => jobs[d].status = "ABSENT"

Confirming == \A r \in Requests : r \in Confirms /\ req[r].pc \notin {"enqueue", "progress"}

Flow == (\A w \in Workers : WorkerKnows(w)) /\ RowsOpen /\ Confirming

\* The worker takes a job: it is claimable, hence its document is open.
LEMMA FlowClaim ==
  ASSUME NEW w, Workers = {w}, TypeOK, Holding, Flow, UNCHANGED apiVars,
         Claim(w) \/ ClaimSelect(w) \/ ClaimUpdate(w)
  PROVE  Flow'
<1> USE DEF TypeOK, StoreTypeOK, WorkerTypeOK
<1>0. UNCHANGED <<upload, req, docs>>
  BY DEF apiVars, Claim, ClaimSelect, ClaimUpdate, storeVars
<1>1. PICK d \in Docs :
        /\ Claimable(d) /\ wk'[w].job = d
        /\ \/ wk'[w].pc = "get" /\ MarkRunning(d)
           \/ wk'[w].pc = "selected" /\ jobs' = jobs
  <2>1. CASE Claim(w)
    BY <2>1 DEF Claim, Take
  <2>2. CASE ClaimSelect(w)
    BY <2>2 DEF ClaimSelect, Take, storeVars
  <2>3. CASE ClaimUpdate(w)
    BY <2>3 DEF ClaimUpdate, GoTo, Flow, WorkerKnows, Holding
  <2> QED BY <2>1, <2>2, <2>3
<1>2. docs[d].status \in {"UPLOADED", "INGESTING"}
  BY <1>1 DEF Flow, RowsOpen
<1>3. \A e \in Docs : jobs'[e] = jobs[e] \/ (e = d /\ jobs'[e].status = "RUNNING")
  BY <1>1 DEF MarkRunning
<1>4. wk'[w].pc = "get" => jobs'[d].status = "RUNNING"
  BY <1>1 DEF MarkRunning
<1>5. wk'[w].pc = "selected" => Claimable(d)'
  BY <1>1 DEF Claimable
<1>6. WorkerKnows(w)'
  BY <1>0, <1>1, <1>2, <1>4, <1>5 DEF WorkerKnows, OpenPcs, IngestingPcs
<1>7. RowsOpen'
  BY <1>0, <1>1, <1>3 DEF Flow, RowsOpen, Claimable
<1> QED BY <1>0, <1>6, <1>7 DEF Flow, Confirming

\* The worker moves on and writes nothing but, perhaps, the trail.
LEMMA FlowMove ==
  ASSUME NEW w, Workers = {w}, FaultPoints \cap {"report", "complete"} = {},
         TypeOK, Holding, Flow, UNCHANGED <<apiVars, docs, jobs>>,
         \/ GetDocument(w) \/ LoadObject(w) \/ ExtractPdf(w) \/ ParseObject(w) \/ Report(w)
         \/ Audit(w, "started", "load", "INGESTION_STARTED") \/ HandlerAudit(w)
         \/ StoreRaises(w) \/ Crash(w)
  PROVE  Flow'
<1> USE DEF TypeOK, StoreTypeOK, WorkerTypeOK
<1>0. UNCHANGED <<upload, req, docs, jobs>>
  BY DEF apiVars
<1>1. \/ wk'[w].pc = "idle"
      \/ /\ wk'[w].job = wk[w].job
         /\ \/ wk[w].pc \in {"get", "reading"} \cup IngestingPcs /\ wk'[w].pc = "handler"
            \/ wk[w].pc = "get" /\ wk'[w].pc = "reading"
            \/ wk[w].pc \in IngestingPcs /\ wk'[w].pc \in IngestingPcs
            \/ wk[w].pc = "report" /\ wk'[w].pc = "complete"
  <2>1. CASE GetDocument(w) \/ LoadObject(w) \/ ExtractPdf(w)
    BY <2>1 DEF GetDocument, LoadObject, ExtractPdf, GoTo, IngestingPcs
  <2>2. CASE ParseObject(w)
    <3>1. PICK p \in {"handler", "result"}, b \in BOOLEAN : wk' = [wk EXCEPT ![w].pc = p, ![w].errors = b]
      BY <2>2 DEF ParseObject
    <3>2. wk[w].pc \in {"parse", "records"}
      BY <2>2 DEF ParseObject
    <3>3. wk'[w].pc = p /\ wk'[w].job = wk[w].job
      BY <3>1
    <3> QED BY <3>2, <3>3 DEF IngestingPcs
  <2>3. CASE Report(w) \/ Audit(w, "started", "load", "INGESTION_STARTED")
    BY <2>3 DEF Report, Audit, GoTo, IngestingPcs
  <2>4. CASE HandlerAudit(w) \/ Crash(w)
    BY <2>4 DEF HandlerAudit, Crash, Release, Idle
  <2>5. CASE StoreRaises(w)
    BY <2>5, WorkerAssumption DEF StoreRaises, IngestingPcs
  <2> QED BY <2>1, <2>2, <2>3, <2>4, <2>5
<1>2. WorkerKnows(w)'
  BY <1>0, <1>1 DEF Flow, WorkerKnows, OpenPcs, IngestingPcs
<1>3. RowsOpen'
  BY <1>0 DEF Flow, RowsOpen, Claimable
<1> QED BY <1>0, <1>2, <1>3 DEF Flow, Confirming

\* The worker writes the document in its hand, whose job nobody may claim or
\* which it leaves open.
LEMMA FlowWrite ==
  ASSUME NEW w, Workers = {w}, TypeOK, Holding, Flow, UNCHANGED apiVars,
         \/ Progress(w, "reading", "started") \/ Progress(w, "parsing", "parse")
         \/ Progress(w, "extracting", "records") \/ StoreResult(w) \/ HandlerProgress(w)
  PROVE  Flow'
<1> USE DEF TypeOK, StoreTypeOK, WorkerTypeOK
<1> DEFINE d == wk[w].job
<1>0. UNCHANGED <<upload, req, jobs>>
  BY DEF apiVars, Progress, StoreResult, HandlerProgress
<1>1. d \in Docs
  BY DEF Progress, StoreResult, HandlerProgress, GoTo, Holding
<1>2. wk'[w].job = d /\ wk[w].pc \in OpenPcs \ {"selected"}
  BY DEF Progress, StoreResult, HandlerProgress, GoTo, OpenPcs, IngestingPcs
<1>3. Present(d) /\ \A e \in Docs : e # d => docs'[e] = docs[e]
  BY <1>1, <1>2 DEF Progress, StoreResult, HandlerProgress, UpdateProgress, UpdateResult, Present, Flow, WorkerKnows
<1>4. \/ wk'[w].pc \in IngestingPcs /\ docs'[d].status = "INGESTING" /\ jobs[d].status = "RUNNING"
      \/ wk'[w].pc = "report" /\ jobs[d].status = "RUNNING"
      \/ wk'[w].pc = "exhausted" /\ jobs[d].status = "FAILED"
      \/ wk'[w].pc = "rescheduled" /\ docs'[d].status = "UPLOADED" /\ jobs[d].status = "RETRY"
  <2>1. CASE Progress(w, "reading", "started") \/ Progress(w, "parsing", "parse") \/ Progress(w, "extracting", "records")
    BY <1>1, <1>3, <2>1 DEF Progress, GoTo, UpdateProgress, IngestingPcs, Flow, WorkerKnows
  <2>2. CASE StoreResult(w)
    BY <2>2 DEF StoreResult, GoTo, Flow, WorkerKnows
  <2>3. CASE HandlerProgress(w)
    BY <1>1, <1>3, <2>3 DEF HandlerProgress, GoTo, UpdateProgress, Flow, WorkerKnows
  <2> QED BY <2>1, <2>2, <2>3
<1>5. WorkerKnows(w)'
  BY <1>0, <1>1, <1>2, <1>4 DEF WorkerKnows, OpenPcs, IngestingPcs
<1>6. RowsOpen'
  <2>1. \A e \in Docs : Claimable(e)' => docs'[e].status \in {"UPLOADED", "INGESTING"}
    BY <1>0, <1>3, <1>4 DEF Claimable, Flow, RowsOpen
  <2> QED BY <1>0, <2>1 DEF Flow, RowsOpen
<1> QED BY <1>0, <1>5, <1>6 DEF Flow, Confirming

\* The worker writes the outcome of its job.
LEMMA FlowOutcome ==
  ASSUME NEW w, Workers = {w}, TypeOK, Holding, Flow, UNCHANGED apiVars,
         CompleteJob(w) \/ HandleError(w)
  PROVE  Flow'
<1> USE DEF TypeOK, StoreTypeOK, WorkerTypeOK
<1> DEFINE d == wk[w].job
<1>0. UNCHANGED <<upload, req, docs>>
  BY DEF apiVars, CompleteJob, HandleError
<1>1. d \in Docs
  BY DEF CompleteJob, HandleError, Release, GoTo, Holding
<1>2. \/ wk'[w].pc = "idle" /\ jobs'[d].status = "COMPLETED"
      \/ wk'[w].pc = "exhausting" /\ jobs'[d].status = "FAILED" /\ wk[w].pc = "handler" /\ wk'[w].job = d
      \/ wk'[w].pc = "rescheduling" /\ jobs'[d].status = "RETRY" /\ wk[w].pc = "handler" /\ wk'[w].job = d
  BY <1>1 DEF CompleteJob, HandleError, Release, GoTo, Idle, SetJob
<1>3. \A e \in Docs : e # d => jobs'[e] = jobs[e]
  BY DEF CompleteJob, HandleError, SetJob
<1>4. wk[w].pc \in TryPcs \cup {"handler"}
  BY DEF CompleteJob, HandleError, Release, GoTo
<1>5. jobs[d].status = "RUNNING"
  BY <1>4 DEF Flow, WorkerKnows
<1>6. wk'[w].pc # "idle" => docs[d].status \in {"UPLOADED", "INGESTING"}
  BY <1>2 DEF Flow, WorkerKnows, OpenPcs
<1>7. WorkerKnows(w)'
  BY <1>0, <1>2, <1>6 DEF WorkerKnows, OpenPcs, IngestingPcs
<1>8. RowsOpen'
  <2>1. \A e \in Docs : Claimable(e)' => docs'[e].status \in {"UPLOADED", "INGESTING"}
    BY <1>0, <1>2, <1>3, <1>6 DEF Claimable, Flow, RowsOpen
  <2>2. \A e \in Docs : upload'[e] \in Unqueued => jobs'[e].status = "ABSENT"
    BY <1>0, <1>3, <1>5 DEF Flow, RowsOpen
  <2> QED BY <2>1, <2>2 DEF RowsOpen
<1> QED BY <1>0, <1>7, <1>8 DEF Flow, Confirming

LEMMA FlowWorkerStep ==
  ASSUME Deployment, TypeOK, Holding, Flow, WorkerNext, UNCHANGED apiVars
  PROVE  Flow'
<1>1. PICK w : Workers = {w}
  BY DEF Deployment
<1>2. WorkerStep(w) \/ StoreRaises(w) \/ Crash(w)
  BY <1>1 DEF WorkerNext
<1>3. CASE Claim(w) \/ ClaimSelect(w) \/ ClaimUpdate(w)
  BY <1>1, <1>3, FlowClaim
<1>4. CASE \/ GetDocument(w) \/ LoadObject(w) \/ ExtractPdf(w) \/ ParseObject(w) \/ Report(w)
           \/ Audit(w, "started", "load", "INGESTION_STARTED") \/ HandlerAudit(w)
           \/ StoreRaises(w) \/ Crash(w)
  <2>1. UNCHANGED <<apiVars, docs, jobs>>
    BY <1>4 DEF GetDocument, LoadObject, ExtractPdf, ParseObject, Report, Audit, HandlerAudit,
       StoreRaises, Crash, storeVars
  <2> QED BY <1>1, <1>4, <2>1, FlowMove DEF Deployment
<1>5. CASE \/ Progress(w, "reading", "started") \/ Progress(w, "parsing", "parse")
           \/ Progress(w, "extracting", "records") \/ StoreResult(w) \/ HandlerProgress(w)
  BY <1>1, <1>5, FlowWrite
<1>6. CASE CompleteJob(w) \/ HandleError(w)
  BY <1>1, <1>6, FlowOutcome
<1> QED BY <1>2, <1>3, <1>4, <1>5, <1>6 DEF WorkerStep

\* A document that is created or confirmed is in nobody's hand, and one that is
\* queued has just been created.
LEMMA FlowApiStep ==
  ASSUME Deployment, TypeOK, Holding, LostUploadRetryable, HandlersHaveDocument, Flow,
         ApiNext, UNCHANGED workerVars
  PROVE  Flow'
<1> USE DEF TypeOK, StoreTypeOK, ApiTypeOK
<1>0. wk' = wk
  BY DEF workerVars
<1>1. \A r \in Requests : r \notin Retries
  BY DEF Deployment
<1>2. CASE \E d \in Docs : UploadEnqueue(d)
  <2>1. PICK d \in Docs : UploadEnqueue(d)
    BY <1>2
  <2>2. jobs[d].status = "ABSENT" /\ docs[d].status = "UPLOADED"
    BY <2>1 DEF UploadEnqueue, UploadTo, Flow, RowsOpen, Unqueued, LostUploadRetryable, HandlersHaveDocument, Present
  <2>3. /\ \A e \in Docs : e # d => jobs'[e] = jobs[e] /\ upload'[e] = upload[e]
        /\ upload'[d] = "done" /\ UNCHANGED <<docs, req>>
    BY <2>1 DEF UploadEnqueue, UploadTo, EnqueueJob
  <2>4. ASSUME NEW w \in Workers PROVE WorkerKnows(w)'
    <3>1. wk[w].pc # "idle" => jobs[wk[w].job].status \in JobStatus
      BY DEF Flow, WorkerKnows, WorkerTypeOK, WorkerPcs, Claimable
    <3>2. wk[w].pc # "idle" => wk[w].job \in Docs /\ wk[w].job # d
      BY <2>2, <3>1 DEF Holding
    <3>3. wk[w].pc = "idle" \/ jobs'[wk[w].job] = jobs[wk[w].job]
      BY <2>3, <3>2
    <3> QED BY <1>0, <2>3, <3>3 DEF Flow, WorkerKnows, OpenPcs, IngestingPcs, Claimable
  <2>5. RowsOpen'
    BY <2>2, <2>3 DEF Flow, RowsOpen, Claimable, Unqueued
  <2> QED BY <2>3, <2>4, <2>5 DEF Flow, Confirming
<1>3. CASE \E d \in Docs : UploadCreate(d)
  <2>1. PICK d \in Docs : UploadCreate(d)
    BY <1>3
  <2>2. ~Present(d)
    BY <2>1 DEF UploadCreate, Create, FindByHash
  <2>3. /\ \A e \in Docs : e # d => docs'[e] = docs[e]
        /\ \A e \in Docs : upload'[e] \in Unqueued => upload[e] \in Unqueued
        /\ docs'[d].status = "UPLOADED" /\ UNCHANGED <<jobs, req>>
    BY <2>1 DEF UploadCreate, UploadTo, Create, Unqueued
  <2>4. ASSUME NEW w \in Workers PROVE WorkerKnows(w)'
    BY <1>0, <2>2, <2>3 DEF Flow, WorkerKnows, OpenPcs, IngestingPcs, Claimable, Holding, Present
  <2>5. RowsOpen'
    BY <2>3 DEF Flow, RowsOpen, Claimable
  <2> QED BY <2>3, <2>4, <2>5 DEF Flow, Confirming
<1>4. CASE \E r \in Requests : ConfirmUpdate(r)
  <2>1. PICK r \in Requests : ConfirmUpdate(r)
    BY <1>4
  <2> DEFINE d == req[r].doc
  <2>2. docs[d].status = "PARSED" /\ d \in Docs
    BY <2>1 DEF ConfirmUpdate, Confirm, CanConfirm
  <2>3. \A e \in Docs : e # d => docs'[e] = docs[e]
    BY <2>1 DEF ConfirmUpdate, Confirm
  <2>4. UNCHANGED <<jobs, upload>> /\ Confirming'
    BY <2>1 DEF ConfirmUpdate, RequestTo, Flow, Confirming
  <2>5. ASSUME NEW w \in Workers PROVE WorkerKnows(w)'
    BY <1>0, <2>2, <2>3, <2>4 DEF Flow, WorkerKnows, OpenPcs, IngestingPcs, Claimable, Holding
  <2>6. RowsOpen'
    BY <2>2, <2>3, <2>4 DEF Flow, RowsOpen, Claimable
  <2> QED BY <2>4, <2>5, <2>6 DEF Flow
<1>5. CASE UNCHANGED <<docs, jobs>> /\ Confirming' /\ \A d \in Docs : upload'[d] \in Unqueued => upload[d] \in Unqueued
  BY <1>0, <1>5 DEF Flow, WorkerKnows, RowsOpen, Claimable
<1>6. CASE \E d \in Docs : UploadFind(d) \/ UploadPut(d) \/ UploadConflict(d) \/ UploadAudit(d)
  BY <1>5, <1>6 DEF UploadFind, UploadPut, UploadConflict, UploadAudit, UploadTo, Unqueued, storeVars, Flow, Confirming
<1>7. CASE \E r \in Requests : ConfirmGet(r) \/ ConfirmRefused(r) \/ RequestAudit(r)
  <2>1. UNCHANGED <<docs, jobs, upload>>
    BY <1>7 DEF ConfirmGet, ConfirmRefused, RequestAudit, RequestTo, storeVars
  <2>2. Confirming'
    <3>1. PICK r \in Requests, pc \in {"update", "refused", "done"} : req' = [req EXCEPT ![r].pc = pc]
      BY <1>7 DEF ConfirmGet, ConfirmRefused, RequestAudit, RequestTo
    <3> QED BY <3>1 DEF Flow, Confirming
  <2> QED BY <1>5, <2>1, <2>2
<1>8. CASE ApiRaises
  <2>1. UNCHANGED <<docs, jobs>> /\ \A d \in Docs : upload'[d] \in Unqueued => upload[d] \in Unqueued
    <3>1. \A d \in Docs : upload'[d] = upload[d] \/ upload'[d] = "failed"
      BY <1>8 DEF ApiRaises
    <3> QED BY <1>8, <3>1 DEF ApiRaises, storeVars, Unqueued
  <2>2. Confirming'
    <3>1. \A r \in Requests : req'[r].pc = req[r].pc \/ req'[r].pc = "failed"
      BY <1>8 DEF ApiRaises
    <3> QED BY <3>1 DEF Flow, Confirming
  <2> QED BY <1>5, <2>1, <2>2
<1>9. \A r \in Requests : ~RetryGet(r) /\ ~RetryEnqueue(r) /\ ~RetryProgress(r)
  BY <1>1 DEF RetryGet, RetryEnqueue, RetryProgress, RequestTo, Flow, Confirming
<1> QED BY <1>2, <1>3, <1>4, <1>6, <1>7, <1>8, <1>9 DEF ApiNext, UploadStep, RequestStep

LEMMA FlowKept ==
  ASSUME Deployment
  PROVE  Spec => [](Flow /\ TypeOK /\ Holding /\ ImportInv)
<1>1. Init => Flow
  BY DEF Deployment, Init, StoreInit, ApiInit, WorkerInit, Idle, Flow, WorkerKnows, OpenPcs, IngestingPcs,
     RowsOpen, Confirming, Claimable, Requests
<1>2. Flow /\ TypeOK /\ Holding /\ ImportInv /\ [Next]_vars => Flow'
  <2> SUFFICES ASSUME Flow, TypeOK, Holding, ImportInv, [Next]_vars PROVE Flow'
    OBVIOUS
  <2>1. CASE ApiNext /\ UNCHANGED workerVars
    BY <2>1, FlowApiStep DEF ImportInv
  <2>2. CASE WorkerNext /\ UNCHANGED apiVars
    BY <2>2, FlowWorkerStep
  <2>3. CASE UNCHANGED vars
    BY <2>3 DEF vars, storeVars, apiVars, workerVars, Flow, WorkerKnows, RowsOpen, Confirming, Claimable
  <2> QED BY <2>1, <2>2, <2>3 DEF Next
<1> QED BY <1>1, <1>2, TypeCorrect, ImportInvariant, PTL DEF Spec

\* The actions that write a document.
LEMMA WritersOfDocuments ==
  ASSUME [Next]_vars
  PROVE  \/ docs' = docs
         \/ \E d \in Docs : UploadCreate(d)
         \/ \E r \in Requests : ConfirmUpdate(r) \/ RetryProgress(r)
         \/ \E w \in Workers :
              \/ Progress(w, "reading", "started") \/ Progress(w, "parsing", "parse")
              \/ Progress(w, "extracting", "records") \/ StoreResult(w) \/ HandlerProgress(w)
<1> USE DEF storeVars
<1>1. CASE UNCHANGED vars
  BY <1>1 DEF vars
<1>2. CASE ApiNext
  BY <1>2 DEF ApiNext, UploadStep, RequestStep, ApiRaises, UploadFind, UploadPut, UploadConflict, UploadAudit,
     UploadEnqueue, ConfirmGet, ConfirmRefused, RequestAudit, RetryGet, RetryEnqueue
<1>3. CASE WorkerNext
  BY <1>3 DEF WorkerNext, WorkerStep, StoreRaises, Crash, Claim, ClaimSelect, ClaimUpdate, GetDocument, Audit,
     LoadObject, ExtractPdf, ParseObject, Report, CompleteJob, HandleError, HandlerAudit
<1> QED BY <1>1, <1>2, <1>3 DEF Next

Statuses == [d \in Docs |-> docs[d].status]

\* A step that writes one row moves the status of one document.
LEMMA OneRowMoves ==
  ASSUME TypeOK, TypeOK', NEW d \in Docs, \A e \in Docs : e # d => docs'[e] = docs[e]
  PROVE  Statuses' = [Statuses EXCEPT ![d] = docs'[d].status]
BY DEF Statuses

\* Every step of the deployment is an edge of the lifecycle, or none.
LEMMA LifecycleStep ==
  ASSUME Deployment, TypeOK, TypeOK', Holding, Flow, [Next]_vars
  PROVE  Lifecycle!Next \/ Statuses' = Statuses
<1> USE DEF TypeOK, StoreTypeOK
<1> DEFINE Edge(d, from, to) ==
             /\ \A e \in Docs : e # d => docs'[e] = docs[e]
             /\ docs[d].status \in from /\ docs'[d].status \in to
<1>1. ASSUME NEW d \in Docs,
             \/ Edge(d, {"ABSENT"}, {"UPLOADED"})
             \/ Edge(d, {"UPLOADED"}, {"INGESTING"})
             \/ Edge(d, {"INGESTING"}, {"PARSED", "FAILED"})
             \/ Edge(d, {"UPLOADED", "INGESTING"}, {"FAILED"})
             \/ Edge(d, {"INGESTING", "FAILED"}, {"UPLOADED"})
             \/ Edge(d, {"PARSED"}, {"CONFIRMED"})
      PROVE  Lifecycle!Next
  <2>1. Statuses' = [Statuses EXCEPT ![d] = docs'[d].status] /\ Statuses[d] = docs[d].status
    BY <1>1, OneRowMoves DEF Statuses
  <2> QED
    BY <1>1, <2>1 DEF Statuses, Lifecycle!Next, Lifecycle!Move, Lifecycle!Receive, Lifecycle!Start,
       Lifecycle!Finish, Lifecycle!GiveUp, Lifecycle!Rerun, Lifecycle!Accept
<1>2. ASSUME NEW d \in Docs, Edge(d, {"UPLOADED", "INGESTING"}, {"UPLOADED", "INGESTING"})
      PROVE  Lifecycle!Next \/ Statuses' = Statuses
  <2>1. CASE docs'[d].status = docs[d].status
    BY <1>2, <2>1 DEF Statuses
  <2>2. CASE docs'[d].status # docs[d].status
    BY <1>1, <1>2, <2>2
  <2> QED BY <2>1, <2>2
<1>3. CASE docs' = docs
  BY <1>3 DEF Statuses
<1>4. ASSUME NEW d \in Docs, UploadCreate(d) PROVE Lifecycle!Next
  <2>1. docs[d].status = "ABSENT"
    BY <1>4 DEF UploadCreate, Create, FindByHash, Present
  <2> QED BY <1>1, <1>4, <2>1 DEF UploadCreate, Create
<1>5. ASSUME NEW r \in Requests, ConfirmUpdate(r) PROVE Lifecycle!Next
  <2>1. req[r].doc \in Docs
    BY DEF ApiTypeOK
  <2> QED BY <1>1, <1>5, <2>1 DEF ConfirmUpdate, Confirm, CanConfirm
<1>6. ASSUME NEW w \in Workers, wk[w].pc \in OpenPcs \ {"selected"}
      PROVE  /\ wk[w].job \in Docs /\ Present(wk[w].job)
             /\ docs[wk[w].job].status \in {"UPLOADED", "INGESTING"}
             /\ wk[w].pc \in IngestingPcs => docs[wk[w].job].status = "INGESTING"
  BY <1>6 DEF Flow, WorkerKnows, Holding, OpenPcs, IngestingPcs, Present
<1>7. ASSUME NEW w \in Workers,
             Progress(w, "reading", "started") \/ Progress(w, "parsing", "parse") \/ Progress(w, "extracting", "records")
      PROVE  Lifecycle!Next \/ Statuses' = Statuses
  <2>1. wk[w].pc \in OpenPcs \ {"selected"} /\ UpdateProgress(wk[w].job, "INGESTING")
    BY <1>7 DEF Progress, GoTo, OpenPcs, IngestingPcs
  <2>2. Edge(wk[w].job, {"UPLOADED", "INGESTING"}, {"UPLOADED", "INGESTING"})
    BY <1>6, <2>1 DEF UpdateProgress
  <2> QED BY <1>2, <1>6, <2>1, <2>2
<1>8. ASSUME NEW w \in Workers, StoreResult(w) PROVE Lifecycle!Next
  <2>1. wk[w].pc \in OpenPcs \ {"selected"} /\ wk[w].pc \in IngestingPcs
    BY <1>8 DEF StoreResult, GoTo, OpenPcs, IngestingPcs
  <2>2. Edge(wk[w].job, {"INGESTING"}, {"PARSED", "FAILED"})
    BY <1>6, <1>8, <2>1 DEF StoreResult, UpdateResult
  <2> QED BY <1>1, <1>6, <2>1, <2>2
<1>9. ASSUME NEW w \in Workers, HandlerProgress(w) PROVE Lifecycle!Next \/ Statuses' = Statuses
  <2>1. wk[w].pc \in OpenPcs \ {"selected"}
    BY <1>9 DEF HandlerProgress, GoTo, OpenPcs
  <2>2. \/ Edge(wk[w].job, {"UPLOADED", "INGESTING"}, {"FAILED"})
        \/ Edge(wk[w].job, {"UPLOADED", "INGESTING"}, {"UPLOADED", "INGESTING"})
    BY <1>6, <1>9, <2>1 DEF HandlerProgress, UpdateProgress
  <2> QED BY <1>1, <1>2, <1>6, <2>1, <2>2
<1>10. ASSUME NEW r \in Requests PROVE ~RetryProgress(r)
  BY DEF RetryProgress, RequestTo, Flow, Confirming
<1>11. \/ docs' = docs
       \/ \E d \in Docs : UploadCreate(d)
       \/ \E r \in Requests : ConfirmUpdate(r) \/ RetryProgress(r)
       \/ \E w \in Workers :
            \/ Progress(w, "reading", "started") \/ Progress(w, "parsing", "parse") \/ Progress(w, "extracting", "records")
            \/ StoreResult(w) \/ HandlerProgress(w)
  BY WritersOfDocuments
<1> QED BY <1>3, <1>4, <1>5, <1>7, <1>8, <1>9, <1>10, <1>11

\* While nobody retries by hand and one worker runs, which may die anywhere and
\* whose store calls may raise until the result is stored, the tables implement
\* the lifecycle: in particular, a confirmed document stays so.
THEOREM LifecycleImplemented ==
  ASSUME Deployment
  PROVE  Spec => ImplementsLifecycle
<1>1. Init => Lifecycle!Init
  BY DEF Init, StoreInit, Lifecycle!Init
<1>2. TypeOK /\ TypeOK' /\ Holding /\ Flow /\ [Next]_vars => [Lifecycle!Next]_Statuses
  BY LifecycleStep
<1> QED BY <1>1, <1>2, FlowKept, PTL DEF Spec, ImplementsLifecycle, Lifecycle!Spec, Statuses

-----------------------------------------------------------------------------
(* The audit trail of a confirmation, in the deployment.                      *)

\* The actions that write the trail, and what they write.
LEMMA WritersOfTrail ==
  ASSUME TypeOK, Holding, [Next]_vars
  PROVE  \/ audit' = audit
         \/ \E d \in Docs : UploadAudit(d)
         \/ \E r \in Requests : RequestAudit(r)
         \/ \E w \in Workers :
              \/ Audit(w, "started", "load", "INGESTION_STARTED")
              \/ /\ Report(w) \/ HandlerAudit(w)
                 /\ \E e \in Events \ {"IMPORT_CONFIRMED", "INGESTION_STARTED"} : AddAudit(wk[w].job, e)
<1> USE DEF storeVars
<1>1. CASE UNCHANGED vars
  BY <1>1 DEF vars
<1>2. CASE ApiNext
  BY <1>2 DEF ApiNext, UploadStep, RequestStep, ApiRaises, UploadFind, UploadPut, UploadCreate, UploadConflict,
     UploadEnqueue, ConfirmGet, ConfirmRefused, ConfirmUpdate, RetryGet, RetryEnqueue, RetryProgress
<1>3. CASE WorkerNext
  <2>1. PICK w \in Workers : WorkerStep(w) \/ StoreRaises(w) \/ Crash(w)
    BY <1>3 DEF WorkerNext
  <2>2. CASE Report(w) \/ HandlerAudit(w)
    BY <2>2 DEF Report, HandlerAudit, Audit, Events
  <2>3. CASE ~Report(w) /\ ~HandlerAudit(w)
    BY <2>1, <2>3 DEF WorkerStep, StoreRaises, Crash, Claim, ClaimSelect, ClaimUpdate, GetDocument, Progress,
       LoadObject, ExtractPdf, ParseObject, StoreResult, CompleteJob, HandleError, HandlerProgress
  <2> QED BY <2>2, <2>3
<1> QED BY <1>1, <1>2, <1>3 DEF Next

\* An event is appended to the trail of its document.
LEMMA Appended ==
  ASSUME TypeOK, NEW d \in Docs, NEW e \in Events, AddAudit(d, e), NEW x
  PROVE  /\ Positions(d, x)' = Positions(d, x) \cup (IF x = e THEN {Len(audit[d]) + 1} ELSE {})
         /\ \A i \in Positions(d, x) : i \in Nat /\ i < Len(audit[d]) + 1
         /\ \A c \in Docs : c # d => audit'[c] = audit[c] /\ Positions(c, x)' = Positions(c, x)
         /\ audit'[d] # <<>> /\ (audit[d] # <<>> => audit'[d][1] = audit[d][1])
         /\ audit[d] = <<>> => audit'[d][1] = e
<1>1. audit[d] \in Seq(Events) /\ audit'[d] = Append(audit[d], e)
  BY DEF TypeOK, StoreTypeOK, AddAudit
<1>2. Len(audit[d]) \in Nat /\ DOMAIN audit[d] = 1..Len(audit[d]) /\ DOMAIN audit'[d] = 1..(Len(audit[d]) + 1)
  BY <1>1
<1>3. audit'[d][Len(audit[d]) + 1] = e /\ \A i \in 1..Len(audit[d]) : audit'[d][i] = audit[d][i]
  BY <1>1
<1>4. \A c \in Docs : c # d => audit'[c] = audit[c]
  BY DEF TypeOK, StoreTypeOK, AddAudit
<1>5. Positions(d, x)' = Positions(d, x) \cup (IF x = e THEN {Len(audit[d]) + 1} ELSE {})
  BY <1>2, <1>3 DEF Positions
<1>6. audit[d] # <<>> => Len(audit[d]) >= 1
  BY <1>1
<1>7. audit[d] = <<>> => Len(audit[d]) = 0
  BY <1>1
<1>8. audit'[d] # <<>> /\ (audit[d] # <<>> => audit'[d][1] = audit[d][1]) /\ (audit[d] = <<>> => audit'[d][1] = e)
  <2>1. Len(audit'[d]) = Len(audit[d]) + 1
    BY <1>1
  <2>2. audit'[d] # <<>>
    BY <1>2, <2>1
  <2>3. audit[d] # <<>> => audit'[d][1] = audit[d][1]
    BY <1>2, <1>3, <1>6
  <2>4. audit[d] = <<>> => audit'[d][1] = e
    BY <1>3, <1>7
  <2> QED BY <2>2, <2>3, <2>4
<1> QED BY <1>2, <1>4, <1>5, <1>8 DEF Positions

\* A step appends at most one event.
LEMMA TrailGrows ==
  ASSUME TypeOK, Holding, [Next]_vars
  PROVE  audit' = audit \/ \E d \in Docs, e \in Events : AddAudit(d, e)
<1>1. CASE \E d \in Docs : UploadAudit(d)
  BY <1>1 DEF UploadAudit, Events
<1>2. ASSUME NEW r \in Requests, RequestAudit(r)
      PROVE  \E d \in Docs, e \in Events : AddAudit(d, e)
  BY <1>2 DEF RequestAudit, TypeOK, ApiTypeOK, Events
<1>3. ASSUME NEW w \in Workers, Audit(w, "started", "load", "INGESTION_STARTED")
      PROVE  wk[w].job \in Docs /\ AddAudit(wk[w].job, "INGESTION_STARTED")
  BY <1>3 DEF Audit, GoTo, Holding
<1>4. ASSUME NEW w \in Workers, Report(w) \/ HandlerAudit(w)
      PROVE  wk[w].job \in Docs
  <2>1. wk[w].pc = "report" \/ wk[w].pc = "exhausted" \/ wk[w].pc = "rescheduled"
    BY <1>4 DEF Report, HandlerAudit, Audit, GoTo, Release
  <2> QED BY <2>1 DEF Holding
<1> QED BY <1>1, <1>2, <1>3, <1>4, WritersOfTrail DEF Events

\* and erases nothing.
LEMMA NothingErased ==
  ASSUME TypeOK, Holding, [Next]_vars, NEW d \in Docs, NEW x
  PROVE  /\ Positions(d, x) \subseteq Positions(d, x)'
         /\ audit[d] # <<>> => audit'[d] # <<>> /\ audit'[d][1] = audit[d][1]
<1>1. CASE audit' = audit
  BY <1>1 DEF Positions
<1>2. CASE \E c \in Docs, e \in Events : AddAudit(c, e)
  <2>1. PICK c \in Docs, e \in Events : AddAudit(c, e)
    BY <1>2
  <2>2. CASE c = d
    BY <2>1, <2>2, Appended
  <2>3. CASE c # d
    <3>1. audit'[d] = audit[d]
      BY <2>1, <2>3, Appended
    <3> QED BY <3>1 DEF Positions
  <2> QED BY <2>2, <2>3
<1> QED BY <1>1, <1>2, TrailGrows

\* Whoever is about to audit a confirmation made it, alone.
ConfirmedInTrail ==
  /\ \A r \in Confirms : req[r].pc = "audit" =>
       docs[req[r].doc].status = "CONFIRMED" /\ Positions(req[r].doc, "IMPORT_CONFIRMED") = {}
  /\ \A r, q \in Confirms : req[r].pc = "audit" /\ req[q].pc = "audit" /\ req[r].doc = req[q].doc => r = q
  /\ \A d \in Docs : Positions(d, "IMPORT_CONFIRMED") # {} => docs[d].status = "CONFIRMED"
  /\ ConfirmedOnce

\* What a step does to the requests: one of them moves, to its audit only by
\* confirming its document.
LEMMA ConfirmersMove ==
  ASSUME Deployment, TypeOK, Flow, [Next]_vars
  PROVE  /\ \A r \in Requests : req'[r].doc = req[r].doc
         /\ \A r \in Requests : req'[r].pc = "audit" /\ req[r].pc # "audit" => ConfirmUpdate(r)
<1> USE DEF TypeOK, ApiTypeOK
<1>1. \A r \in Requests : req'[r].doc = req[r].doc
  BY RequestRows DEF RequestRow
<1>2. CASE req' = req
  BY <1>1, <1>2
<1>3. CASE \E q \in Requests : RequestStep(q)
  <2>1. PICK q \in Requests : RequestStep(q)
    BY <1>3
  <2>2. ~RetryProgress(q) /\ ~RetryEnqueue(q)
    BY DEF RetryProgress, RetryEnqueue, RequestTo, Flow, Confirming
  <2>3. CASE ConfirmUpdate(q)
    BY <1>1, <2>3 DEF ConfirmUpdate, RequestTo
  <2>4. CASE ~ConfirmUpdate(q)
    BY <1>1, <2>1, <2>2, <2>4 DEF RequestStep, ConfirmGet, ConfirmRefused, RetryGet, RequestAudit, RequestTo
  <2> QED BY <2>3, <2>4
<1>4. CASE ApiRaises
  BY <1>1, <1>4 DEF ApiRaises
<1>5. CASE \E d \in Docs : UploadStep(d)
  BY <1>2, <1>5 DEF UploadStep, UploadTo, UploadFind, UploadPut, UploadCreate, UploadConflict, UploadAudit, UploadEnqueue
<1>6. CASE UNCHANGED apiVars
  BY <1>2, <1>6 DEF apiVars
<1> QED BY <1>3, <1>4, <1>5, <1>6 DEF Next, ApiNext, vars

LEMMA ConfirmedStays ==
  ASSUME Deployment, TypeOK, TypeOK', Holding, Flow, [Next]_vars, NEW d \in Docs, docs[d].status = "CONFIRMED"
  PROVE  docs'[d].status = "CONFIRMED"
<1>1. Statuses[d] = "CONFIRMED" /\ Statuses'[d] = docs'[d].status
  BY DEF Statuses
<1>2. Lifecycle!Next \/ Statuses' = Statuses
  BY LifecycleStep
<1>3. CASE Statuses' = Statuses
  BY <1>1, <1>3
<1>4. CASE Lifecycle!Next
  BY <1>1, <1>4 DEF Statuses, Lifecycle!Next, Lifecycle!Move, Lifecycle!Receive, Lifecycle!Start,
     Lifecycle!Finish, Lifecycle!GiveUp, Lifecycle!Rerun, Lifecycle!Accept
<1> QED BY <1>2, <1>3, <1>4

LEMMA ConfirmedStep ==
  ASSUME Deployment, TypeOK, TypeOK', Holding, Flow, ConfirmedInTrail, [Next]_vars
  PROVE  ConfirmedInTrail'
<1>0. /\ \A r \in Requests : req[r].doc \in Docs
      /\ Confirms \subseteq Requests
      /\ DOMAIN req = Requests /\ DOMAIN docs = Docs
      /\ \A d \in Docs : Len(audit[d]) + 1 \in Nat
  BY DEF TypeOK, ApiTypeOK, StoreTypeOK, Requests
<1>1. CASE \E r \in Requests : RequestAudit(r)
  <2>1. PICK r \in Requests : RequestAudit(r)
    BY <1>1
  <2>0. PICK d \in Docs : d = req[r].doc
    BY <1>0
  <2>2. r \in Confirms /\ req[r].pc = "audit" /\ AddAudit(d, "IMPORT_CONFIRMED") /\ UNCHANGED docs
    BY <2>0, <2>1 DEF RequestAudit, RequestTo, Flow, Confirming
  <2>3. docs[d].status = "CONFIRMED" /\ Positions(d, "IMPORT_CONFIRMED") = {}
    BY <2>0, <2>2 DEF ConfirmedInTrail
  <2>4. /\ Positions(d, "IMPORT_CONFIRMED")' = {Len(audit[d]) + 1}
        /\ \A c \in Docs : c # d => Positions(c, "IMPORT_CONFIRMED")' = Positions(c, "IMPORT_CONFIRMED")
    <3>1. "IMPORT_CONFIRMED" \in Events
      BY DEF Events
    <3>2. Positions(d, "IMPORT_CONFIRMED")' = Positions(d, "IMPORT_CONFIRMED") \cup {Len(audit[d]) + 1}
      BY <2>2, <3>1, Appended
    <3>3. \A c \in Docs : c # d => audit'[c] = audit[c]
      BY <2>2, <3>1, Appended
    <3>4. \A c \in Docs : c # d => Positions(c, "IMPORT_CONFIRMED")' = Positions(c, "IMPORT_CONFIRMED")
      BY <3>3 DEF Positions
    <3> QED BY <2>3, <3>2, <3>4
  <2>5. req' = [req EXCEPT ![r].pc = "done"]
    BY <2>1 DEF RequestAudit, RequestTo
  <2>6. ASSUME NEW q \in Confirms, req'[q].pc = "audit"
        PROVE  /\ req[q].pc = "audit" /\ req'[q].doc = req[q].doc
               /\ req[q].doc \in Docs /\ req[q].doc # d
    <3>1. q \in Requests /\ q # r
      BY <1>0, <2>1, <2>5, <2>6
    <3>2. req[q].pc = "audit" /\ req'[q].doc = req[q].doc /\ req[q].doc \in Docs
      BY <1>0, <2>5, <2>6, <3>1
    <3> QED BY <2>0, <2>2, <3>1, <3>2 DEF ConfirmedInTrail
  <2>7. ConfirmedOnce'
    BY <1>0, <2>4 DEF ConfirmedInTrail, ConfirmedOnce
  <2>8. \A q \in Confirms : req'[q].pc = "audit" =>
          docs'[req'[q].doc].status = "CONFIRMED" /\ Positions(req[q].doc, "IMPORT_CONFIRMED")' = {}
    BY <2>2, <2>4, <2>6 DEF ConfirmedInTrail
  <2> QED BY <2>2, <2>3, <2>4, <2>6, <2>7, <2>8 DEF ConfirmedInTrail
<1>2. CASE \A r \in Requests : ~RequestAudit(r)
  <2>1. \A d \in Docs : Positions(d, "IMPORT_CONFIRMED")' = Positions(d, "IMPORT_CONFIRMED")
    <3>1. CASE audit' = audit
      BY <3>1 DEF Positions
    <3>2. CASE audit' # audit
      <4>1. PICK d \in Docs, e \in Events \ {"IMPORT_CONFIRMED"} : AddAudit(d, e)
        <5>1. CASE \E d \in Docs : UploadAudit(d)
          BY <5>1 DEF UploadAudit, Events
        <5>2. ASSUME NEW w \in Workers, Audit(w, "started", "load", "INGESTION_STARTED")
              PROVE  wk[w].job \in Docs /\ AddAudit(wk[w].job, "INGESTION_STARTED")
          BY <5>2 DEF Audit, GoTo, Holding
        <5>3. ASSUME NEW w \in Workers, Report(w) \/ HandlerAudit(w)
              PROVE  wk[w].job \in Docs
          <6>1. wk[w].pc = "report" \/ wk[w].pc = "exhausted" \/ wk[w].pc = "rescheduled"
            BY <5>3 DEF Report, HandlerAudit, Audit, GoTo, Release
          <6> QED BY <6>1 DEF Holding
        <5> QED BY <1>2, <3>2, <5>1, <5>2, <5>3, WritersOfTrail DEF Events
      <4>2. Positions(d, "IMPORT_CONFIRMED")' = Positions(d, "IMPORT_CONFIRMED")
        BY <4>1, Appended
      <4>3. \A c \in Docs : c # d => audit'[c] = audit[c]
        BY <4>1, Appended
      <4> QED BY <4>2, <4>3 DEF Positions
    <3> QED BY <3>1, <3>2
  <2>2. ConfirmedOnce'
    BY <2>1 DEF ConfirmedInTrail, ConfirmedOnce
  <2>3. \A d \in Docs : Positions(d, "IMPORT_CONFIRMED")' # {} => docs'[d].status = "CONFIRMED"
    BY <2>1, ConfirmedStays DEF ConfirmedInTrail
  <2>4. ASSUME NEW r \in Confirms, req'[r].pc = "audit"
        PROVE  /\ req'[r].doc = req[r].doc /\ req[r].doc \in Docs
               /\ docs'[req[r].doc].status = "CONFIRMED" /\ Positions(req[r].doc, "IMPORT_CONFIRMED")' = {}
               /\ req[r].pc # "audit" => ConfirmUpdate(r) /\ docs[req[r].doc].status = "PARSED"
    <3>1. r \in Requests /\ req'[r].doc = req[r].doc /\ (req[r].pc # "audit" => ConfirmUpdate(r))
      BY <2>4, ConfirmersMove DEF Requests
    <3>2. CASE req[r].pc = "audit"
      BY <1>0, <2>1, <3>1, <3>2, ConfirmedStays DEF ConfirmedInTrail
    <3>3. CASE ConfirmUpdate(r)
      <4>1. docs[req[r].doc].status = "PARSED" /\ docs'[req[r].doc].status = "CONFIRMED"
        BY <1>0, <3>1, <3>3 DEF ConfirmUpdate, Confirm, CanConfirm
      <4>2. Positions(req[r].doc, "IMPORT_CONFIRMED") = {}
        BY <1>0, <3>1, <4>1 DEF ConfirmedInTrail
      <4> QED BY <1>0, <2>1, <3>1, <3>3, <4>1, <4>2
    <3> QED BY <3>1, <3>2, <3>3
  <2>5. ASSUME NEW r \in Confirms, NEW q \in Confirms, req'[r].pc = "audit", req'[q].pc = "audit", req'[r].doc = req'[q].doc
        PROVE  r = q
    <3>1. CASE req[r].pc = "audit" /\ req[q].pc = "audit"
      BY <2>4, <2>5, <3>1 DEF ConfirmedInTrail
    <3>2. CASE req[r].pc # "audit" /\ req[q].pc # "audit"
      <4>1. ConfirmUpdate(r) /\ q \in Requests /\ r \in Requests
        BY <2>4, <2>5, <3>2 DEF Requests
      <4> QED BY <2>5, <3>2, <4>1 DEF ConfirmUpdate, RequestTo
    <3>3. CASE req[r].pc # "audit" /\ req[q].pc = "audit"
      BY <2>4, <2>5, <3>3 DEF ConfirmedInTrail
    <3>4. CASE req[r].pc = "audit" /\ req[q].pc # "audit"
      BY <2>4, <2>5, <3>4 DEF ConfirmedInTrail
    <3> QED BY <3>1, <3>2, <3>3, <3>4
  <2> QED BY <2>2, <2>3, <2>4, <2>5 DEF ConfirmedInTrail
<1> QED BY <1>1, <1>2

LEMMA ConfirmedInTrailKept ==
  ASSUME Deployment
  PROVE  Spec => []ConfirmedInTrail
<1>1. Init => ConfirmedInTrail
  BY DEF Init, StoreInit, ApiInit, ConfirmedInTrail, ConfirmedOnce, Positions, Requests
<1>2. TypeOK /\ TypeOK' /\ Holding /\ Flow /\ ConfirmedInTrail /\ [Next]_vars => ConfirmedInTrail'
  BY ConfirmedStep
<1> QED BY <1>1, <1>2, FlowKept, PTL DEF Spec

\* However many confirmations race, and whatever fails, the trail has one.
THEOREM OneConfirmation ==
  ASSUME Deployment
  PROVE  Spec => []ConfirmedOnce
<1>1. ConfirmedInTrail => ConfirmedOnce
  BY DEF ConfirmedInTrail
<1> QED BY <1>1, ConfirmedInTrailKept, PTL

-----------------------------------------------------------------------------
(* A confirmation and its audit event, while no store call of the API raises. *)

AuditedInv ==
  /\ ConfirmationAudited
  /\ \A r \in Requests : req[r].pc = "update" => r \in Confirms

LEMMA AuditedStep ==
  ASSUME MaxApiFaults = 0, TypeOK, TypeOK', Holding, AuditedInv, [Next]_vars
  PROVE  AuditedInv'
<1>0. DOMAIN req = Requests /\ Confirms \subseteq Requests
  BY DEF TypeOK, ApiTypeOK, Requests
<1>1. ~ApiRaises
  BY DEF ApiRaises, TypeOK, ApiTypeOK
<1>2. \A r \in Requests :
        /\ req'[r].doc = req[r].doc
        /\ req'[r].pc = "update" => req[r].pc = "update" \/ r \in Confirms
        /\ req[r].pc = "audit" => req'[r].pc = "audit" \/ RequestAudit(r)
  <2> USE DEF TypeOK, ApiTypeOK
  <2>1. CASE req' = req
    BY <2>1
  <2>2. ASSUME NEW q \in Requests, RequestStep(q)
        PROVE  \A r \in Requests :
                 /\ req'[r].doc = req[r].doc
                 /\ req'[r].pc = "update" => req[r].pc = "update" \/ r \in Confirms
                 /\ req[r].pc = "audit" => req'[r].pc = "audit" \/ RequestAudit(r)
    <3>1. CASE RequestAudit(q)
      BY <3>1 DEF RequestAudit, RequestTo
    <3>2. CASE ConfirmGet(q)
      BY <3>2 DEF ConfirmGet, RequestTo
    <3>3. CASE ConfirmUpdate(q) \/ ConfirmRefused(q) \/ RetryGet(q) \/ RetryEnqueue(q) \/ RetryProgress(q)
      BY <3>3 DEF ConfirmUpdate, ConfirmRefused, RetryGet, RetryEnqueue, RetryProgress, RequestTo
    <3> QED BY <2>2, <3>1, <3>2, <3>3 DEF RequestStep
  <2>3. CASE \E d \in Docs : UploadStep(d)
    BY <2>1, <2>3 DEF UploadStep, UploadTo, UploadFind, UploadPut, UploadCreate, UploadConflict, UploadAudit, UploadEnqueue
  <2>4. CASE UNCHANGED apiVars
    BY <2>1, <2>4 DEF apiVars
  <2> QED BY <1>1, <2>2, <2>3, <2>4 DEF Next, ApiNext, vars
<1>3. ASSUME NEW d \in Docs, docs'[d].status = "CONFIRMED", docs[d].status = "CONFIRMED"
      PROVE  \/ Positions(d, "IMPORT_CONFIRMED")' # {}
             \/ \E r \in Confirms : req'[r].doc = d /\ req'[r].pc = "audit"
  <2>1. CASE Positions(d, "IMPORT_CONFIRMED") # {}
    BY <2>1, NothingErased
  <2>2. ASSUME NEW r \in Confirms, req[r].doc = d, req[r].pc = "audit", RequestAudit(r)
        PROVE  Positions(d, "IMPORT_CONFIRMED")' # {}
    <3>1. AddAudit(d, "IMPORT_CONFIRMED") /\ "IMPORT_CONFIRMED" \in Events
      BY <2>2 DEF RequestAudit, Events
    <3>2. Positions(d, "IMPORT_CONFIRMED")' = Positions(d, "IMPORT_CONFIRMED") \cup {Len(audit[d]) + 1}
      BY <3>1, Appended
    <3> QED BY <3>2
  <2> QED BY <1>0, <1>2, <1>3, <2>1, <2>2 DEF AuditedInv, ConfirmationAudited
<1>4. ASSUME NEW d \in Docs, docs'[d].status = "CONFIRMED", docs[d].status # "CONFIRMED"
      PROVE  \E r \in Confirms : req'[r].doc = d /\ req'[r].pc = "audit"
  <2>0. docs \in [Docs -> [status: DocStatus \cup {"ABSENT"}, errors: BOOLEAN]]
    BY DEF TypeOK, StoreTypeOK
  <2>1. ASSUME NEW e \in Docs, UploadCreate(e) PROVE FALSE
    BY <1>4, <2>0, <2>1 DEF UploadCreate, Create
  <2>2. ASSUME NEW e, NEW x \in {"UPLOADED", "INGESTING", "FAILED"}, UpdateProgress(e, x) PROVE FALSE
    BY <1>4, <2>0, <2>2 DEF UpdateProgress
  <2>3. ASSUME NEW e, NEW b, NEW x \in {"PARSED", "FAILED"}, UpdateResult(e, x, b) PROVE FALSE
    BY <1>4, <2>0, <2>3 DEF UpdateResult
  <2>4. ~\E r \in Requests : RetryProgress(r)
    BY <2>2 DEF RetryProgress
  <2>5. ~\E w \in Workers : \/ Progress(w, "reading", "started") \/ Progress(w, "parsing", "parse")
                             \/ Progress(w, "extracting", "records") \/ StoreResult(w) \/ HandlerProgress(w)
    BY <2>2, <2>3 DEF Progress, StoreResult, HandlerProgress
  <2>6. PICK r \in Requests : ConfirmUpdate(r)
    BY <1>4, <2>1, <2>4, <2>5, WritersOfDocuments
  <2>7. req[r].pc = "update" /\ req' = [req EXCEPT ![r].pc = "audit"]
    BY <2>6 DEF ConfirmUpdate, RequestTo
  <2>8. req[r].doc = d
    BY <1>4, <2>6 DEF ConfirmUpdate, Confirm
  <2> QED BY <1>0, <1>2, <2>7, <2>8 DEF AuditedInv
<1>5. ConfirmationAudited'
  BY <1>3, <1>4 DEF ConfirmationAudited
<1> QED BY <1>2, <1>5 DEF AuditedInv

\* The handler that confirms a document audits it, whatever workers and other
\* handlers do meanwhile.
THEOREM ConfirmationsAudited ==
  ASSUME MaxApiFaults = 0
  PROVE  Spec => []ConfirmationAudited
<1>1. Init => AuditedInv
  BY DEF Init, StoreInit, ApiInit, AuditedInv, ConfirmationAudited, Requests
<1>2. TypeOK /\ TypeOK' /\ Holding /\ AuditedInv /\ [Next]_vars => AuditedInv'
  BY AuditedStep
<1>3. AuditedInv => ConfirmationAudited
  BY DEF AuditedInv
<1> QED BY <1>1, <1>2, <1>3, TypeCorrect, PTL DEF Spec

-----------------------------------------------------------------------------
(* The order of the trail, in the deployment.                                 *)

Begun(d) == Positions(d, "INGESTION_STARTED") # {}

TrailInv ==
  /\ \A d \in Docs : upload[d] \in {"idle", "put", "create", "audit"} => audit[d] = <<>>
  /\ \A d \in Docs : jobs[d].status # "ABSENT" \/ upload[d] = "enqueue" => audit[d] # <<>>
  /\ \A d \in Docs : docs[d].status \in {"PARSED", "CONFIRMED"} => Begun(d)
  /\ \A w \in Workers : wk[w].pc \in IngestingPcs \ {"started"} => Begun(wk[w].job)
  /\ TrailInOrder

\* A document's first event is its upload; a later one finds a trail, and a
\* confirmation finds the start of the ingestion in it.
LEMMA OrderlyAppend ==
  ASSUME Deployment, TypeOK, Holding, Flow, ConfirmedInTrail, TrailInv, [Next]_vars
  PROVE  \/ audit' = audit
         \/ \E d \in Docs, e \in Events :
              /\ AddAudit(d, e)
              /\ \/ UploadAudit(d) /\ e = "UPLOAD_RECEIVED"
                 \/ audit[d] # <<>> /\ (e = "IMPORT_CONFIRMED" => Begun(d))
<1>1. ASSUME NEW d \in Docs, UploadAudit(d)
      PROVE  AddAudit(d, "UPLOAD_RECEIVED")
  BY <1>1 DEF UploadAudit
<1>2. ASSUME NEW r \in Requests, RequestAudit(r)
      PROVE  \E d \in Docs : AddAudit(d, "IMPORT_CONFIRMED") /\ audit[d] # <<>> /\ Begun(d)
  <2>1. PICK d \in Docs : d = req[r].doc
    BY DEF TypeOK, ApiTypeOK
  <2>2. r \in Confirms /\ req[r].pc = "audit" /\ AddAudit(d, "IMPORT_CONFIRMED")
    BY <1>2, <2>1 DEF RequestAudit, RequestTo, Flow, Confirming
  <2>3. Begun(d)
    BY <2>1, <2>2 DEF ConfirmedInTrail, TrailInv
  <2>4. audit[d] # <<>>
    BY <2>3 DEF Begun, Positions
  <2> QED BY <2>2, <2>3, <2>4
<1>3. ASSUME NEW w \in Workers,
             \/ Audit(w, "started", "load", "INGESTION_STARTED") \/ Report(w) \/ HandlerAudit(w)
      PROVE  wk[w].job \in Docs /\ audit[wk[w].job] # <<>>
  <2>1. wk[w].pc \in {"started", "report", "exhausted", "rescheduled"}
    BY <1>3 DEF Audit, Report, HandlerAudit, GoTo, Release
  <2>2. wk[w].job \in Docs /\ jobs[wk[w].job].status # "ABSENT"
    BY <2>1 DEF Holding, Flow, WorkerKnows, TryPcs
  <2> QED BY <2>2 DEF TrailInv
<1>4. ASSUME NEW w \in Workers, Audit(w, "started", "load", "INGESTION_STARTED")
      PROVE  AddAudit(wk[w].job, "INGESTION_STARTED")
  BY <1>4 DEF Audit
<1> QED BY <1>1, <1>2, <1>3, <1>4, WritersOfTrail DEF Events

\* The program counter of an upload only moves forward.
LEMMA UploadsAdvance ==
  ASSUME TypeOK, [Next]_vars, NEW d \in Docs
  PROVE  /\ upload'[d] \in {"idle", "put", "create", "audit"} => upload[d] \in {"idle", "put", "create", "audit"}
         /\ upload'[d] = "enqueue" => upload[d] = "enqueue" \/ UploadAudit(d)
         /\ UploadAudit(d) => upload'[d] = "enqueue"
<1> USE DEF TypeOK, ApiTypeOK
<1>1. CASE upload' = upload
  BY <1>1 DEF UploadAudit, UploadTo
<1>2. CASE \E c \in Docs : UploadStep(c)
  BY <1>2 DEF UploadStep, UploadTo, UploadFind, UploadPut, UploadCreate, UploadConflict, UploadAudit, UploadEnqueue
<1>3. CASE ApiRaises
  BY <1>3 DEF ApiRaises, UploadAudit, UploadTo
<1>4. CASE \E r \in Requests : RequestStep(r)
  BY <1>1, <1>4 DEF RequestStep, RequestTo, ConfirmGet, ConfirmUpdate, ConfirmRefused, RetryGet, RetryEnqueue,
     RetryProgress, RequestAudit
<1>5. CASE UNCHANGED apiVars
  BY <1>1, <1>5 DEF apiVars
<1> QED BY <1>2, <1>3, <1>4, <1>5 DEF Next, ApiNext, vars

\* A worker past the start of an ingestion audited it or came from there.
LEMMA IngestionsMove ==
  ASSUME TypeOK, Holding, [Next]_vars, NEW w \in Workers, wk'[w].pc \in IngestingPcs \ {"started"}
  PROVE  /\ wk'[w].job = wk[w].job /\ wk[w].job \in Docs
         /\ wk[w].pc \in IngestingPcs \ {"started"} \/ Audit(w, "started", "load", "INGESTION_STARTED")
<1> USE DEF TypeOK, WorkerTypeOK, IngestingPcs
<1>1. CASE wk'[w] = wk[w]
  BY <1>1 DEF Holding
<1>2. CASE UNCHANGED workerVars
  BY <1>1, <1>2 DEF workerVars
<1>3. ASSUME NEW v \in Workers, WorkerStep(v) \/ StoreRaises(v) \/ Crash(v), wk'[w] # wk[w]
      PROVE  /\ wk'[w].job = wk[w].job /\ wk[w].pc # "idle"
             /\ wk[w].pc \in IngestingPcs \ {"started"} \/ Audit(w, "started", "load", "INGESTION_STARTED")
  <2>1. CASE Audit(v, "started", "load", "INGESTION_STARTED")
    BY <1>3, <2>1 DEF Audit, GoTo
  <2>2. CASE LoadObject(v) \/ Progress(v, "parsing", "parse") \/ ExtractPdf(v) \/ Progress(v, "extracting", "records")
    BY <1>3, <2>2 DEF LoadObject, Progress, ExtractPdf, GoTo
  <2>3. CASE ParseObject(v)
    BY <1>3, <2>3 DEF ParseObject
  <2>4. CASE Claim(v) \/ ClaimSelect(v)
    BY <1>3, <2>4 DEF Claim, ClaimSelect, Take
  <2>5. CASE ClaimUpdate(v) \/ GetDocument(v) \/ Progress(v, "reading", "started")
    BY <1>3, <2>5 DEF ClaimUpdate, GetDocument, Progress, GoTo
  <2>6. CASE StoreResult(v) \/ Report(v) \/ HandleError(v) \/ HandlerProgress(v)
    BY <1>3, <2>6 DEF StoreResult, Report, Audit, HandleError, HandlerProgress, GoTo
  <2>7. CASE CompleteJob(v) \/ HandlerAudit(v) \/ Crash(v)
    BY <1>3, <2>7 DEF CompleteJob, HandlerAudit, Crash, Release, Idle
  <2>8. CASE StoreRaises(v)
    BY <1>3, <2>8 DEF StoreRaises
  <2> QED BY <1>3, <2>1, <2>2, <2>3, <2>4, <2>5, <2>6, <2>7, <2>8 DEF WorkerStep
<1> QED BY <1>1, <1>2, <1>3 DEF Next, WorkerNext, vars, Holding

LEMMA OrderStep ==
  ASSUME Deployment, TypeOK, TypeOK', Holding, Flow, ConfirmedInTrail, TrailInv, [Next]_vars
  PROVE  TrailInv'
<1>1. ASSUME NEW d \in Docs, Begun(d)
      PROVE  Begun(d)'
  BY <1>1, NothingErased DEF Begun
<1>2. ASSUME NEW d \in Docs, upload'[d] \in {"idle", "put", "create", "audit"}
      PROVE  audit'[d] = <<>>
  <2>1. audit[d] = <<>> /\ ~UploadAudit(d)
    BY <1>2, UploadsAdvance DEF TrailInv
  <2>2. CASE audit' = audit
    BY <2>1, <2>2
  <2>3. CASE audit' # audit
    <3>1. PICK c \in Docs, e \in Events : AddAudit(c, e) /\ (UploadAudit(c) \/ audit[c] # <<>>)
      BY <2>3, OrderlyAppend
    <3>2. audit'[d] = audit[d]
      BY <2>1, <3>1, Appended
    <3> QED BY <2>1, <3>2
  <2> QED BY <2>2, <2>3
<1>3. ASSUME NEW d \in Docs, jobs'[d].status # "ABSENT" \/ upload'[d] = "enqueue"
      PROVE  audit'[d] # <<>>
  <2>1. CASE audit[d] # <<>>
    BY <2>1, NothingErased
  <2>2. CASE UploadAudit(d)
    <3>1. AddAudit(d, "UPLOAD_RECEIVED") /\ "UPLOAD_RECEIVED" \in Events
      BY <2>2 DEF UploadAudit, Events
    <3> QED BY <3>1, Appended
  <2>3. CASE audit[d] = <<>> /\ ~UploadAudit(d)
    <3>1. jobs[d].status = "ABSENT" /\ upload[d] # "enqueue" /\ upload'[d] # "enqueue"
      BY <2>3, UploadsAdvance DEF TrailInv
    <3>2. ~\E w \in Workers : wk[w].pc # "idle" /\ wk[w].job = d
      BY <3>1, WorkerAssumption DEF Flow, WorkerKnows, TypeOK, WorkerTypeOK, WorkerPcs, TryPcs, ExceptPcs, Claimable
    <3>3. jobs'[d].status = "ABSENT"
      BY <3>1, <3>2, JobRows DEF JobRow, Claimable, Flow, Confirming
    <3> QED BY <1>3, <3>1, <3>3
  <2> QED BY <2>1, <2>2, <2>3
<1>4. ASSUME NEW w \in Workers, wk'[w].pc \in IngestingPcs \ {"started"}
      PROVE  Begun(wk[w].job)'
  <2>1. PICK d \in Docs : d = wk[w].job /\ d = wk'[w].job
    BY <1>4, IngestionsMove
  <2>2. CASE wk[w].pc \in IngestingPcs \ {"started"}
    BY <1>1, <2>1, <2>2 DEF TrailInv
  <2>3. CASE Audit(w, "started", "load", "INGESTION_STARTED")
    <3>1. AddAudit(d, "INGESTION_STARTED") /\ "INGESTION_STARTED" \in Events
      BY <2>1, <2>3 DEF Audit, Events
    <3>2. Positions(d, "INGESTION_STARTED")' = Positions(d, "INGESTION_STARTED") \cup {Len(audit[d]) + 1}
      BY <3>1, Appended
    <3>3. Begun(d)'
      BY <3>2 DEF Begun
    <3> QED BY <2>1, <3>3
  <2> QED BY <1>4, <2>2, <2>3, IngestionsMove
<1>5. ASSUME NEW d \in Docs, docs'[d].status \in {"PARSED", "CONFIRMED"}
      PROVE  Begun(d)'
  <2>0. docs \in [Docs -> [status: DocStatus \cup {"ABSENT"}, errors: BOOLEAN]]
    BY DEF TypeOK, StoreTypeOK
  <2>1. CASE docs[d].status \in {"PARSED", "CONFIRMED"}
    BY <1>1, <2>1 DEF TrailInv
  <2>2. CASE docs[d].status \notin {"PARSED", "CONFIRMED"}
    <3>1. ASSUME NEW e \in Docs, UploadCreate(e) PROVE FALSE
      BY <1>5, <2>0, <2>2, <3>1 DEF UploadCreate, Create
    <3>2. ASSUME NEW e, NEW x \in {"UPLOADED", "INGESTING", "FAILED"}, UpdateProgress(e, x) PROVE FALSE
      BY <1>5, <2>0, <2>2, <3>2 DEF UpdateProgress
    <3>3. ASSUME NEW r \in Requests, ConfirmUpdate(r) PROVE FALSE
      BY <1>5, <2>0, <2>2, <3>3 DEF ConfirmUpdate, Confirm, CanConfirm
    <3>4. PICK w \in Workers : StoreResult(w)
      BY <1>5, <2>2, <3>1, <3>2, <3>3, WritersOfDocuments DEF RetryProgress, Progress, HandlerProgress
    <3>5. wk[w].job = d
      BY <1>5, <2>0, <2>2, <3>4 DEF StoreResult, UpdateResult
    <3>6. wk[w].pc \in IngestingPcs \ {"started"}
      BY <3>4 DEF StoreResult, GoTo, IngestingPcs
    <3> QED BY <1>1, <3>5, <3>6 DEF TrailInv
  <2> QED BY <2>1, <2>2
<1>6. TrailInOrder'
  <2>1. CASE audit' = audit
    BY <2>1 DEF TrailInv, TrailInOrder, Positions
  <2>2. CASE audit' # audit
    <3>1. PICK c \in Docs, e \in Events :
            /\ AddAudit(c, e)
            /\ \/ UploadAudit(c) /\ e = "UPLOAD_RECEIVED"
               \/ audit[c] # <<>> /\ (e = "IMPORT_CONFIRMED" => Begun(c))
      BY <2>2, OrderlyAppend
    <3>2. ASSUME NEW d \in Docs, d # c
          PROVE  /\ audit'[d] = audit[d]
                 /\ Positions(d, "IMPORT_CONFIRMED")' = Positions(d, "IMPORT_CONFIRMED")
                 /\ Positions(d, "INGESTION_STARTED")' = Positions(d, "INGESTION_STARTED")
      <4>1. audit'[d] = audit[d]
        BY <3>1, <3>2, Appended
      <4> QED BY <4>1 DEF Positions
    <3>3. audit'[c][1] = "UPLOAD_RECEIVED"
      <4>1. CASE audit[c] # <<>>
        BY <3>1, <4>1, Appended DEF TrailInv, TrailInOrder
      <4>2. CASE audit[c] = <<>>
        BY <3>1, <4>2, Appended
      <4> QED BY <4>1, <4>2
    <3>4. ASSUME NEW j \in Positions(c, "IMPORT_CONFIRMED")'
          PROVE  \E i \in Positions(c, "INGESTION_STARTED")' : i < j
      <4>1. CASE j \in Positions(c, "IMPORT_CONFIRMED")
        BY <4>1, NothingErased DEF TrailInv, TrailInOrder
      <4>2. CASE j \notin Positions(c, "IMPORT_CONFIRMED")
        <5>1. e = "IMPORT_CONFIRMED" /\ j = Len(audit[c]) + 1
          BY <3>1, <3>4, <4>2, Appended
        <5>2. PICK i \in Positions(c, "INGESTION_STARTED") : TRUE
          BY <3>1, <5>1 DEF Begun
        <5>3. i < j
          BY <3>1, <5>1, <5>2, Appended
        <5> QED BY <5>2, <5>3, NothingErased
      <4> QED BY <4>1, <4>2
    <3> QED BY <3>2, <3>3, <3>4 DEF TrailInv, TrailInOrder
  <2> QED BY <2>1, <2>2
<1> QED BY <1>2, <1>3, <1>4, <1>5, <1>6 DEF TrailInv

\* A trail begins with the upload it is about, and whatever is confirmed was
\* ingested before: the API and the worker append to one trail, each its own.
THEOREM TrailOrdered ==
  ASSUME Deployment
  PROVE  Spec => []TrailInOrder
<1>1. Init => TrailInv
  BY WorkerAssumption DEF Init, StoreInit, ApiInit, WorkerInit, TrailInv, TrailInOrder, Positions, Idle, IngestingPcs
<1>2. TypeOK /\ TypeOK' /\ Holding /\ Flow /\ ConfirmedInTrail /\ TrailInv /\ [Next]_vars => TrailInv'
  BY OrderStep
<1>3. TrailInv => TrailInOrder
  BY DEF TrailInv
<1> QED BY <1>1, <1>2, <1>3, FlowKept, ConfirmedInTrailKept, PTL DEF Spec
==============================================================================
