# A verification project for the Finance Reconciliation Agent

TLA+ modules that model this repository's backend, TLC configurations that check
them on small instances, and theorems about them that TLAPS proves for every
instance. Paths below are relative to the repository's root.

## 1. The system

A FastAPI process (`apps/api`) and a worker process (`services/ingestion/worker.py`)
share a database and an object store and nothing else. Users upload bank,
invoice and ledger files, confirm what was parsed, reconcile records, let a
language model investigate exceptions, and decide reviews. Beside that stand
services the endpoints or an operator call with a batch of data: two
reconciliation engines, a ranker of matches with its training, and a policy.

| Component | State | Operations | Interacts with |
|---|---|---|---|
| Document store (`apps/api/storage.py`) | tables of documents, jobs, audit events, runs, reviews, investigations; object files | one transaction per method: create, update_progress, update_result, confirm, enqueue / claim / complete / retry / fail job, queue and decide review, ... | called by the API threads and the workers, at the same time |
| Document endpoints (`apps/api/routes.py` 347-442) | none of their own | upload, confirm, retry: sequences of store calls | store |
| Ingestion worker (`services/ingestion/worker.py`) | the job in hand | claim, process_document, the except block with retry and backoff | store, parsers |
| Run and review endpoints (`routes.py` 102-325) | none | create a run, demo, investigate, queue and decide a review | store, engine, model gateway |
| Deterministic engine (`services/reconciliation/deterministic/engine.py`) | two id sets and the results of one call | pairs, one-to-many, many-to-one, unmatched | run endpoints, demo |
| Graph engine (`services/reconciliation/graph/engine.py`) | used nodes, edges, heap and visited sets of one call | candidate edges, two passes of directed allocations, path search | library use |
| TensorMux client (`services/agents/tensormux.py`) | attempts and telemetry of one call | structured call with retries and telemetry | model gateway, investigation controller |
| Agent run (`services/agents/runtime.py`, `observability/tracing.py`) | budget, trace | register a turn, a tool call, an event | investigation controller |
| Review workflow, policy, accounting (`services/review`, `services/policy`) | in-memory reviews and log; ordered rules | queue, decide, evaluate, validate a journal | an audit writer |
| ML review (`services/ml/workflow.py`, `model.py`, `selection.py`) | proposals and decisions | suggest, decide | `POST /demo/ml-review` |
| ML training (`evaluation/train_ml`, `services/ml/training.py`, `calibration.py`, `artifact.py`) | split, thresholds, artifact | grouped split, calibration, gate | an operator's command line |
| Parsers (`services/ingestion/tabular.py`, `pdf.py`) | where the reader is, rows and errors so far | header, rows, limits; pages, tables, OCR fallback | worker |
| Connectors, reports, demo data, web, evaluation, infrastructure | local | | |

What is hard here is not the arithmetic but what is between two statements. A
handler is a list of transactions, each committed on its own; handlers of many
requests and of several workers interleave between any two of them, and each
may raise or die after any of them. The status column of a document is written
by four handlers, three of which do not look at what it holds. The batch
programs are sequential, but each is several passes over shared sets of what is
used, visited, joined or refused, and an error of one pass is hidden by the
next. `hazards` in PROJECT.json lists where that bites.

What makes the parts correct:

* ingestion: the status moves along a lifecycle; what had parse errors is never
  confirmed; a confirmation is final, single and audited; the same bytes make one
  document; a job has one owner, a bounded number of attempts, and an end;
* reconciliation, either engine: no record is used twice, none disappears, nothing that
  would match is left unmatched, the books balance;
* reviews: decided once, the trail agrees with the row, nothing is of a run
  that does not exist; what is posted on an automatic approval was earned, or a
  reviewer approved it (the validator also takes the journals of actions whose decision is
  still HUMAN_REVIEW, which `PostingEarned` leaves out);
* model calls and runs of an agent: bounded, never repeated after a final answer,
  given up only when they must be, and what was recorded of them true;
* ML: the proposals of one batch exclude one another's records; training keeps
  related cases on one side of the split and ends with thresholds that hold;
* parsers: a row of a file is a record, an error or, where the code says so,
  nothing; what a page says of itself agrees with what was read.

## 2. Modules

| Module | Models | Correspondence |
|---|---|---|
| `DocumentStore` | `storage.py`: documents, jobs, objects, document audit | one operator per SQL statement; `docs[d]` is a row with its status and whether `errors_json` is non-empty, `jobs[d]` its job, `audit[d]` its events in order |
| `IngestionApi` | upload, confirm, retry | one action per store call, a program counter per request; uploads of one process run one after the other since the coroutine does not await after reading the body, confirm and retry run on threads |
| `IngestionWorker` | `run_once`, `process_document` | one action per store call, the try and the except block; on SQLite the SELECT and the UPDATE of `claim_job` are two steps, on PostgreSQL one |
| `Ingestion` | both over one store | next-state relation, fairness, properties |
| `DocumentLifecycle` | abstract: the edges the status of a document may take | implemented by `Ingestion`, `status` mapped to the status column |
| `DeterministicMatch` | `reconcile_records`, `match_pair`, `allocate_*` | one action per iteration of each of the five loops; a record is its position after sorting, ids may repeat |
| `GraphCandidates` | the blocking and scoring of pairs, shared by the graph engine and ML | pure operators |
| `GraphReconciliation` | `reconcile_graph` | one action per iteration of the two allocation passes and per pop of the search's heap |
| `Reviews` | runs, demo, investigations, reviews | one action per store call, a program counter per request; a row and its event are named by the request that made them |
| `Approvals` | `ApprovalPolicy`, `ReviewWorkflow`, `AccountingValidator` | one context at a time through policy, review and journal; `desk` the reviews, `log` their events; an event refused for its actor and a writer that raises are steps of their own |
| `MLReview` | `MLReviewWorkflow`, the trained ranker, the review mask | a call of `suggest` scores every candidate and selects the unrivalled ones; decisions follow one at a time |
| `MLTraining` | `train_ml_pipeline`: groups, split, calibration, artifact, gate | one action per iteration of the union-find and of the dealing of components, one per score; the fitted model is any function to probabilities |
| `AgentRun` | `InvestigationBudget`, `RunTrace` | one action per method; `askedFor` is history |
| `TensorMux` | `generate_structured`, `_telemetry`, `_emit` | one action per request, pause and record; `asked[c]` is what the requests of call `c` came back with, `told[c]` what its sink recorded |
| `TabularRows` | `parse_csv_result`, `parse_xlsx_result`, `normalize_row` | one action per row |
| `PdfPages` | `extract_pdf`, the OCR fallback, the reading of its tables by the worker | one action per page and phase |
| `MCIngestion`, `MCDeterministicMatch`, `MCReviews`, `MCBatch` | instances for TLC | the last two are sums: of the programs they hold, which share no state, one moves while the others have not begun |
| `InductionLemmas` | lemmas on naturals, finite sets, folds and sums | what recursive definitions need, used by the other proofs |
| `IngestionProofs`, `ReviewsProofs`, `TensorMuxProofs`, `MLTrainingProofs` | theorems of `Ingestion`, `Reviews`, `TensorMux`, `MLTraining` | |
| `ProposalProofs` | theorems of `Approvals`, `MLReview`, `AgentRun` | `ReviewsProofs` uses it, and `TensorMuxProofs`, for the types of the sum `MCReviews` |
| `ParsingProofs` | theorems of `PdfPages`, `TabularRows` | |
| `ReconciliationProofs` | theorems of `DeterministicMatch`, `GraphReconciliation` | also the types of the sum `MCBatch`, from it, `ParsingProofs` and `MLTrainingProofs` |

Definitions whose comment says "Mutant" are plausible wrong versions of the
definition after them. The specifications do not use them; each property has one
that breaks it.

## 3. Runs

| Run | Question | Instance | Distinct states |
|---|---|---|---|
| `one_worker` | lifecycle implemented; confirmation once and audited; trail in order | 2 documents (a CSV and a PDF), 2 confirmations, 1 worker on SQLite, 2 attempts, one raising call before the result is stored, one death | 642k |
| `two_workers` | one owner, bounded attempts | 1 document, 2 workers on PostgreSQL, 3 attempts, 2 raising calls anywhere, a death, an API fault | 201k |
| `hostile` | nothing with errors is confirmed, one document per content, lost upload retryable | 2 API processes with the same bytes, 2 workers on SQLite that may take the same row, a retry, a confirmation, parses that differ, an API fault anywhere; the audit trail, which nothing reads, is left out of the state (VIEW) | 777k |
| `ingestion_settles` | jobs and documents settle | 2 documents, 1 worker, 3 attempts, one raising call anywhere | 123k |
| `reviews` | store reviews decided once and accounted for; subjects exist; approvals traced and postings earned; proposals disjoint; a run within its budget; requests of the model bounded and not repeated, its failure justified, one true record of a call that returned or raised its own error | every run and review endpoint once or twice with 2 reviewers and one failure; 15 policy contexts and 12 journals, 2 reviews, a writer that may raise; batches of 2 x 2 and 1 x 3 records with three scores, ties included; three budgets, four tool calls of two signatures and three sizes; 2 calls of the model with 2 retries, the sink of one may raise | 1.2M |
| `batch` | both engines use a record once and lose none; the books balance; a pair or a path ends with the best of what is left over; rows and pages accounted for; worlds kept apart; thresholds of use | 3 sources and 2 targets of 10 shapes; 4 graph records of 9 shapes in 2 orders of arrival with 2 minimum scores; files of up to 3 sheets and 4 lines at limits 2 and 2; PDFs of 1 or 2 pages; 7 training cases of which two bridge worlds | 2.2M |
| `retry_reverts`, `crash_abandons`, `late_fault_reverts`, `no_multi_hop`, `pdf_lost_tables`, `untold_failure` | findings, Section 4 | as small as shows it | counterexample |

Bounds. In ingestion the handlers share no state but the rows of one document, so
one document with two workers, or two documents with one worker, shows every
conflict two handlers can have; the second document is there for the effects
of one job's failure on another. Two is enough for a race on a row; `MaxFaults`,
`MaxCrashes`, `MaxApiFaults` and `MaxRaises` count failures, and the attempts make two or
three of them in one job reachable. In the deterministic engine, two positions on one
side and three on the other hold a group of three, a competitor for a target and a
left-over; the shapes are chosen so that every branch of `match_pair` has a
witness. Four nodes of the graph are an anchor, a group of two and a rival, or a
path with a detour; the shapes have equal, near, far and unreachable amounts, fees
and a refund. The limits of the parsers are small numbers, and files reach one row
and one sheet past them. The training cases hold the shortest chain that joins
two components through a third case. Deadlock is not checked: each system has
states in which every request was answered. Backoff times and the order of
`available_at` are abstracted: a waiting job may be claimed at any time.

Symmetry is used for workers and reviewers in runs of invariants only.

Fairness. `FairSpec` of `Ingestion` assumes weak fairness of each worker's next step
(`run_worker` loops for ever and is restarted, `infra/docker-compose.yml`) and of each
handler that has begun. No request has to come, nothing has to
fail, no user has to retry.

Preconditions worth knowing.

* `one_worker` lets store calls raise only up to `update_result` (`FaultPoints`).
  Afterwards the except block would set a document that is PARSED, or already
  CONFIRMED, back to UPLOADED (`late_fault_reverts`): the lifecycle does not hold
  of the code with faults there.
* `one_worker`, `two_workers` and `ingestion_settles` have no manual retry; with
  it `ConfirmedIsFinal` fails (`retry_reverts`) and a job gets two owners or is closed before it ran, since `enqueue_job` recycles the row of a running job.
* `DocumentSettles` holds with the one worker of the deployment. With two, on either
  database, the RETRY that one worker writes can be claimed and finished by the other
  before the first writes UPLOADED, which then hides the result.
* `SingleOwner` is about PostgreSQL. On SQLite two workers can select one row.
* A telemetry sink that raises inside the loop may have the request repeated or recorded
  twice; `AskedOnce`, `FailureJustified` and `OneRecord` are stated of sound sinks where
  that matters, `RecordsTrue` of all. `OneRecord` is about calls
  that return or raise a `TensorMuxError`; the other ends are `untold_failure`. No sink is passed in `src` outside the tests.
* Both engines are asked of distinct ids; what equal ids do is in Section 4.
* `StrongPairsTaken` is about edges of 0.80 and more. An edge of 0.50 can be hidden
  from the search by a detour over a record used meanwhile, and its two records
  then stay unmatched.
* `RowsAccounted` asks for the value of a row with one side of a ledger only. In a
  worksheet a zero debit beside a credit is false for `debit or credit`
  (`tabular.py:116`), so the credit is taken without its sign.
* `SplitLeakFree` is about worlds, scenarios and the one entity an example keeps;
  the other entities of a case are in Section 4.

## 4. Findings

* `retry_reverts`: `retry_document` checks a status and later writes UPLOADED
  without looking again; a document confirmed in between is unconfirmed.
* `late_fault_reverts`: `complete_job` or the audit of a stored result raises, and
  the except block takes a PARSED or CONFIRMED document, which the page no longer
  polls, back to UPLOADED.
* `crash_abandons`: the job of a worker that died is RUNNING for ever, and the
  endpoint the page sends its user to refuses its document.
* `no_multi_hop`: the docstrings of the engine and of `find_graph_paths`, and the name of a test,
  promise lineage paths of several hops. The search takes the first pair that is good enough and
  stops, so no longer path is ever selected, not even where all of it is good enough.
* `pdf_lost_tables`: a table that raises drops the rest of the page's tables
  without an error, and the OCR fallback the comment relies on looks at the text of the
  page only.
* `untold_failure`: an answer with `"usage": null` ends the call with an `AttributeError` that no
  except clause names, and without the record that `docs/phase8-tensormux.md` promises
  of every terminal failure.

Observed while modelling, without a run of their own: of two records of one side with
one id, an unmatched one is missing from the output of the deterministic engine, whose docstring
retains it (`engine.py:113`, 172); an example keeps the first entity of its case
(`examples.py:47`), so that cases that share another one may be trained on and validated on, which
`datasets/__init__.py` excludes; queueing a review leaves no audit event, and a decision whose handler
fails before its second transaction never gets its own, where the plan has an "audit log for every
mutation" (`plan.md:1386`); an enqueue by a retry can be closed by the worker that still holds the
old job, which leaves a document that says "Retry queued" and has no job; the rows of two
tables of one page get the same `source_row` (`worker.py:222`); `mapped | normalized`
(`tabular.py:105`) lets an existing column win over the column mapping.

## 5. Proofs

Everything is proved from the assumptions named in the modules (about the domains of
the constants) and those a theorem states itself, for any number of documents,
requests, workers, records and failures.

* `IngestionProofs`.
  * `TypeCorrect`.
  * `ImportSafe`, `ContentImportedOnce`, `UploadsRecoverable` are inductive together
    (`ImportInv`) with what handlers in the middle know: that an upload past its `put`
    has its bytes stored, and one past its `create` has a row.
  * `JobOwnership`, `AttemptsCounted`, for `SkipLocked` and no manual retries:
    SingleOwner, OwnerRunsJob and AttemptsBounded need each other (`OwnerInv`) and the
    fact that the attempts a worker remembers are those of the row, and that a job
    waiting for a retry has attempts left.
  * `LifecycleImplemented`, for a `Deployment` (one worker, no manual retry, no store
    call that raises after the result is stored, deaths anywhere): the refinement of
    `DocumentLifecycle`. A step of the tables is an edge of the lifecycle only because of what the worker
    knows of the two rows in its hand at each program counter (`WorkerKnows`), that only open
    documents are claimable and a document is queued once (`RowsOpen`); `Flow` is their conjunction,
    and every writer of the status column is matched to one edge.
  * `OneConfirmation`: who is about to audit a confirmation made it alone, the document says
    CONFIRMED and the trail does not yet (`ConfirmedInTrail`); it needs that CONFIRMED is final, which is the
    refinement. `TrailOrdered`: a trail is empty until its upload is audited, a job only exists after
    that, and PARSED or a worker past the start imply the start in the trail (`TrailInv`).
  * `ConfirmationsAudited` needs no deployment, only an API whose calls do not raise.
* `ReviewsProofs`. `TypeCorrect` also says what a handler in the middle of an endpoint
  knows of its run. `DecidedAtMostOnce` holds because a handler between its decision and its
  event holds the review alone (`DecidersApart`), and an event in the trail is of a decided row
  (`VerdictsFinal`). `DecisionsAccounted`: only its own audit takes a decided review from its
  handler. `SubjectsAreReal` uses that a run never changes once stored. `ProposalsTyped`: the
  sum that `MCReviews` checks is typed, since each of its programs is by what it keeps.
* `ProposalProofs`.
  * `DecisionsTraced`: an entry of the log is of a review that exists, a pending
    review has no decision in the log and a decided one exactly its own (`Traced`).
  * `PostingsAreEarned`: a verdict of AUTO_APPROVE is that of the first rule that matches, so the
    action earned it, or of a review that was decided so and stays on the desk (`Posted`). A
    journal the accountant lets through has a debit and a credit, on different lines, that
    are not 0 (`Moves`): its two sums are folds over the lines, equal, and one line is not 0 on either
    side; so a sum of naturals that is not 0 has a term that is not.
  * `NoRivalProposals`: all proposals of a batch are selected in one call from one
    ranking (`ChosenTogether`), and of two candidates that share a record at most one is ahead of the other by
    the margin.
  * `AgentsStayBounded`: the counters are the sizes and numbers of the accepted calls and turns
    (`Budgeted`), within the limits (`Limited`); what was refused was over one or asked for
    before (`Justified`); a trace ends once (`EndsTraced`).
* `ReconciliationProofs`, deterministic. `TypeCorrect`, `ConsumedOnce`, `ReportedWhole`, `NothingLeft`,
  `BestTaken`, `BooksAlwaysBalance`. The strengthening relates the two id sets to the
  results, phase by phase: in the loop over position i, every position before i
  has a result or had no candidate among what is still free, and the free sets
  only shrink; so what had no partner then has none at the end. Groups are handled
  through one lemma, that fewer free records have fewer groups.
  `BooksAlwaysBalance` is about two sums over everything matched so far, per currency: a new result
  is worth the same on both sides (`ReportedEven`, `OneResult`) and takes free records only, which no older
  result holds, so it adds the same to either (`SumOfUnion`).
* `ReconciliationProofs`, graph. `UsedInOnePath`: the used nodes are exactly the members of
  the selected paths, whichever pass selected them (`MembersAccounted`). `AllocationsBalance`:
  every group is balanced over exact sums when it is selected, and stays so because the records never
  change (`InBalance`); an edge joins two different records, so neither side counts the other's.
  `EndsAreOptimal` and `StrongPairsAreMatched` are about the heap (`Searched`):
  the search extends a path only when its score is too low or it holds a used record, and what
  it is extended to is no better, so whatever has three nodes or more is never selected (`Explored`). For
  the first (`BestEnds`), an edge of 0.80 or more to a record that is free is still on the heap when a
  path is selected, so it is no better than that path, and an edge of 0.50 is better than none. For the second, a path of two edges or more scores at most 0.76, 0.855 where the amounts
  of its ends agree and 0.9025 where their dates do too (`Detour`), which is less than a direct edge
  between those ends, if it is of 0.80 or more, so that edge is popped first: a free record
  with such an edge is still to be searched from, or being searched from with that edge ahead
  (`Pending`, `NoneMissed`). `GraphTyped` needs that `Ordered` exists: `SortingExists` shows that the
  members of 1..n can be listed in any strict order, from counting what is below each.
* `ParsingProofs`. `PagesStayConsistent`: a page is either as its document has it or what OCR made of it,
  and each row read from a table carries the lesser of two confidences (`PagesHonest`); the mean of the
  words of OCR stays within 0..100 since a sum of n hundredths is at most 100 n (`SumAtMost`,
  `MeanAtMost`). `EveryRowAccounted`: every row of data that the reader has passed (`Past`) is
  one record, or one error, or below the error of a limit, and every entry is of a line it
  has passed (`RowsTold`); so no step makes a second entry for a line.
* `MLTrainingProofs`. `ThresholdsKept`: the thresholds are of one set of scored examples
  (`Calibrated`), each kept its own constraint when it was chosen, and a threshold that keeps a stricter
  constraint keeps the looser one (`Looser`), so the artifact never refuses them.
  `PartsShareNothing`: the parents of the union-find are a forest, with a root and a height for every
  example (`Forest`); a union joins two trees and parts none (`UnionJoins`); two examples with one identity have
  one owner (`OneOwner`), each was joined to it, and what is dealt are whole components (`Grouping`).
* `TensorMuxProofs`. `CallsTyped`, `BoundedRequests`, `GivesUpLate`, `RecordedOnce`,
  `RecordedTruly`. The strengthening counts: the attempt of a call is the number of its
  requests before this one, a call still in the loop had transient answers only, what
  is about to be told as a success is the last answer. `RecordedOnce` says nothing of a call
  that ends with another exception than its own (`untold_failure`). One lemma (`StepCases`) says what
  a step does to its own call, and each property is kept by the call that moved.
* `BatchesTyped` (`ReconciliationProofs`): a step of the sum that `MCBatch` checks is a step or a stutter
  of each program, so each keeps what it keeps by itself (`BatchKept`), and that makes `TypesOK`.

Recursion. The models compute sums, scores, roots and flattened sequences by recursive functions and
by the folds of the community modules. The library's induction theorems take a predicate as a
parameter, which the provers here cannot instantiate. `InductionLemmas` states induction about sets instead:
from the well-foundedness of the naturals, a set of naturals that is not empty has a least member
(`LeastNatural`), so a set that holds 0 and with n also n + 1 holds them all (`Counting`), and a set
of finite sets that is closed under adding an element holds every subset (`Peeling`); an
instance is a set, which needs no parameter. A recursive function is a CHOOSE of a function
that satisfies its equation, so each use first shows that one exists (`ClimbExists`, `ProductExists`, `FoldExists`,
`JoinExists`), and then that a fold adds up its terms, whichever it takes first (`FoldAdds`, `AnyFirst`,
`SumUnique`).

Only model-checked, and why. The liveness properties (`JobSettles`, `DocumentSettles`) are
beyond TLAPS as used here, since they rest on fairness and ENABLED. The runs that show findings
are counterexamples, and there is nothing to prove. Every invariant of a passing run has a theorem, with
two reservations: those about a deployment (`JobOwnership`, `LifecycleImplemented`, ...) assume it in
their statement, as the runs do in their constants; and those about one program of a sum are stated of
that program's own specification, whose steps are what the sum takes.

## 6. Not modelled

* Times, backoff, progress figures, messages, previews and record bodies; a commit
  that succeeds and reports an error; the schema of `Database/migrations` (the store
  is modelled as `_initialize` creates it); the read-only endpoints.
* `reconcile_configured_graph` and the bank, vendor and customer adapters of the
  deterministic engine: stages that call `reconcile_records` and share no state.
* The tools and prompts of the investigation agent (they read records and format
  text) and the extraction agent (one call of the TensorMux client).
* The features, the fitting and the metrics of the ML ranker, which are numerical; the
  adapters of the public data sets, which convert formats.
* Column names, column mappings and the layout of cells in the parsers.
* Connectors, reports, the harness, the web page and infrastructure: conversions,
  aggregation and a client, without state or concurrency of their own. The demo is
  modelled as the requests it makes, not the records it builds.

## 7. Hazards

PROJECT.json lists 37 with the properties that cover them. Seven have none, each with the reason: the
order of confirmation and completion in the trail, of which nothing is promised; the job that is released
before its document shows it, which takes two workers to bite; the row of a job recycled under a worker,
which takes a manual retry; the run that a refund in a group ends, which is modelled but of which no document
speaks; the pairs across currencies that are formed on purpose; the end of a trace, which `record` guards by
itself; and a crash between the two files of a model artifact, which the checksum in `load_model` refuses
and nothing runs beside.

## 8. What is left

1. `reconcile_configured_graph`, whose stages could be shown to use a record once each.
2. The adapters of the public data sets, for the groups they promise to keep.
3. A composition of `Reviews` with `TensorMux` and `AgentRun`: an investigation from its request to its row.
