\* Every endpoint once and two reviewers, one handler may fail half way; or a policy,
\* two reviews and an accountant; or a model and two batches of proposals;
\* or an agent that asks for four tool calls; or two calls of the model at once, the
\* telemetry sink of one of which may raise.
CONSTANTS
  None = None
  Creates = {c1}
  Demos = {m1}
  Inquiries = {i1}
  Queues = {q1, q2}
  Deciders = {p1, p2}
  MaxRaises = 1
  Nothing = Nothing
  NoConfidence = NoConfidence
  Contexts <- Varied
  Journals <- SmallJournals
  FlakyWriter = TRUE
  MaxQueued = 2
  NoParty = NoParty
  NoThreshold = NoThreshold
  NoModel = NoModel
  Undecided = Undecided
  GraphWindow = 3
  Ledgers <- SmallLedgers
  Scores = {85, 86, 90}
  Models <- Artifacts
  MaxBatches = 1
  Limits <- SmallLimits
  Signatures = {"a", "b"}
  Sizes = {1, 2, 4}
  MaxAsked = 4
  MaxEvents = 3
  ModelCalls = {a, b}
  MaxRetries = 2
  FlakySinks = {b}
SPECIFICATION AllSpec
INVARIANTS TypesOK DecidedOnce DecisionAccounted SubjectsExist ProposalsDisjoint PostingEarned ApprovalsTraced RunBounded
INVARIANTS AskedOnce FailureJustified OneRecord RecordsTrue
SYMMETRY DeciderSymmetry
CHECK_DEADLOCK FALSE
