\* Two workers on SQLite, two API processes with the same bytes, a manual
\* retry and a confirmation; parsing may be flaky.
CONSTANTS
  NoJob = NoJob
  Docs = {d1, d2}
  Content <- SameContent
  Loop <- LoopEach
  Workers = {w1, w2}
  Confirms = {c1}
  Retries = {r1}
  Pdf = {}
  Parse <- Parses
  MaxAttempts = 2
  SkipLocked = FALSE
  FaultPoints <- EveryCall
  MaxFaults = 0
  MaxCrashes = 0
  MaxApiFaults = 1
SPECIFICATION Spec
INVARIANTS CleanImport OneDocumentPerContent LostUploadRetryable
VIEW ButTheTrail
SYMMETRY WorkerSymmetry
CHECK_DEADLOCK FALSE
