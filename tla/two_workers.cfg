\* Two workers on PostgreSQL, store calls raising anywhere, no manual retry.
CONSTANTS
  NoJob = NoJob
  Docs = {d1}
  Content <- OwnContent
  Loop <- OneLoop
  Workers = {w1, w2}
  Confirms = {c1}
  Retries = {}
  Pdf = {}
  Parse <- AnyParse
  MaxAttempts = 3
  SkipLocked = TRUE
  FaultPoints <- EveryCall
  MaxFaults = 2
  MaxCrashes = 1
  MaxApiFaults = 1
SPECIFICATION Spec
INVARIANTS SingleOwner AttemptsBounded
SYMMETRY WorkerSymmetry
CHECK_DEADLOCK FALSE
