\* One worker that dies once.
CONSTANTS
  NoJob = NoJob
  Docs = {d1}
  Content <- OwnContent
  Loop <- OneLoop
  Workers = {w1}
  Confirms = {c1}
  Retries = {}
  Pdf = {}
  Parse <- AnyParse
  MaxAttempts = 2
  SkipLocked = TRUE
  FaultPoints <- EveryCall
  MaxFaults = 0
  MaxCrashes = 1
  MaxApiFaults = 0
SPECIFICATION Spec
INVARIANTS AbandonedIsRetryable
CHECK_DEADLOCK FALSE
