\* One worker and no manual retry; one store call of the worker raises, the
\* audit event of the stored result and the completion of the job included.
CONSTANTS
  NoJob = NoJob
  Docs = {d1}
  Content <- OwnContent
  Loop <- OneLoop
  Workers = {w1}
  Confirms = {c1}
  Retries = {}
  Pdf = {}
  Parse <- CleanParse
  MaxAttempts = 2
  SkipLocked = TRUE
  FaultPoints <- EveryCall
  MaxFaults = 1
  MaxCrashes = 0
  MaxApiFaults = 0
SPECIFICATION Spec
PROPERTIES VerdictStays
CHECK_DEADLOCK FALSE
