\* One worker that does not die and one document of each kind of file.
CONSTANTS
  NoJob = NoJob
  Docs = {d1, d2}
  Content <- OwnContent
  Loop <- OneLoop
  Workers = {w1}
  Confirms = {c1}
  Retries = {}
  Pdf = {d2}
  Parse <- AnyParse
  MaxAttempts = 3
  SkipLocked = TRUE
  FaultPoints <- EveryCall
  MaxFaults = 1
  MaxCrashes = 0
  MaxApiFaults = 0
SPECIFICATION FairSpec
PROPERTIES JobSettles DocumentSettles
CHECK_DEADLOCK FALSE
