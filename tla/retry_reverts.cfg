\* A manual retry beside one worker and a confirmation; nothing fails.
CONSTANTS
  NoJob = NoJob
  Docs = {d1}
  Content <- OwnContent
  Loop <- OneLoop
  Workers = {w1}
  Confirms = {c1}
  Retries = {r1}
  Pdf = {}
  Parse <- AnyParse
  MaxAttempts = 2
  SkipLocked = TRUE
  FaultPoints <- EveryCall
  MaxFaults = 0
  MaxCrashes = 0
  MaxApiFaults = 0
SPECIFICATION Spec
PROPERTIES ConfirmedIsFinal
CHECK_DEADLOCK FALSE
