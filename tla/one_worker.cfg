\* One worker on SQLite and no manual retry; store calls may raise until the
\* result is stored, and the worker may die once.
CONSTANTS
  NoJob = NoJob
  Docs = {d1, d2}
  Content <- OwnContent
  Loop <- OneLoop
  Workers = {w1}
  Confirms = {c1, c2}
  Retries = {}
  Pdf = {d2}
  Parse <- AnyParse
  MaxAttempts = 2
  SkipLocked = FALSE
  FaultPoints <- BeforeResult
  MaxFaults = 1
  MaxCrashes = 1
  MaxApiFaults = 0
SPECIFICATION Spec
INVARIANTS TypeOK ConfirmedOnce TrailInOrder ConfirmationAudited
PROPERTY ImplementsLifecycle
CHECK_DEADLOCK FALSE
