\* One call, one retry, a sink that never raises.
CONSTANTS
  ModelCalls = {a}
  MaxRetries = 1
  FlakySinks = {}
SPECIFICATION MuxSpec
INVARIANT FailuresTold
CHECK_DEADLOCK FALSE
