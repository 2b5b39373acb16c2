SPECIFICATION Spec
CONSTANTS
  NULL = NULL
  Tasks = {"score", "audit"}
  Retries <- MCRetries
  Logs <- MCLogs
  WindowBefore = 1
  WindowAfter = 1
  MaxWindow = 3
  MaxClears = 1
  MaxFaults = 2
INVARIANTS
  FailuresReported
  OneThreadPerTask
  RootCauseNamed
CHECK_DEADLOCK FALSE
