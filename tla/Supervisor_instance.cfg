SPECIFICATION SupSpec
CONSTANTS
  RestartTries = 3
  HealthTries = 2
  MaxProcs = 5
INVARIANT OneInstance
\* After Stop or FATAL nothing is left to do.
CHECK_DEADLOCK FALSE
