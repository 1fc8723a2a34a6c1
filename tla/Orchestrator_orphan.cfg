SPECIFICATION Spec
CONSTANTS
  RestartTries = 1
  HealthTries = 1
  MaxProcs = 3
  qt = qt
  cli = cli
  Clients = {qt}
INVARIANTS NoOrphan
\* The process ends.
CHECK_DEADLOCK FALSE
