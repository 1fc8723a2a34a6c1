SPECIFICATION FairSpec
CONSTANTS
  RestartTries = 2
  HealthTries = 2
  MaxProcs = 4
  qt = qt
  cli = cli
  Clients = {qt}
INVARIANTS TypeOK OrderlyExit
PROPERTIES SignalStops ImplementsSupervisor
\* The process ends.
CHECK_DEADLOCK FALSE
