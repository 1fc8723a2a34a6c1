SPECIFICATION SupFairSpec
CONSTANTS
  RestartTries = 3
  HealthTries = 2
  MaxProcs = 5
INVARIANTS WatchedIsCurrent
PROPERTIES FatalIsFinal RestartSettles
\* After Stop or FATAL nothing is left to do.
CHECK_DEADLOCK FALSE
