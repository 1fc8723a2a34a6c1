SPECIFICATION FairSpec
CONSTANTS
  MaxRetries = 10
INVARIANTS TypeOK UsableOrRetrying OneSocket QuitStopsOrchestrator
PROPERTIES ConnectSettles DeathSettles QuitEnds
\* The front end ends.
CHECK_DEADLOCK FALSE
