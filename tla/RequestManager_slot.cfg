SPECIFICATION Spec
CONSTANTS
  MaxQueries = 2
  MaxControl = 1
  MaxTokens = 1
  p1 = p1
  p2 = p2
  Profiles = {p1, p2}
  NServers <- OneServer
  RagUsable = TRUE
INVARIANTS TypeOK Ownership SlotHeld AnswersInOrder OneProfilePerRequest
PROPERTIES CancelReachesLive ImplementsSingleFlight
\* The client may stop asking.
CHECK_DEADLOCK FALSE
