SPECIFICATION ChatFairSpec
CONSTANTS
  MaxQueries = 2
  MaxControl = 1
  MaxTokens = 1
  p1 = p1
  Profiles = {p1}
  NServers <- OneServer
  RagUsable = TRUE
INVARIANTS ChatTypeOK BubblesAreOwn AnswerShown ReadyMeansIdle
PROPERTIES BusyEnds
\* The user may stop asking.
CHECK_DEADLOCK FALSE
