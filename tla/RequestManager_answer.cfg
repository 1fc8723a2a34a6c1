SPECIFICATION FairSpec
CONSTANTS
  MaxQueries = 1
  MaxControl = 1
  MaxTokens = 3
  p1 = p1
  p2 = p2
  Profiles = {p1, p2}
  NServers <- TwoServers
  RagUsable = FALSE
INVARIANTS TokensInOrder AnswerComplete
PROPERTIES CancelReleases Completes
\* The client may stop asking.
CHECK_DEADLOCK FALSE
