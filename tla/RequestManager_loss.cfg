SPECIFICATION FairSpec
CONSTANTS
  MaxQueries = 1
  MaxControl = 0
  MaxTokens = 2
  p1 = p1
  p2 = p2
  Profiles = {p1, p2}
  NServers <- OneServer
  RagUsable = TRUE
PROPERTY LossReleases
\* The client may stop asking.
CHECK_DEADLOCK FALSE
