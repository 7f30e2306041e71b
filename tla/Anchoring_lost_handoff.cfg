SPECIFICATION FairSpec
CONSTANTS
  l1 = l1
  l2 = l2
  Logs <- TwoLogs
  ReplyTo <- NoLogs
  Strategy = "hybrid_private"
  DB = "postgres"
  MaxPolls = 1
  MaxCrashes = 1
  DbFaults = FALSE
  ChainFaults = FALSE
PROPERTIES PendingIsFollowedAfterRestart
CHECK_DEADLOCK FALSE
