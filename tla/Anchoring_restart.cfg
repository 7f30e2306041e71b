SPECIFICATION FairSpec
CONSTANTS
  l1 = l1
  l2 = l2
  Logs <- TwoLogs
  ReplyTo <- NoLogs
  Strategy = "hybrid_private"
  DB = "postgres"
  MaxPolls = 2
  MaxCrashes = 1
  DbFaults = FALSE
  ChainFaults = TRUE
PROPERTIES QueuedIsStored PendingIsFollowed
CHECK_DEADLOCK FALSE
