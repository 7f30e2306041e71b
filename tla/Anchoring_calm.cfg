SPECIFICATION FairSpec
CONSTANTS
  l1 = l1
  l2 = l2
  Logs <- TwoLogs
  ReplyTo <- TwoLogs
  Strategy = "hybrid_public"
  DB = "mongo"
  MaxPolls = 2
  MaxCrashes = 0
  DbFaults = TRUE
  ChainFaults = TRUE
PROPERTIES ImplementsLifecycle EveryCallerAnswered
CHECK_DEADLOCK FALSE
