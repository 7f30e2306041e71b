SPECIFICATION FairSpec
CONSTANTS
  l1 = l1
  l2 = l2
  l3 = l3
  Logs <- TwoLogs
  Strategy = "hybrid_public_batch"
  DB = "mongo"
  MaxSize = 2
  MqReady = TRUE
  MaxCrashes = 0
  DbFaults = TRUE
  ChainFaults = TRUE
PROPERTIES ImplementsLifecycle EveryWriteSettles StoredIsFollowed
CHECK_DEADLOCK FALSE
