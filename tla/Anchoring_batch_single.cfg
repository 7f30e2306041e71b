SPECIFICATION Spec
CONSTANTS
  l1 = l1
  l2 = l2
  Logs <- TwoLogs
  ReplyTo <- TwoLogs
  Strategy = "hybrid_private_batch"
  DB = "mongo"
  MaxPolls = 2
  MaxCrashes = 0
  DbFaults = FALSE
  ChainFaults = FALSE
INVARIANTS SuccessIsRecorded
CHECK_DEADLOCK FALSE
