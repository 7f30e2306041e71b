SPECIFICATION Spec
CONSTANTS
  l1 = l1
  l2 = l2
  Logs <- TwoLogs
  ReplyTo <- TwoLogs
  Strategy = "hybrid_private"
  DB = "postgres"
  MaxPolls = 2
  MaxCrashes = 0
  DbFaults = TRUE
  ChainFaults = FALSE
INVARIANTS SuccessIsSubmitted
CHECK_DEADLOCK FALSE
