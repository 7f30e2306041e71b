SPECIFICATION Spec
CONSTANTS
  l1 = l1
  l2 = l2
  l3 = l3
  Logs <- ThreeLogs
  Strategy = "hybrid_private_batch"
  DB = "mongo"
  MaxSize = 2
  MqReady = TRUE
  MaxCrashes = 0
  DbFaults = FALSE
  ChainFaults = FALSE
INVARIANTS VerifyNeverFalse
CHECK_DEADLOCK FALSE
