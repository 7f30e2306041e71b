SPECIFICATION Spec
CONSTANTS
  l1 = l1
  l2 = l2
  l3 = l3
  Logs <- ThreeLogs
  Strategy = "hybrid_private_batch"
  DB = "postgres"
  MaxSize = 2
  MqReady = TRUE
  MaxCrashes = 1
  DbFaults = TRUE
  ChainFaults = TRUE
INVARIANTS TakenOnce AnchoredBatchComplete ToldTruly VerifyNeverFalse
SYMMETRY Symmetry
CHECK_DEADLOCK FALSE
