SPECIFICATION Spec
CONSTANTS
  l1 = l1
  l2 = l2
  Logs <- TwoLogs
  ReplyTo <- TwoLogs
  Strategy = "hybrid_public"
  DB = "postgres"
  MaxPolls = 2
  MaxCrashes = 1
  DbFaults = TRUE
  ChainFaults = TRUE
INVARIANTS TypeOK HandlersOwnHead AnchoredOnce StatusMatchesChain RepliedTrulyOnce
SYMMETRY Symmetry
CHECK_DEADLOCK FALSE
