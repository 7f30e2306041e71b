SPECIFICATION ReadSpec
CONSTANTS
  h1 = h1
  h2 = h2
  h3 = h3
  h4 = h4
  s1 = s1
  s2 = s2
  q1 = q1
  Hashes <- FourHashes
  Submitters <- TwoSubmitters
  Searches <- OneSearch
  NotAHash = NotAHash
  NoSubmitter = NoSubmitter
  MaxTxs = 4
  MaxReorgs = 1
  MaxLimit = 2
  PageSize = 2
  FetchSize = 2
  Limit = 1
  MaxLoads = 5
  ReadFaults = TRUE
INVARIANTS TypeOK IndexListsRecords HistoryRebuilds SearchIsComplete BrowsingMissesNothing
PROPERTIES OnlyAppends
SYMMETRY Symmetry
CHECK_DEADLOCK FALSE
