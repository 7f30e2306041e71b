SPECIFICATION HeadersOnly
CONSTANTS
  H1Scripts <- MCScripts
  H1Configs <- MCConfigs
  MaxPipelined = 1
  MaxPayload = 1
  HighWater = 2
  FramingJobs <- MCJobs
  Radix = 2
  H2Requests = {"s1", "s2"}
  H2Plans <- MCPlans
  ChunkSize = 2
  StreamWindow = 2
  ConnWindow = 2
  H2Faults = {"reset", "lost"}
  Calls = {"c1", "c2", "c3"}
  KeyOf <- MCKeyOf
  H2Keys = {"b"}
  Limit = 1
  PoolFaults = {"connect", "cancel", "peer"}
  Base = 2
  Short = 3
  MaxSize = 4
  Xor <- MCXor
  WsRequests <- MCWsRequests
  WsScripts <- MCWsScripts
  WsMasks <- MCWsMasks
  HeaderNames = {"a", "b"}
  HeaderValues = {1, 2}
  MaxPerName = 3
  CookieNames = {"k1", "k2"}
  CookieWrites <- MCCookieWrites
  MaxCookieOps = 3
  CodingJobs <- MCCodingJobs
  EncodeInPlace = 2
  DecodeInPlace = 3
  TypedValues <- MCTypedValues
  CookiePairs <- MCPairs
  CookiePaths <- MCPaths
  CookieDomains <- MCDomains
  CookieFlags <- MCFlags
  CookieAges <- MCAges
  MaxSets = 2
  MaxTrips = 2
  TimerSettings <- MCSettings
  Horizon = 8
  Chains <- MCChains
  Ends <- MCEnds
  Clients <- MCClients
  Handles = {"x1", "x2"}
  Exchanges <- MCExchanges
  ConnectionTypes = {"close"}
  PoolMax = 1
  Refresh = 2
  Lateness = 2
INVARIANTS AppendPushesToEnd
CHECK_DEADLOCK FALSE
