SPECIFICATION SessionSpec
CONSTANTS
  k1 = k1
  tab1 = tab1
  Nil = Nil
  MaxCalls = 2
  Codes <- MCCodes
  Tabs <- MCTabs
  MaxTokens = 4
  MaxAges = 1
  PoolMax = 2
  MaxFaults = 0
CHECK_DEADLOCK FALSE
PROPERTY ClearedCookiesAreStale
