SPECIFICATION ServicesSpec
CONSTANTS
  k1 = k1
  tab1 = tab1
  a1 = a1
  a2 = a2
  s1 = s1
  p1 = p1
  ann = ann
  bob = bob
  g1 = g1
  g2 = g2
  g3 = g3
  b1 = b1
  b2 = b2
  x1 = x1
  Nil = Nil
  MaxCalls = 3
  Codes <- MCCodes
  Tabs <- MCTabs
  MaxTokens = 4
  MaxAges = 1
  PoolMax = 2
  MaxFaults = 1
  Alerts <- MCAlerts
  Streams <- MCStreams
  Endpoints <- MCEndpoints
  MaxMishaps = 1
  Users <- MCUsers
  Updates <- MCUpdates
  Chunks <- MCChunks
  Width = 1
  Cancels <- MCCancels
  MaxTroubles = 2
CHECK_DEADLOCK FALSE
INVARIANTS SessionHasItsToken CodeBuysOneSession NoStandstill StreamInOrder OneSendPerWindow EmptiedByTwo 
PROPERTY JarMovesForward
