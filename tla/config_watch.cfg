SPECIFICATION FairSpec
CONSTANTS
  c1 = c1
  c2 = c2
  Clients <- MCClients
  UserClients <- MCUserClients
  MaxWrites = 2
  MaxFaults = 1
CHECK_DEADLOCK FALSE
INVARIANT LiveStreamsHaveCache
PROPERTIES NeverBackwards WatchersConverge
