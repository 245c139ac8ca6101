SPECIFICATION Spec
CONSTANTS
  e1 = e1
  e2 = e2
  e3 = e3
  c1 = c1
  c2 = c2
  NoKey = NoKey
  Keys = {}
  PoolMax = 2
  ReplayBatch = 1
  MaxFaults = 1
  Calls <- MCPair
  KeyOf <- MCPairKeyOf
  Big <- MCBig
  Consumers <- MCOne
  Wants <- MCPairWants
CHECK_DEADLOCK FALSE
INVARIANT GapReplayed
