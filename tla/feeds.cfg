SPECIFICATION FeedsSpec
CONSTANTS
  o1 = o1
  k1 = k1
  c1 = c1
  c2 = c2
  s1 = s1
  s2 = s2
  Nil = Nil
  Placed = 2
  Cancel = Cancel
  NotCancelable = TRUE
  MaxTurns = 2
  Calls <- MCOrderCalls
  Qtys <- MCQtys
  Requests <- MCQtys
  NoKey = NoKey
  Keys <- MCKeys
  Produced <- MCProduced
  Attempts = 2
  MaxReplays = 2
  MaxLog = 3
  MaxFaults = 2
  BarCalls <- MCCalls
  Symbols <- MCSymbols
  Wants <- MCWants
  MaxAttempts = 2
  MaxLoops = 2
  MaxBars = 1
CHECK_DEADLOCK FALSE
INVARIANTS InflightIsTracked NothingSkipped PositionsInOrder ParksAreEarned OneLoop ChannelClosedOnce
PROPERTIES FillIsAnnounced ConsumerKeepsUp ConnectionGivenBack
