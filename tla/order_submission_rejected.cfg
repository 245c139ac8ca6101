SPECIFICATION Spec
CONSTANTS
  c1 = c1
  c2 = c2
  alpaca = alpaca
  k1 = k1
  k2 = k2
  Nil = Nil
  ColumnTakesBytes = TRUE
  Placings <- MCPlacings
  Intents <- MCIntents
  AlpacaIntents <- MCIntents
  Contents <- MCContents
SYMMETRY MCSymmetry
CHECK_DEADLOCK FALSE
INVARIANT RejectedIntentNotWorking
