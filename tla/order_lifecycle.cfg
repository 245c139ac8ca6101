SPECIFICATION Spec
CONSTANTS
  c1 = c1
  c2 = c2
  Nil = Nil
  Placed = 2
  Cancel = Cancel
  NotCancelable = TRUE
  MaxTurns = 2
  Calls <- MCCalls
  Qtys <- MCQtys
  Requests <- MCMixed
SYMMETRY MCSymmetry
CHECK_DEADLOCK FALSE
INVARIANTS FillIsReal OneBrokerCallPerIntent ConfirmedCancelIsReal CancelRetryAgrees ReplaceSurvives
