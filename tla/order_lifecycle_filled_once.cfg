SPECIFICATION Spec
CONSTANTS
  c1 = c1
  c2 = c2
  Nil = Nil
  Placed = 2
  Cancel = Cancel
  NotCancelable = TRUE
  MaxTurns = 1
  Calls <- MCCalls1
  Qtys <- MCQtys
  Requests <- MCCancel
CHECK_DEADLOCK FALSE
INVARIANT FilledOnce
