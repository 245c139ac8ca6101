SPECIFICATION KeysSpec
CONSTANTS
  c1 = c1
  c2 = c2
  alpaca = alpaca
  k1 = k1
  k2 = k2
  Nil = Nil
  ColumnTakesBytes = TRUE
  Placings <- MCPlacings
  Intents <- MCIntents
  AlpacaIntents <- MCIntents
  Contents <- MCContents
  a1 = a1
  a2 = a2
  a3 = a3
  p = p
  k = k
  NoKey = NoKey
  PoolMax = 2
  Calls <- MCCalls
  Keys <- MCKeys
  KeyOf <- MCKeyOf
CHECK_DEADLOCK FALSE
INVARIANTS OneSubmissionPerIntent CompletedIntentReachedBroker StoredAnswerIsSameRequest ReclaimAuditedOnce OneEventPerKey AnswersAgree
PROPERTIES ImplementsIntentOutcome PendingIsTemporary UnknownIsResolved EveryCallAnswered
