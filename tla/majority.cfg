SPECIFICATION FairSpec
CONSTANTS
  N = 2
  Mode <- MCMode
  TriggerLimit = TRUE
  TriggerPrice = 2
  MaxBid = 2
CHECK_DEADLOCK FALSE
INVARIANTS LockMatchesIntent NoStaleTrade
PROPERTIES TradesWhileActive ImplementsOneShot TriggeredResolves
