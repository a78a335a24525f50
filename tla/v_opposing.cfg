SPECIFICATION Spec
CONSTANTS
  N = 2
  Mode <- MCMode
  TriggerLimit = TRUE
  TriggerPrice = 2
  MaxBid = 2
CHECK_DEADLOCK FALSE
INVARIANTS OneSidePerMarket
