SPECIFICATION FairHistorySpec
CONSTANTS
  Slots = {s1}
  Size = 2
  MaxRetries = 2
  PreAttempts = 2
  Paper = FALSE
  TokensKnown = FALSE
INVARIANTS ExcessIsUncounted 
PROPERTIES KeepsTurning EveryPriceTried
