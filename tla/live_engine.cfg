SPECIFICATION Spec
CONSTANTS
  Slots = {s1, s2}
  Size = 1
  MaxRetries = 1
  PreAttempts = 1
  Paper = FALSE
  TokensKnown = TRUE
SYMMETRY Interchangeable
INVARIANTS OneRestingPerSlot AcceptedOnce
