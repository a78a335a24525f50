SPECIFICATION Spec
CONSTANTS
  Slots = {s1}
  Size = 2
  MaxRetries = 1
  PreAttempts = 1
  Paper = FALSE
  TokensKnown = FALSE
INVARIANTS ExposureWithinApproval
