SPECIFICATION FairSpec
CONSTANTS
  Slots = {s1, s2}
  Size = 2
  MaxRetries = 1
  PreAttempts = 1
  Paper = TRUE
  TokensKnown = FALSE
INVARIANTS ExposureWithinApproval SweptBeforeSettlement NeverOverstated AccountCovers
PROPERTIES ImplementsLedger CloseRetractsAll
