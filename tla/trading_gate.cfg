SPECIFICATION FairSpec
CONSTANTS
  MaxLive = 2
  Live = TRUE
  Provider = "RTDS"
INVARIANTS MemoryMatchesRecord
PROPERTIES NoOrderOnUnverifiedSpec LatchedReason StopTakesHold FeedRecovers
