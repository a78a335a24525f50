SPECIFICATION FairSpec
CONSTANTS
  M = 3
  D = 2
  W = 1
  G = 1
  MaxAge = 1
  MaxFuture = 1
  Emits = {2, 4}
  Deliveries = 2
  MaxFaults = 1
CHECK_DEADLOCK FALSE
INVARIANTS PtbIsOfficial LiveMatchesRows LiveHasCollector SettledAfterClose SettledOnWhatWasHeard
PROPERTIES ImplementsLife ClosedSettles
