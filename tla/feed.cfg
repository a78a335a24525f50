SPECIFICATION FairSpec
CONSTANTS
  Full = 3
  Envs <- MCEnvs
  Prices <- MCPrices
  Ticks <- MCTicks
  Reports <- MCReports
  SignedFor = 5
  MaxMove = 5
  MaxAge = 30
  MaxFuture = 2
  Warn = 1
  Critical = 2
  DriftCritical = 1
  Offsets <- SlowRightFast
  Lags = {0, 2, 31}
  MaxDrops = 2
PROPERTIES TradesOnFreshFeed DriftSeen FeedComesBack
