SPECIFICATION FairSpec
CONSTANTS
  Requests = {r1, r2}
  Nobody = nobody
  BootMode = "V1"
  MaxRequests = 3
  MaxCfg = 1
INVARIANTS OnlyCurrentRuns StoppingNeverTrades NoLeak
PROPERTIES Answered
