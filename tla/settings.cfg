SPECIFICATION Spec
CONSTANTS
  Blank = Blank
  Garbage = Garbage
  MarketSeconds = 60
  One = 20
  Share = 2
  MaxEdits = 3
  FirstEnvs <- MCFirstEnvs
  Envs <- MCEnvs
  Bodies <- MCBodies
  OldRows <- MCOldRows
INVARIANTS AcceptedRuns ConfiguredWindowsTrade BlockedRefuses
PROPERTIES MovesStayApproved
