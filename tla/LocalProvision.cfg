SPECIFICATION FairSpec
CONSTANTS
  r1 = r1
  r2 = r2
  None = None
  Runs <- TwoRuns
  Requests <- MixedRequests
  Compliant <- MixedCompliant
  Ready <- MixedReady
  Modes = {"request", "local"}
INVARIANTS
  OnlyGatedLeaveTraces
  SuccessIsBacked
  SoleRunCredentialsWork
PROPERTIES
  GateSpec
  EveryRunEnds
CHECK_DEADLOCK FALSE
