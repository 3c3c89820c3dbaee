SPECIFICATION FairSpec
CONSTANTS
  r1 = r1
  r2 = r2
  None = None
  Legacy = Legacy
  Attempts = 2
  Runs <- TwoRuns
  Requests <- MixedRequests
  Compliant <- MixedRequests
  Ready <- MixedRequests
  Modes = {"request"}
INVARIANTS
  SuccessIsBacked
  SoleRunCredentialsWork
  ForwardsClosed
PROPERTIES
  EveryRunEnds
CHECK_DEADLOCK FALSE
