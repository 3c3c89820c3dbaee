SPECIFICATION Spec
CONSTANTS
  j1 = j1
  j2 = j2
  None = None
  Garbage = Garbage
  Jobs <- TwoJobs
  MaxTick = 2
  TicksPerSecond = 2
  Retentions = {0, 1}
  Queries = 2
SYMMETRY JobSymmetry
INVARIANTS
  TrustedIsWhole
  RestoredIsRecorded
  PassedDrillIsReal
  DebrisIsReported
PROPERTY GoodUntilExpired
CHECK_DEADLOCK FALSE
