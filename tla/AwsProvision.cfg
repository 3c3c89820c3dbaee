SPECIFICATION Spec
CONSTANTS
  r1 = r1
  r2 = r2
  r3 = r3
  None = None
  Runs <- ThreeRuns
  Approving <- TwoApprove
  Requests <- AwsRequests
  Compliant <- AwsRequests
  Ready <- AwsRequests
  Modes = {"request"}
INVARIANTS
  SoleRunIsLive
  OrphansAreReported
PROPERTIES
  GateSpec
  ProdStaysUp
SYMMETRY Interchangeable
CHECK_DEADLOCK FALSE
