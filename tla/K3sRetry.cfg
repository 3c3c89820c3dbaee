SPECIFICATION RetrySpec
CONSTANTS
  r1 = r1
  r2 = r2
  None = None
  Legacy = Legacy
  Attempts = 2
  Runs <- TwoRuns
  Requests <- OneRequest
  Compliant <- OneRequest
  Ready <- OneRequest
  Modes = {"request"}
INVARIANT RetryCredentialsWork
CHECK_DEADLOCK FALSE
