SPECIFICATION BackupSpec
CONSTANTS
  j1 = j1
  j2 = j2
  None = None
  Garbage = Garbage
  Jobs <- TwoJobs
  MaxTick = 2
  TicksPerSecond = 2
  Retentions = {0, 1}
INVARIANT ReportedBackupExists
CHECK_DEADLOCK FALSE
