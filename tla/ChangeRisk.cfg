SPECIFICATION RiskSpec
CONSTANTS
  None = None
  Weight <- ShippedWeight
  LowMax = 24
  MediumMax = 49
  HighMax = 74
  MaxHops = 4
  Worlds <- SmallWorlds
  Migrations <- OneStatement
  Statements <- AddedStatements
  MaxEdits = 2
INVARIANTS
  LargerNeverSafer
  OrderMovesReplicationOnly
  RiskyProductionNeedsApproval
  DestructionIsFlagged
  ConstraintsLock
  UnreadIsReviewed
CHECK_DEADLOCK FALSE
