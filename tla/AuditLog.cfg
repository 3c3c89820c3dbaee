SPECIFICATION AuditSpec
CONSTANTS
  c1 = c1
  c2 = c2
  c3 = c3
  c4 = c4
  Calls <- FourCalls
  Genesis = Genesis
  Edited = Edited
  Torn = Torn
SYMMETRY CallSymmetry
INVARIANTS
  NoFalseAlarm
  ChangeDetected
  EventsDurable
CHECK_DEADLOCK FALSE
