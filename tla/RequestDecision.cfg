SPECIFICATION Spec
CONSTANTS
  None = None
  Templates <- ExampleRequests
  NamedFlags <- TriedFlags
  SetOptions <- TriedSettings
  Additions = {"pgaudit", "pgcrypto"}
  MaxOptions = 3
  GlobalTags <- ShadowingTags
INVARIANTS
  PolicyImpliesReadiness
  OneFileIsEnough
  HardeningNeverHurts
  RequiredTagsHold
CHECK_DEADLOCK FALSE
