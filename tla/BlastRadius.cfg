SPECIFICATION Spec
CONSTANTS
  Graphs <- SmallGraphs
  Changes <- ShortChanges
  MaxHops = 3
INVARIANTS
  EvidenceIsAPath
  SearchIsExact
  NothingIsMissed
PROPERTIES
  FirstPathStays
CHECK_DEADLOCK FALSE
