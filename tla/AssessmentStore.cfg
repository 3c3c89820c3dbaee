SPECIFICATION Spec
CONSTANTS
  j1 = j1
  j2 = j2
  j3 = j3
  None = None
  Jobs <- ThreeJobs
  Limits = {0, 2}
SYMMETRY JobSymmetry
INVARIANTS
  ChangesBehind
  ListsTheNewest
PROPERTY AssessmentsDurable
CHECK_DEADLOCK FALSE
