SPECIFICATION Spec
CONSTANTS
  Kinds = {"native"}
  Incarnations = {i1, i2}
  Assignments = {d1, d2}
  None = None
  Quarantined = Quarantined
  Returns = "prompt"
SYMMETRY Symmetry
INVARIANTS
  FenceHolds
  ResultsHonest
  ExclusiveExecution
PROPERTIES
  CleanStart
CHECK_DEADLOCK FALSE
