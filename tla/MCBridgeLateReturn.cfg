SPECIFICATION Spec
CONSTANTS
  Kinds = {"session"}
  Incarnations = {i1}
  Assignments = {d1}
  None = None
  Quarantined = Quarantined
  Returns = "late"
INVARIANTS
  FenceHolds
CHECK_DEADLOCK FALSE
