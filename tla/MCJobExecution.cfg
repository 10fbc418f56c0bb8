SPECIFICATION Spec
CONSTANTS
  Attempts = {a1, a2}
  None = none
SYMMETRY Symmetry
INVARIANTS
  AtMostOneExecution
  ResultAgreement
  CancellationIsFinal
  
PROPERTIES
  Implements
CHECK_DEADLOCK FALSE
