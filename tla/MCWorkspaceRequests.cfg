SPECIFICATION Spec
CONSTANTS
  a = a
  b = b
  Attempts = {a, b}
  None = None
  Mutations = {TRUE, FALSE}
  MaxFaults = 2
SYMMETRY Symmetry
PROPERTIES
  RequestsSafe
CHECK_DEADLOCK FALSE
