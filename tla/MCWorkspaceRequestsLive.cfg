SPECIFICATION FairSpec
CONSTANTS
  a = a
  b = b
  Attempts = {a, b}
  None = None
  Mutations = {TRUE}
  MaxFaults = 1
PROPERTIES
  EventuallyRetired
CHECK_DEADLOCK FALSE
