SPECIFICATION Spec
CONSTANTS
  a = a
  b = b
  c = c
  p = p
  i = i
  j = j
  Requests = {a, b, c}
  Plain = {p}
  Incarnations = {i, j}
  None = None
  root = root
  lane1 = lane1
  lane2 = lane2
  Keys <- MCKeys
  Parent <- MCParent
  Slots = 2
  MaxPending = 2
  Budget = 1
  MaxHold = 2
  Mortal = {c}
SYMMETRY Symmetry
PROPERTIES
  SlotsSafe
CHECK_DEADLOCK FALSE
