SPECIFICATION FairSpec
CONSTANTS
  a = a
  b = b
  c = c
  p = p
  i = i
  j = j
  Requests = {a, b, c}
  Plain = {}
  Incarnations = {i}
  None = None
  root = root
  lane1 = lane1
  lane2 = lane2
  Keys <- MCKeys
  Parent <- MCParent
  Slots = 2
  MaxPending = 3
  Budget = 1
  MaxHold = 1
  Mortal = {}
PROPERTIES
  NoStarvation
CHECK_DEADLOCK FALSE
