SPECIFICATION Spec
CONSTANTS
  a = a
  b = b
  Attempts = {a, b}
  None = None
  Kinds = {"crash", "boot", "abort"}
  MaxFaults = 3
  MaxGen = 5
  MaxSeq = 1
SYMMETRY Symmetry
INVARIANTS
  RetiredIsDead
