SPECIFICATION UnionSpec
CONSTANTS
  r1 = r1
  r2 = r2
  a = a
  b = b
  None = None
  Attempts = {a, b}
  Kinds = {"crash", "lock", "redis", "aws", "boot", "guest", "store", "age"}
  MaxFaults = 2
  MaxGen = 5
  MaxSeq = 2
SYMMETRY Symmetry
INVARIANTS  MutationNotReused AppSafe
PROPERTIES CheckpointsSafe
CHECK_DEADLOCK FALSE
