SPECIFICATION FairSpec
CONSTANTS
  a = a
  b = b
  Attempts = {a, b}
  None = None
  Kinds = {"crash", "lock", "redis", "aws", "boot", "abort", "guest", "age"}
  MaxFaults = 2
  MaxGen = 5
  MaxSeq = 1
PROPERTIES
  EventuallyServed
