SPECIFICATION UnionSpec
CONSTANTS
  c1 = c1
  c2 = c2
  c3 = c3
  k1 = k1
  k2 = k2
  v = v
  w = w
  u1 = u1
  u2 = u2
  x1 = x1
  f1 = f1
  f2 = f2
  ra = ra
  rb = rb
  n1 = n1
  n2 = n2
  one = one
  two = two
  First = First
  i1 = i1
  i2 = i2
  d1 = d1
  Quarantined = Quarantined
  None = None
  Kinds = {"plain", "session", "native"}
  Incarnations = {i1, i2}
  Assignments = {d1}
  Returns = "late"
INVARIANTS ExpiredStaysUnfulfilled SandboxSafe  CacheSafe ArtifactsSafe
PROPERTIES ReplaySafe   SupervisorSafe
CHECK_DEADLOCK FALSE
