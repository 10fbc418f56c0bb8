SPECIFICATION UnionSpec
CONSTANTS
  ra = ra
  rb = rb
  w1 = w1
  w2 = w2
  r1 = r1
  p1 = p1
  p2 = p2
  k1 = k1
  k2 = k2
  i1 = i1
  i2 = i2
  q1 = q1
  q2 = q2
  a1 = a1
  a2 = a2
  a3 = a3
  p3 = p3
  p4 = p4
  s1 = s1
  s2 = s2
  c1 = c1
  c2 = c2
  Seed = Seed
  Buried = Buried
  Close = Close
  Checkout = Checkout
  None = None
  Assignments = {a1, a2, a3}
  Mutations = {a1, a3}
  Keys = {k1, k2}
  KeyOf <- MCKeyOf
  Parent <- MCParent
  MaxStarts = 2
INVARIANTS WorkerSafe ExecutorSafe EditsSafe ProgramSafe  EditOK MigrationSafe CredentialSafe SetupSafe
PROPERTIES RetirementSafe SnapshotSafe ProvisioningSafe PairingSafe
CHECK_DEADLOCK FALSE
