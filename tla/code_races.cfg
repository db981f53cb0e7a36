SPECIFICATION Spec
CONSTANTS
  c1 = c1
  c2 = c2
  f1 = f1
  f2 = f2
  u1 = u1
  k1 = k1
  p1 = p1
  p2 = p2
  Code = {c1, c2}
  Family = {f1, f2}
  User = {u1}
  Client = {k1}
  Request = {p1, p2}
  Null = Null
  CodeTtl = 1
  MaxClock = 1
SYMMETRY Symmetry
INVARIANTS IndInv GrantedOnce ConsumedByGrant
PROPERTIES CleanupSpares NoGrantWhileInactive ImplementsOneTime
