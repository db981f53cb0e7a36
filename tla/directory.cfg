SPECIFICATION Spec
CONSTANTS
  p1 = p1
  p2 = p2
  a1 = a1
  a2 = a2
  b1 = b1
  b2 = b2
  u1 = u1
  c1 = c1
  t1 = t1
  Null = Null
  Request = {p1, p2}
  UserRow = {u1}
  ClientRow = {c1}
  GroupRow = {a1, a2}
  Name = {b1, b2}
  Target = {t1}
  Secret = {a1, a2}
  Person = {a1, a2}
  Group = {b1, b2}
  RecentWindow = 0
  MaxAccessClock = 1
  Nobody = Nobody
  Start = {a1, a2}
  Other = {u1}
  MaxEdits = 2
  MaxDeaths = 2
  ClientId = {a1, a2}
SYMMETRY Symmetry
INVARIANTS DirectoryIndInv AccessIndInv BootIndInv SchemaSound RefusedOnlyFor
PROPERTIES OnlyStaleSavesUndo
CHECK_DEADLOCK FALSE
