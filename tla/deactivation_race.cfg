SPECIFICATION Spec
CONSTANTS
  t1 = t1
  t2 = t2
  t3 = t3
  u1 = u1
  c1 = c1
  p1 = p1
  p2 = p2
  Token = {t1, t2, t3}
  User = {u1}
  Client = {c1}
  Request = {p1, p2}
  Null = Null
  IdleTtl = 1
  AbsoluteTtl = 1
  WrappedTtl = 1
  MaxClock = 0
  Enabled = {"issueToken", "rotateTokenForClient", "setUserStatus"}
PROPERTIES DeactivationRevokesFamilies
