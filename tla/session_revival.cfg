SPECIFICATION Spec
CONSTANTS
  s1 = s1
  c1 = c1
  u1 = u1
  p1 = p1
  p2 = p2
  Session = {s1}
  Code = {c1}
  User = {u1}
  Request = {p1, p2}
  Null = Null
  IdleTtl = 1
  AbsoluteTtl = 1
  MaxClock = 0
  Enabled = {"login", "authorize", "logout"}
PROPERTIES RevocationPermanent
