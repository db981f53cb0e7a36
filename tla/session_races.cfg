SPECIFICATION Spec
CONSTANTS
  s1 = s1
  s2 = s2
  c1 = c1
  u1 = u1
  p1 = p1
  p2 = p2
  Session = {s1, s2}
  Code = {c1}
  User = {u1}
  Request = {p1, p2}
  Null = Null
  IdleTtl = 1
  AbsoluteTtl = 2
  MaxClock = 1
  Enabled = {"login", "authorize", "logout", "setUserStatus", "resetPassword", "cleanupExpiredState"}
SYMMETRY Symmetry
INVARIANTS IndInv
PROPERTIES LockedOutUntilActivated EndedForGood
