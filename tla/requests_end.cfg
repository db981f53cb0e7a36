SPECIFICATION RacesFairSpec
CONSTANTS
  t1 = t1
  t2 = t2
  u1 = u1
  c1 = c1
  p1 = p1
  p2 = p2
  Token = {t1, t2}
  User = {u1}
  Client = {c1}
  Request = {p1, p2}
  Null = Null
  IdleTtl = 1
  AbsoluteTtl = 1
  WrappedTtl = 1
  MaxClock = 1
  Enabled = {"issueToken", "rotateTokenForClient", "rotateToken", "resolveRefreshGrant", "revokePresentedToken", "setUserStatus", "updateClient", "cleanupExpiredState"}
PROPERTIES RequestsEnd
