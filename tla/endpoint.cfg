SPECIFICATION Spec
CONSTANTS
  a1 = a1
  a2 = a2
  p1 = p1
  p2 = p2
  i1 = i1
  u1 = u1
  a3 = a3
  Request = {p1, p2}
  Null = Null
  Key = {a1, a2}
  Account = {a1, a2}
  Ip = {i1}
  Window = 2
  AccountMax = 1
  IpMax = 2
  TokenMax = 2
  MaxLimitClock = 3
  MaxRotations = 3
  Link = {a1, a2, a3}
  User = {u1}
SYMMETRY Symmetry
INVARIANTS KeyIndInv LimitIndInv TwoWindows RefreshIndInv BehindOnlyByLoss LinkIndInv
PROPERTIES DeadStaysDead RevivedByOverlap
CHECK_DEADLOCK FALSE
