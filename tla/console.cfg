SPECIFICATION Spec
CONSTANTS
  t1 = t1
  t2 = t2
  m1 = m1
  m2 = m2
  p1 = p1
  p2 = p2
  p3 = p3
  w1 = w1
  w2 = w2
  f1 = f1
  f2 = f2
  v1 = v1
  v2 = v2
  Nothing = Nothing
  Null = Null
  Closed = Closed
  Tab = {t1, t2}
  Click = {m1, m2}
  RecentWindow = 0
  CsrfAge = 1
  MaxConsoleClock = 2
  Request = {p1, p2, p3}
  PoolSize = 4
  MaxId = 4
  Limit = 1
  Viewer = {w1, w2}
  Field = {f1, f2}
  Value = {v1, v2}
INVARIANTS ConsoleIndInv PagesConsistent ShownOrComing FormsIndInv
PROPERTIES MutationsEnd CoursesEnd MovesAsOffered
CHECK_DEADLOCK FALSE
