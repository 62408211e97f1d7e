SPECIFICATION Spec
CONSTANTS
  t1 = t1  t2 = t2  t3 = t3
  c1 = c1  c2 = c2  c3 = c3
  Threads = {t1, t2}
  Clients = {c1, c2}
  NoThread = NoThread
  NoClient = NoClient
  MutexKind = "normal"
  Pollers = {t1}
  Ops = {"retain", "release", "activity"}
  PoolTimeout = FALSE
PROPERTIES ActivityReturned
CHECK_DEADLOCK FALSE
