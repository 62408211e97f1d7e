SPECIFICATION Spec
CONSTANTS
  t1 = t1  t2 = t2  t3 = t3
  c1 = c1  c2 = c2  c3 = c3
  Threads = {t1, t2}
  Clients = {c1, c2}
  NoThread = NoThread
  NoClient = NoClient
  MutexKind = "recursive"
  Pollers = {t1, t2}
  Ops = {"retain", "release", "accept", "activity", "fair", "foreach"}
  PoolTimeout = TRUE
INVARIANTS PoolInv IteratorsValid
PROPERTIES ListProtected ActivityReturned FairTurn
CHECK_DEADLOCK FALSE
