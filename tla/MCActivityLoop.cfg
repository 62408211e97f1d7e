SPECIFICATION Spec
CONSTANTS
  ClientFds = {3, 4, 5}
  Listener = 2
  Monitors <- OneMonitor
  Returns = {"continue", "rescan", "quit"}
  Program = {"retain", "release"}
  Start <- NoClients
  MaxQueue = 2
  PoolTimeout = TRUE
INVARIANTS LoopInv
PROPERTIES NothingBlocks AllServed
