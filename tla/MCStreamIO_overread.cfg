SPECIFICATION Spec
CONSTANTS
  Messages = 4
  Bound <- Ends
  SizeMax = 8
  Reader = "base_fd"
  TimeoutSet = FALSE
  PeerMayFail = FALSE
INVARIANTS StaysInMessage
CHECK_DEADLOCK FALSE
