SPECIFICATION ValuesSpec
CONSTANTS
  Messages <- MCMessages
  Bound <- MCBound
  SizeMax = 64
  Reader = "waitall"
  TimeoutSet = TRUE
  PeerMayFail = TRUE
  Vals <- MCVals
  Depth <- MCDepth
  Nesting <- MCNesting
  Script <- MCScript
  Base = 8
  W32 = 2
  W64 = 3
  WriterBig = TRUE
  ReaderBig = FALSE
  KeyFirst = TRUE
INVARIANTS ValuesAgree StaysInMessage
PROPERTIES AllRead
CHECK_DEADLOCK FALSE
