SPECIFICATION Spec
CONSTANTS
  Size = 7
  Chunk = 4
  SizeMax = 16
  SenderHashes = TRUE
  ReceiverHashes = TRUE
  FileChanges = TRUE
  SenderFails = TRUE
  WritesShort = TRUE
  WritesFail = TRUE
INVARIANTS FileInv FileIsHashed FileIsWhole FailsForACause
PROPERTIES Ends
CHECK_DEADLOCK FALSE
