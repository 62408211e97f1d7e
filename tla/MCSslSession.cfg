SPECIFICATION Spec
CONSTANTS
  Script <- Twice
INVARIANTS SslInv ReadsAreSent OnlyStopThrows
PROPERTIES Completes
CHECK_DEADLOCK FALSE
