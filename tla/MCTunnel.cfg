SPECIFICATION Spec
CONSTANTS
  Count = 4
  KernelSize = 3
  BufferSize = 2
  Readers = {1, 2}
  Closers = {1, 2}
  Timeout = TRUE
INVARIANTS TunnelInv
PROPERTIES EndsOnClose AllDelivered
CHECK_DEADLOCK FALSE
