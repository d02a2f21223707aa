CONSTANTS
  BUF_LEN = 3
  DEFAULT_TIMEOUT = 1
  INT_MAX = 3
  WriteDepth = 1
  WriteThreshold = 0
  ReadDepth = 1
  Chars = 6
  HostText = 4
  Counts = {3}
  Requests = {0}
  BootOrders <- EitherOrder
SPECIFICATION Spec
INVARIANTS InterruptsArmed
PROPERTIES ImplementsByteStreams NothingStuck
