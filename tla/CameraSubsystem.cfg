CONSTANTS
  PULSE = 2
  swap_bytes = FALSE
  NoByte = NoByte
  Lines = 2
  MinBytes = 2
  MaxBytes = 4
  Depth = 1
  Data = {d1, d2}
  DEPTH_LOG2 = 2
  NoData = d1
SPECIFICATION MCSpec
INVARIANTS NothingRefused PointersNeverCross LevelsSafe
PROPERTIES FramesWhole KeepsDelivering OneBitAtATime ImplementsCdcFifo ImplementsQueue NothingStaysHidden
