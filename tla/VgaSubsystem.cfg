CONSTANTS
  H_ACTIVE = 4
  H_FP = 1
  H_SYNC_W = 1
  H_BP = 1
  V_ACTIVE = 4
  V_FP = 1
  V_SYNC_W = 1
  V_BP = 1
  Black = Black
  START_FILL_LEVEL = 2
  FIFO_ALMOST_FULL_THRESH = 2
  DEPTH = 4
  FLUSH = 2
  MaxWords = 1
  TestModes = {FALSE, TRUE}
  FifoKinds = {FALSE, TRUE}
SPECIFICATION FairSpec
INVARIANTS FrameAligned PictureShown
PROPERTIES StartsFilled GoesOnShowing
