CONSTANTS
  Burst = 2
  FrameBursts = 2
  Words <- Pixels
  NoWord = NoWord
  CamDepth = 2
SPECIFICATION FairSpec
INVARIANTS IInv FrameStored StreamInOrder
PROPERTIES HeldForController ComesBack
