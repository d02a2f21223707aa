CONSTANTS
  Burst = 2
  FrameBursts = 2
  Words <- Pixels
  NoWord = NoWord
  CamDepth = 2
SPECIFICATION Spec
INVARIANTS StoredInPlace
