CONSTANTS
  T_INIT_CYCLES = 3
  T_RFC = 7
  T_RCD = 2
  T_RP = 2
  T_CL = 3
  T_MRD = 2
  T_WR = 2
  REFRESH_PERIOD = 24
  BURST = 4
  Addrs = {0, 1}
  NoWord = NoWord
  Tags = {A, B}
SPECIFICATION FairSpec
INVARIANTS CommandsLegal BusOwned MemoryKept RefreshInTime
PROPERTIES ImplementsPort KeepsServing
