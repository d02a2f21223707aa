CONSTANTS
  TimerMax = 7
  BUFFER_DEPTH = 3
  CHANNELS = {1}
  CODES = {0, 1}
  SCAN_TABLE <- MCScanTable
  Periods <- MCPeriods
  Triggers <- MCTriggers
  ScanLengths = {2}
  MaxWait = 2
  MaxConvert = 2
SPECIFICATION FairSpec
INVARIANTS ExactPeriod
