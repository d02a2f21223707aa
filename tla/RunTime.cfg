CONSTANTS
  a1 = a1
  a2 = a2
  a3 = a3
  Alarm = {a1, a2, a3}
  Head = Head
  Intervals = {1, 2}
  Word = 2
  Delta = 2
  MaxTime = 6
  ALT_US = 4
  TickRate = 2
  Settings <- TwoSettings
  ALT_MAX_FD = 5
  debug = debug
  null = null
  rofs = rofs
  Nothing = Nothing
  Device = {debug, null}
  FileSystem = {rofs}
  alt_dev_null = null
  Console = debug
  Modes <- SomeModes
SYMMETRY AlarmSymmetry
SPECIFICATION MCSpec
INVARIANTS NextTickSet TimeOfDayExact
PROPERTIES ImplementsAlarmBook ImplementsFileTable
