SPECIFICATION Spec
CONSTANTS
  Half = 4
  LogSize = 2
  WrapLimit = 1
  Zeros <- MCZeros
  Width = 2
  Toleranz = 2
  Patience = 2
  StillWraps = 1
  Lag = 2
  Rise = 1
  Bytes = 2
  Rows = 3
  Table <- MCTable
  Boards <- MCBoards
INVARIANTS
  FoundAboveStandstill
  LogSparesWatchdog
  NetworkHasOwnAddress
PROPERTIES
  PulsesCounted
  StandstillShown
