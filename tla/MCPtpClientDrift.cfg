SPECIFICATION Safety
CONSTANTS
  Offsets <- MCOffsets
  MaxError = 3
  Threshold = 30
  Period = 4
  MaxFaults = 0
PROPERTY
  ClockStaysSet
