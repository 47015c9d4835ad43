SPECIFICATION Spec
CONSTANTS
  Offsets <- MCOffsets
  MaxError = 3
  Threshold = 30
  Period = 4
  MaxFaults = 4
INVARIANTS
  ErrorBounded
PROPERTIES
  MeasuredRoundSetsClock
  ClockIsRightAgain
