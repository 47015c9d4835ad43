SPECIFICATION Spec
CONSTANTS
  RampTicks = 1
  ConstTicks = 2
  Warm = 1
  Settle = 1
  LogSize = 11
  EventBound = 2
INVARIANTS
  ProfileFitsLog
  OutputZeroAtRest
  RelayOpenAfterProfile
PROPERTIES
  ImplementsPhases
  ProfileEnds
