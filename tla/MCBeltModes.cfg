SPECIFICATION Spec
CONSTANTS
  a = a
  b = b
  operator = operator
  rightReader = rightReader
  nobody = nobody
  none = none
  noIp = noIp
  junk = junk
  ipA = ipA
  ipB = ipB
  N = 2
  Sfds <- OneSfd
  IpOf <- OneIp
  Nobody = nobody
  NoIp = noIp
  Junk = junk
  Operator = operator
  RightReader = rightReader
  NoEvent = none
  Commands <- Modes
  MaxCommands = 3
  TypeAhead = 2
  EarlyOrders = TRUE
INVARIANTS
  ModeIsolation
PROPERTIES
  ModeSettles
CHECK_DEADLOCK FALSE
