SPECIFICATION Safety
CONSTANTS
  a = a
  b = b
  operator = operator
  rightReader = rightReader
  nobody = nobody
  none = none
  noIp = noIp
  junk = junk
  ipA = ipA
  ipB = ipB
  N = 2
  Sfds <- NoSfds
  IpOf <- NoIps
  Nobody = nobody
  NoIp = noIp
  Junk = junk
  Operator = operator
  RightReader = rightReader
  NoEvent = none
  Commands <- Driving
  MaxCommands = 9
  TypeAhead = 2
  EarlyOrders = FALSE
INVARIANTS
  TypeOK
  LocalIdleStandsStill
CHECK_DEADLOCK FALSE
