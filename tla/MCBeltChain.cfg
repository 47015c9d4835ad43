SPECIFICATION Spec
CONSTANTS
  a = a
  b = b
  operator = operator
  rightReader = rightReader
  nobody = nobody
  none = none
  noIp = noIp
  junk = junk
  ipA = ipA
  ipB = ipB
  N = 2
  Sfds <- MCSfds
  IpOf <- MCIpOf
  Nobody = nobody
  NoIp = noIp
  Junk = junk
  Operator = operator
  RightReader = rightReader
  NoEvent = none
  Commands <- ChainOnly
  MaxCommands = 1
  TypeAhead = 2
  EarlyOrders = FALSE
INVARIANTS
  PerformingMatchesTransport
  StillUnlessTransporting
  SlowWhenHandingOver
  DriveFollowsDiagram
PROPERTIES
  AcceptedIsServed
CHECK_DEADLOCK FALSE
