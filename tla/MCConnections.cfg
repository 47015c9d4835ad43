SPECIFICATION Spec
CONSTANTS
  Clients <- MCClients
  Master = "master"
  N = 2
  MaxFd = 4
  MaxTasks = 3
  MaxReaders = 2
  MaxConnections = 3
  MaxFaults = 1
INVARIANTS
  AnswerFindsConnection
  OneTaskPerConnection
  OnlyFailuresCostSlots
CHECK_DEADLOCK FALSE
