SPECIFICATION Spec
CONSTANTS
  keyboard = keyboard
  tBaseRate = tBaseRate
  tMain = tMain
  none = none
  free = free
  initSystem = initSystem
  other = other
  Producers <- MCProducers
  Main = tMain
  Events <- MCEvents
  NoEvent = none
  Free = free
  InitSystem = initSystem
  QueueBound = 2
INVARIANTS
 
  QueueGuarded
  TokensMatchEvents
 
PROPERTIES
  EveryEventDispatched
  ImplementsFifo
