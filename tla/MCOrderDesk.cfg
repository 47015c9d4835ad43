SPECIFICATION Spec
CONSTANTS
  a = a
  b = b
  c = c
  nobody = nobody
  free = free
  noIp = noIp
  junk = junk
  ipA = ipA
  ipB = ipB
  ipC = ipC
  N = 2
  Sfds <- MCSfds
  IpOf <- ThreeHosts
  Nobody = nobody
  NoIp = noIp
  Junk = junk
  Free = free
INVARIANTS
  NoPhantomTransport
  TransportAnswersInPlace
  BufferIsPrefix
  OneOrderPerHost
PROPERTIES
  HeadStays
  ImplementsLine
