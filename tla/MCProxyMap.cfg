CONSTANTS
  p1 = p1
  p2 = p2
  Conn = {c1, c2, c3}
  ProxyID = {p1, p2}
  NoProxy = NoProxy
  NoConn = NoConn
  MaxElements = 3
  CounterMod = 3
  Configured <- FirstConfigured
  Sends = {"hello", "goodbye"}
  MayShutDown = FALSE
  MaxQueue = 1
  MaxInstalls = 4
SPECIFICATION Spec
SYMMETRY ConnSymmetry
INVARIANTS TypeOK UniqueUntilWrap 
PROPERTIES NoTakeover PreDefinedStays
CHECK_DEADLOCK FALSE
