CONSTANTS
  p1 = p1
  p2 = p2
  Conn = {c1, c2}
  ProxyID = {p1, p2}
  NoProxy = NoProxy
  NoConn = NoConn
  MaxElements = 2
  CounterMod = 3
  Configured <- SingleUnconfigured
  Sends = {"hello", "badhello", "other"}
  MayShutDown = TRUE
  MaxQueue = 1
  MaxInstalls = 2
SPECIFICATION FairSpec
CHECK_DEADLOCK FALSE
PROPERTY HelloIsSettled
INVARIANT ZeroEntryUnused
