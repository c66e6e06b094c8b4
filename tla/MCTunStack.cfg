SPECIFICATION DeviceSpec
CONSTANTS
  t1 = t1
  u1 = u1
  NON = NON
  TcpFlows = {t1}
  UdpFlows = {u1}
  MaxConns = 2
  MaxData = 3
  MaxSched = 2
  SndQueueLimit = 2
  Ids = {1}
  Seqnos = {1, 2}
  ReplySize = 2
  MaxWire = 2
CHECK_DEADLOCK FALSE
INVARIANTS
  StreamInOrder
  UnreadServed
  EchoServed
PROPERTIES
  DeferredCloseEnds
