SPECIFICATION NetSpec
CONSTANTS
  t1 = t1
  d1 = d1
  d2 = d2
  s1 = s1
  u1 = u1
  e1 = e1
  NON = NON
  TcpConns = {t1}
  UdpDsts = {d1, d2}
  UseAuth = TRUE
  MaxInput = 3
  MaxPackets = 2
  TcpSocks = {s1}
  UdpSocks = {u1}
  MaxIds = 4
  MaxRead = 2
  Endpoints = {e1}
  Protocol = "AUTO"
  Relays = 1
  Rounds = 2
  MaxResolutions = 3
  RecordTypes = {"A", "AAAA"}
  Capacity = 2
  IdMod = 2
  MaxDnsRequests = 4
  MaxServerSets = 2
  DnsConns = {u1, u2}
  MaxUnanswered = 2
  MaxQueued = 1
  u2 = u2
CHECK_DEADLOCK FALSE
INVARIANTS
  SocksServed
  SocketsServed
  PingSettles
  ResolutionsDriven
  DnsProxyServed
  DnsConnectionsServed
