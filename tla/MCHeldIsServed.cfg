SPECIFICATION UpstreamsSpec
CONSTANTS
  c1 = c1
  c2 = c2
  c3 = c3
  NON = NON
  MuxConns = {c1, c2, c3}
  PoolSize = 2
  Threshold = 1
  MaxUpstreams = 3
  UdpConns = {c1, c2, c3}
  AddrOf <- Addresses
  UNONE = UNONE
  Prefix = 2
  MaxPayload = 2
  H2Conns = {c1, c2}
  MaxRoom = 1
  MaxUnread = 2
  H3Conns = {c1, c2}
  H3Room = 1
  H3Window = 1
  MemThreshold = 2
  MaxFileSize = 4
  MaxPush = 3
  MaxBytes = 9
  Tags <- WebAndMail
  NamesAt <- HostNames
  Labels = {"a", "com", "s", "www"}
  ScannablePorts = {443}
  Entries <- ListEntries
  MaxEntries = 2
  NoName = NoName
CHECK_DEADLOCK FALSE
INVARIANT
  HeldIsServed
