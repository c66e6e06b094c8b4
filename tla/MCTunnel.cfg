SPECIFICATION Spec
CONSTANTS
  c1 = c1
  NON = NON
  Cids = {c1}
  MaxSid = 3
  MaxPkt = 3
  MaxLookupAttempts = 1
  Mode = "general"
  EarlyAck = FALSE
  DnsProxy = TRUE
CHECK_DEADLOCK FALSE
INVARIANTS
  TablesAgree
  OpenOnBothSides
  BytesInOrder
PROPERTIES
  RequestAnswered
