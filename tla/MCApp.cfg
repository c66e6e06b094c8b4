SPECIFICATION WindowsSpec
CONSTANTS
  MaxPending = 1
  MaxSessions = 2
  MaxMessages = 2
  Tunnels = {t1, t2}
  TokenMod = 4
  Interfaces = {0, 1}
  BatchSize = 2
  MaxPackets = 5
  MaxConnects = 2
  MaxRequests = 2
  GuardObjects <- OldObjects
  Owners = {"console", "service", "easy"}
CHECK_DEADLOCK FALSE
INVARIANTS
  PipeServed
  UnboundNeverCaptured
  PumpDriven
  CleanupNeverRestricts
  TaskVpnAlive
