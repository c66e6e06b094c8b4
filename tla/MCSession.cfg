SPECIFICATION Spec
CONSTANTS
  e1 = e1
  e2 = e2
  r1 = r1
  r2 = r2
  Endpoints = {e1, e2}
  Family <- OneFamily
  Requests = {}
  BypassRequests = {}
  ConnectAttempts = 2
  RecoveryAttempts = 2
  SizeMax = 2
  Policies = {"VPN_CRP_SEVERAL_ATTEMPTS", "VPN_CRP_FALL_INTO_RECOVERY"}
  MaxTasks = 3
  KillSwitch = {FALSE}
SYMMETRY EndpointSymmetry
INVARIANTS
  TypeOK
  ClientAgreement
  SessionDriven
  CallbackAssumptions
PROPERTIES
  LifecycleSpec
