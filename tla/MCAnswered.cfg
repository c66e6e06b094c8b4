SPECIFICATION TimerFairSpec
CONSTANTS
  e1 = e1
  e2 = e2
  r1 = r1
  r2 = r2
  Endpoints = {e1}
  Family <- OneFamily
  Requests = {r1}
  BypassRequests = {}
  ConnectAttempts = 1
  RecoveryAttempts = 1
  SizeMax = 1
  Policies = {"VPN_CRP_FALL_INTO_RECOVERY"}
  MaxTasks = 2
  KillSwitch = {FALSE, TRUE}
PROPERTY
  PostponedAnswered
