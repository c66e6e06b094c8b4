SPECIFICATION FairSpec
CONSTANTS
  t1 = t1
  t2 = t2
  Threads = {t1, t2}
  MaxId = 6
  Budget = 2
  LoopMayFail = TRUE
CHECK_DEADLOCK FALSE
INVARIANTS
  TasksServed
  ManagerExclusive
PROPERTIES
  CallsServed
