SPECIFICATION Spec
CONSTANTS
  Threads = {t1, t2}
  None = None
  NKSYNC = 1
  NCPU = 2
  MaxValue = 1
  Requests <- SmallRequests
  FirstUsers = {t1, t2}
INVARIANTS
  NoPanic
CHECK_DEADLOCK FALSE
