SPECIFICATION FairSpec
CONSTANTS
  Threads = {t1, t2}
  None = None
  NKSYNC = 1
  NCPU = 2
  MaxValue = 1
  Requests <- AnyRequest
  FirstUsers = {t1}
INVARIANTS
  NoPanic
  MutualExclusion
  NoLostWakeup
PROPERTIES
  TableSpec
  KsyncLockReleased
CHECK_DEADLOCK FALSE
