SPECIFICATION Spec
CONSTANTS
  Procs = {p1, p2}
  NBUF = 2
  Blocks = {k1, k2, k3, k4}
  Written = {k1}
  Values = {0, 1}
  Pinned = 1
  Bad = {k2}
  Uses <- MCUses
  None = None
  p1 = p1
  p2 = p2
  k1 = k1
  k2 = k2
  k3 = k3
  k4 = k4
INVARIANTS
  Consistent
  BreadRight
  SleepersMustWait
PROPERTIES
  StoreSpec
  IoDone
CHECK_DEADLOCK FALSE
