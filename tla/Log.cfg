SPECIFICATION FairSpec
CONSTANTS
  Procs = {p1, p2, p3}
  Blocks = {a, b}
  Values = {0, 1}
  Zero = 0
  MAXOPBLOCKS = 3
  LOGSIZE = 6
  NLog = 6
  OpBlocks = 2
INVARIANTS
  Consistent
  SpaceReserved
  Durability
PROPERTIES
  AtomicSpec
  SleepersWake
