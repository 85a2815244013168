SPECIFICATION Spec
CONSTANTS
  Procs = {p1, p2}
  First = p1
  NOFILE = 2
  NFILE = 3
  Pages = {x1}
  PIPESIZE = 2
  UINT = 4
  Length <- OneOrTwo
  Text <- OneText
  Bytes = {0, 1}
  None = None
  Inode = Inode
  Dups = {p1}
  Victims = {p2}
INVARIANTS
  Consistent
  SleepersMustWait
PROPERTIES
  FifoSpec
CHECK_DEADLOCK FALSE
