SPECIFICATION Spec
CONSTANTS
  MAXCALLS = 6
  Procs = {1, 2}
  BSIZE = 2
  NDIRECT = 1
  NINDIRECT = 2
  IPB = 4
  BPB = 32
  FSSIZE = 24
  NINODES = 5
  LOGSIZE = 1
  MAXOPBLOCKS = 6
  NFILE = 2
  DIRENT = 1
  Image <- MCImage
  Calls <- MCCalls
  None = None
INVARIANTS
  FileIntact
  DiskConsistent
  LogFits
CHECK_DEADLOCK FALSE
