SPECIFICATION FairSpec
CONSTANTS
  NPROC = 3
  None = None
  MaxPid = 4
  Ops = {"fork", "clone", "wait", "join", "kill", "exit", "thread_exit"}
  JoinFirst = {"thread_exit"}
INVARIANTS
  NoMissedZombie
  StackInUse
  ParentLive
PROPERTIES
  WaitsReturn
