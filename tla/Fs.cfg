SPECIFICATION Spec
CONSTANTS
  p1 = p1
  p2 = p2
  Procs = {p1, p2}
  NINODES = 3
  a = a
  b = b
  Names = {a, b}
  Calls <- MCCalls
  None = None
INVARIANTS
  Consistent
  Tree
CHECK_DEADLOCK FALSE
