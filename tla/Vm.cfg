SPECIFICATION Spec
CONSTANTS
  NPROC = 3
  NPAGES = 12
  PGSIZE = 2
  NPTE = 2
  NUPDE = 2
  NKPDE = 1
  Sbrks <- MCSbrks
  Images <- MCImages
  Args = {1, 3}
  Does <- MCDoes
INVARIANTS
  PagesAccounted
  SizeMapped
  FailedCallsUndo
