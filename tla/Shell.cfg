SPECIFICATION Spec
CONSTANTS
  MAXLINES = 2
  NPROC = 5
  NOFILE = 6
  MAXARGS = 3
  Lines <- MCLines
  Exists <- MCExists
  Readers <- MCReaders
  Inputs <- MCInputs
INVARIANTS
  ParseRight
  Wired
  Sequential
PROPERTY
  PromptsAgain
CHECK_DEADLOCK FALSE
