SPECIFICATION FairSpec
CONSTANTS
  NM = 6
  NC = 6
  FreeSlots = 3
PROPERTIES
  AllCross
CHECK_DEADLOCK FALSE
