SPECIFICATION FairSpec
CONSTANTS
  NM = 3
  NC = 3
  FreeSlots = 3
  None = None
INVARIANTS
  RowLegal
  PromptBoat
  PassIsTrue
PROPERTIES
  FerrySpec
  EveryBoatCrosses
CHECK_DEADLOCK FALSE
