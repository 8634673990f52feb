SPECIFICATION FairSpec
CONSTANTS
  InitialNeed = 2
  MaxGrowth = 3
  MaxChanges = 3
  NULL = NULL
INVARIANTS
  FinalMapCurrent
  MapInsideBuffer
  OneBuffer
  GiveUpTakesTwoRaces
PROPERTIES
  NoBootServiceAfterExit
  Ends
CHECK_DEADLOCK FALSE
