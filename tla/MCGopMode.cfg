SPECIFICATION Spec
CONSTANTS
  Widths <- MCWidths
  SCREEN_WIDTH = 1024
  MaxModes = 4
INVARIANTS
  ChosenIsFirstWidest
  PreferredWidthTaken
  RefusedOnlyWithoutMode
CHECK_DEADLOCK FALSE
