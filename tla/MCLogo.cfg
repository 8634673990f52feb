SPECIFICATION Spec
CONSTANTS
  Offsets <- MCOffsets
  Widths <- MCWidths
  Heights <- MCHeights
  MaxTables = 2
INVARIANTS
  RowsInPlace
  SameSkew
  ReadsNearFile
CHECK_DEADLOCK FALSE
