SPECIFICATION ShimPathSpec
CONSTANTS
  GRUBX64 <- MCGrub
  BOOTX64 <- MCBoot
  Chars <- MCChars
  Separator <- MCSeparator
  MaxLength = 7
  SECOND_STAGE <- MCStage
INVARIANTS
  ShimPathTypeOK
  RouteByName
  NameNotMissed
  SecondStageBeside
  SecondStageByShimsName
CHECK_DEADLOCK FALSE
