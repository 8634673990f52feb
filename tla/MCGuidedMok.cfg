SPECIFICATION MCSpec
CONSTANTS
  k1 = k1
  p1 = p1
  None = None
  Keys <- MCKeys
  Passwords <- MCPasswords
  Timeout = 1
  Platforms <- MCPlatforms
  MaxFaults = 3
INVARIANTS
  LoadedImageRestored
  KernelSeesList
PROPERTIES
  ImplementsPolicy
  OnlyOwnerBlocks
  BootsEveryTime
  AskedAtFirstOnly
