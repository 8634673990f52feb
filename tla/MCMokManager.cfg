SPECIFICATION HistorySpec
CONSTANTS
  k1 = k1
  k2 = k2
  p1 = p1
  p2 = p2
  None = None
  Keys <- MCKeys
  Passwords <- MCPasswords
  Timeout = 2
SYMMETRY MCSymmetry
INVARIANTS
  NoRequestLeft
  OnlyKnownBadFrees
  ListFollowsOwner
