SPECIFICATION Spec
CONSTANTS
  Self = "self"
  NoKey = "none"
  NULL = NULL
  Foreign <- MCForeign
INVARIANTS
  PointersLive
  NoDoubleFree
  OnlyKnownLeaks
PROPERTIES
  KeyStorePromise
CHECK_DEADLOCK FALSE
