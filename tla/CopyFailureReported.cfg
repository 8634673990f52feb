SPECIFICATION Spec
CONSTANTS
  Self = "self"
  NoKey = "none"
  NULL = NULL
  Foreign <- MCForeign
INVARIANT
  CopyFailureReported
CHECK_DEADLOCK FALSE
