SPECIFICATION Spec
CONSTANTS
  Self = "self"
  NoKey = "none"
  Foreign <- MCForeign
  Machines <- MCMachines
  MaxFaults = 2
  MaxCrashes = 2
INVARIANTS
  ActivateIsSafe
  OwnKeyNeverRejects
  HandlesOpenWhenUsed
  NoSilentWait
PROPERTIES
  EnrollOnlyInSetupMode
  ForeignCertsKept
  KeyStorePromise
