SPECIFICATION GuidedSpec
CONSTANTS
  Self = "self"
  NoKey = "none"
  Foreign <- MCForeign
  Machines <- MCMachines
  MaxFaults = 3
  MaxCrashes = 2
PROPERTIES
  ProcedureEnds
  StaysSecure
  RunEnds
