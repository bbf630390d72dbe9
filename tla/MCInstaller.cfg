SPECIFICATION Spec
CONSTANTS
  Builds = {1, 2, 3, 4}
  Version <- MCVersion
  Files <- MCFiles
  MaxCalls = 3
  MaxFaults = 3
INVARIANTS
  IInv
  AllOrNothing
  SuccessMeansInstalled
  NothingLost
CHECK_DEADLOCK FALSE
