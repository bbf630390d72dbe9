SPECIFICATION Spec
CONSTANTS
  Builds = {1}
  Version <- MCVersion
  Files <- MCFiles
  MaxCalls = 1
  MaxFaults = 1
INVARIANTS
  ProviderInstalled
CHECK_DEADLOCK FALSE
