SPECIFICATION FairSpec
CONSTANTS
  Openers = {o1, o2, o3}
  OldRows = {0, 2}
  MaxOpens = 5
  MaxRows = 3
INVARIANTS
  IInv
  WritesSchemaAlone
  OpenMeansComplete
  RowsTracked
PROPERTIES
  OpenReturns
CHECK_DEADLOCK FALSE
