SPECIFICATION Spec
CONSTANTS
  k1 = k1
  a = a
  b = b
  e = e
  Keys = {k1}
  Prints = {a, b}
  Foreign = {e}
  Batches <- MCBatches
  NoKey = NoKey
  MaxItems = 3
  MaxCount = 4
INVARIANTS
  IInv
  RepetitionsDistinct
  SnapshotsKept
PROPERTIES
  AddsOnlyTheTail
