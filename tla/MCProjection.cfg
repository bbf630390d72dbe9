SPECIFICATION Spec
CONSTANTS
  r1 = r1
  r2 = r2
  t1 = t1
  t2 = t2
  t3 = t3
  s1 = s1
  s2 = s2
  n1 = n1
  n2 = n2
  n3 = n3
  Records = {r1, r2}
  Threads = {t1, t2, t3}
  Stores = {s1, s2}
  StoreOf <- TwoProcesses
  TempNames = {n1, n2, n3}
  Pinnable = {n1}
  MaxFaults = 2
  Missing = {missing}
  Corrupt = {corrupt}
  None = None
INVARIANTS
  IInv
  CurrentMeansComplete
  AckedProjected
  LiveTempSafe
  OrphansBounded
PROPERTIES
  ImplementsEventLog
  NeverRegresses
SYMMETRY Alike
