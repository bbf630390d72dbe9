SPECIFICATION FairSpec
CONSTANTS
  r1 = r1
  r2 = r2
  t1 = t1
  t2 = t2
  t3 = t3
  s1 = s1
  s2 = s2
  n1 = n1
  n2 = n2
  n3 = n3
  Records = {r1}
  Threads = {t1, t2, t3}
  Stores = {s1, s2}
  StoreOf <- TwoProcesses
  TempNames = {n1, n2}
  Pinnable = {n1, n2}
  MaxFaults = 1
  Missing = {missing}
  Corrupt = {corrupt}
  None = None
PROPERTIES
  LockReleased
  CommittedGetsProjected
