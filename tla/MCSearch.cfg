SPECIFICATION FairSpec
CONSTANTS
  r1 = r1
  r2 = r2
  r3 = r3
  s1 = s1
  s2 = s2
  w1 = w1
  w2 = w2
  Records = {r1, r2, r3}
  SessionOf <- MCSessionOf
  WorkspaceOf <- MCWorkspaceOf
  Secrets = {s1, w2}
  NoScope = NoScope
  Chars <- MCChars
  Bytes <- MCBytes
  Size <- MCSize
  Envelope <- MCEnvelope
  Limits = {0, 1, 2, 3}
  PluginLimit = 2
  StoreBudgets = {0, 1, 6, 7, 8, 9, 10, 11, 13, 14, 15, 16, 17, 18, 19, 20, 21, 24}
  PluginBudgets = {8, 9, 10, 12, 14, 16, 18}
INVARIANTS
  FitsBudget
  Bisection
  LongestPrefix
  NoneLeftOut
  ScopeKept
  IInv
PROPERTIES
  Terminates
CHECK_DEADLOCK FALSE
