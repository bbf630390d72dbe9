SPECIFICATION Spec
CONSTANTS
  r1 = r1
  r2 = r2
  r3 = r3
  s1 = s1
  s2 = s2
  w1 = w1
  w2 = w2
  Records = {r1, r2, r3}
  SessionOf <- MCSessionOf
  WorkspaceOf <- MCWorkspaceOf
  Secrets = {s1, w2}
  NoScope = NoScope
  Chars <- MCChars
  Bytes <- MCBytes
  Size <- MCSize
  Envelope <- MCEnvelope
  Limits = {1}
  PluginLimit = 2
  StoreBudgets = {24}
  PluginBudgets = {18}
INVARIANTS
  SessionByDefault
CHECK_DEADLOCK FALSE
