SPECIFICATION Spec
CONSTANTS
  r1 = r1
  r2 = r2
  r3 = r3
  s1 = s1
  s2 = s2
  w1 = w1
  w2 = w2
  Records = {r1, r2, r3}
  Exporters = {e1, e2, e3}
  Sessions = {s1, s2}
  WorkspaceOf <- MCWorkspaceOf
  SessionOf <- MCSessionOf
  NoNote = {none}
  Everything = Everything
  MaxExports = 3
  MaxFaults = 2
INVARIANTS
  IInv
  LinksExist
  ExportedKept
PROPERTIES
  NotesNeverRegress
CHECK_DEADLOCK FALSE
