SPECIFICATION FairSpec
CONSTANTS
  u1 = u1
  u2 = u2
  r = r
  e = e
  s1 = s1
  s2 = s2
  Users = {u1, u2}
  Assistants = {r}
  Blank = Blank
  Summaries = {}
  Events = {}
  Session = Session
  NoSession = NoSession
  Listed = {FALSE}
  MaxMessages = 4
  MaxCalls = 2
  MaxCrashes = 0
INVARIANTS
  TurnsKept
CHECK_DEADLOCK FALSE
