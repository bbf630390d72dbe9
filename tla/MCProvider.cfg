SPECIFICATION FairSpec
CONSTANTS
  u1 = u1
  u2 = u2
  r = r
  e = e
  Users = {u1}
  Assistants = {r}
  Blank = Blank
  s1 = s1
  s2 = s2
  Summaries = {s1}
  Events = {e}
  Session = Session
  NoSession = NoSession
  Listed = {TRUE}
  MaxMessages = 4
  MaxCalls = 4
  MaxCrashes = 2
INVARIANTS
  IInv
  CheckpointBacked
  ContextMeansDurable
  TurnsKept
  RetriesAddNothing
PROPERTIES
  CallsReturn
CHECK_DEADLOCK FALSE
