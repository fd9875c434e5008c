SPECIFICATION ScenesSpec
CONSTANTS
  a = a  b = b  c = c
  Slot = {s1}
  Branch <- Branches
  Content <- Scenes
  MaxCandidates = 2
  MaxRenders = 1
  CacheEntries = 1
  MaxStarts = 3
INVARIANTS
  TasksStayNamed
CHECK_DEADLOCK FALSE
