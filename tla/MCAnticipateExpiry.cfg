SPECIFICATION ScenesSpec
CONSTANTS
  a = a  b = b  c = c
  Slot = {s1}
  Branch <- Branches
  Content <- Scenes
  MaxCandidates = 2
  MaxRenders = 1
  CacheEntries = 1
  MaxStarts = 1
PROPERTIES
  ExpiredNeverCommitted
CHECK_DEADLOCK FALSE
