SPECIFICATION FairSpec
CONSTANTS
  a = a  b = b  c = c
  Slot = {s1}
  Branch <- Branches
  Content <- Scenes
  MaxCandidates = 2
  MaxRenders = 1
  CacheEntries = 1
  MaxStarts = 2
INVARIANTS
  OneSelectionPending
  RecordTaskAndWaitersAgree
PROPERTIES
  EveryCandidateSettles
CHECK_DEADLOCK FALSE
