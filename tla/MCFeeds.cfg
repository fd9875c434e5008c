SPECIFICATION FairStreamSpec
CONSTANTS
  s1 = s1   j1 = j1  j2 = j2  p1 = p1  c1 = c1  w1 = w1
  Session = {s1}
  NoSession = NoSession
  Submission = {}
  NoSubmission = NoSubmission
  FreshId = {j1, j2}
  PreparedId = {}
  PreparedFor <- MCPreparedFor
  NoJob = NoJob
  Inputs <- LiveInputs
  MaxActive = 1
  MaxRetained = 1
  MaxClaims = 0
  JobClient = {c1}
  SessionClient = {}
  QueueSize = 1
  MaxPlanners = 0
  MaxAfter = 1
INVARIANTS
  FeedsFollowTheirJob
PROPERTIES
  FollowersLearnTheEnd
  EveryJobEnds
  CloseReturns
