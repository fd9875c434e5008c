SPECIFICATION FairSpec
CONSTANTS
  s1 = s1  s2 = s2  sub1 = sub1  sub2 = sub2
  j1 = j1  j2 = j2  j3 = j3  j4 = j4  p1 = p1
  Session = {s1}
  NoSession = NoSession
  Submission = {}
  NoSubmission = NoSubmission
  FreshId = {j1, j2}
  PreparedId = {}
  PreparedFor <- MCPreparedFor
  NoJob = NoJob
  Inputs <- MixedInputs
  MaxActive = 2
  MaxRetained = 2
  MaxClaims = 2
INVARIANTS
  TaskOwnsOpenJob
PROPERTIES
  EveryJobEnds
  CloseReturns
