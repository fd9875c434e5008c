SPECIFICATION StreamSpec
CONSTANTS
  s1 = s1   j1 = j1  j2 = j2  p1 = p1  c1 = c1  w1 = w1
  Session = {s1}
  NoSession = NoSession
  Submission = {}
  NoSubmission = NoSubmission
  FreshId = {j1, j2}
  PreparedId = {p1}
  PreparedFor <- MCPreparedFor
  NoJob = NoJob
  Inputs <- CompetingInputs
  MaxActive = 1
  MaxRetained = 1
  MaxClaims = 0
  JobClient = {}
  SessionClient = {w1}
  QueueSize = 2
  MaxPlanners = 1
  MaxAfter = 0
INVARIANTS
  WatchersFollowTheirSession
