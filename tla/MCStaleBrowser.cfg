SPECIFICATION Spec
CONSTANTS
  s1 = s1  s2 = s2  sub1 = sub1  sub2 = sub2
  j1 = j1  j2 = j2  j3 = j3  j4 = j4  p1 = p1
  Session = {s1, s2}
  NoSession = NoSession
  Submission = {sub1, sub2}
  NoSubmission = NoSubmission
  FreshId = {j1, j2, j3}
  PreparedId = {p1}
  PreparedFor <- MCPreparedFor
  NoJob = NoJob
  Inputs <- VoiceInputs
  MaxActive = 1
  MaxRetained = 2
  MaxClaims = 2
SYMMETRY Symmetric
PROPERTIES
  NoWriteThroughNewerRevision
