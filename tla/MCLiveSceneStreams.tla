------------------------ MODULE MCLiveSceneStreams ------------------------
(***************************************************************************)
(* Instances of LiveSceneStreams for TLC.                                  *)
(***************************************************************************)
EXTENDS LiveSceneStreams

CONSTANTS s1, j1, j2, p1, c1, w1

\* one prepared page, of the first session
MCPreparedFor == [p \in PreparedId |-> s1]

Plain(s, defer) ==
  [session |-> s, submission |-> NoSubmission, expected |-> 0, defer |-> defer]

\* a session that shows its scenes at once and deferred
LiveInputs == {Plain(s1, d) : d \in BOOLEAN}

\* a session whose scene requests outside any session may evict
CompetingInputs == {Plain(s, FALSE) : s \in {s1, NoSession}}
=============================================================================
