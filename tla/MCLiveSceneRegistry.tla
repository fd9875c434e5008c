------------------------ MODULE MCLiveSceneRegistry ------------------------
(***************************************************************************)
(* Instances of LiveSceneRegistry for TLC.                                 *)
(***************************************************************************)
EXTENDS LiveSceneRegistry, TLC

CONSTANTS s1, s2, sub1, sub2, j1, j2, j3, j4, p1

\* one prepared page, of the first session
MCPreparedFor == [p \in PreparedId |-> s1]

Plain(s, defer) ==
  [session |-> s, submission |-> NoSubmission, expected |-> 0, defer |-> defer]

GuardedBy(s, sub, expected, defer) ==
  [session |-> s, submission |-> sub, expected |-> expected, defer |-> defer]

\* a voice session that retries and supersedes under its guard, next to a
\* legacy session that competes with it for the registry's capacity
VoiceInputs ==
  {GuardedBy(s1, sub1, n, d) : n \in 0..1, d \in BOOLEAN}
    \cup {GuardedBy(s1, sub2, n, TRUE) : n \in 0..1}
    \cup {Plain(s2, FALSE)}

\* a session next to requests outside any session, two jobs at once
SharedInputs == {Plain(s, FALSE) : s \in {s1, NoSession}}

\* one session that supersedes its own work, at once and deferred
LiveInputs == {Plain(s1, d) : d \in BOOLEAN}

\* the same, next to requests outside any session
MixedInputs == LiveInputs \cup {Plain(NoSession, FALSE)}

Symmetric == Permutations(FreshId)
=============================================================================
