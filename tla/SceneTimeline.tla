--------------------------- MODULE SceneTimeline ---------------------------
(***************************************************************************)
(* What the registry promises to the browsers of a session: one scene at a *)
(* time, which is worked on, ends once, may be shown once it is finished,  *)
(* and is replaced only by a scene with a higher revision.  Work is never  *)
(* dropped without such a replacement; a finished scene may be forgotten.  *)
(***************************************************************************)
EXTENDS Integers

CONSTANT Session

Phase == {"empty", "working", "ready", "shown", "failed"}

Empty == [rev |-> 0, phase |-> "empty"]

VARIABLES
  scene, \* the scene each session is at
  last   \* highest revision handed out

vars == <<scene, last>>

TypeOK ==
  /\ scene \in [Session -> [rev : Nat, phase : Phase]]
  /\ last \in Nat

Init ==
  /\ scene = [s \in Session |-> Empty]
  /\ last = 0

(* A new scene replaces whatever the session was at; one that arrives      *)
(* finished (a prepared page) may not push out work in progress.           *)
Begin(s) ==
  /\ scene'[s].rev > last
  /\ scene'[s].rev <= last'
  /\ \/ scene'[s].phase = "working"
     \/ scene'[s].phase = "ready" /\ scene[s].phase # "working"

End(s) ==
  /\ scene[s].phase = "working"
  /\ scene'[s].phase \in {"ready", "failed"}
  /\ scene'[s].rev = scene[s].rev

Show(s) ==
  /\ scene[s].phase = "ready"
  /\ scene'[s] = [scene[s] EXCEPT !.phase = "shown"]

Forget(s) ==
  /\ scene[s].phase \in {"ready", "shown", "failed"}
  /\ scene'[s] = Empty

SessionStep(s) ==
  \/ Begin(s)
  \/ End(s)
  \/ Show(s)
  \/ Forget(s)
  \/ scene'[s] = scene[s]

(* Sessions move independently; making room for one may forget another.    *)
Next ==
  /\ last' \in Nat
  /\ last' >= last
  /\ scene' \in [Session -> [rev : Nat, phase : Phase]]
  /\ \A s \in Session : SessionStep(s)

Spec == Init /\ [][Next]_vars
=============================================================================
