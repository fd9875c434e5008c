--------------------------- MODULE MCSceneRouter ---------------------------
(* Small instances of the scene router for TLC. *)
EXTENDS SceneRouter, TLC

CONSTANTS c1, c2, s1, s2, d1, d2, d3

\* One call has a directory of its own, the other may be given that one too.
Dests == (c1 :> {d1}) @@ (c2 :> {d1, d2})
============================================================================
