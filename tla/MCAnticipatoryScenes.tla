------------------------ MODULE MCAnticipatoryScenes ------------------------
(***************************************************************************)
(* A small sequence for TLC: three branches of which two ask for the same  *)
(* scene, so that a cached result takes a place without a render.          *)
(***************************************************************************)
EXTENDS AnticipatoryScenes

CONSTANTS a, b, c
Branches == {a, b, c}
Scenes == [branch \in Branches |-> IF branch = b THEN b ELSE a]
=============================================================================
