-------------------------- MODULE MCStoryPackStore --------------------------
(* A small store for TLC: the API and the installer, two packs for the same *)
(* request and a compiled story that answers none.                         *)
EXTENDS StoryPackStore, TLC

CONSTANTS first, second, story, request

Packs == {first, second, story}
Answers == [p \in Packs |-> IF p = story THEN NoRequest ELSE request]
Symmetry == Permutations(Process) \cup Permutations(Call)
=============================================================================
