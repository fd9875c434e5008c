-------------------------- MODULE MCVoiceWorkbench --------------------------
(* A small workbench for TLC: two descriptions of one scene, and a third of   *)
(* another, whose subject does nothing and which other clients submit too.   *)
EXTENDS VoiceWorkbench

CONSTANTS fox, vixen, moon, p1

\* Three descriptions of three scenes.
Distinct == [text \in Text |-> text]
Facts == [text \in Text |-> IF text = moon THEN moon ELSE fox]
============================================================================
