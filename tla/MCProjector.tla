---------------------------- MODULE MCProjector ----------------------------
(* A small projector for TLC.                                              *)
EXTENDS Projector
============================================================================
