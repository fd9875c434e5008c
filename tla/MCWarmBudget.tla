---------------------------- MODULE MCWarmBudget ----------------------------
(* Small instances of the warm Modal session and its ledger for TLC. *)
EXTENDS WarmBudget

CONSTANTS j1, j2, u1, u2, p1, x1
=============================================================================
