---------------------------- MODULE MCPaidScene ----------------------------
(* Small instances of the paid providers for TLC. *)
EXTENDS PaidScene, TLC

CONSTANTS c1, c2, c3, c4, s1, s2

Symmetric == Permutations(Call) \cup Permutations(Scene)
============================================================================
