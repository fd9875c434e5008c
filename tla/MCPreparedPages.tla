-------------------------- MODULE MCPreparedPages --------------------------
(* A small set of prepared pages and callers for TLC.                      *)
EXTENDS PreparedPages, TLC

Symmetric == Permutations(Page) \cup Permutations(Call)
=============================================================================
