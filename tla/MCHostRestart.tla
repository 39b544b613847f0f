--------------------------- MODULE MCHostRestart ---------------------------
(* HostRestart for TLC: symmetric apps and tasks.                          *)
EXTENDS HostRestart, TLC

Symmetry == Permutations(Apps) \union Permutations(Tasks)
=============================================================================
