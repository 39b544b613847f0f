-------------------------- MODULE MCRuntimeControl --------------------------
(* RuntimeControl for TLC: symmetric apps and tasks.                       *)
EXTENDS RuntimeControl, TLC

Symmetry == Permutations(Apps) \union Permutations(Tasks)
=============================================================================
