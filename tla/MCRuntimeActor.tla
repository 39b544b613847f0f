--------------------------- MODULE MCRuntimeActor ---------------------------
(* RuntimeActor for TLC: symmetric apps and callers.                       *)
EXTENDS RuntimeActor, TLC

Symmetry == Permutations(Apps) \union Permutations(Clients)
=============================================================================
