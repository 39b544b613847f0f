------------------------- MODULE MCMetricSingleflight -------------------------
(* Constants of the runs on MetricSingleflight. *)
EXTENDS MetricSingleflight, TLC
Perms == Permutations(Callers) \cup Permutations(Slots)
=============================================================================
