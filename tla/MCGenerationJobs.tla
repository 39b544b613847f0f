-------------------------- MODULE MCGenerationJobs --------------------------
(* GenerationJobs for TLC.                                                 *)
EXTENDS GenerationJobs

=============================================================================
