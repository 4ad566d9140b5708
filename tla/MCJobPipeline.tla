--------------------------- MODULE MCJobPipeline ---------------------------
(* The job pipeline for TLC. *)
EXTENDS JobPipeline
=============================================================================
