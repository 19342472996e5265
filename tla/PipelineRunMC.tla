--------------------------- MODULE PipelineRunMC ---------------------------
(***************************************************************************)
(* A run with two or three ingest tasks for TLC.                           *)
(***************************************************************************)
EXTENDS PipelineRunProps
=============================================================================
