---------------------------- MODULE NewsEventsMC ----------------------------
(***************************************************************************)
(* The news of a run alone, for TLC.                                       *)
(***************************************************************************)
EXTENDS NewsEvents

Spec == NewsInit /\ [][NewsNext]_newsVars
=============================================================================
