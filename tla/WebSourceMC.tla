---------------------------- MODULE WebSourceMC ----------------------------
(***************************************************************************)
(* A web source for TLC.                                                   *)
(***************************************************************************)
EXTENDS WebSourceProps

CONSTANTS s1
=============================================================================
