------------------------------ MODULE ClassifyMC ------------------------------
(***************************************************************************)
(* What classify works on and how, for TLC: what is ingested from the      *)
(* sources, the extractors that fetch it and their repairs, and the node   *)
(* that classifies it in batches, each on a small instance of its own.     *)
(* They share no state, so a behaviour is one of any one of them: the      *)
(* others stay in one of their initial states, and the states of the       *)
(* components add up instead of multiplying.                               *)
(***************************************************************************)
EXTENDS NodeRuntimeMC, SourceIngest, ExtractorRepairProps

VARIABLE part

allVars == <<part, vars, sourceVars, repairVars>>

CacheFiles == ("n1" :> "broken") @@ ("n2" :> "rows")

\* Where promotions have crossed, the properties of the repair promise nothing:
\* TLC goes no further.
Uncrossed == ~crossed

PartsInit ==
    /\ part \in {"sources", "repair", "node"}
    /\ SourceInit /\ RepairInit /\ Init
    /\ part = "sources" \/ (file = "whole" /\ config.listing = KnownSites)
    /\ part = "repair" \/ live = "old"

PartsNext ==
    \/ part = "sources" /\ SourceNext /\ UNCHANGED <<part, vars, repairVars>>
    \/ part = "repair" /\ RepairNext /\ UNCHANGED <<part, vars, sourceVars>>
    \/ part = "node" /\ Next /\ UNCHANGED <<part, sourceVars, repairVars>>

PartsSpec == PartsInit /\ [][PartsNext]_allVars
=============================================================================
