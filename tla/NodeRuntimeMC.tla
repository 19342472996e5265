--------------------------- MODULE NodeRuntimeMC ---------------------------
(***************************************************************************)
(* Small nodes of two stages for TLC.                                      *)
(***************************************************************************)
EXTENDS NodeRuntimeProps, TLC

CONSTANTS k1, k2, k3, k4

\* One task per stage.
Chain == (k1 :> 1) @@ (k2 :> 2)

\* Two tasks, then one; three tasks, then one.
Fork == (k1 :> 1) @@ (k2 :> 1) @@ (k3 :> 2)
Wide == (k1 :> 1) @@ (k2 :> 1) @@ (k4 :> 1) @@ (k3 :> 2)

\* Nothing to do in the first stage.
NoFirst == k2 :> 2

FirstTwo == Permutations({k1, k2})
FirstThree == Permutations({k1, k2, k4})
=============================================================================
