---------------------------- MODULE EventQueueMC ----------------------------
(***************************************************************************)
(* Small instances of the queue for TLC: one web source pair that shares a *)
(* key, and tasks that need one of the pair, as in a pipeline run.         *)
(***************************************************************************)
EXTENDS EventQueueProps, TLC

CONSTANTS c1, c2, t1, t2, t3, t4, k1

\* t1 and t2 share a key of one slot; t3 needs t1.
MCKeyOf == (t1 :> k1) @@ (t2 :> k1) @@ (t3 :> NoKey)
MCLimit == k1 :> 1
MCDeps == (t1 :> {}) @@ (t2 :> {}) @@ (t3 :> {t1})
MCRank == (t1 :> 1) @@ (t2 :> 2) @@ (t3 :> 3)

\* t4 needs t3, and t3 needs t1.
ChainKeyOf == MCKeyOf @@ (t4 :> NoKey)
ChainDeps == MCDeps @@ (t4 :> {t3})
ChainRank == MCRank @@ (t4 :> 4)

OneAttempt == [t \in Tasks |-> 1]
TwoAttempts == [t \in Tasks |-> IF t = t1 THEN 2 ELSE 1]

Fallible == [t \in Tasks |->
    CASE t = t1 -> {"ok", "error"}
      [] t = t2 -> {"ok"}
      [] OTHER -> {"ok", "no_executor"}]
Blockable == [t \in Tasks |->
    CASE t = t1 -> {"ok", "error", "blocked"}
      [] t = t2 -> {"ok", "blocked"}
      [] OTHER -> {"ok"}]

CallerSymmetry == Permutations(Callers)
=============================================================================
