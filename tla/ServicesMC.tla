----------------------------- MODULE ServicesMC -----------------------------
(***************************************************************************)
(* What the queue keeps and what is shown of it for TLC: its store, the    *)
(* views of a run and the stream of events, each on a small instance of    *)
(* its own.  They share no state: a behaviour is one of any one of them,   *)
(* as in ClassifyMC.                                                       *)
(***************************************************************************)
EXTENDS QueueStore, RunView, ProgressBus, TLC

VARIABLE part

allVars == <<part, storeVars, viewVars, busVars>>

\* Two tasks of a group.
OneMayDepend == [t \in StoreTasks |-> IF t = "q2" THEN {{}, {"q1"}} ELSE {{}}]

\* A step of a stage and one, of a repair, of none.
TwoSteps == ("v1" :> "s1") @@ ("v2" :> "s2")
OneStage == "s1" :> "p1"

-----------------------------------------------------------------------------
Init ==
    /\ part \in {"store", "view", "bus"}
    /\ StoreInit /\ ViewInit /\ BusInit

Next ==
    \/ part = "store" /\ StoreNext /\ UNCHANGED <<part, viewVars, busVars>>
    \/ part = "view" /\ ViewNext /\ UNCHANGED <<part, storeVars, busVars>>
    \/ part = "bus" /\ BusNext /\ UNCHANGED <<part, storeVars, viewVars>>

Spec == Init /\ [][Next]_allVars
=============================================================================
