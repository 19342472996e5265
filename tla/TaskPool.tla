------------------------------ MODULE TaskPool ------------------------------
(***************************************************************************)
(* What the task queue promises to those who register tasks, without its   *)
(* threads, pools, retries and sweeps: tasks are started together only as  *)
(* far as their keys allow and after what they depend on; a task that      *)
(* passed stays passed; a task that never ran is stopped only behind a     *)
(* stopped dependency or because somebody cancels it.                      *)
(***************************************************************************)
EXTENDS Integers, FiniteSets

CONSTANTS
    Tasks, Keys, KeyOf, Limit, Deps, Initial,
    Renewed     \* tasks that may be registered again

VARIABLE phase    \* task -> "new", "open", "running", "passed" or "stopped"

Phases == {"new", "open", "running", "passed", "stopped"}

PoolTypeOK == phase \in [Tasks -> Phases]

Init == phase = [t \in Tasks |-> IF t \in Initial THEN "open" ELSE "new"]

Become(S, p) == phase' = [t \in Tasks |-> IF t \in S THEN p ELSE phase[t]]

Add(t) == phase[t] = "new" /\ Become({t}, "open")

RunningOf(k, S) == {t \in Tasks : KeyOf[t] = k /\ (phase[t] = "running" \/ t \in S)}

\* The tasks of S start together.
Start(S) ==
    /\ \A t \in S : phase[t] = "open" /\ \A x \in Deps[t] : phase[x] = "passed"
    /\ \A k \in Keys : Cardinality(RunningOf(k, S)) <= Limit[k]
    /\ Become(S, "running")

\* A running task passes, stops, or is tried again.
End(t) ==
    /\ phase[t] = "running"
    /\ \E p \in {"passed", "stopped", "open"} : Become({t}, p)

\* Open tasks whose dependencies cannot pass any more stop together.
StopBehind(S) ==
    /\ \A t \in S : phase[t] = "open" /\ \E x \in Deps[t] : phase[x] = "stopped" \/ x \in S
    /\ Become(S, "stopped")

Cancel(t) == phase[t] = "open" /\ Become({t}, "stopped")

Reopen(t) == phase[t] = "stopped" /\ Become({t}, "open")

\* Somebody decides to go on without t; stopped tasks may be tried again.
PassOver(t, R) ==
    /\ phase[t] \in {"open", "stopped"}
    /\ \A u \in R : phase[u] = "stopped"
    /\ phase' = [u \in Tasks |-> IF u = t THEN "passed"
                                 ELSE IF u \in R THEN "open" ELSE phase[u]]

\* A task registered again is open anew; what works on the old registration
\* does not start it, but may settle or reopen it.
Renew(t) ==
    /\ t \in Renewed
    /\ phase[t] # "new"
    /\ \E p \in {"passed", "stopped", "open"} : Become({t}, p)

Next ==
    \/ \E t \in Tasks : Add(t) \/ End(t) \/ Cancel(t) \/ Reopen(t) \/ Renew(t)
    \/ \E S \in SUBSET Tasks : Start(S) \/ StopBehind(S)
    \/ \E t \in Tasks, R \in SUBSET Tasks : PassOver(t, R)

Spec == Init /\ [][Next]_phase
=============================================================================
