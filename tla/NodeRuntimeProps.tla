-------------------------- MODULE NodeRuntimeProps --------------------------
(***************************************************************************)
(* What the stages of a node promise to the pipeline.                      *)
(***************************************************************************)
EXTENDS NodeRuntime

\* classify: a node that has passed a stage, and one that has succeeded, has
\* the results of the whole group of every such stage, whatever callbacks come
\* late and whatever is retried, cancelled or skipped on the way
\* (collect_group_results).
WholeGroups ==
    \A k \in Kids :
        StageOf[k] < stage \/ StageOf[k] < at \/ parent = "succeeded"
            => kid[k] = "succeeded"

\* A run of the node takes the results of a stage and goes on.
GoesOn(s) == pc = "decide" /\ at = s /\ pc' \in {"register", "finish"}

\* The report node: the first group, the polish tasks, has ended when their
\* results are applied (_complete_polish_stage).
PolishEndsFirst ==
    [][GoesOn(1) => \A k \in Group(1) : kid[k] \notin Active]_vars

\* As long as a node waits for a stage, the results of its children are there
\* for it to take (collect_task_results, with consume).
ResultsKept ==
    parent \in {"queued", "blocked"} =>
        \A k \in Group(stage) : kid[k] = "succeeded" => k \in stored

GroupDone ==
    /\ stage > 0
    /\ \A k \in Group(stage) :
        IF Lenient THEN kid[k] \notin Active ELSE kid[k] = "succeeded"

\* While a node is blocked on a group that is done, the callback of one of the
\* group's children is on its way to wake it, though it reads the stage, looks
\* at the group and retries the node in three critical sections, and children
\* are retried and cancelled in between (_handle_child_group_completion).
WakeUpDue ==
    parent = "blocked" /\ GroupDone =>
        \E k \in Group(stage) : cb[k] \in {"read", "check", "retry"}

\* No lost wake-up: a node blocked on a group that is done runs again
\* (the callbacks of the children, and queue.retry of the node).
NodeResumes == parent = "blocked" /\ GroupDone ~> parent # "blocked"

\* A node ends, unless children of it stay failed, cancelled or blocked.
NodeEnds ==
    <>[](\A k \in Kids : kid[k] \notin Stopped) => <>(parent \in {"succeeded", "failed"})
=============================================================================
