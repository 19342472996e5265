----------------------------- MODULE QueueStore -----------------------------
(***************************************************************************)
(* What the queue of modnews/core/event_queue.py keeps about its tasks     *)
(* beside their scheduling, which EventQueue models: the results and the   *)
(* transient results, the indexes by group and by dependency, the image    *)
(* modnews/repository/queue_state.py holds of it, the readers that         *)
(* describe a task to the CLI and the web UI, and the restart that builds  *)
(* a queue from the image.  Every action is what the code does under the   *)
(* queue's lock, or one dispatch.                                          *)
(***************************************************************************)
EXTENDS Integers, FiniteSets

CONSTANTS
    StoreTasks,     \* task ids
    StoreGroups,    \* task_group_ids
    StoreKeyed,     \* tasks with the concurrency key, all of them with
    StoreLimit,     \*   this max_concurrency
    Unrecoverable,  \* tasks with recovery_policy "fail_running"
    Uncheckpointed, \* tasks with checkpoint_policy "none" (batch tasks)
    StoreRenewed,   \* tasks that may be registered again while they run
    StoreDeps,      \* the depends_on a task may be registered with
    StoreRestarts   \* restarts (bound of the model)

ASSUME StoreAssumption ==
    /\ IsFiniteSet(StoreTasks)
    /\ "" \notin StoreGroups             \* a task without a group is in no index
    /\ StoreKeyed \cup Unrecoverable \cup Uncheckpointed \cup StoreRenewed \subseteq StoreTasks
    /\ StoreLimit \in Nat \ {0}
    /\ StoreDeps \in [StoreTasks -> SUBSET SUBSET StoreTasks]
    /\ StoreRestarts \in Nat

VARIABLES
    task,       \* _tasks: id -> TaskEvent
    result,     \* _results: id -> the keys of its result, {} when it has none
    transient,  \* _transient_results: ids with a batch_result kept in memory
    groupIndex, \* _group_index
    depIndex,   \* _dependency_index
    image,      \* the cached queue state: id -> task and result
    telling,    \* tasks whose end has been recorded and not yet dispatched
    restarts,   \* restarts so far
    replaced,   \* id -> the TaskEvent of a run whose id was registered again
    extra,      \* tasks with one run more than their state says
    foreign     \* tasks whose row or result a replaced run has written last

runVars == <<replaced, extra>>
storeVars == <<task, result, transient, groupIndex, depIndex, image, telling, restarts, runVars,
               foreign>>

Passed == {"succeeded", "skipped"}
Dead == {"failed", "cancelled", "blocked"}
Unstarted == {"queued", "waiting"}
ResultKeys == {"value", "batch_result", "error", "waiting_reason",
               "blocked_details", "dependency_details", "skip_reason",
               "cancel_reason", "restored_from", "patch"}
NoTask == [state |-> "absent", group |-> "", deps |-> {}, later |-> FALSE]
TaskEvents ==
    [state : {"running"} \cup Unstarted \cup Passed \cup Dead,
     group : StoreGroups, deps : SUBSET StoreTasks, later : BOOLEAN]

StoreKnown == {t \in StoreTasks : task[t] # NoTask}

StoreInit ==
    /\ task = [t \in StoreTasks |-> NoTask]
    /\ result = [t \in StoreTasks |-> {}]
    /\ transient = {}
    /\ groupIndex = [g \in StoreGroups |-> {}]
    /\ depIndex = [t \in StoreTasks |-> {}]
    /\ image = [t \in StoreTasks |-> [task |-> NoTask, result |-> {}]]
    /\ telling = {}
    /\ restarts = 0
    /\ replaced = [t \in StoreTasks |-> NoTask]
    /\ extra = {}
    /\ foreign = {}

-----------------------------------------------------------------------------
(* Why a task does not run, as the queue and its readers see it             *)

DeadDependency(t) == \E d \in task[t].deps : task[d].state \in Dead \cup {"absent"}

\* dependency_blocked_details and waiting_details: the first that applies.
UnfinishedDependency(t) ==
    \E d \in task[t].deps : task[d].state \in Unstarted \cup {"running"}

SlotsTaken(t) ==
    /\ t \in StoreKeyed
    /\ Cardinality({u \in StoreKeyed \ {t} : task[u].state = "running"}) >= StoreLimit

WaitingKind(t) ==
    IF task[t].later THEN "retry_window"
    ELSE IF UnfinishedDependency(t) THEN "dependency"
    ELSE IF SlotsTaken(t) THEN "concurrency" ELSE "none"

IsReady(t) ==
    task[t].state \in Unstarted /\ ~DeadDependency(t) /\ WaitingKind(t) = "none"

\* The same for many tasks at once: the running tasks of the key are counted
\* once, and the task itself is taken out when it runs.
InspectedSlotsTaken(t) ==
    LET running == Cardinality({u \in StoreKeyed : task[u].state = "running"})
    IN  /\ t \in StoreKeyed
        /\ running - (IF task[t].state = "running" THEN 1 ELSE 0) >= StoreLimit

InspectedWaiting(t) ==
    IF task[t].later THEN "retry_window"
    ELSE IF UnfinishedDependency(t) THEN "dependency"
    ELSE IF InspectedSlotsTaken(t) THEN "concurrency" ELSE "none"

\* The "ready" of the task views; a dead dependency does not count here.
InspectedReady(t) == InspectedWaiting(t) = "none" /\ task[t].state \in Unstarted

\* blocked_groups: by the details in the result, or else by the dependencies.
BlockedGroup(kind) ==
    {t \in StoreKnown :
        IF result[t] \cap {"blocked_details", "dependency_details"} # {}
        THEN kind = (IF "dependency_details" \in result[t] THEN "dependency" ELSE "business")
        ELSE task[t].state = "blocked" /\ DeadDependency(t) /\ kind = "dependency"}

\* group_summary: the members come from the index.
Members(g) == {t \in groupIndex[g] : task[t] # NoTask}
ActiveOf(g) == {t \in Members(g) : task[t].state \in Unstarted \cup {"running"}}

-----------------------------------------------------------------------------
(* Recording                                                                *)

\* The image gets the tasks of S as they are after the step.  What a replaced
\* run has left behind is gone then, unless the task is blocked all the while.
Persist(S) ==
    /\ image' = [t \in StoreTasks |->
                    IF t \in S THEN [task |-> task'[t], result |-> result'[t]] ELSE image[t]]
    /\ foreign' = {t \in foreign :
                      t \in S => task[t].state = "blocked" /\ task'[t].state = "blocked"}

Set(t, state, keys) ==
    /\ task' = [task EXCEPT ![t].state = state, ![t].later = FALSE]
    /\ result' = [result EXCEPT ![t] = keys]

\* Faulty: the task is not taken out of the groups it was in.
IndexedAgain(index, t, new) == [k \in DOMAIN index |-> index[k] \cup (IF k \in new THEN {t} ELSE {})]

\* _unindex_task and _index_task.
Reindexed(index, t, new) ==
    [k \in DOMAIN index |-> IF k \in new THEN index[k] \cup {t} ELSE index[k] \ {t}]

\* register: an id that is known already gets the new TaskEvent, and keeps the
\* result of the old one.  When the old one is at work, its run goes on, with the
\* old TaskEvent or, if its worker has not fetched it yet, with the new one.
\* Bound: one such run of an id at a time.
StoreRegister(t, g, deps) ==
    /\ \/ task[t].state # "running" /\ UNCHANGED runVars
       \/ /\ task[t].state = "running" /\ t \in StoreRenewed
          /\ replaced[t] = NoTask /\ t \notin extra
          /\ \/ replaced' = [replaced EXCEPT ![t] = task[t]] /\ UNCHANGED extra
             \/ extra' = extra \cup {t} /\ UNCHANGED replaced
    /\ task' = [task EXCEPT ![t] = [state |-> "queued", group |-> g, deps |-> deps, later |-> FALSE]]
    /\ groupIndex' = Reindexed(groupIndex, t, {g})
    /\ depIndex' = Reindexed(depIndex, t, deps)
    /\ UNCHANGED <<result, transient, telling, restarts>>
    /\ Persist({t})

\* A claim, or run(): the task is marked running and keeps its result.
StoreStart(t) ==
    /\ IsReady(t)
    /\ task' = [task EXCEPT ![t].state = "running", ![t].later = FALSE]
    /\ UNCHANGED <<result, transient, groupIndex, depIndex, telling, restarts, runVars>>
    /\ Persist({t})

End(state, later, keys) == [state |-> state, later |-> later, keys |-> keys]

\* How a run may end: mark_task_succeeded, mark_task_blocked by the task itself,
\* mark_task_failed, mark_task_retry_scheduled with or without a delay.  The
\* batch_result of a task without a checkpoint is kept in memory only.
Ends(t) ==
    {End("succeeded", FALSE, {"value"}), End("blocked", FALSE, {"blocked_details"}),
     End("failed", FALSE, {"error"})}
      \cup {End("succeeded", FALSE, {"value", "batch_result"}) : x \in {t} \ Uncheckpointed}
      \cup {End("queued", later, {"error"}) : later \in BOOLEAN}

\* What every end records by id, whatever TaskEvent its run holds.
RecordEnd(t, end) ==
    /\ result' = [result EXCEPT ![t] = end.keys]
    /\ IF end.state # "succeeded" THEN UNCHANGED transient
       ELSE \/ transient' = transient \ {t}
            \/ t \in Uncheckpointed /\ transient' = transient \cup {t}
    /\ telling' = telling \cup {t}
    /\ UNCHANGED <<groupIndex, depIndex, restarts>>

\* A run of the task ends.
StoreEnd(t) ==
    \E end \in Ends(t) :
        /\ task[t].state = "running" \/ t \in extra
        /\ task' = [task EXCEPT ![t].state = end.state, ![t].later = end.later]
        /\ RecordEnd(t, end)
        /\ extra' = IF task[t].state = "running" THEN extra ELSE extra \ {t}
        /\ UNCHANGED replaced
        /\ Persist({t})

\* A replaced run ends: the row of the image becomes that of its own TaskEvent.
StoreReplacedEnds(t) ==
    \E end \in Ends(t) :
        /\ replaced[t] # NoTask
        /\ replaced' = [replaced EXCEPT ![t] = NoTask]
        /\ RecordEnd(t, end)
        /\ image' = [image EXCEPT ![t] =
                        [task |-> [replaced[t] EXCEPT !.state = end.state, !.later = end.later],
                         result |-> end.keys]]
        /\ foreign' = foreign \cup {t}
        /\ UNCHANGED <<task, extra>>

\* Faulty: the patches of the handlers are not persisted.
StoreDispatchOnly(t) ==
    /\ t \in telling
    /\ telling' = telling \ {t}
    /\ result' = [result EXCEPT ![t] = @ \cup {"patch"}]
    /\ UNCHANGED <<task, transient, groupIndex, depIndex, image, restarts, runVars, foreign>>

\* _dispatch: the patches the handlers return are added to whatever the task's
\* result is by then, and the task that has the id by then is persisted.
StoreDispatch(t) ==
    /\ t \in telling
    /\ telling' = telling \ {t}
    /\ UNCHANGED <<task, transient, groupIndex, depIndex, restarts, runVars>>
    /\ \/ UNCHANGED <<result, image, foreign>>
       \/ result' = [result EXCEPT ![t] = @ \cup {"patch"}] /\ Persist({t})

-----------------------------------------------------------------------------
(* Marking and commands                                                     *)

\* _mark_blocked: one task that cannot run, or that has to wait.
StoreMark(t) ==
    /\ \/ /\ task[t].state \in Unstarted /\ DeadDependency(t)
          /\ task' = [task EXCEPT ![t].state = "blocked"]
          /\ result' = [result EXCEPT ![t] = {"blocked_details", "dependency_details"}]
       \/ /\ task[t].state = "queued" /\ ~DeadDependency(t) /\ WaitingKind(t) # "none"
          /\ task' = [task EXCEPT ![t].state = "waiting"]
          /\ result' = [result EXCEPT ![t] = @ \cup {"waiting_reason"}]
    /\ UNCHANGED <<transient, groupIndex, depIndex, telling, restarts, runVars>>
    /\ Persist({t})

\* cancel: a running task only gets a result that says no, and so it
\* does from skip.
StoreCancel(t) ==
    /\ \/ task[t].state \in Unstarted /\ Set(t, "cancelled", {"cancel_reason"})
       \/ /\ task[t].state = "running"
          /\ result' = [result EXCEPT ![t] = {"error", "cancel_reason"}]
          /\ UNCHANGED task
    /\ UNCHANGED <<transient, groupIndex, depIndex, telling, restarts, runVars>>
    /\ Persist({t})

\* retry: the result goes, a transient result stays.
StoreRetry(t) ==
    /\ task[t].state \in Dead
    /\ Set(t, "queued", {})
    /\ UNCHANGED <<transient, groupIndex, depIndex, telling, restarts, runVars>>
    /\ Persist({t})

\* The blocked tasks no dependency holds any more once t is skipped.
Freed(t, R) ==
    \A u \in StoreTasks :
        u \in R <=> /\ u # t
                    /\ task[u].state = "blocked"
                    /\ \A d \in task[u].deps :
                          d = t \/ d \in R \/ task[d].state \notin Dead \cup {"absent"}

\* skip, with the blocked tasks it releases.
StoreSkip(t) ==
    /\ task[t].state \in Unstarted \cup Dead
    /\ \E R \in SUBSET {u \in StoreTasks : task[u].state = "blocked"} :
        /\ Freed(t, R)
        /\ task' = [u \in StoreTasks |->
                      IF u = t THEN [task[u] EXCEPT !.state = "skipped", !.later = FALSE]
                      ELSE IF u \in R THEN [task[u] EXCEPT !.state = "queued", !.later = FALSE]
                      ELSE task[u]]
        /\ result' = [u \in StoreTasks |->
                        IF u = t THEN {"skip_reason"} ELSE IF u \in R THEN {} ELSE result[u]]
        /\ Persist(R \cup {t})
    /\ UNCHANGED <<transient, groupIndex, depIndex, telling, restarts, runVars>>

\* collect_task_results with consume, or discard_transient_results.
StoreCollect(g) ==
    /\ Members(g) \cap transient # {}
    /\ ActiveOf(g) = {}
    /\ transient' = transient \ groupIndex[g]
    /\ UNCHANGED <<task, result, groupIndex, depIndex, image, telling, restarts, runVars, foreign>>

\* The clock passes next_attempt_at, in the queue and in the image.
StoreClock(t) ==
    /\ task[t].later \/ image[t].task.later
    /\ task' = [task EXCEPT ![t].later = FALSE]
    /\ image' = [image EXCEPT ![t].task.later = FALSE]
    /\ UNCHANGED <<result, transient, groupIndex, depIndex, telling, restarts, runVars, foreign>>

\* What load_snapshot makes of a row of the image.
Restored(t) ==
    LET row == image[t]
        was == row.task.state
        now == IF was # "running" THEN was
               ELSE IF t \in Unrecoverable THEN "failed" ELSE "queued"
    IN  [task |-> IF row.task = NoTask THEN NoTask ELSE [row.task EXCEPT !.state = now],
         result |-> IF was # "running" THEN row.result
                    ELSE row.result \cup {"restored_from"}
                           \cup (IF t \in Unrecoverable THEN {"error"} ELSE {})]

\* configure_services: a new queue loads the image, and writes it back.
StoreRestart ==
    /\ restarts < StoreRestarts
    /\ restarts' = restarts + 1
    /\ task' = [t \in StoreTasks |-> Restored(t).task]
    /\ result' = [t \in StoreTasks |-> Restored(t).result]
    /\ transient' = {}
    /\ telling' = {}
    /\ replaced' = [t \in StoreTasks |-> NoTask]
    /\ extra' = {}
    /\ groupIndex' = [g \in StoreGroups |-> {t \in StoreTasks : image[t].task.group = g}]
    /\ depIndex' = [d \in StoreTasks |-> {t \in StoreTasks : d \in image[t].task.deps}]
    /\ Persist(StoreTasks)

StoreNext ==
    \/ \E t \in StoreTasks, g \in StoreGroups :
          \E deps \in StoreDeps[t] : StoreRegister(t, g, deps)
    \/ \E t \in StoreTasks : StoreStart(t)
    \/ \E t \in StoreTasks : StoreEnd(t)
    \/ \E t \in StoreTasks : StoreReplacedEnds(t)
    \/ \E t \in StoreTasks : StoreDispatch(t)
    \/ \E t \in StoreTasks : StoreMark(t)
    \/ \E t \in StoreTasks : StoreCancel(t)
    \/ \E t \in StoreTasks : StoreRetry(t)
    \/ \E t \in StoreTasks : StoreSkip(t)
    \/ \E g \in StoreGroups : StoreCollect(g)
    \/ \E t \in StoreTasks : StoreClock(t)
    \/ StoreRestart

StoreSpec == StoreInit /\ [][StoreNext]_storeVars

-----------------------------------------------------------------------------

\* Whatever stopped a step, the cached image of modnews/repository/queue_state.py
\* has the result the queue has in memory for every task, as far as it is kept,
\* and the task itself: its state and what it depends on.  A container built from
\* the image at any time therefore misses no end, no release and no command.  The
\* exception is an id that was registered again while it ran: the end of the
\* replaced run writes its own TaskEvent over the row, which stays until the
\* queue next writes it.
ImageIsCurrent ==
    \A t \in StoreTasks :
        /\ image[t].result = result[t]
        /\ t \notin foreign => image[t].task = task[t]

\* The readers agree with the scheduler: the members and dependents the indexes
\* give (group_summary, dependents_of), after re-registrations and restarts,
\* are those the tasks themselves name, and inspect_tasks gives the waiting
\* reason of waiting_details, and "ready" for the tasks is_ready takes (and for
\* those that wait for nothing but the verdict on a dead dependency); every
\* blocked task is in one of the blocked_groups, if its result is its own.
ReadersAgree ==
    /\ \A g \in StoreGroups : Members(g) = {t \in StoreTasks : task[t].group = g}
    /\ \A d \in StoreTasks : depIndex[d] = {t \in StoreTasks : d \in task[t].deps}
    /\ \A t \in StoreKnown :
        /\ InspectedWaiting(t) = WaitingKind(t)
        /\ ~DeadDependency(t) => (InspectedReady(t) <=> IsReady(t))
        /\ task[t].state = "blocked" /\ t \notin foreign =>
              t \in BlockedGroup("dependency") \cup BlockedGroup("business")
=============================================================================
