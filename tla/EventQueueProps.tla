--------------------------- MODULE EventQueueProps ---------------------------
(***************************************************************************)
(* What the queue must guarantee to the pipeline that runs on it.          *)
(***************************************************************************)
EXTENDS EventQueue

InUse == {"pending", "executing"}

\* At most max_concurrency tasks of a key are held in state running, whichever
\* of the concurrent and nested drains claimed them and whatever registration
\* replaced, and at most that many executors of the key run, those apart whose
\* ids may be registered again (_claim_ready_tasks and waiting_details).
ConcurrencyLimit ==
    \A k \in Keys :
        /\ Cardinality({t \in Tasks : KeyOf[t] = k /\ state[t] = "running"}) <= Limit[k]
        /\ Cardinality({r \in Runs : /\ KeyOf[TaskOf(r)] = k
                                     /\ TaskOf(r) \notin Renewed
                                     /\ pc[r] = "executing"}) <= Limit[k]

\* A task whose id is registered once is in the hands of one future at a time,
\* and is marked running for as long: no two drains execute the same task, and
\* no step of another task's runs, replaced ones included, takes it away
\* (_claim_ready_tasks, _run_claimed).
OneRunPerTask ==
    \A r, s \in {x \in Runs : TaskOf(x) \notin Renewed /\ pc[x] \in InUse} :
        /\ state[TaskOf(r)] = "running"
        /\ TaskOf(r) = TaskOf(s) => r = s

\* A task that runs or has succeeded has only dependencies that succeeded or
\* were skipped, and they stay so, among the tasks whose ids are registered once
\* (dependency_blocked_details, is_ready).
DependenciesSucceeded ==
    \A t \in Tasks \ Renewed :
        state[t] \in {"running", "succeeded"} =>
            \A x \in Deps[t] \ Renewed : state[x] \in Success

\* What a skip makes of the budget: unblock_released_tasks queues a blocked task
\* again with the attempts it had, and one that blocked by itself may have none.
NobodySkips == SafeSkip = {} /\ "skip" \notin CallerOps
BlocksByItself(t) == "blocked" \in Outcomes[t]

\* Between two resets a task is started max_attempts times at most, whatever
\* the executors and the event handlers do (_execute_running_task), unless it
\* blocks by itself and something is skipped.
AttemptBudget ==
    \A t \in Tasks :
        NobodySkips \/ ~BlocksByItself(t) =>
            attempt[t] <= IF MaxAttempts[t] > 1 THEN MaxAttempts[t] ELSE 1

\* The threads that will still pass through _claim_ready_tasks.
WillClaim(th) ==
    pc[th] \in {"pending", "executing", "completed", "notify", "skipping", "claim"}

\* No lost wake-up in the scheduler: when a task is ready, some thread has yet
\* to look for ready tasks (drain_ready after every completion; the drain loop
\* that stops must not have missed one).
ReadyIsClaimed ==
    \A t \in Tasks : Ready(t) => \E th \in Threads : WillClaim(th)

SomebodyClaims == \E th \in Threads : WillClaim(th)

\* What may leave a ready task to nobody: it is so already, or it is registered
\* without a drain, for the first time or again, its retry window has elapsed, a
\* drain is at its limit, or an event handler raises.
LeftReadyStep ==
    \A t \in Tasks :
        Ready(t)' /\ ~SomebodyClaims' =>
            \/ Ready(t) /\ ~SomebodyClaims
            \/ \E c \in Callers : Register(c, t)
            \/ t \in window
            \/ \E th \in Threads :
                pc[th] = "claim" /\ limit[th] # NoLimit /\ pc'[th] = "shutdown"
            \/ \E r \in Runs : pc[r] = "notify" /\ pc'[r] = "raised"

\* Those are all: no other step of a caller or of a nested drain, and no way an
\* exception takes through them, leaves a ready task when the last thread stops
\* looking for ready tasks, or makes one ready that no thread will look for
\* (drain_ready, _claim_ready_tasks, _dispatch, retry, skip).
LeftReadyOnly == [][LeftReadyStep]_vars

Quiescent == \A th \in Threads : pc[th] = "idle"

\* When every drain has returned, no task is left queued or waiting: it was
\* run, or one sweep blocked the whole chain behind a dead dependency.
QuiescentIsSettled ==
    Quiescent => \A t \in Tasks : state[t] \notin Pending \cup {"running"}

\* A thread that can do nothing until others have: its call has returned, its
\* future is not collected, it has no worker, its futures have not ended.
Waits(th) ==
    \/ pc[th] \in {"idle"} \cup Finished
    \/ /\ pc[th] = "pending"
       /\ Cardinality({x \in InFlight(owner[th]) : pc[x] \notin Finished \cup {"pending"}})
              >= pool[owner[th]]
    \/ pc[th] = "wait" /\ \A r \in InFlight(th) : pc[r] \notin Finished
    \/ pc[th] = "shutdown" /\ \E r \in InFlight(th) : pc[r] \notin Finished

\* Everyone never waits for everyone: while a call is under way, some thread is
\* not waiting, however drains nest in each other's pools, whatever their first
\* claims made of the size of the pools, and whatever was raised (the executor
\* of drain_ready, wait, shutdown).
SomebodyWorks == Quiescent \/ \E th \in Threads : ~Waits(th)

\* Every registered task ends, with its dependencies ready or dead, with its
\* key at its limit, with its worker pool full.
EveryTaskEnds ==
    \A t \in Tasks : state[t] \in Active ~> state[t] \in Terminal

\* Every call returns: no thread waits for ever for a future of its pool.
EveryCallReturns ==
    \A c \in Callers : pc[c] # "idle" ~> pc[c] = "idle"

\* The queue implements the task pool (module TaskPool), whatever its threads
\* do: the pool sees the phase of each task only.
PhaseOf(s) ==
    IF s = "absent" THEN "new"
    ELSE IF s \in Pending THEN "open"
    ELSE IF s \in Success THEN "passed"
    ELSE IF s \in Stopped THEN "stopped"
    ELSE "running"

Pool == INSTANCE TaskPool WITH phase <- [t \in Tasks |-> PhaseOf(state[t])]

ImplementsTaskPool == Pool!Spec
=============================================================================
