----------------------------- MODULE EventQueue -----------------------------
(***************************************************************************)
(* The in-process task queue of modnews/core/event_queue.py.               *)
(*                                                                         *)
(* Every call of drain_ready is a loop run by some thread: it claims the   *)
(* ready tasks under the queue's lock, hands each one to a pool of worker  *)
(* threads, waits for a future, and starts again; with nothing in flight   *)
(* it sweeps the tasks that cannot run and returns.  A worker whose task   *)
(* has ended dispatches the task's event and then calls drain_ready        *)
(* itself, so drains nest: a thread of this model is a caller of the queue *)
(* (an HTTP request, a CLI command) or a run, one future of _run_claimed.  *)
(*                                                                         *)
(* What the code does under the lock is one action here.                   *)
(***************************************************************************)
EXTENDS Integers, FiniteSets

CONSTANTS
    Tasks,          \* task ids
    Callers,        \* threads that call the queue from outside
    Slots,          \* futures one task may have at once (bound of the model)
    NoThread,       \* "no owner"
    Keys, NoKey,    \* concurrency keys, and "no key"
    KeyOf,          \* task -> its concurrency_key
    Limit,          \* key -> max_concurrency, the same for all tasks of a key
    PoolCap,        \* upper bound of a drain's worker threads (64 in the code)
    Deps,           \* task -> depends_on
    Rank,           \* task -> its place in the order (priority, created_at, id)
    MaxAttempts,    \* task -> max_attempts
    Backoff,        \* tasks with retry_backoff_seconds > 0
    Outcomes,       \* task -> how its executor may end
    SafeSkip,       \* tasks whose blocked event makes the handler skip them
    Renewed,        \* ids that may be registered again: followups, polish children
    HandlersMayRaise, \* whether an event handler may raise
    Initial,        \* tasks registered before the first step
    CallerOps,      \* operations the callers use
    Limits,         \* the limits callers pass to drain_ready
    Budget          \* operations per caller (bound of the model)

Runs == Tasks \X (1 .. Slots)
Threads == Callers \cup Runs
NoLimit == -1

Success == {"succeeded", "skipped"}
Stopped == {"failed", "cancelled", "blocked"}
Terminal == Success \cup Stopped
Pending == {"queued", "waiting"}
Active == Pending \cup {"running"}
States == {"absent"} \cup Active \cup Terminal

OutcomeKinds == {"ok", "blocked", "error", "no_executor"}
OpKinds == {"register", "submit", "drain", "cancel", "retry", "skip"}

ASSUME ThreadAssumption ==
    /\ Slots \in Nat
    /\ Callers \cap Runs = {}
    /\ NoThread \notin Threads
    /\ IsFiniteSet(Tasks)

ASSUME KeyAssumption ==
    /\ NoKey \notin Keys
    /\ KeyOf \in [Tasks -> Keys \cup {NoKey}]
    /\ Limit \in [Keys -> Nat \ {0}]
    /\ PoolCap \in Nat \ {0}

ASSUME TaskAssumption ==
    /\ Deps \in [Tasks -> SUBSET Tasks]
    /\ Rank \in [Tasks -> Nat]
    /\ \A t, u \in Tasks : Rank[t] = Rank[u] => t = u
    /\ MaxAttempts \in [Tasks -> Int]
    /\ Backoff \subseteq Tasks
    /\ Outcomes \in [Tasks -> SUBSET OutcomeKinds]
    /\ SafeSkip \subseteq Tasks
    /\ \A t \in SafeSkip : Deps[t] = {}
    /\ Renewed \subseteq Tasks \ SafeSkip

ASSUME CallerAssumption ==
    /\ HandlersMayRaise \in BOOLEAN
    /\ Initial \subseteq Tasks
    /\ \A t \in Initial : Deps[t] \subseteq Initial
    /\ CallerOps \subseteq OpKinds
    /\ Limits \subseteq Nat
    /\ Budget \in Nat

VARIABLES
    state,      \* task -> TaskEvent.state, "absent" when not in _tasks
    attempt,    \* task -> TaskEvent.attempt
    window,     \* tasks whose next_attempt_at is in the future
    hard,       \* tasks whose result carries a blocked kind other than dependency
    pc,         \* thread -> where it is
    owner,      \* run -> the thread in whose in_flight it is
    guarded,    \* runs whose nested drain is inside the try of the executor
    stray,      \* runs whose task object a registration has since replaced
    failing,    \* threads whose drain is unwinding an exception
    limit,      \* thread -> the limit of its drain
    ran,        \* thread -> len(ran) of a limited drain
    pool,       \* thread -> max_workers of its pool, 0 before the first claim
    ops         \* caller -> operations it may still call

queueVars == <<state, attempt, window, hard>>
drainVars == <<owner, guarded, stray, failing, limit, ran, pool>>
vars == <<queueVars, pc, drainVars, ops>>

PCs == {"idle", "pending", "executing", "completed", "notify", "skipping",
        "claim", "wait", "sweep", "announce", "shutdown", "done", "raised"}

TaskOf(r) == r[1]
InFlight(th) == {r \in Runs : owner[r] = th}
Finished == {"done", "raised"}

TypeOK ==
    /\ state \in [Tasks -> States]
    /\ attempt \in [Tasks -> Nat]
    /\ window \subseteq Tasks
    /\ hard \subseteq Tasks
    /\ pc \in [Threads -> PCs]
    /\ owner \in [Runs -> Threads \cup {NoThread}]
    /\ guarded \subseteq Runs
    /\ stray \subseteq Runs
    /\ failing \subseteq Threads
    /\ limit \in [Threads -> Nat \cup {NoLimit}]
    /\ ran \in [Threads -> Nat]
    /\ pool \in [Threads -> Nat]
    /\ ops \in [Callers -> Nat]

Init ==
    /\ state = [t \in Tasks |-> IF t \in Initial THEN "queued" ELSE "absent"]
    /\ attempt = [t \in Tasks |-> 0]
    /\ window = {}
    /\ hard = {}
    /\ pc = [th \in Threads |-> "idle"]
    /\ owner = [r \in Runs |-> NoThread]
    /\ guarded = {}
    /\ stray = {}
    /\ failing = {}
    /\ limit = [th \in Threads |-> NoLimit]
    /\ ran = [th \in Threads |-> 0]
    /\ pool = [th \in Threads |-> 0]
    /\ ops = [c \in Callers |-> Budget]

-----------------------------------------------------------------------------
(* Which tasks may run                                                      *)

\* A dependency that can no longer succeed: it is missing, or it has stopped.
Blocking(s) == s = "absent" \/ s \in Stopped

DependencyBlocked(t) == \E d \in Deps[t] : Blocking(state[d])

\* Faulty: a dependency that waits is taken for one that has ended.
DependencyNotStarted(t) == \E d \in Deps[t] : state[d] \in {"queued", "running"}

DependencyUnfinished(t) == \E d \in Deps[t] : state[d] \in Active

\* The other tasks that hold a slot of t's key when those of S run as well.
Holders(t, S) ==
    {u \in Tasks \ {t} : KeyOf[u] = KeyOf[t] /\ (state[u] = "running" \/ u \in S)}

\* Faulty: the tasks claimed a moment ago in the same pass are not counted.
HasRoomBefore(t, S) ==
    KeyOf[t] # NoKey => Cardinality(Holders(t, {})) < Limit[KeyOf[t]]

HasRoom(t, S) ==
    KeyOf[t] # NoKey => Cardinality(Holders(t, S)) < Limit[KeyOf[t]]

MustWait(t) == t \in window \/ DependencyUnfinished(t) \/ ~HasRoom(t, {})

Ready(t) ==
    /\ state[t] \in Pending
    /\ ~DependencyBlocked(t)
    /\ ~MustWait(t)

\* What one pass of _claim_ready_tasks takes: the ready tasks in order, each
\* checked again after the ones before it were marked running, n at most.
IsClaim(C, n) ==
    \A t \in Tasks :
        t \in C <=>
            /\ Ready(t)
            /\ LET earlier == {u \in C : Rank[u] < Rank[t]}
               IN  /\ HasRoom(t, earlier)
                   /\ n # NoLimit => Cardinality(earlier) < n

\* The worker threads of a drain: one per unbounded task and max_concurrency
\* per bounded task of the first claim.
Width(t) == IF KeyOf[t] = NoKey THEN 1 ELSE Limit[KeyOf[t]]

Wanted(C) == Cardinality({x \in C \X (1 .. PoolCap) : x[2] <= Width(x[1])})

\* Faulty: the tasks without a key are not counted, and a pool may be empty.
PoolSizeOfKeyed(C) == Wanted({t \in C : KeyOf[t] # NoKey})

PoolSize(C) ==
    IF Wanted(C) = 0 THEN 1 ELSE IF Wanted(C) < PoolCap THEN Wanted(C) ELSE PoolCap

-----------------------------------------------------------------------------
(* State changes of single tasks                                            *)

\* mark_task_*: a run changes the task object it fetched when it began.  Once
\* that object was replaced, the state the queue goes by is not touched.
Mark(r, s) == state' = IF r \in stray THEN state ELSE [state EXCEPT ![TaskOf(r)] = s]

\* Faulty: one attempt too many.
OneMoreAttempt(t) == attempt[t] <= IF MaxAttempts[t] > 1 THEN MaxAttempts[t] ELSE 1

AttemptLeft(t) == attempt[t] < IF MaxAttempts[t] > 1 THEN MaxAttempts[t] ELSE 1

\* mark_task_retry_scheduled or mark_task_failed, as the attempts decide.
RetryOrFail(r) ==
    LET t == TaskOf(r)
    IN  /\ Mark(r, IF AttemptLeft(t) THEN "queued" ELSE "failed")
        /\ window' = IF r \in stray THEN window
                     ELSE IF AttemptLeft(t) /\ t \in Backoff THEN window \cup {t}
                     ELSE window \ {t}
        /\ hard' = hard \ {t}
        /\ UNCHANGED attempt

\* The blocked tasks unblock_released_tasks takes back to queued when t has
\* just been skipped: all those that no dependency holds, whatever t is.
IsReleased(R, t) ==
    \A u \in Tasks :
        u \in R <=>
            /\ u # t
            /\ state[u] = "blocked"
            /\ \A d \in Deps[u] : d # t /\ d \notin R => ~Blocking(state[d])

\* skip: a finished task is left alone, a running one is refused.
SkipTask(t) ==
    IF state[t] \in Success \cup {"running"}
    THEN UNCHANGED queueVars
    ELSE \E R \in SUBSET {u \in Tasks : state[u] = "blocked"} :
            /\ IsReleased(R, t)
            /\ state' = [u \in Tasks |-> IF u = t THEN "skipped"
                                         ELSE IF u \in R THEN "queued" ELSE state[u]]
            /\ window' = window \ (R \cup {t})
            /\ hard' = hard \ (R \cup {t})
            /\ UNCHANGED attempt

-----------------------------------------------------------------------------
(* Calls from outside                                                       *)

Call(c, op) ==
    /\ op \in CallerOps
    /\ pc[c] = "idle"
    /\ ops[c] > 0
    /\ ops' = [ops EXCEPT ![c] = @ - 1]

Goto(th, where) == pc' = [pc EXCEPT ![th] = where]

\* The runs that have fetched the object of t.
Begun(t) == {r \in Runs : TaskOf(r) = t /\ pc[r] \notin {"idle", "pending"}}

\* register, and submit: register and drain.  The callers create a task after
\* the tasks it depends on.  An id that is there already gets a new object,
\* whatever state the old one is in; its result stays, and so do its runs.
Register(c, t) ==
    /\ state[t] = "absent" \/ t \in Renewed
    /\ \A d \in Deps[t] : state[d] # "absent"
    /\ \/ Call(c, "register") /\ UNCHANGED pc
       \/ Call(c, "submit") /\ Goto(c, "claim")
    /\ state' = [state EXCEPT ![t] = "queued"]
    /\ attempt' = [attempt EXCEPT ![t] = 0]
    /\ window' = window \ {t}
    /\ stray' = IF state[t] = "absent" THEN stray ELSE stray \cup Begun(t)
    /\ UNCHANGED <<hard, owner, guarded, failing, limit, ran, pool>>

Drain(c, n) ==
    /\ Call(c, "drain")
    /\ Goto(c, "claim")
    /\ limit' = [limit EXCEPT ![c] = n]
    /\ UNCHANGED <<queueVars, owner, guarded, stray, failing, ran, pool>>

\* Faulty: only a running task is protected.
CancelFinished(c, t) ==
    /\ Call(c, "cancel")
    /\ state[t] \notin {"absent", "running"}
    /\ state' = [state EXCEPT ![t] = "cancelled"]
    /\ UNCHANGED <<attempt, window, hard, pc, drainVars>>

\* cancel: a terminal task (a blocked one too) and a running one are left
\* alone; nothing is dispatched or drained.
Cancel(c, t) ==
    /\ Call(c, "cancel")
    /\ state[t] # "absent"
    /\ IF state[t] \in Pending
       THEN /\ state' = [state EXCEPT ![t] = "cancelled"]
            /\ window' = window \ {t}
       ELSE UNCHANGED <<state, window>>
    /\ UNCHANGED <<attempt, hard, pc, drainVars>>

\* Faulty: the task is reset, and nobody drains.
RetryWithoutDrain(c, t) ==
    /\ Call(c, "retry")
    /\ state[t] \in Stopped
    /\ state' = [state EXCEPT ![t] = "queued"]
    /\ UNCHANGED <<attempt, window, hard, pc, drainVars>>

\* Faulty: a running task is reset as well.
RetryRunning(c, t) ==
    /\ Call(c, "retry")
    /\ state[t] \in Stopped \cup {"running"}
    /\ state' = [state EXCEPT ![t] = "queued"]
    /\ Goto(c, "claim")
    /\ UNCHANGED <<attempt, window, hard, drainVars>>

\* queue_retry: reset a stopped task, then drain.
Retry(c, t) ==
    /\ Call(c, "retry")
    /\ state[t] \in Stopped
    /\ state' = [state EXCEPT ![t] = "queued"]
    /\ attempt' = [attempt EXCEPT ![t] = 0]
    /\ window' = window \ {t}
    /\ hard' = hard \ {t}
    /\ Goto(c, "claim")
    /\ UNCHANGED drainVars

\* skip, with the drain that follows it.
Skip(c, t) ==
    /\ Call(c, "skip")
    /\ state[t] \notin Success \cup {"running", "absent"}
    /\ SkipTask(t)
    /\ Goto(c, "claim")
    /\ UNCHANGED drainVars

\* The clock passes next_attempt_at.
WindowElapses(t) ==
    /\ t \in window
    /\ window' = window \ {t}
    /\ UNCHANGED <<state, attempt, hard, pc, drainVars, ops>>

-----------------------------------------------------------------------------
(* drain_ready                                                              *)

\* The claimed tasks get the first free future each.
FirstIdle(r) ==
    /\ pc[r] = "idle"
    /\ \A n \in 1 .. (r[2] - 1) : pc[<<r[1], n>>] # "idle"

Remaining(th) == limit[th] - ran[th] - Cardinality(InFlight(th))

LimitReached(th) ==
    /\ pc[th] = "claim"
    /\ limit[th] # NoLimit
    /\ Remaining(th) <= 0
    /\ Goto(th, "shutdown")
    /\ UNCHANGED <<queueVars, drainVars, ops>>

Claim(th) ==
    /\ pc[th] = "claim"
    /\ limit[th] # NoLimit => Remaining(th) > 0
    /\ \E C \in SUBSET {t \in Tasks : Ready(t)} :
        LET futures == {r \in Runs : TaskOf(r) \in C /\ FirstIdle(r)}
        IN  /\ IsClaim(C, IF limit[th] = NoLimit THEN NoLimit ELSE Remaining(th))
            /\ \A t \in C : \E r \in futures : TaskOf(r) = t
            /\ state' = [t \in Tasks |-> IF t \in C THEN "running" ELSE state[t]]
            /\ attempt' = [t \in Tasks |-> IF t \in C THEN attempt[t] + 1 ELSE attempt[t]]
            /\ window' = window \ C
            /\ owner' = [r \in Runs |-> IF r \in futures THEN th ELSE owner[r]]
            /\ ran' = [ran EXCEPT ![th] =
                          IF limit[th] = NoLimit THEN 0 ELSE @ + Cardinality(C)]
            /\ pool' = [pool EXCEPT ![th] = IF @ = 0 /\ C # {} THEN PoolSize(C) ELSE @]
            /\ pc' = [x \in Threads |->
                        IF x = th
                        THEN IF C = {} /\ InFlight(th) = {} THEN "sweep" ELSE "wait"
                        ELSE IF x \in futures THEN "pending" ELSE pc[x]]
    /\ UNCHANGED <<hard, guarded, stray, failing, limit, ops>>

\* Faulty: tasks already marked waiting are passed over.
IsSweepOfQueued(B) ==
    \A t \in Tasks : t \in B <=> state[t] = "queued" /\ DependencyBlocked(t)

\* _mark_blocked: the tasks whose dependencies have ended are blocked, those
\* blocked on the way included; queued tasks that must wait are marked waiting.
IsSweep(B) ==
    \A t \in Tasks :
        t \in B <=>
            /\ state[t] \in Pending
            /\ \E d \in Deps[t] : Blocking(state[d]) \/ d \in B

Sweep(th) ==
    /\ pc[th] = "sweep"
    /\ \E B \in SUBSET {t \in Tasks : state[t] \in Pending} :
        /\ IsSweep(B)
        /\ state' = [t \in Tasks |->
                        IF t \in B THEN "blocked"
                        ELSE IF state[t] = "queued" /\ MustWait(t) THEN "waiting"
                        ELSE state[t]]
        /\ hard' = hard \ B
        /\ Goto(th, IF B = {} THEN "shutdown" ELSE "announce")
    /\ UNCHANGED <<attempt, window, drainVars, ops>>

\* The task.blocked events of the swept tasks.
Announce(th) ==
    /\ pc[th] = "announce"
    /\ Goto(th, "shutdown")
    /\ \/ UNCHANGED failing
       \/ HandlersMayRaise /\ failing' = failing \cup {th}
    /\ UNCHANGED <<queueVars, owner, guarded, stray, limit, ran, pool, ops>>

\* The futures in D leave in_flight.
Release(D) ==
    owner' = [r \in Runs |-> IF r \in D THEN NoThread ELSE owner[r]]

\* wait(FIRST_COMPLETED) returns; future.result() raises what the run raised.
Collect(th) ==
    /\ pc[th] = "wait"
    /\ LET D == {r \in InFlight(th) : pc[r] \in Finished}
           raised == \E r \in D : pc[r] = "raised"
       IN  /\ D # {}
           /\ Release(D)
           /\ pc' = [x \in Threads |->
                        IF x = th THEN IF raised THEN "shutdown" ELSE "claim"
                        ELSE IF x \in D THEN "idle" ELSE pc[x]]
           /\ failing' = IF raised THEN failing \cup {th} ELSE failing
    /\ stray' = stray \ {r \in InFlight(th) : pc[r] \in Finished}
    /\ UNCHANGED <<queueVars, guarded, limit, ran, pool, ops>>

\* The end of drain_ready: the pool's futures end, the call returns or raises.
\* A run that drained inside its try catches the exception and its task, which
\* has succeeded, is retried or failed.
Shutdown(th) ==
    /\ pc[th] = "shutdown"
    /\ \A r \in InFlight(th) : pc[r] \in Finished
    /\ Release(InFlight(th))
    /\ LET rescue == th \in failing \cap guarded
           end == IF th \in Callers THEN "idle"
                  ELSE IF rescue THEN "notify"
                  ELSE IF th \in failing THEN "raised" ELSE "done"
       IN  /\ IF rescue THEN RetryOrFail(th) ELSE UNCHANGED queueVars
           /\ pc' = [x \in Threads |->
                        IF x = th THEN end
                        ELSE IF x \in InFlight(th) THEN "idle" ELSE pc[x]]
    /\ failing' = failing \ {th}
    /\ guarded' = guarded \ {th}
    /\ stray' = stray \ InFlight(th)
    /\ limit' = [limit EXCEPT ![th] = NoLimit]
    /\ ran' = [ran EXCEPT ![th] = 0]
    /\ pool' = [pool EXCEPT ![th] = 0]
    /\ UNCHANGED ops

-----------------------------------------------------------------------------
(* _run_claimed and _execute_running_task                                   *)

\* A worker thread of the pool is free for the future, which fetches the object
\* that has its task's id by now, in whatever state it is.
Start(r) ==
    /\ pc[r] = "pending"
    /\ Cardinality({x \in InFlight(owner[r]) : pc[x] \notin Finished \cup {"pending"}})
          < pool[owner[r]]
    /\ Goto(r, "executing")
    /\ UNCHANGED <<queueVars, drainVars, ops>>

Succeed(r) ==
    /\ pc[r] = "executing"
    /\ "ok" \in Outcomes[TaskOf(r)]
    /\ Mark(r, "succeeded")
    /\ hard' = hard \ {TaskOf(r)}
    /\ Goto(r, "completed")
    /\ UNCHANGED <<attempt, window, drainVars, ops>>

\* The executor raises TaskBlocked.
Block(r) ==
    /\ pc[r] = "executing"
    /\ "blocked" \in Outcomes[TaskOf(r)]
    /\ Mark(r, "blocked")
    /\ hard' = hard \cup {TaskOf(r)}
    /\ Goto(r, "notify")
    /\ UNCHANGED <<attempt, window, drainVars, ops>>

\* The executor raises anything else.
Fail(r) ==
    /\ pc[r] = "executing"
    /\ "error" \in Outcomes[TaskOf(r)]
    /\ RetryOrFail(r)
    /\ Goto(r, "notify")
    /\ UNCHANGED <<drainVars, ops>>

\* No executor is registered for the task's type: it fails without a retry.
Reject(r) ==
    /\ pc[r] = "executing"
    /\ "no_executor" \in Outcomes[TaskOf(r)]
    /\ Mark(r, "failed")
    /\ hard' = hard \ {TaskOf(r)}
    /\ Goto(r, "notify")
    /\ UNCHANGED <<attempt, window, drainVars, ops>>

\* The task.completed event, dispatched inside the try of the executor.
Completed(r) ==
    /\ pc[r] = "completed"
    /\ \/ /\ Goto(r, "claim")
          /\ guarded' = guarded \cup {r}
          /\ UNCHANGED queueVars
       \/ /\ HandlersMayRaise
          /\ RetryOrFail(r)
          /\ Goto(r, "notify")
          /\ UNCHANGED guarded
    /\ UNCHANGED <<owner, stray, failing, limit, ran, pool, ops>>

\* The task.blocked, task.failed or task.retry_scheduled event.  The handler of
\* a blocked web source reads the task's state, and skips the task when it is
\* (still) blocked.
Notify(r) ==
    LET t == TaskOf(r)
        toSkip == t \in SafeSkip \cap hard /\ state[t] = "blocked"
    IN  /\ pc[r] = "notify"
        /\ \/ Goto(r, IF toSkip THEN "skipping" ELSE "claim")
           \/ HandlersMayRaise /\ Goto(r, "raised")
        /\ UNCHANGED <<queueVars, drainVars, ops>>

SkipBlocked(r) ==
    /\ pc[r] = "skipping"
    /\ SkipTask(TaskOf(r))
    /\ Goto(r, "claim")
    /\ UNCHANGED <<drainVars, ops>>

-----------------------------------------------------------------------------

CallerStep(c) ==
    \/ \E t \in Tasks : Register(c, t)
    \/ \E n \in Limits \cup {NoLimit} : Drain(c, n)
    \/ \E t \in Tasks : Cancel(c, t)
    \/ \E t \in Tasks : Retry(c, t)
    \/ \E t \in Tasks : Skip(c, t)

DrainStep(th) ==
    \/ LimitReached(th)
    \/ Claim(th)
    \/ Sweep(th)
    \/ Announce(th)
    \/ Collect(th)
    \/ Shutdown(th)

RunStep(r) ==
    \/ Start(r)
    \/ Succeed(r)
    \/ Block(r)
    \/ Fail(r)
    \/ Reject(r)
    \/ Completed(r)
    \/ Notify(r)
    \/ SkipBlocked(r)

Next ==
    \/ \E c \in Callers : CallerStep(c)
    \/ \E th \in Threads : DrainStep(th)
    \/ \E r \in Runs : RunStep(r)
    \/ \E t \in Tasks : WindowElapses(t)

Spec == Init /\ [][Next]_vars

\* Threads run, and executors return: every step inside drain_ready and
\* _run_claimed is eventually taken.  The clock runs.  Callers need not call.
Fairness ==
    /\ WF_vars(\E t \in Tasks : WindowElapses(t))
    /\ \A th \in Threads : WF_vars(DrainStep(th))
    /\ \A r \in Runs : WF_vars(RunStep(r))

FairSpec == Spec /\ Fairness
=============================================================================
