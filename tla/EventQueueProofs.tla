-------------------------- MODULE EventQueueProofs --------------------------
(***************************************************************************)
(* Proofs about the queue, for any tasks, threads, keys and limits.        *)
(***************************************************************************)
EXTENDS EventQueueProps, FiniteSetTheorems, TLAPS

-----------------------------------------------------------------------------
(* Type correctness                                                         *)

LEMMA TaskOfRun ==
    ASSUME NEW r \in Runs
    PROVE  TaskOf(r) \in Tasks /\ r \in Threads
BY DEF Runs, TaskOf, Threads

LEMMA ClaimSize ==
    ASSUME NEW C \in SUBSET Tasks
    PROVE  IsFiniteSet(C) /\ Cardinality(C) \in Nat
<1>1. IsFiniteSet(C)
    BY FS_Subset, ThreadAssumption
<1> QED  BY <1>1, FS_CardinalityType

LEMMA WantedType ==
    ASSUME NEW C \in SUBSET Tasks
    PROVE  Wanted(C) \in Nat
<1> DEFINE W == {x \in C \X (1 .. PoolCap) : x[2] <= Width(x[1])}
<1>1. IsFiniteSet(1 .. PoolCap)
    BY KeyAssumption, FS_Interval
<1>2. IsFiniteSet(C \X (1 .. PoolCap))
    BY <1>1, ClaimSize, FS_Product
<1>3. W \in SUBSET (C \X (1 .. PoolCap))
    OBVIOUS
<1>4. IsFiniteSet(W)
    BY <1>2, <1>3, FS_Subset
<1>5. Cardinality(W) \in Nat
    BY <1>4, FS_CardinalityType
<1> QED  BY <1>5 DEF Wanted

\* A pool has one worker at least.
LEMMA PoolSizeType ==
    ASSUME NEW C \in SUBSET Tasks
    PROVE  PoolSize(C) \in Nat /\ PoolSize(C) > 0
BY WantedType, KeyAssumption DEF PoolSize

LEMMA RetryOrFailType ==
    ASSUME TypeOK, NEW r \in Runs, RetryOrFail(r)
    PROVE  /\ state' \in [Tasks -> States]
           /\ window' \subseteq Tasks
           /\ hard' \subseteq Tasks
           /\ attempt' \in [Tasks -> Nat]
<1>1. TaskOf(r) \in Tasks
    BY TaskOfRun
<1> QED  BY <1>1 DEF TypeOK, RetryOrFail, Mark, States, Active, Pending, Terminal, Stopped

LEMMA SkipTaskType ==
    ASSUME TypeOK, NEW t \in Tasks, SkipTask(t)
    PROVE  /\ state' \in [Tasks -> States]
           /\ window' \subseteq Tasks
           /\ hard' \subseteq Tasks
           /\ attempt' \in [Tasks -> Nat]
<1>1. CASE state[t] \in Success \cup {"running"}
    BY <1>1 DEF SkipTask, TypeOK, queueVars
<1>2. CASE state[t] \notin Success \cup {"running"}
    BY <1>2 DEF SkipTask, TypeOK, States, Active, Pending, Terminal, Success
<1> QED  BY <1>1, <1>2

LEMMA TypeStep ==
    ASSUME TypeOK, [Next]_vars
    PROVE  TypeOK'
<1> USE DEF PCs, Goto, Threads
<1> SUFFICES ASSUME Next PROVE TypeOK'
    BY DEF TypeOK, vars, queueVars, drainVars
<1>1. ASSUME NEW c \in Callers, NEW t \in Tasks, Register(c, t) PROVE TypeOK'
    BY <1>1 DEF Register, Begun, Call, TypeOK, States, Active, Pending
<1>2. ASSUME NEW c \in Callers, NEW n \in Limits \cup {NoLimit}, Drain(c, n) PROVE TypeOK'
  <2>1. n \in Nat \cup {NoLimit}
    BY CallerAssumption
  <2> QED  BY <1>2, <2>1 DEF Drain, Call, TypeOK, queueVars
<1>3. ASSUME NEW c \in Callers, NEW t \in Tasks, Cancel(c, t) PROVE TypeOK'
    BY <1>3 DEF Cancel, Call, TypeOK, drainVars, States, Terminal, Stopped
<1>4. ASSUME NEW c \in Callers, NEW t \in Tasks, Retry(c, t) PROVE TypeOK'
    BY <1>4 DEF Retry, Call, TypeOK, drainVars, States, Active, Pending
<1>5. ASSUME NEW c \in Callers, NEW t \in Tasks, Skip(c, t) PROVE TypeOK'
    BY <1>5, SkipTaskType DEF Skip, Call, TypeOK, drainVars
<1>6. ASSUME NEW th \in Threads, LimitReached(th) PROVE TypeOK'
    BY <1>6 DEF LimitReached, TypeOK, queueVars, drainVars
<1>7. ASSUME NEW th \in Threads, Claim(th) PROVE TypeOK'
  <2> PICK C \in SUBSET {t \in Tasks : Ready(t)} :
        /\ state' = [t \in Tasks |-> IF t \in C THEN "running" ELSE state[t]]
        /\ attempt' = [t \in Tasks |-> IF t \in C THEN attempt[t] + 1 ELSE attempt[t]]
        /\ window' = window \ C
        /\ owner' = [r \in Runs |->
              IF r \in {x \in Runs : TaskOf(x) \in C /\ FirstIdle(x)} THEN th ELSE owner[r]]
        /\ ran' = [ran EXCEPT ![th] = IF limit[th] = NoLimit THEN 0 ELSE @ + Cardinality(C)]
        /\ pool' = [pool EXCEPT ![th] = IF @ = 0 /\ C # {} THEN PoolSize(C) ELSE @]
        /\ pc' = [x \in Threads |->
              IF x = th THEN IF C = {} /\ InFlight(th) = {} THEN "sweep" ELSE "wait"
              ELSE IF x \in {y \in Runs : TaskOf(y) \in C /\ FirstIdle(y)}
                   THEN "pending" ELSE pc[x]]
    BY <1>7 DEF Claim
  <2>1. Cardinality(C) \in Nat /\ PoolSize(C) \in Nat
    BY ClaimSize, PoolSizeType
  <2>2. UNCHANGED <<hard, guarded, stray, failing, limit, ops>>
    BY <1>7 DEF Claim
  <2>3. state' \in [Tasks -> States] /\ attempt' \in [Tasks -> Nat] /\ window' \subseteq Tasks
    BY DEF TypeOK, States, Active
  <2>4. owner' \in [Runs -> Threads \cup {NoThread}] /\ pc' \in [Threads -> PCs]
    BY DEF TypeOK
  <2>5. ran' \in [Threads -> Nat]
    BY <2>1 DEF TypeOK
  <2>6. pool' \in [Threads -> Nat]
    BY <2>1 DEF TypeOK
  <2> QED  BY <2>2, <2>3, <2>4, <2>5, <2>6 DEF TypeOK
<1>8. ASSUME NEW th \in Threads, Sweep(th) PROVE TypeOK'
    BY <1>8 DEF Sweep, TypeOK, drainVars, States, Active, Pending, Terminal, Stopped
<1>9. ASSUME NEW th \in Threads, Announce(th) PROVE TypeOK'
    BY <1>9 DEF Announce, TypeOK, queueVars
<1>10. ASSUME NEW th \in Threads, Collect(th) PROVE TypeOK'
    BY <1>10 DEF Collect, Release, TypeOK, queueVars
<1>11. ASSUME NEW th \in Threads, Shutdown(th) PROVE TypeOK'
  <2>1. /\ state' \in [Tasks -> States] /\ window' \subseteq Tasks
        /\ hard' \subseteq Tasks /\ attempt' \in [Tasks -> Nat]
    <3>1. CASE th \in failing \cap guarded
        BY <1>11, <3>1, RetryOrFailType, TaskOfRun DEF Shutdown, TypeOK
    <3>2. CASE th \notin failing \cap guarded
        BY <1>11, <3>2 DEF Shutdown, TypeOK, queueVars
    <3> QED  BY <3>1, <3>2
  <2>2. pc' \in [Threads -> PCs]
    BY <1>11 DEF Shutdown, TypeOK
  <2>3. owner' \in [Runs -> Threads \cup {NoThread}]
    BY <1>11 DEF Shutdown, Release, TypeOK
  <2> QED  BY <1>11, <2>1, <2>2, <2>3 DEF Shutdown, TypeOK
<1>12. ASSUME NEW r \in Runs, RunStep(r) PROVE TypeOK'
  <2>1. CASE Start(r)
    BY <2>1 DEF Start, TypeOK, queueVars, drainVars
  <2>2. CASE Succeed(r)
    BY <2>2, TaskOfRun DEF Succeed, Mark, TypeOK, drainVars, States, Terminal, Success
  <2>3. CASE Block(r)
    BY <2>3, TaskOfRun DEF Block, Mark, TypeOK, drainVars, States, Terminal, Stopped
  <2>4. CASE Fail(r)
    BY <2>4, TaskOfRun, RetryOrFailType DEF Fail, TypeOK, drainVars
  <2>5. CASE Reject(r)
    BY <2>5, TaskOfRun DEF Reject, Mark, TypeOK, drainVars, States, Terminal, Stopped
  <2>6. CASE Completed(r)
    BY <2>6, TaskOfRun, RetryOrFailType DEF Completed, TypeOK, queueVars
  <2>7. CASE Notify(r)
    BY <2>7 DEF Notify, TypeOK, queueVars, drainVars
  <2>8. CASE SkipBlocked(r)
    BY <2>8, TaskOfRun, SkipTaskType DEF SkipBlocked, TypeOK, drainVars
  <2> QED  BY <1>12, <2>1, <2>2, <2>3, <2>4, <2>5, <2>6, <2>7, <2>8 DEF RunStep
<1>13. ASSUME NEW t \in Tasks, WindowElapses(t) PROVE TypeOK'
    BY <1>13 DEF WindowElapses, TypeOK, drainVars
<1> QED
    BY <1>1, <1>2, <1>3, <1>4, <1>5, <1>6, <1>7, <1>8, <1>9, <1>10, <1>11, <1>12, <1>13
    DEF Next, CallerStep, DrainStep

LEMMA TypeInit == Init => TypeOK
BY CallerAssumption, ThreadAssumption
DEF Init, TypeOK, States, Active, Pending, PCs, NoLimit

\* The queue's variables keep their types: no thread ends up in a place that
\* the code does not have, whatever is called in whatever order.
THEOREM TypeCorrect == Spec => []TypeOK
<1>1. TypeOK /\ [Next]_vars => TypeOK'
    BY TypeStep
<1> QED  BY <1>1, TypeInit, PTL DEF Spec

-----------------------------------------------------------------------------
(* One run per task                                                         *)

\* The runs of the tasks whose ids are registered once.
Singles == {r \in Runs : TaskOf(r) \notin Renewed}

\* Only a run that has begun, of an id that may be registered again, loses its
\* object.
StrayInv == \A r \in stray : TaskOf(r) \in Renewed /\ pc[r] \notin {"idle", "pending"}

LEMMA StrayStep ==
    ASSUME TypeOK, StrayInv, [Next]_vars
    PROVE  StrayInv'
<1> USE DEF Goto, Threads
<1>0. stray \subseteq Runs /\ \A r \in Runs : r \notin Callers /\ r \in Threads
    BY ThreadAssumption DEF TypeOK
<1>1. ASSUME NEW c \in Callers, CallerStep(c) PROVE StrayInv'
  <2>1. \A r \in Runs : pc'[r] = pc[r]
    BY <1>0, <1>1 DEF CallerStep, Register, Drain, Cancel, Retry, Skip, TypeOK
  <2>2. \A r \in stray' : r \in stray \/ (r \in Runs /\ TaskOf(r) \in Renewed
                                                /\ pc[r] \notin {"idle", "pending"})
    BY <1>1 DEF CallerStep, Register, Begun, Drain, Cancel, Retry, Skip, drainVars
  <2> QED  BY <1>0, <2>1, <2>2 DEF StrayInv
<1>2. ASSUME NEW th \in Threads, DrainStep(th) PROVE StrayInv'
  <2>1. CASE LimitReached(th) \/ Sweep(th) \/ Announce(th)
    BY <1>0, <2>1 DEF LimitReached, Sweep, Announce, StrayInv, TypeOK, drainVars
  <2>2. CASE Claim(th)
    <3>1. stray' = stray
        BY <2>2 DEF Claim
    <3>2. \A r \in Runs : pc[r] \notin {"idle", "pending"} => pc'[r] \notin {"idle", "pending"}
        BY <1>0, <2>2 DEF Claim, FirstIdle, TypeOK
    <3> QED  BY <1>0, <3>1, <3>2 DEF StrayInv
  <2>3. CASE Collect(th)
    <3>1. \A r \in stray' : r \in stray /\ (pc[r] \notin {"idle", "pending"} =>
                                              pc'[r] \notin {"idle", "pending"})
        BY <1>0, <2>3 DEF Collect, TypeOK
    <3> QED  BY <3>1 DEF StrayInv
  <2>4. CASE Shutdown(th)
    <3>1. \A r \in stray' : r \in stray /\ (pc[r] \notin {"idle", "pending"} =>
                                              pc'[r] \notin {"idle", "pending"})
        BY <1>0, <2>4 DEF Shutdown, TypeOK
    <3> QED  BY <3>1 DEF StrayInv
  <2> QED  BY <1>2, <2>1, <2>2, <2>3, <2>4 DEF DrainStep
<1>3. ASSUME NEW r \in Runs, RunStep(r) PROVE StrayInv'
  <2>1. stray' = stray
    BY <1>3 DEF RunStep, Start, Succeed, Block, Fail, Reject, Completed, Notify, SkipBlocked,
                drainVars
  <2>2. \A s \in Runs : pc[s] \notin {"idle", "pending"} => pc'[s] \notin {"idle", "pending"}
    BY <1>0, <1>3
    DEF RunStep, Start, Succeed, Block, Fail, Reject, Completed, Notify, SkipBlocked, TypeOK
  <2> QED  BY <1>0, <2>1, <2>2 DEF StrayInv
<1>4. CASE UNCHANGED vars \/ \E t \in Tasks : WindowElapses(t)
    BY <1>4 DEF vars, drainVars, WindowElapses, StrayInv
<1> QED  BY <1>1, <1>2, <1>3, <1>4 DEF Next

\* A run answers for its task until it has left the executor's try: while it
\* holds it the task is running, and from then on it has succeeded.
Settling(r) == pc[r] = "completed" \/ r \in guarded
Holding(r) == pc[r] \in InUse \/ Settling(r)

Draining == {"claim", "wait", "sweep", "announce", "shutdown"}

HoldInv ==
    /\ \A r \in Singles : pc[r] \in InUse => state[TaskOf(r)] = "running"
    /\ \A r \in Singles : Settling(r) => state[TaskOf(r)] = "succeeded"
    /\ \A r \in guarded : pc[r] \in Draining
    /\ \A r, s \in Singles :
          Holding(r) /\ Holding(s) /\ TaskOf(r) = TaskOf(s) => r = s

\* A step that makes no run hold a task, and leaves the held tasks alone.
LEMMA HoldFrame ==
    ASSUME TypeOK, HoldInv,
           \A r \in Singles : pc'[r] = pc[r] \/ pc'[r] \notin InUse \cup {"completed"},
           \A r \in Singles : r \in guarded' => r \in guarded,
           \A r \in guarded' : pc'[r] \in Draining,
           \A r \in Singles : Holding(r)' => state'[TaskOf(r)] = state[TaskOf(r)]
    PROVE  HoldInv'
<1>1. \A r \in Singles : Holding(r)' => Holding(r)
    BY DEF Holding, Settling
<1>2. \A r \in Singles : pc'[r] \in InUse => state'[TaskOf(r)] = "running"
    BY DEF HoldInv, Holding
<1>3. \A r \in Singles : Settling(r)' => state'[TaskOf(r)] = "succeeded"
    BY DEF HoldInv, Holding, Settling
<1> QED  BY <1>1, <1>2, <1>3 DEF HoldInv, Settling

\* The same for a step that changes no task that is running or has succeeded,
\* but for those that may be registered again.
LEMMA HoldFrameOfTasks ==
    ASSUME TypeOK, HoldInv,
           \A r \in Singles : pc'[r] = pc[r] \/ pc'[r] \notin InUse \cup {"completed"},
           \A r \in Singles : r \in guarded' => r \in guarded,
           \A r \in guarded' : (r \in guarded /\ pc'[r] = pc[r]) \/ pc'[r] \in Draining,
           \A t \in Tasks \ Renewed :
               state[t] \in {"running", "succeeded"} => state'[t] = state[t]
    PROVE  HoldInv'
<1>1. \A r \in Singles : Holding(r)' => Holding(r)
    BY DEF Holding, Settling
<1>2. \A r \in Singles : Holding(r)' => state'[TaskOf(r)] = state[TaskOf(r)]
    BY <1>1, TaskOfRun DEF HoldInv, Holding, Singles
<1>3. \A r \in guarded' : pc'[r] \in Draining
    BY DEF HoldInv
<1> QED  BY <1>2, <1>3, HoldFrame

LEMMA SkipTaskKeeps ==
    ASSUME TypeOK, NEW t \in Tasks, SkipTask(t),
           NEW u \in Tasks, state[u] \in Success \cup {"running"}
    PROVE  state'[u] = state[u]
<1>1. CASE state[t] \in Success \cup {"running"}
    BY <1>1 DEF SkipTask, queueVars
<1>2. CASE state[t] \notin Success \cup {"running"}
    BY <1>2 DEF SkipTask, TypeOK, Success
<1> QED  BY <1>1, <1>2

LEMMA RetryOrFailKeeps ==
    ASSUME TypeOK, NEW r \in Runs, RetryOrFail(r), NEW u \in Tasks, u # TaskOf(r)
    PROVE  state'[u] = state[u]
BY DEF RetryOrFail, Mark, TypeOK

LEMMA HoldStep ==
    ASSUME TypeOK, StrayInv, HoldInv, [Next]_vars
    PROVE  HoldInv'
<1> USE DEF Goto, Threads, InUse, Finished, Singles
<1>0. CASE UNCHANGED vars
    BY <1>0 DEF vars, queueVars, drainVars, HoldInv, Holding, Settling
<1>1. ASSUME NEW c \in Callers, CallerStep(c) PROVE HoldInv'
  <2> c \notin Runs
    BY ThreadAssumption
  <2>1. /\ \A r \in Runs : pc'[r] = pc[r]
        /\ guarded' = guarded
    BY <1>1 DEF CallerStep, Register, Drain, Cancel, Retry, Skip, TypeOK, drainVars
  <2>2. \A t \in Tasks \ Renewed :
            state[t] \in {"running", "succeeded"} => state'[t] = state[t]
    <3> SUFFICES ASSUME NEW u \in Tasks \ Renewed, state[u] \in {"running", "succeeded"}
                 PROVE  state'[u] = state[u]
        OBVIOUS
    <3>1. ASSUME NEW t \in Tasks, Register(c, t) PROVE state'[u] = state[u]
        BY <3>1 DEF Register, TypeOK
    <3>2. ASSUME NEW n \in Limits \cup {NoLimit}, Drain(c, n) PROVE state'[u] = state[u]
        BY <3>2 DEF Drain, queueVars
    <3>3. ASSUME NEW t \in Tasks, Cancel(c, t) PROVE state'[u] = state[u]
        BY <3>3 DEF Cancel, TypeOK, Pending
    <3>4. ASSUME NEW t \in Tasks, Retry(c, t) PROVE state'[u] = state[u]
        BY <3>4 DEF Retry, TypeOK, Stopped
    <3>5. ASSUME NEW t \in Tasks, Skip(c, t) PROVE state'[u] = state[u]
        BY <3>5, SkipTaskKeeps DEF Skip, Success
    <3> QED  BY <1>1, <3>1, <3>2, <3>3, <3>4, <3>5 DEF CallerStep
  <2>3. \A r \in guarded : r \in Runs
    BY DEF TypeOK
  <2> QED  BY <2>1, <2>2, <2>3, HoldFrameOfTasks
<1>2. ASSUME NEW th \in Threads, LimitReached(th) PROVE HoldInv'
  <2>1. UNCHANGED <<state, guarded>>
    BY <1>2 DEF LimitReached, queueVars, drainVars
  <2>2. \A r \in Runs : pc'[r] = IF r = th THEN "shutdown" ELSE pc[r]
    BY <1>2 DEF LimitReached, TypeOK
  <2>3. \A r \in guarded : r \in Runs
    BY DEF TypeOK
  <2> QED  BY <2>1, <2>2, <2>3, HoldFrameOfTasks DEF Draining
<1>3. ASSUME NEW th \in Threads, Claim(th) PROVE HoldInv'
  <2> PICK C \in SUBSET {t \in Tasks : Ready(t)} :
        /\ state' = [t \in Tasks |-> IF t \in C THEN "running" ELSE state[t]]
        /\ pc' = [x \in Threads |->
              IF x = th THEN IF C = {} /\ InFlight(th) = {} THEN "sweep" ELSE "wait"
              ELSE IF x \in {y \in Runs : TaskOf(y) \in C /\ FirstIdle(y)}
                   THEN "pending" ELSE pc[x]]
    BY <1>3 DEF Claim
  <2> DEFINE New(r) == r # th /\ TaskOf(r) \in C /\ FirstIdle(r)
  <2>1. guarded' = guarded /\ pc[th] = "claim"
    BY <1>3 DEF Claim
  <2>2. \A r \in Runs : pc'[r] = IF r = th THEN IF C = {} /\ InFlight(th) = {} THEN "sweep" ELSE "wait"
                                 ELSE IF New(r) THEN "pending" ELSE pc[r]
    OBVIOUS
  <2>3. \A t \in C : state[t] \notin {"running", "succeeded"}
    BY DEF Ready, Pending
  <2>4. \A r \in Singles : Holding(r) => TaskOf(r) \notin C
    BY <2>3 DEF HoldInv, Holding
  <2>5. \A r \in Runs : New(r) => pc[r] = "idle"
    BY DEF FirstIdle
  <2>6. \A r \in Singles : Holding(r)' => New(r) \/ Holding(r)
    BY <2>1, <2>2 DEF Holding, Settling
  <2>7. \A r, s \in Runs : New(r) /\ New(s) /\ TaskOf(r) = TaskOf(s) => r = s
    <3> SUFFICES ASSUME NEW r \in Runs, NEW s \in Runs, New(r), New(s),
                        TaskOf(r) = TaskOf(s)
                 PROVE  r = s
        OBVIOUS
    <3>1. r = <<TaskOf(r), r[2]>> /\ s = <<TaskOf(s), s[2]>>
        BY DEF Runs, TaskOf
    <3>2. r[2] \in 1 .. Slots /\ s[2] \in 1 .. Slots
        BY DEF Runs
    <3>3. ~(r[2] < s[2]) /\ ~(s[2] < r[2])
        BY <3>1, <3>2, ThreadAssumption DEF FirstIdle, TaskOf
    <3> QED  BY <3>1, <3>2, <3>3, ThreadAssumption
  <2>8. \A r \in Singles : pc'[r] \in InUse => state'[TaskOf(r)] = "running"
    BY <2>2, TaskOfRun DEF HoldInv
  <2>9. \A r \in Singles : Settling(r)' => state'[TaskOf(r)] = "succeeded"
    <3> SUFFICES ASSUME NEW r \in Singles, Settling(r)' PROVE state'[TaskOf(r)] = "succeeded"
        OBVIOUS
    <3>1. Settling(r)
        BY <2>1, <2>2 DEF Settling
    <3>2. state[TaskOf(r)] = "succeeded" /\ TaskOf(r) \notin C
        BY <3>1, <2>4 DEF HoldInv, Holding
    <3> QED  BY <3>2, TaskOfRun
  <2>10. \A r \in guarded' : pc'[r] \in Draining
    <3> SUFFICES ASSUME NEW r \in guarded PROVE pc'[r] \in Draining
        BY <2>1
    <3>1. r \in Runs /\ pc[r] \in Draining
        BY DEF HoldInv, TypeOK
    <3> QED  BY <3>1, <2>2, <2>5 DEF Draining
  <2>11. \A r, s \in Singles : Holding(r)' /\ Holding(s)' /\ TaskOf(r) = TaskOf(s) => r = s
    BY <2>4, <2>6, <2>7 DEF HoldInv
  <2> QED  BY <2>8, <2>9, <2>10, <2>11 DEF HoldInv
<1>4. ASSUME NEW th \in Threads, Sweep(th) PROVE HoldInv'
  <2>1. \A t \in Tasks : state[t] \in {"running", "succeeded"} => state'[t] = state[t]
    BY <1>4 DEF Sweep, TypeOK, Pending
  <2>2. guarded' = guarded
    BY <1>4 DEF Sweep, drainVars
  <2>3. \A r \in Runs : pc'[r] = pc[r] \/ (pc'[r] \in {"shutdown", "announce"})
    BY <1>4 DEF Sweep, TypeOK
  <2>4. \A r \in guarded : r \in Runs
    BY DEF TypeOK
  <2> QED  BY <2>1, <2>2, <2>3, <2>4, HoldFrameOfTasks DEF Draining
<1>5. ASSUME NEW th \in Threads, Announce(th) PROVE HoldInv'
  <2>1. UNCHANGED <<state, guarded>>
    BY <1>5 DEF Announce, queueVars
  <2>2. \A r \in Runs : pc'[r] = IF r = th THEN "shutdown" ELSE pc[r]
    BY <1>5 DEF Announce, TypeOK
  <2>3. \A r \in guarded : r \in Runs
    BY DEF TypeOK
  <2> QED  BY <2>1, <2>2, <2>3, HoldFrameOfTasks DEF Draining
<1>6. ASSUME NEW th \in Threads, Collect(th) PROVE HoldInv'
  <2>1. UNCHANGED <<state, guarded>>
    BY <1>6 DEF Collect, queueVars
  <2>2. \A r \in Runs : \/ pc'[r] = pc[r]
                        \/ r = th /\ pc'[r] \in {"shutdown", "claim"}
                        \/ pc[r] \in Finished /\ pc'[r] = "idle"
    BY <1>6 DEF Collect, TypeOK
  <2>3. \A r \in guarded : r \in Runs /\ pc[r] \notin Finished
    BY DEF TypeOK, HoldInv, Draining
  <2> QED  BY <2>1, <2>2, <2>3, HoldFrameOfTasks DEF Draining
<1>7. ASSUME NEW th \in Threads, Shutdown(th) PROVE HoldInv'
  <2>1. guarded' = guarded \ {th} /\ pc[th] = "shutdown"
    BY <1>7 DEF Shutdown
  <2>2. \A r \in Runs : \/ pc'[r] = pc[r] /\ r # th
                        \/ r = th /\ pc'[r] \in {"idle", "notify", "raised", "done"}
                        \/ r # th /\ pc[r] \in Finished /\ pc'[r] = "idle"
    BY <1>7 DEF Shutdown, TypeOK, InFlight
  <2>3. \A r \in Singles : Holding(r)' => state'[TaskOf(r)] = state[TaskOf(r)]
    <3>1. CASE th \in failing \cap guarded
      <4>1. th \in Runs /\ RetryOrFail(th)
        BY <1>7, <3>1 DEF Shutdown, TypeOK
      <4>2. ASSUME NEW r \in Singles, Holding(r)' PROVE TaskOf(r) # TaskOf(th)
        <5>1. r # th /\ Holding(r)
            BY <2>1, <2>2, <4>1, <4>2 DEF Holding, Settling
        <5>2. Holding(th)
            BY <3>1 DEF Holding, Settling
        <5> QED  BY <4>1, <5>1, <5>2 DEF HoldInv
      <4>3. ASSUME NEW r \in Singles, Holding(r)' PROVE state'[TaskOf(r)] = state[TaskOf(r)]
        BY <4>1, <4>2, <4>3, TaskOfRun, RetryOrFailKeeps
      <4> QED  BY <4>3
    <3>2. CASE th \notin failing \cap guarded
        BY <1>7, <3>2 DEF Shutdown, queueVars
    <3> QED  BY <3>1, <3>2
  <2>4. \A r \in guarded' : pc'[r] \in Draining
    <3> SUFFICES ASSUME NEW r \in guarded, r # th PROVE pc'[r] \in Draining
        BY <2>1
    <3>1. r \in Runs /\ pc[r] \in Draining
        BY DEF HoldInv, TypeOK
    <3> QED  BY <3>1, <2>2 DEF Draining
  <2>5. \A r \in Runs : pc'[r] = pc[r] \/ pc'[r] \notin InUse \cup {"completed"}
    BY <2>2
  <2>6. guarded' \subseteq guarded
    BY <2>1
  <2> QED  BY <2>3, <2>4, <2>5, <2>6, HoldFrame
<1>8. ASSUME NEW r \in Runs, RunStep(r) PROVE HoldInv'
  <2>0. TaskOf(r) \in Tasks /\ r \in Threads
    BY TaskOfRun
  <2>1. \A s \in Runs \ {r} : pc'[s] = pc[s]
    BY <1>8 DEF RunStep, Start, Succeed, Block, Fail, Reject, Completed, Notify,
                SkipBlocked, TypeOK
  <2>2. /\ pc[r] \in {"pending", "executing", "completed", "notify", "skipping"}
        /\ guarded' = guarded \/ (guarded' = guarded \cup {r} /\ pc'[r] = "claim")
    BY <1>8, <2>0
    DEF RunStep, Start, Succeed, Block, Fail, Reject, Completed, Notify, SkipBlocked, TypeOK,
        drainVars
  <2>3. r \notin guarded /\ guarded \subseteq Runs
    BY <2>2 DEF HoldInv, Draining, TypeOK
  <2>4. \A s \in guarded' : (s \in guarded /\ pc'[s] = pc[s]) \/ pc'[s] \in Draining
    BY <2>1, <2>2, <2>3 DEF Draining
  <2>5. CASE SkipBlocked(r)
    <3>1. SkipTask(TaskOf(r)) /\ pc'[r] = "claim" /\ guarded' = guarded
        BY <2>0, <2>5 DEF SkipBlocked, TypeOK, drainVars
    <3>2. \A t \in Tasks \ Renewed :
            state[t] \in {"running", "succeeded"} => state'[t] = state[t]
        BY <2>0, <3>1, SkipTaskKeeps DEF Success
    <3>3. \A s \in Singles : pc'[s] = pc[s] \/ pc'[s] \notin InUse \cup {"completed"}
        BY <2>1, <3>1
    <3> QED  BY <2>4, <3>1, <3>2, <3>3, HoldFrameOfTasks
  <2>6. ASSUME ~SkipBlocked(r)
        PROVE  \A t \in Tasks \ {TaskOf(r)} : state'[t] = state[t]
    BY <1>8, <2>6, RetryOrFailKeeps
    DEF RunStep, Start, Succeed, Block, Fail, Reject, Completed, Notify, Mark, queueVars, TypeOK
  <2>7. CASE TaskOf(r) \in Renewed /\ ~SkipBlocked(r)
    <3>1. \A s \in Singles : s # r
        BY <2>7
    <3>2. \A t \in Tasks \ Renewed :
            state[t] \in {"running", "succeeded"} => state'[t] = state[t]
        BY <2>6, <2>7
    <3>3. /\ \A s \in Singles : pc'[s] = pc[s]
          /\ \A s \in Singles : s \in guarded' => s \in guarded
        BY <2>1, <2>2, <3>1
    <3> QED  BY <2>4, <3>2, <3>3, HoldFrameOfTasks
  <2>8. CASE TaskOf(r) \notin Renewed /\ ~SkipBlocked(r)
    <3>0. r \in Singles /\ r \notin stray
        BY <2>8 DEF StrayInv
    <3>1. \A s \in Singles \ {r} : /\ pc'[s] \in InUse <=> pc[s] \in InUse
                                   /\ Settling(s)' <=> Settling(s)
                                   /\ Holding(s)' <=> Holding(s)
        BY <2>1, <2>2 DEF Settling, Holding
    <3>2. \A s \in Singles \ {r} :
            Holding(r) /\ Holding(s) => state'[TaskOf(s)] = state[TaskOf(s)]
        BY <2>6, <2>8, <3>0, TaskOfRun DEF HoldInv
    <3>3. CASE Start(r)
      <4>1. pc[r] = "pending" /\ pc'[r] = "executing" /\ UNCHANGED <<state, guarded>>
        BY <3>3, <2>0 DEF Start, TypeOK, queueVars, drainVars
      <4>2. \A s \in Singles : /\ pc'[s] \in InUse <=> pc[s] \in InUse
                               /\ Settling(s)' <=> Settling(s)
        BY <3>1, <4>1 DEF Settling
      <4>3. \A s \in guarded' : pc'[s] \in Draining
        BY <2>4 DEF HoldInv
      <4> QED  BY <4>1, <4>2, <4>3 DEF HoldInv, Holding
    <3>4. CASE Succeed(r) \/ Block(r) \/ Fail(r) \/ Reject(r)
      <4>1. pc[r] = "executing" /\ pc'[r] \in {"completed", "notify"} /\ guarded' = guarded
        BY <3>4, <2>0 DEF Succeed, Block, Fail, Reject, TypeOK, drainVars
      <4>2. pc'[r] = "completed" => state'[TaskOf(r)] = "succeeded"
        BY <3>4, <3>0, <2>0 DEF Succeed, Block, Fail, Reject, Mark, TypeOK
      <4>3. Holding(r)
        BY <4>1 DEF Holding
      <4>4. \A s \in Singles : pc'[s] \in InUse => state'[TaskOf(s)] = "running"
        BY <3>1, <3>2, <4>1, <4>3 DEF HoldInv, Holding
      <4>5. \A s \in Singles : Settling(s)' => state'[TaskOf(s)] = "succeeded"
        BY <2>3, <3>1, <3>2, <4>1, <4>2, <4>3 DEF HoldInv, Holding, Settling
      <4>6. \A s \in guarded' : pc'[s] \in Draining
        BY <2>4 DEF HoldInv
      <4>7. \A s, x \in Singles : Holding(s)' /\ Holding(x)' /\ TaskOf(s) = TaskOf(x) => s = x
        BY <3>0, <3>1, <4>3 DEF HoldInv
      <4> QED  BY <4>4, <4>5, <4>6, <4>7 DEF HoldInv
    <3>5. CASE Completed(r) /\ RetryOrFail(r) /\ Goto(r, "notify") /\ UNCHANGED guarded
      <4>1. pc[r] = "completed" /\ pc'[r] = "notify" /\ Holding(r)
        BY <3>5, <2>0 DEF Completed, TypeOK, Holding, Settling
      <4>2. \A s \in Singles : Holding(s)' => s # r /\ Holding(s)
        BY <2>3, <3>1, <3>5, <4>1 DEF Holding, Settling
      <4>3. \A s \in Singles : Holding(s)' => state'[TaskOf(s)] = state[TaskOf(s)]
        BY <3>2, <4>1, <4>2
      <4>4. \A s \in Singles : pc'[s] = pc[s] \/ pc'[s] \notin InUse \cup {"completed"}
        BY <2>1, <4>1
      <4>5. \A s \in guarded' : pc'[s] \in Draining
        BY <2>4 DEF HoldInv
      <4> QED  BY <3>5, <4>3, <4>4, <4>5, HoldFrame
    <3>6. CASE Completed(r) /\ guarded' = guarded \cup {r} /\ Goto(r, "claim")
               /\ UNCHANGED queueVars
      <4>1. pc[r] = "completed" /\ pc'[r] = "claim" /\ Holding(r) /\ UNCHANGED state
        BY <3>6, <2>0 DEF Completed, TypeOK, Holding, Settling, queueVars
      <4>2. \A s \in Singles : /\ pc'[s] \in InUse <=> pc[s] \in InUse
                               /\ Settling(s)' <=> Settling(s)
        BY <3>1, <3>6, <4>1 DEF Settling
      <4>3. \A s \in guarded' : pc'[s] \in Draining
        BY <2>4 DEF HoldInv
      <4> QED  BY <4>1, <4>2, <4>3 DEF HoldInv, Holding
    <3>7. CASE Notify(r)
      <4>1. pc'[r] \in {"skipping", "claim", "raised"} /\ UNCHANGED <<state, guarded>>
        BY <3>7, <2>0 DEF Notify, TypeOK, queueVars, drainVars
      <4>2. \A s \in Singles : pc'[s] = pc[s] \/ pc'[s] \notin InUse \cup {"completed"}
        BY <2>1, <4>1
      <4> QED  BY <2>4, <4>1, <4>2, HoldFrameOfTasks
    <3> QED  BY <1>8, <2>8, <3>3, <3>4, <3>5, <3>6, <3>7 DEF RunStep, Completed
  <2> QED  BY <2>5, <2>7, <2>8
<1>9. ASSUME NEW t \in Tasks, WindowElapses(t) PROVE HoldInv'
  <2>1. UNCHANGED <<state, pc, guarded>>
    BY <1>9 DEF WindowElapses, drainVars
  <2> QED  BY <2>1, HoldFrameOfTasks
<1> QED
    BY <1>0, <1>1, <1>2, <1>3, <1>4, <1>5, <1>6, <1>7, <1>8, <1>9 DEF Next, DrainStep

-----------------------------------------------------------------------------
(* The life of a task                                                       *)

\* As long as no handler raises, no drain unwinds.
CalmInv ==
    ~HandlersMayRaise =>
        failing = {} /\ \A th \in Threads : pc[th] # "raised"

LEMMA CalmStep ==
    ASSUME TypeOK, CalmInv, [Next]_vars
    PROVE  CalmInv'
<1> USE DEF Goto, Threads
<1> SUFFICES ASSUME ~HandlersMayRaise
             PROVE  failing' = {} /\ \A th \in Threads : pc'[th] # "raised"
    BY DEF CalmInv
<1>0. failing = {} /\ \A th \in Threads : pc[th] # "raised"
    BY DEF CalmInv
<1>1. ASSUME NEW c \in Callers, CallerStep(c)
      PROVE  failing' = {} /\ \A th \in Threads : pc'[th] # "raised"
    BY <1>0, <1>1
    DEF CallerStep, Register, Drain, Cancel, Retry, Skip, TypeOK, drainVars
<1>2. ASSUME NEW th \in Threads, DrainStep(th)
      PROVE  failing' = {} /\ \A x \in Threads : pc'[x] # "raised"
  <2>1. CASE LimitReached(th) \/ Sweep(th) \/ Announce(th)
    BY <1>0, <2>1 DEF LimitReached, Sweep, Announce, TypeOK, drainVars
  <2>2. CASE Claim(th)
    BY <1>0, <2>2 DEF Claim, TypeOK
  <2>3. CASE Collect(th)
    BY <1>0, <2>3 DEF Collect, InFlight, TypeOK
  <2>4. CASE Shutdown(th)
    BY <1>0, <2>4 DEF Shutdown, TypeOK
  <2> QED  BY <1>2, <2>1, <2>2, <2>3, <2>4 DEF DrainStep
<1>3. ASSUME NEW r \in Runs, RunStep(r)
      PROVE  failing' = {} /\ \A x \in Threads : pc'[x] # "raised"
    BY <1>0, <1>3 DEF RunStep, Start, Succeed, Block, Fail, Reject, Completed, Notify,
                      SkipBlocked, TypeOK, drainVars
<1>4. ASSUME NEW t \in Tasks, WindowElapses(t)
      PROVE  failing' = {} /\ \A x \in Threads : pc'[x] # "raised"
    BY <1>0, <1>4 DEF WindowElapses, drainVars
<1>5. CASE UNCHANGED vars
    BY <1>0, <1>5 DEF vars, drainVars
<1> QED  BY <1>1, <1>2, <1>3, <1>4, <1>5 DEF Next

\* How a step may change the state of a task.
Moves(t) ==
    \/ state'[t] = state[t]
    \/ state[t] = "absent" /\ state'[t] \in {"queued", "skipped"}
    \/ state[t] \in Pending /\ state'[t] \in {"waiting", "blocked", "cancelled", "skipped"}
    \/ /\ \E th \in Threads : Claim(th)
       /\ Ready(t)
       /\ state'[t] = "running"
    \/ state[t] = "running" /\ state'[t] \in {"succeeded", "blocked", "queued", "failed"}
    \/ state[t] \in Stopped /\ state'[t] \in {"queued", "skipped"}
    \/ HandlersMayRaise /\ state[t] = "succeeded" /\ state'[t] \in {"queued", "failed"}
    \/ t \in Renewed /\ state'[t] \notin {"absent", "running"}

LEMMA SkipTaskMoves ==
    ASSUME TypeOK, NEW t \in Tasks, SkipTask(t), NEW u \in Tasks
    PROVE  Moves(u)
<1>1. CASE state[t] \in Success \cup {"running"}
    BY <1>1 DEF SkipTask, queueVars, Moves
<1>2. CASE state[t] \notin Success \cup {"running"}
    BY <1>2 DEF SkipTask, TypeOK, Moves, States, Active, Terminal, Stopped
<1> QED  BY <1>1, <1>2

LEMMA RetryOrFailState ==
    ASSUME TypeOK, NEW r \in Runs, RetryOrFail(r)
    PROVE  IF r \in stray THEN state' = state ELSE state'[TaskOf(r)] \in {"queued", "failed"}
BY TaskOfRun DEF RetryOrFail, Mark, TypeOK

LEMMA StepMoves ==
    ASSUME TypeOK, StrayInv, HoldInv, CalmInv, [Next]_vars, NEW t \in Tasks
    PROVE  Moves(t)
<1> USE DEF Moves
<1>1. ASSUME NEW c \in Callers, CallerStep(c) PROVE Moves(t)
  <2>1. ASSUME NEW u \in Tasks, Register(c, u) \/ Cancel(c, u) \/ Retry(c, u) PROVE Moves(t)
    BY <2>1 DEF Register, Cancel, Retry, TypeOK
  <2>2. ASSUME NEW n \in Limits \cup {NoLimit}, Drain(c, n) PROVE Moves(t)
    BY <2>2 DEF Drain, queueVars
  <2>3. ASSUME NEW u \in Tasks, Skip(c, u) PROVE Moves(t)
    BY <2>3, SkipTaskMoves DEF Skip
  <2> QED  BY <1>1, <2>1, <2>2, <2>3 DEF CallerStep
<1>2. ASSUME NEW th \in Threads, DrainStep(th) PROVE Moves(t)
  <2>1. CASE LimitReached(th) \/ Announce(th) \/ Collect(th)
    BY <2>1 DEF LimitReached, Announce, Collect, queueVars
  <2>2. CASE Claim(th)
    <3>1. PICK C \in SUBSET {u \in Tasks : Ready(u)} :
            state' = [u \in Tasks |-> IF u \in C THEN "running" ELSE state[u]]
        BY <2>2 DEF Claim
    <3> QED  BY <2>2, <3>1
  <2>3. CASE Sweep(th)
    BY <2>3 DEF Sweep, TypeOK, Pending
  <2>4. CASE Shutdown(th)
    <3>1. CASE th \in failing \cap guarded
      <4>1. /\ th \in Runs /\ TaskOf(th) \in Tasks
            /\ RetryOrFail(th)
            /\ HandlersMayRaise
        BY <2>4, <3>1, TaskOfRun, CallerAssumption DEF Shutdown, TypeOK, CalmInv
      <4>2. TaskOf(th) \notin Renewed => state[TaskOf(th)] = "succeeded"
        BY <3>1, <4>1 DEF HoldInv, Settling, Singles
      <4>3. state'[TaskOf(th)] \in {"queued", "failed"} \/ state' = state
        BY <4>1, RetryOrFailState
      <4>4. t # TaskOf(th) => state'[t] = state[t]
        BY <4>1, RetryOrFailKeeps
      <4> QED  BY <4>1, <4>2, <4>3, <4>4
    <3>2. CASE th \notin failing \cap guarded
        BY <2>4, <3>2 DEF Shutdown, queueVars
    <3> QED  BY <3>1, <3>2
  <2> QED  BY <1>2, <2>1, <2>2, <2>3, <2>4 DEF DrainStep
<1>3. ASSUME NEW r \in Runs, RunStep(r) PROVE Moves(t)
  <2>0. TaskOf(r) \in Tasks
    BY TaskOfRun
  <2>1. pc[r] = "executing" => state[TaskOf(r)] = "running" \/ TaskOf(r) \in Renewed
    BY DEF HoldInv, InUse, Singles
  <2>2. CASE Start(r) \/ Notify(r)
    BY <2>2 DEF Start, Notify, queueVars
  <2>3. CASE Succeed(r) \/ Block(r) \/ Reject(r)
    BY <2>0, <2>1, <2>3 DEF Succeed, Block, Reject, Mark, TypeOK
  <2>4. CASE Fail(r)
    <3>1. (state[TaskOf(r)] = "running" \/ TaskOf(r) \in Renewed) /\ RetryOrFail(r)
        BY <2>1, <2>4 DEF Fail
    <3> QED  BY <2>0, <3>1, RetryOrFailState, RetryOrFailKeeps
  <2>5. CASE Completed(r)
    <3>1. CASE UNCHANGED queueVars
        BY <3>1 DEF queueVars
    <3>2. CASE HandlersMayRaise /\ RetryOrFail(r)
      <4>1. state[TaskOf(r)] = "succeeded" \/ TaskOf(r) \in Renewed
        BY <2>5 DEF Completed, HoldInv, Settling, Singles
      <4> QED  BY <2>0, <3>2, <4>1, RetryOrFailState, RetryOrFailKeeps
    <3> QED  BY <2>5, <3>1, <3>2 DEF Completed
  <2>6. CASE SkipBlocked(r)
    BY <2>0, <2>6, SkipTaskMoves DEF SkipBlocked
  <2> QED  BY <1>3, <2>2, <2>3, <2>4, <2>5, <2>6 DEF RunStep
<1>4. ASSUME NEW u \in Tasks, WindowElapses(u) PROVE Moves(t)
    BY <1>4 DEF WindowElapses
<1>5. CASE UNCHANGED vars
    BY <1>5 DEF vars, queueVars
<1> QED  BY <1>1, <1>2, <1>3, <1>4, <1>5 DEF Next

QueueInv == TypeOK /\ StrayInv /\ HoldInv /\ CalmInv

LEMMA QueueInvariant == Spec => []QueueInv
<1>1. Init => QueueInv
    BY TypeInit
    DEF Init, QueueInv, StrayInv, HoldInv, CalmInv, Holding, Settling, InUse, Threads, Singles
<1>2. QueueInv /\ [Next]_vars => QueueInv'
    BY TypeStep, StrayStep, HoldStep, CalmStep DEF QueueInv
<1> QED  BY <1>1, <1>2, PTL DEF Spec

\* No two futures work on one task whose id is registered once, and such a task
\* is marked running while a future has it: whatever drains nest, race and raise,
\* and whatever runs of replaced objects do beside it (OneRunPerTask).
THEOREM RunsAreExclusive == Spec => []OneRunPerTask
<1>1. QueueInv => OneRunPerTask
    BY DEF QueueInv, HoldInv, OneRunPerTask, Holding, Singles
<1> QED  BY <1>1, QueueInvariant, PTL

-----------------------------------------------------------------------------
(* Dependencies                                                             *)

LEMMA DependenciesStep ==
    ASSUME QueueInv, DependenciesSucceeded, ~HandlersMayRaise, [Next]_vars
    PROVE  DependenciesSucceeded'
<1> SUFFICES ASSUME NEW t \in Tasks \ Renewed, state'[t] \in {"running", "succeeded"},
                    NEW x \in Deps[t] \ Renewed
             PROVE  state'[x] \in Success
    BY DEF DependenciesSucceeded
<1>0. x \in Tasks
    BY TaskAssumption
<1>1. Moves(t) /\ Moves(x)
    BY <1>0, StepMoves DEF QueueInv
<1>2. state[x] \in Success
  <2>1. CASE state[t] \in {"running", "succeeded"}
    BY <2>1 DEF DependenciesSucceeded
  <2>2. CASE Ready(t)
    <3>1. ~Blocking(state[x]) /\ state[x] \notin Active
        BY <2>2 DEF Ready, DependencyBlocked, MustWait, DependencyUnfinished
    <3>2. state[x] \in States
        BY <1>0 DEF QueueInv, TypeOK
    <3> QED  BY <3>1, <3>2 DEF Blocking, States, Terminal
  <2> QED  BY <1>1, <2>1, <2>2 DEF Moves
<1>3. state[x] \notin Pending \cup Stopped \cup {"absent", "running"}
    BY <1>2 DEF Success, Pending, Stopped
<1>4. ~Ready(x)
    BY <1>3 DEF Ready
<1> QED  BY <1>1, <1>2, <1>3, <1>4 DEF Moves, Success

\* A task only ever runs after everything it depends on succeeded or was
\* skipped, and what it rested on stays so, unless a handler raises or an id is
\* registered again (DependenciesSucceeded).
THEOREM DependenciesHold ==
    ASSUME ~HandlersMayRaise
    PROVE  Spec => []DependenciesSucceeded
<1>1. Init => DependenciesSucceeded
    BY DEF Init, DependenciesSucceeded
<1>2. QueueInv /\ DependenciesSucceeded /\ [Next]_vars => DependenciesSucceeded'
    BY DependenciesStep
<1> QED  BY <1>1, <1>2, QueueInvariant, PTL DEF Spec

-----------------------------------------------------------------------------
(* Concurrency                                                              *)

RunningOf(k) == {t \in Tasks : KeyOf[t] = k /\ state[t] = "running"}

KeyInv == \A k \in Keys : Cardinality(RunningOf(k)) <= Limit[k]

\* Of the tasks of a set one is claimed last.
LEMMA LastClaimed ==
    ASSUME NEW C \in SUBSET Tasks, C # {}
    PROVE  \E t \in C : \A u \in C : Rank[u] <= Rank[t]
<1> DEFINE Above(t) == {u \in C : Rank[u] > Rank[t]}
           Sizes == {Cardinality(Above(t)) : t \in C}
<1>1. \A t \in C : IsFiniteSet(Above(t)) /\ Cardinality(Above(t)) \in Nat
  <2> SUFFICES ASSUME NEW t \in C PROVE IsFiniteSet(Above(t)) /\ Cardinality(Above(t)) \in Nat
    OBVIOUS
  <2> Above(t) \in SUBSET Tasks
    OBVIOUS
  <2> QED  BY ClaimSize
<1>2. Sizes \subseteq Nat /\ Sizes # {}
    BY <1>1
<1>3. PICK n \in Sizes : \A m \in Sizes : <<m, n>> \notin OpToRel(<, Nat)
    BY <1>2, WFMin, NatLessThanWellFounded
<1>4. \A m \in Sizes : ~(m < n)
    BY <1>2, <1>3 DEF OpToRel
<1>5. PICK t \in C : n = Cardinality(Above(t))
    OBVIOUS
<1>6. ASSUME NEW u \in C, ~(Rank[u] <= Rank[t]) PROVE FALSE
  <2>1. Rank[u] \in Nat /\ Rank[t] \in Nat /\ Rank[u] > Rank[t]
    BY <1>6, TaskAssumption
  <2>2. Above(u) \in SUBSET Above(t) /\ u \in Above(t) /\ u \notin Above(u)
    BY <2>1, TaskAssumption
  <2>3. Cardinality(Above(u)) <= Cardinality(Above(t)) /\ Cardinality(Above(u)) # Cardinality(Above(t))
    BY <1>1, <2>2, FS_Subset
  <2>4. Cardinality(Above(u)) < Cardinality(Above(t))
    BY <1>1, <2>3
  <2>5. Cardinality(Above(u)) \in Sizes
    OBVIOUS
  <2> HIDE DEF Sizes, Above
  <2> QED  BY <1>4, <1>5, <2>4, <2>5
<1> QED  BY <1>6

\* A pass of _claim_ready_tasks fills a key up to its limit.
LEMMA ClaimKeepsRoom ==
    ASSUME NEW C \in SUBSET Tasks, NEW n, IsClaim(C, n), NEW k \in Keys,
           Cardinality(RunningOf(k)) <= Limit[k]
    PROVE  Cardinality({t \in Tasks : KeyOf[t] = k /\ (state[t] = "running" \/ t \in C)}) <= Limit[k]
<1> DEFINE K == {t \in Tasks : KeyOf[t] = k /\ (state[t] = "running" \/ t \in C)}
           New == {t \in C : KeyOf[t] = k}
<1>1. CASE New = {}
  <2> K = RunningOf(k)
    BY <1>1 DEF RunningOf
  <2> QED  OBVIOUS
<1>2. CASE New # {}
  <2>1. PICK t \in New : \A u \in New : Rank[u] <= Rank[t]
    BY <1>2, LastClaimed
  <2> DEFINE earlier == {u \in C : Rank[u] < Rank[t]}
             H == Holders(t, earlier)
  <2>2. HasRoom(t, earlier) /\ KeyOf[t] = k /\ k # NoKey
    BY KeyAssumption DEF IsClaim
  <2>3. Cardinality(H) < Limit[k]
    BY <2>2 DEF HasRoom
  <2>4. \A u \in New \ {t} : u \in earlier
    <3> SUFFICES ASSUME NEW u \in New \ {t} PROVE Rank[u] < Rank[t]
        OBVIOUS
    <3>1. Rank[u] \in Nat /\ Rank[t] \in Nat /\ Rank[u] # Rank[t] /\ Rank[u] <= Rank[t]
        BY <2>1, TaskAssumption
    <3> QED  BY <3>1
  <2>5. K \ {t} \subseteq H
    BY <2>2, <2>4 DEF Holders
  <2>6. H \in SUBSET Tasks /\ K \in SUBSET Tasks /\ t \in K
    BY <2>2 DEF Holders
  <2>7. /\ IsFiniteSet(K) /\ Cardinality(K) \in Nat
        /\ IsFiniteSet(H) /\ Cardinality(H) \in Nat
    BY <2>6, ClaimSize
  <2>8. Cardinality(K \ {t}) = Cardinality(K) - 1
    BY <2>6, <2>7, FS_RemoveElement
  <2>9. Cardinality(K \ {t}) <= Cardinality(H)
    BY <2>5, <2>7, FS_Subset
  <2>10. Limit[k] \in Nat
    BY KeyAssumption
  <2> QED  BY <2>3, <2>7, <2>8, <2>9, <2>10
<1> QED  BY <1>1, <1>2

LEMMA KeyStep ==
    ASSUME QueueInv, KeyInv, [Next]_vars
    PROVE  KeyInv'
<1> SUFFICES ASSUME NEW k \in Keys PROVE Cardinality(RunningOf(k)') <= Limit[k]
    BY DEF KeyInv, RunningOf
<1>1. CASE \E th \in Threads : Claim(th)
  <2>1. PICK th \in Threads, C \in SUBSET {t \in Tasks : Ready(t)} :
            /\ IsClaim(C, IF limit[th] = NoLimit THEN NoLimit ELSE Remaining(th))
            /\ state' = [t \in Tasks |-> IF t \in C THEN "running" ELSE state[t]]
    BY <1>1 DEF Claim
  <2>2. RunningOf(k)' = {t \in Tasks : KeyOf[t] = k /\ (state[t] = "running" \/ t \in C)}
    BY <2>1 DEF RunningOf
  <2>3. Cardinality(RunningOf(k)) <= Limit[k]
    BY DEF KeyInv
  <2> QED  BY <2>1, <2>2, <2>3, ClaimKeepsRoom
<1>2. CASE ~\E th \in Threads : Claim(th)
  <2>1. RunningOf(k)' \in SUBSET RunningOf(k)
    BY <1>2, StepMoves DEF QueueInv, RunningOf, Moves
  <2>2. RunningOf(k) \in SUBSET Tasks
    BY DEF RunningOf
  <2>3. /\ IsFiniteSet(RunningOf(k)) /\ Cardinality(RunningOf(k)) \in Nat
        /\ Cardinality(RunningOf(k)') \in Nat
    BY <2>1, <2>2, ClaimSize
  <2>4. Cardinality(RunningOf(k)') <= Cardinality(RunningOf(k))
    BY <2>1, <2>3, FS_Subset
  <2>5. Cardinality(RunningOf(k)) <= Limit[k] /\ Limit[k] \in Nat
    BY KeyAssumption DEF KeyInv
  <2> QED  BY <2>3, <2>4, <2>5
<1> QED  BY <1>1, <1>2

ExecutorsOf(k) ==
    {r \in Runs : KeyOf[TaskOf(r)] = k /\ TaskOf(r) \notin Renewed /\ pc[r] = "executing"}

\* Executors run only for tasks marked running, one for each.
LEMMA ExecutorsWithinKey ==
    ASSUME QueueInv, NEW k \in Keys
    PROVE  Cardinality(ExecutorsOf(k))
              <= Cardinality(RunningOf(k))
<1> DEFINE E == ExecutorsOf(k)
           f == [r \in E |-> TaskOf(r)]
<1>1. f \in [E -> RunningOf(k)]
    BY TaskOfRun DEF QueueInv, HoldInv, InUse, RunningOf, ExecutorsOf, Singles
<1>2. \A r, s \in E : f[r] = f[s] => r = s
    BY DEF QueueInv, HoldInv, Holding, InUse, ExecutorsOf, Singles
<1>3. f \in Injection(E, RunningOf(k))
    BY <1>1, <1>2 DEF Injection, IsInjective
<1>4. IsFiniteSet(RunningOf(k))
  <2> RunningOf(k) \in SUBSET Tasks
    BY DEF RunningOf
  <2> QED  BY ClaimSize
<1> QED  BY <1>3, <1>4, FS_Injection

\* However many drains claim at once, nested or not, no key ever has more
\* running tasks than its limit, nor more busy executors, leaving aside those of
\* ids that may be registered again (ConcurrencyLimit).
THEOREM LimitsHold == Spec => []ConcurrencyLimit
<1>1. Init => KeyInv
  <2> SUFFICES ASSUME Init, NEW k \in Keys PROVE Cardinality(RunningOf(k)) <= Limit[k]
    BY DEF KeyInv
  <2>1. RunningOf(k) = {}
    BY DEF Init, RunningOf
  <2> QED  BY <2>1, FS_EmptySet, KeyAssumption
<1>2. QueueInv /\ KeyInv /\ [Next]_vars => KeyInv'
    BY KeyStep
<1>3. QueueInv /\ KeyInv => ConcurrencyLimit
  <2> SUFFICES ASSUME QueueInv, KeyInv, NEW k \in Keys
               PROVE  /\ Cardinality(RunningOf(k)) <= Limit[k]
                      /\ Cardinality(ExecutorsOf(k)) <= Limit[k]
    BY DEF ConcurrencyLimit, RunningOf, ExecutorsOf
  <2> DEFINE E == ExecutorsOf(k)
  <2>1. Cardinality(RunningOf(k)) <= Limit[k]
    BY DEF KeyInv
  <2>2. Cardinality(E) <= Cardinality(RunningOf(k))
    BY ExecutorsWithinKey
  <2>3. Cardinality(RunningOf(k)) \in Nat /\ Limit[k] \in Nat
    <3> RunningOf(k) \in SUBSET Tasks
        BY DEF RunningOf
    <3>1. Cardinality(RunningOf(k)) \in Nat
        BY ClaimSize
    <3> QED  BY <3>1, KeyAssumption
  <2>4. Cardinality(E) \in Nat
    <3>1. IsFiniteSet(Runs)
      <4>1. IsFiniteSet(1 .. Slots)
        BY ThreadAssumption, FS_Interval
      <4> QED  BY <4>1, ThreadAssumption, FS_Product DEF Runs
    <3>2. E \in SUBSET Runs
        BY DEF ExecutorsOf
    <3> HIDE DEF E
    <3>3. IsFiniteSet(E)
        BY <3>1, <3>2, FS_Subset
    <3> QED  BY <3>3, FS_CardinalityType
  <2> QED  BY <2>1, <2>2, <2>3, <2>4
<1> QED  BY <1>1, <1>2, <1>3, QueueInvariant, PTL DEF Spec

-----------------------------------------------------------------------------
(* Attempts                                                                 *)

MaxOf(t) == IF MaxAttempts[t] > 1 THEN MaxAttempts[t] ELSE 1

Bounded(t) == NobodySkips \/ ~BlocksByItself(t)

\* The states from which a task may be claimed again without a reset: a skip
\* takes a blocked task back to the queue.
Claimable == Pending \cup {"absent"} \cup IF NobodySkips THEN {} ELSE {"blocked"}

\* A task that may still be claimed has an attempt left.
BudgetInv ==
    /\ \A t \in Tasks : Bounded(t) => attempt[t] <= MaxOf(t)
    /\ \A t \in Tasks : Bounded(t) /\ state[t] \in Claimable => attempt[t] < MaxOf(t)
    /\ \A th \in Threads : NobodySkips => pc[th] # "skipping"

LEMMA MaxOfType ==
    ASSUME NEW t \in Tasks
    PROVE  MaxOf(t) \in Nat /\ MaxOf(t) >= 1
BY TaskAssumption DEF MaxOf

\* A step that starts no task and makes none claimable that has no attempt left.
LEMMA BudgetFrame ==
    ASSUME TypeOK, BudgetInv, NEW t \in Tasks, Bounded(t),
           attempt'[t] = attempt[t] \/ attempt'[t] = 0,
           state'[t] \in Claimable =>
              \/ state[t] \in Claimable
              \/ attempt[t] < MaxOf(t)
              \/ attempt'[t] = 0
    PROVE  /\ attempt'[t] <= MaxOf(t)
           /\ state'[t] \in Claimable => attempt'[t] < MaxOf(t)
BY MaxOfType DEF BudgetInv, TypeOK

LEMMA RetryOrFailBudget ==
    ASSUME TypeOK, NEW r \in Runs, RetryOrFail(r), NEW u \in Tasks
    PROVE  /\ attempt'[u] = attempt[u]
           /\ state'[u] \in Claimable => state[u] \in Claimable \/ attempt[u] < MaxOf(u)
BY DEF RetryOrFail, Mark, AttemptLeft, TypeOK, MaxOf, Claimable, Pending

LEMMA SkipTaskBudget ==
    ASSUME TypeOK, ~NobodySkips, NEW t \in Tasks, SkipTask(t), NEW u \in Tasks
    PROVE  attempt'[u] = attempt[u] /\ (state'[u] \in Claimable => state[u] \in Claimable)
<1>1. CASE state[t] \in Success \cup {"running"}
    BY <1>1 DEF SkipTask, queueVars
<1>2. CASE state[t] \notin Success \cup {"running"}
    BY <1>2 DEF SkipTask, TypeOK, Claimable, Pending
<1> QED  BY <1>1, <1>2

LEMMA BudgetStep ==
    ASSUME TypeOK, StrayInv, BudgetInv, [Next]_vars
    PROVE  BudgetInv'
<1> USE DEF Goto, Threads
<1> DEFINE Fits(t) ==
              /\ attempt'[t] <= MaxOf(t)
              /\ state'[t] \in Claimable => attempt'[t] < MaxOf(t)
           Kept == \A t \in Tasks : Bounded(t) => Fits(t)
           Places == \A x \in Threads : NobodySkips => pc'[x] # "skipping"
<1> SUFFICES Kept /\ Places
    BY DEF BudgetInv, MaxOf, Bounded, Claimable, NobodySkips, BlocksByItself, Pending
<1>0. \A x \in Threads : NobodySkips => pc[x] # "skipping"
    BY DEF BudgetInv
<1>1. ASSUME NEW c \in Callers, CallerStep(c) PROVE Kept /\ Places
  <2>0. Places
    BY <1>0, <1>1 DEF CallerStep, Register, Drain, Cancel, Retry, Skip, TypeOK
  <2>1. ASSUME NEW t \in Tasks, Cancel(c, t) PROVE Kept
    <3>1. \A u \in Tasks : /\ attempt'[u] = attempt[u]
                           /\ state'[u] \in Claimable => state[u] \in Claimable
        BY <2>1 DEF Cancel, TypeOK, Claimable, Pending
    <3> QED  BY <3>1, BudgetFrame
  <2>2. ASSUME NEW n \in Limits \cup {NoLimit}, Drain(c, n) PROVE Kept
    <3>1. UNCHANGED <<state, attempt>>
        BY <2>2 DEF Drain, queueVars
    <3> QED  BY <3>1, BudgetFrame
  <2>3. ASSUME NEW t \in Tasks, Register(c, t) \/ Retry(c, t) PROVE Kept
    <3>1. \A u \in Tasks : \/ attempt'[u] = attempt[u] /\ state'[u] = state[u]
                           \/ attempt'[u] = 0
        BY <2>3 DEF Register, Retry, TypeOK
    <3> QED  BY <3>1, BudgetFrame
  <2>4. ASSUME NEW t \in Tasks, Skip(c, t) PROVE Kept
    <3>1. ~NobodySkips /\ SkipTask(t)
        BY <2>4 DEF Skip, Call, NobodySkips
    <3>2. \A u \in Tasks : /\ attempt'[u] = attempt[u]
                           /\ state'[u] \in Claimable => state[u] \in Claimable
        BY <3>1, SkipTaskBudget
    <3> QED  BY <3>2, BudgetFrame
  <2> QED  BY <1>1, <2>0, <2>1, <2>2, <2>3, <2>4 DEF CallerStep
<1>2. ASSUME NEW th \in Threads, DrainStep(th) PROVE Kept /\ Places
  <2>1. CASE LimitReached(th) \/ Announce(th) \/ Collect(th)
    <3>1. Places
        BY <1>0, <2>1 DEF LimitReached, Announce, Collect, TypeOK
    <3>2. UNCHANGED <<state, attempt>>
        BY <2>1 DEF LimitReached, Announce, Collect, queueVars
    <3> QED  BY <3>1, <3>2, BudgetFrame
  <2>2. CASE Claim(th)
    <3>1. Places
        BY <1>0, <2>2 DEF Claim, TypeOK
    <3>2. PICK C \in SUBSET {u \in Tasks : Ready(u)} :
            /\ state' = [u \in Tasks |-> IF u \in C THEN "running" ELSE state[u]]
            /\ attempt' = [u \in Tasks |-> IF u \in C THEN attempt[u] + 1 ELSE attempt[u]]
        BY <2>2 DEF Claim
    <3>3. ASSUME NEW u \in C, Bounded(u) PROVE Fits(u)
      <4>1. attempt[u] < MaxOf(u) /\ attempt[u] \in Nat /\ MaxOf(u) \in Nat
        BY <3>3, MaxOfType DEF BudgetInv, Ready, Claimable, TypeOK
      <4>2. attempt'[u] = attempt[u] + 1 /\ state'[u] = "running"
        BY <3>2
      <4> QED  BY <4>1, <4>2 DEF Claimable, Pending
    <3>4. ASSUME NEW u \in Tasks \ C, Bounded(u) PROVE Fits(u)
      <4>1. attempt'[u] = attempt[u] /\ state'[u] = state[u]
        BY <3>2
      <4> QED  BY <3>4, <4>1, BudgetFrame
    <3> QED  BY <3>1, <3>3, <3>4
  <2>3. CASE Sweep(th)
    <3>1. Places
        BY <1>0, <2>3 DEF Sweep, TypeOK
    <3>2. \A u \in Tasks : /\ attempt'[u] = attempt[u]
                           /\ state'[u] \in Claimable => state[u] \in Claimable
        BY <2>3 DEF Sweep, TypeOK, Claimable, Pending
    <3> QED  BY <3>1, <3>2, BudgetFrame
  <2>4. CASE Shutdown(th)
    <3>1. Places
        BY <1>0, <2>4 DEF Shutdown, TypeOK
    <3>2. CASE th \in failing \cap guarded
      <4>1. th \in Runs /\ RetryOrFail(th)
        BY <2>4, <3>2 DEF Shutdown, TypeOK
      <4> QED  BY <3>1, <4>1, RetryOrFailBudget, BudgetFrame
    <3>3. CASE th \notin failing \cap guarded
      <4>1. UNCHANGED <<state, attempt>>
        BY <2>4, <3>3 DEF Shutdown, queueVars
      <4> QED  BY <3>1, <4>1, BudgetFrame
    <3> QED  BY <3>2, <3>3
  <2> QED  BY <1>2, <2>1, <2>2, <2>3, <2>4 DEF DrainStep
<1>3. ASSUME NEW r \in Runs, RunStep(r) PROVE Kept /\ Places
  <2>0. TaskOf(r) \in Tasks
    BY TaskOfRun
  <2>1. Places
    BY <1>0, <1>3
    DEF RunStep, Start, Succeed, Block, Fail, Reject, Completed, Notify, SkipBlocked, NobodySkips,
        TypeOK
  <2>2. CASE Start(r) \/ Succeed(r) \/ Reject(r) \/ Notify(r)
    <3>1. \A u \in Tasks : /\ attempt'[u] = attempt[u]
                           /\ state'[u] \in Claimable => state[u] \in Claimable
        BY <2>0, <2>2
        DEF Start, Succeed, Reject, Notify, Mark, TypeOK, Claimable, Pending, queueVars
    <3> QED  BY <2>1, <3>1, BudgetFrame
  <2>3. CASE Block(r)
    <3>1. /\ BlocksByItself(TaskOf(r))
          /\ \A u \in Tasks : attempt'[u] = attempt[u]
          /\ \A u \in Tasks : u # TaskOf(r) => state'[u] = state[u]
          /\ state'[TaskOf(r)] \in {"blocked", state[TaskOf(r)]}
        BY <2>0, <2>3 DEF Block, Mark, TypeOK, BlocksByItself
    <3>2. \A u \in Tasks : Bounded(u) /\ state'[u] \in Claimable => state[u] \in Claimable
        BY <3>1 DEF Bounded, Claimable, Pending
    <3> QED  BY <2>1, <3>1, <3>2, BudgetFrame
  <2>4. CASE Fail(r) \/ Completed(r)
    <3>1. RetryOrFail(r) \/ UNCHANGED queueVars
        BY <2>4 DEF Fail, Completed
    <3>2. CASE RetryOrFail(r)
        BY <2>1, <3>2, RetryOrFailBudget, BudgetFrame
    <3>3. CASE UNCHANGED queueVars
        BY <2>1, <3>3, BudgetFrame DEF queueVars
    <3> QED  BY <3>1, <3>2, <3>3
  <2>5. CASE SkipBlocked(r)
    <3>1. ~NobodySkips /\ SkipTask(TaskOf(r))
        BY <1>0, <2>5, TaskOfRun DEF SkipBlocked
    <3>2. \A u \in Tasks : /\ attempt'[u] = attempt[u]
                           /\ state'[u] \in Claimable => state[u] \in Claimable
        BY <2>0, <3>1, SkipTaskBudget
    <3> QED  BY <2>1, <3>2, BudgetFrame
  <2> QED  BY <1>3, <2>2, <2>3, <2>4, <2>5 DEF RunStep
<1>4. ASSUME NEW t \in Tasks, WindowElapses(t) PROVE Kept /\ Places
  <2>1. UNCHANGED <<state, attempt, pc>>
    BY <1>4 DEF WindowElapses
  <2> QED  BY <1>0, <2>1, BudgetFrame
<1>5. CASE UNCHANGED vars
  <2>1. UNCHANGED <<state, attempt, pc>>
    BY <1>5 DEF vars, queueVars
  <2> QED  BY <1>0, <2>1, BudgetFrame
<1> QED  BY <1>1, <1>2, <1>3, <1>4, <1>5 DEF Next

\* Between two resets no task is started more often than its max_attempts, even
\* when handlers raise, tasks are skipped and ids registered again: a skip gives
\* a further attempt only to tasks that block by themselves (AttemptBudget).
THEOREM AttemptsAreBounded == Spec => []AttemptBudget
<1>1. Init => BudgetInv
    BY MaxOfType DEF Init, BudgetInv, Threads
<1>2. QueueInv /\ BudgetInv /\ [Next]_vars => BudgetInv'
    BY BudgetStep DEF QueueInv
<1>3. BudgetInv => AttemptBudget
    BY DEF BudgetInv, AttemptBudget, Bounded, MaxOf
<1> QED  BY <1>1, <1>2, <1>3, QueueInvariant, PTL DEF Spec

-----------------------------------------------------------------------------
(* The queue implements the task pool                                       *)

Phase == [t \in Tasks |-> PhaseOf(state[t])]

\* Nobody knows a task before the tasks it depends on, and a future knows its
\* task.
KnownInv ==
    /\ \A t \in Tasks : state[t] # "absent" => \A d \in Deps[t] : state[d] # "absent"
    /\ \A r \in Runs : pc[r] # "idle" => state[TaskOf(r)] # "absent"

LEMMA KnownStep ==
    ASSUME QueueInv, KnownInv, [Next]_vars
    PROVE  KnownInv'
<1> USE DEF Goto, Threads
<1>0. TypeOK
    BY DEF QueueInv
<1>1. \A t \in Tasks : state[t] # "absent" => state'[t] # "absent"
    BY StepMoves DEF QueueInv, Moves
<1>2. ASSUME NEW r \in Runs, pc'[r] # "idle" PROVE state'[TaskOf(r)] # "absent"
  <2>0. TaskOf(r) \in Tasks /\ r \notin Callers /\ r \in Threads
    BY TaskOfRun, ThreadAssumption
  <2>1. ASSUME pc[r] # "idle" PROVE state'[TaskOf(r)] # "absent"
    BY <1>1, <2>0, <2>1 DEF KnownInv
  <2>2. ASSUME NEW c \in Callers, CallerStep(c) PROVE pc[r] # "idle"
    BY <1>0, <1>2, <2>0, <2>2 DEF CallerStep, Register, Drain, Cancel, Retry, Skip, TypeOK
  <2>3. ASSUME NEW th \in Threads, DrainStep(th), ~Claim(th) PROVE pc[r] # "idle"
    BY <1>0, <1>2, <2>0, <2>3
    DEF DrainStep, LimitReached, Sweep, Announce, Collect, Shutdown, TypeOK
  <2>4. ASSUME NEW th \in Threads, Claim(th) PROVE state'[TaskOf(r)] # "absent"
    <3>1. PICK C \in SUBSET {t \in Tasks : Ready(t)} :
            /\ state' = [t \in Tasks |-> IF t \in C THEN "running" ELSE state[t]]
            /\ pc' = [x \in Threads |->
                  IF x = th THEN IF C = {} /\ InFlight(th) = {} THEN "sweep" ELSE "wait"
                  ELSE IF x \in {y \in Runs : TaskOf(y) \in C /\ FirstIdle(y)}
                       THEN "pending" ELSE pc[x]]
        BY <2>4 DEF Claim
    <3>2. pc[th] = "claim"
        BY <2>4 DEF Claim
    <3>3. pc[r] # "idle" \/ TaskOf(r) \in C
        BY <1>2, <2>0, <3>1, <3>2
    <3> QED  BY <2>0, <2>1, <3>1, <3>3
  <2>5. ASSUME NEW s \in Runs, RunStep(s) PROVE pc[r] # "idle"
    BY <1>0, <1>2, <2>0, <2>5
    DEF RunStep, Start, Succeed, Block, Fail, Reject, Completed, Notify, SkipBlocked, TypeOK
  <2>6. CASE UNCHANGED vars \/ \E t \in Tasks : WindowElapses(t)
    BY <1>2, <2>1, <2>6 DEF vars, WindowElapses
  <2> QED  BY <2>1, <2>2, <2>3, <2>4, <2>5, <2>6 DEF Next
<1>3. ASSUME NEW t \in Tasks, state[t] = "absent", state'[t] # "absent"
      PROVE  \A d \in Deps[t] : state[d] # "absent"
  <2>1. ASSUME NEW c \in Callers, NEW u \in Tasks, Register(c, u)
        PROVE  \A d \in Deps[t] : state[d] # "absent"
    BY <1>0, <1>3, <2>1 DEF Register, TypeOK
  <2>2. ASSUME NEW u \in Tasks, SkipTask(u) PROVE u = t
    BY <1>0, <1>3, <2>2 DEF SkipTask, TypeOK, queueVars
  <2>3. ASSUME NEW r \in Runs, pc[r] # "idle" PROVE TaskOf(r) \in Tasks /\ TaskOf(r) # t
    BY <1>3, <2>3, TaskOfRun DEF KnownInv
  <2>4. ASSUME NEW c \in Callers, CallerStep(c), \A u \in Tasks : ~Register(c, u) PROVE FALSE
    BY <1>0, <1>3, <2>2, <2>4
    DEF CallerStep, Drain, Cancel, Retry, Skip, TypeOK, queueVars, Stopped, Pending
  <2>5. ASSUME NEW th \in Threads, DrainStep(th) PROVE FALSE
    <3>1. ASSUME Shutdown(th) PROVE FALSE
      <4>1. th \in Runs /\ pc[th] # "idle" /\ RetryOrFail(th)
        BY <1>0, <1>3, <3>1 DEF Shutdown, queueVars, TypeOK
      <4> QED  BY <1>0, <1>3, <2>3, <4>1, RetryOrFailKeeps
    <3>2. CASE Claim(th)
        BY <1>0, <1>3, <3>2 DEF Claim, Ready, Pending
    <3>3. CASE LimitReached(th) \/ Sweep(th) \/ Announce(th) \/ Collect(th)
        BY <1>0, <1>3, <3>3 DEF LimitReached, Sweep, Announce, Collect, queueVars, Pending
    <3> QED  BY <2>5, <3>1, <3>2, <3>3 DEF DrainStep
  <2>6. ASSUME NEW r \in Runs, RunStep(r) PROVE FALSE
    <3>1. pc[r] # "idle"
        BY <2>6 DEF RunStep, Start, Succeed, Block, Fail, Reject, Completed, Notify, SkipBlocked
    <3>2. TaskOf(r) \in Tasks /\ TaskOf(r) # t
        BY <2>3, <3>1
    <3>3. CASE Start(r) \/ Succeed(r) \/ Block(r) \/ Reject(r) \/ Notify(r)
        BY <1>0, <1>3, <3>2, <3>3
        DEF Start, Succeed, Block, Reject, Notify, Mark, queueVars, TypeOK
    <3>4. CASE Fail(r) \/ Completed(r) \/ SkipBlocked(r)
        BY <1>0, <1>3, <2>2, <3>2, <3>4, RetryOrFailKeeps
        DEF Fail, Completed, SkipBlocked, queueVars
    <3> QED  BY <2>6, <3>3, <3>4 DEF RunStep
  <2>7. ~(UNCHANGED vars \/ \E u \in Tasks : WindowElapses(u))
    BY <1>3 DEF vars, queueVars, WindowElapses
  <2> QED  BY <2>1, <2>4, <2>5, <2>6, <2>7 DEF Next
<1>4. ASSUME NEW t \in Tasks, state'[t] # "absent", NEW d \in Deps[t]
      PROVE  state'[d] # "absent"
  <2>1. d \in Tasks
    BY TaskAssumption
  <2> QED  BY <1>1, <1>3, <1>4, <2>1 DEF KnownInv
<1> QED  BY <1>2, <1>4 DEF KnownInv

LEMMA PhaseOfState ==
    /\ \A s \in States :
          /\ PhaseOf(s) = "new" <=> s = "absent"
          /\ PhaseOf(s) = "open" <=> s \in Pending
          /\ PhaseOf(s) = "running" <=> s = "running"
          /\ PhaseOf(s) = "passed" <=> s \in Success
          /\ PhaseOf(s) = "stopped" <=> s \in Stopped
BY DEF PhaseOf, States, Active, Terminal, Pending, Success, Stopped

\* A step that brings the tasks of S to phase p and leaves the others in theirs.
LEMMA Becoming ==
    ASSUME NEW S \in SUBSET Tasks, NEW p,
           \A t \in S : PhaseOf(state'[t]) = p,
           \A t \in Tasks \ S : PhaseOf(state'[t]) = PhaseOf(state[t])
    PROVE  Pool!Become(S, p)
BY DEF Pool!Become

LEMMA PhaseUnchanged ==
    ASSUME \A t \in Tasks : PhaseOf(state'[t]) = PhaseOf(state[t])
    PROVE  UNCHANGED Phase
BY DEF Phase

\* Skipping a task passes it over and reopens the tasks it held up.
LEMMA SkipIsPassOver ==
    ASSUME TypeOK, NEW t \in Tasks, SkipTask(t), state[t] # "absent"
    PROVE  Pool!Next \/ UNCHANGED Phase
<1>1. CASE state[t] \in Success \cup {"running"}
    BY <1>1 DEF SkipTask, queueVars, Phase
<1>2. CASE state[t] \notin Success \cup {"running"}
  <2>1. PICK R \in SUBSET {u \in Tasks : state[u] = "blocked"} :
            /\ IsReleased(R, t)
            /\ state' = [u \in Tasks |-> IF u = t THEN "skipped"
                                         ELSE IF u \in R THEN "queued" ELSE state[u]]
    BY <1>2 DEF SkipTask
  <2>2. state[t] \in States
    BY DEF TypeOK
  <2>3. PhaseOf(state[t]) \in {"open", "stopped"}
    BY <1>2, <2>2, PhaseOfState DEF States, Active, Terminal, Pending, Success
  <2>4. \A u \in R : PhaseOf(state[u]) = "stopped"
    BY <2>1 DEF PhaseOf, Pending, Success, Stopped
  <2>5. \A u \in Tasks : PhaseOf(state'[u]) = IF u = t THEN "passed"
                                              ELSE IF u \in R THEN "open" ELSE PhaseOf(state[u])
    BY <2>1 DEF PhaseOf, Pending, Success, Stopped
  <2>6. R \in SUBSET Tasks
    BY <2>1
  <2>7. Pool!PassOver(t, R)
    BY <2>3, <2>4, <2>5, <2>6 DEF Pool!PassOver
  <2> QED  BY <2>6, <2>7 DEF Pool!Next
<1> QED  BY <1>1, <1>2

\* A task in the hands of an executor that returns ends or is tried again.
LEMMA EndOfRun ==
    ASSUME TypeOK, NEW t \in Tasks, state[t] = "running",
           state'[t] \in Success \cup Stopped \cup Pending,
           \A u \in Tasks \ {t} : state'[u] = state[u]
    PROVE  Pool!Next
<1>1. PICK p \in {"passed", "stopped", "open"} : PhaseOf(state'[t]) = p
    BY DEF PhaseOf, Pending, Success, Stopped
<1>2. Pool!Become({t}, p)
    BY <1>1, Becoming
<1>3. PhaseOf(state[t]) = "running"
    BY DEF PhaseOf, Pending, Success, Stopped
<1>4. Pool!End(t)
    BY <1>2, <1>3 DEF Pool!End
<1> QED  BY <1>4 DEF Pool!Next

\* What a run makes of a task that was registered again.
LEMMA RenewedRun ==
    ASSUME TypeOK, NEW t \in Renewed, state[t] # "absent",
           state'[t] = state[t] \/ state'[t] \in Success \cup Stopped \cup Pending,
           \A u \in Tasks \ {t} : state'[u] = state[u]
    PROVE  Pool!Next \/ UNCHANGED Phase
<1>0. t \in Tasks
    BY TaskAssumption
<1>1. CASE state'[t] = state[t]
  <2>1. \A u \in Tasks : state'[u] = state[u]
    BY <1>1
  <2> QED  BY <2>1, PhaseUnchanged
<1>2. CASE state'[t] \in Success \cup Stopped \cup Pending
  <2>1. PICK p \in {"passed", "stopped", "open"} : PhaseOf(state'[t]) = p
    BY <1>2 DEF PhaseOf, Pending, Success, Stopped
  <2>2. Pool!Become({t}, p)
    BY <1>0, <2>1, Becoming
  <2>3. PhaseOf(state[t]) # "new"
    BY <1>0, PhaseOfState DEF TypeOK
  <2>4. Pool!Renew(t)
    BY <1>0, <2>2, <2>3 DEF Pool!Renew
  <2> QED  BY <1>0, <2>4 DEF Pool!Next
<1> QED  BY <1>1, <1>2

\* The pool counts as the queue does.
LEMMA PoolCardinality ==
    ASSUME NEW S
    PROVE  Pool!Cardinality(S) = Cardinality(S)
BY DEF Pool!Cardinality, Cardinality

LEMMA ClaimIsStart ==
    ASSUME TypeOK, KeyInv, NEW th \in Threads, Claim(th)
    PROVE  Pool!Next
<1>1. PICK C \in SUBSET {t \in Tasks : Ready(t)} :
        /\ IsClaim(C, IF limit[th] = NoLimit THEN NoLimit ELSE Remaining(th))
        /\ state' = [t \in Tasks |-> IF t \in C THEN "running" ELSE state[t]]
    BY DEF Claim
<1>2. C \in SUBSET Tasks
    OBVIOUS
<1>3. Pool!Become(C, "running")
    BY <1>1, Becoming DEF PhaseOf, Pending, Success, Stopped
<1>4. ASSUME NEW t \in C
      PROVE  /\ PhaseOf(state[t]) = "open"
             /\ \A x \in Deps[t] : PhaseOf(state[x]) = "passed"
  <2>1. state[t] \in States /\ state[t] \in Pending
    BY DEF Ready, TypeOK
  <2>2. ASSUME NEW x \in Deps[t] PROVE PhaseOf(state[x]) = "passed"
    <3>1. x \in Tasks
        BY TaskAssumption
    <3>2. state[x] \in States
        BY <3>1 DEF TypeOK
    <3>3. ~Blocking(state[x]) /\ state[x] \notin Active
        BY DEF Ready, DependencyBlocked, MustWait, DependencyUnfinished
    <3>4. state[x] \in Success
        BY <3>2, <3>3 DEF Blocking, States, Terminal
    <3> QED  BY <3>2, <3>4, PhaseOfState
  <2> QED  BY <2>1, <2>2, PhaseOfState
<1>5. ASSUME NEW k \in Keys
      PROVE  Pool!Cardinality(Pool!RunningOf(k, C)) <= Limit[k]
  <2>1. \A t \in Tasks : PhaseOf(state[t]) = "running" <=> state[t] = "running"
    BY PhaseOfState DEF TypeOK
  <2>2. Pool!RunningOf(k, C) = {t \in Tasks : KeyOf[t] = k /\ (state[t] = "running" \/ t \in C)}
    BY <2>1 DEF Pool!RunningOf
  <2>3. Cardinality(RunningOf(k)) <= Limit[k]
    BY DEF KeyInv
  <2> QED  BY <1>1, <1>2, <2>2, <2>3, ClaimKeepsRoom, PoolCardinality
<1>6. Pool!Start(C)
    BY <1>2, <1>3, <1>4, <1>5, TaskAssumption DEF Pool!Start
<1> QED  BY <1>2, <1>6 DEF Pool!Next

LEMMA SweepIsStopBehind ==
    ASSUME TypeOK, KnownInv, NEW th \in Threads, Sweep(th)
    PROVE  Pool!Next
<1>1. PICK B \in SUBSET {t \in Tasks : state[t] \in Pending} :
        /\ IsSweep(B)
        /\ state' = [t \in Tasks |->
                        IF t \in B THEN "blocked"
                        ELSE IF state[t] = "queued" /\ MustWait(t) THEN "waiting"
                        ELSE state[t]]
    BY DEF Sweep
<1>2. B \in SUBSET Tasks
    OBVIOUS
<1>3. Pool!Become(B, "stopped")
    BY <1>1, <1>2, Becoming DEF PhaseOf, Pending, Success, Stopped
<1>4. ASSUME NEW t \in B
      PROVE  /\ PhaseOf(state[t]) = "open"
             /\ \E x \in Deps[t] : PhaseOf(state[x]) = "stopped" \/ x \in B
  <2>1. PICK d \in Deps[t] : Blocking(state[d]) \/ d \in B
    BY <1>1 DEF IsSweep
  <2>2. d \in Tasks /\ t \in Tasks /\ state[t] \in Pending
    BY TaskAssumption
  <2>3. state[t] \in States /\ state[d] \in States
    BY <2>2 DEF TypeOK
  <2>4. state[d] # "absent"
    BY <2>2 DEF KnownInv, Pending
  <2> QED  BY <2>1, <2>2, <2>3, <2>4, PhaseOfState DEF Blocking
<1>5. Pool!StopBehind(B)
    BY <1>2, <1>3, <1>4, TaskAssumption DEF Pool!StopBehind
<1> QED  BY <1>2, <1>5 DEF Pool!Next

LEMMA CallIsOneStep ==
    ASSUME TypeOK, NEW c \in Callers, CallerStep(c)
    PROVE  Pool!Next \/ UNCHANGED Phase
<1>1. ASSUME NEW t \in Tasks, Register(c, t) PROVE Pool!Next
  <2>1. state[t] = "absent" \/ t \in Renewed
    BY <1>1 DEF Register
  <2>2. state' = [state EXCEPT ![t] = "queued"]
    BY <1>1 DEF Register
  <2>3. Pool!Become({t}, "open")
    BY <2>2, Becoming DEF TypeOK, PhaseOf, Pending
  <2>4. CASE state[t] = "absent"
    <3>1. PhaseOf(state[t]) = "new"
        BY <2>4 DEF PhaseOf
    <3> QED  BY <2>3, <3>1 DEF Pool!Add, Pool!Next
  <2>5. CASE state[t] # "absent"
    <3>1. PhaseOf(state[t]) # "new"
        BY <2>5, PhaseOfState DEF TypeOK
    <3> QED  BY <2>1, <2>3, <2>5, <3>1 DEF Pool!Renew, Pool!Next
  <2> QED  BY <2>4, <2>5
<1>2. ASSUME NEW n \in Limits \cup {NoLimit}, Drain(c, n) PROVE UNCHANGED Phase
    BY <1>2 DEF Drain, queueVars, Phase
<1>3. ASSUME NEW t \in Tasks, Cancel(c, t) PROVE Pool!Next \/ UNCHANGED Phase
  <2>1. CASE state[t] \in Pending
    <3>1. state' = [state EXCEPT ![t] = "cancelled"]
        BY <1>3, <2>1 DEF Cancel
    <3>2. Pool!Become({t}, "stopped")
        BY <3>1, Becoming DEF TypeOK, PhaseOf, Pending, Success, Stopped
    <3>3. PhaseOf(state[t]) = "open"
        BY <2>1, PhaseOfState DEF TypeOK
    <3> QED  BY <3>2, <3>3 DEF Pool!Cancel, Pool!Next
  <2>2. CASE state[t] \notin Pending
    BY <1>3, <2>2 DEF Cancel, Phase
  <2> QED  BY <2>1, <2>2
<1>4. ASSUME NEW t \in Tasks, Retry(c, t) PROVE Pool!Next
  <2>1. state[t] \in Stopped /\ state' = [state EXCEPT ![t] = "queued"]
    BY <1>4 DEF Retry
  <2>2. Pool!Become({t}, "open")
    BY <2>1, Becoming DEF TypeOK, PhaseOf, Pending
  <2>3. PhaseOf(state[t]) = "stopped"
    BY <2>1, PhaseOfState DEF TypeOK
  <2> QED  BY <2>2, <2>3 DEF Pool!Reopen, Pool!Next
<1>5. ASSUME NEW t \in Tasks, Skip(c, t) PROVE Pool!Next \/ UNCHANGED Phase
    BY <1>5, SkipIsPassOver DEF Skip
<1> QED  BY <1>1, <1>2, <1>3, <1>4, <1>5 DEF CallerStep

LEMMA PoolStep ==
    ASSUME QueueInv, KeyInv, KnownInv, ~HandlersMayRaise, [Next]_vars
    PROVE  [Pool!Next]_Phase
<1>0. TypeOK
    BY DEF QueueInv
<1>1. ASSUME NEW th \in Threads, DrainStep(th) PROVE Pool!Next \/ UNCHANGED Phase
  <2>1. CASE Claim(th)
    BY <1>0, <2>1, ClaimIsStart
  <2>2. CASE Sweep(th)
    BY <1>0, <2>2, SweepIsStopBehind
  <2>3. CASE LimitReached(th) \/ Announce(th) \/ Collect(th)
    BY <2>3 DEF LimitReached, Announce, Collect, queueVars, Phase
  <2>4. CASE Shutdown(th)
    <3>1. failing = {}
        BY DEF QueueInv, CalmInv
    <3> QED  BY <2>4, <3>1 DEF Shutdown, queueVars, Phase
  <2> QED  BY <1>1, <2>1, <2>2, <2>3, <2>4 DEF DrainStep
<1>2. ASSUME NEW r \in Runs, RunStep(r) PROVE Pool!Next \/ UNCHANGED Phase
  <2>0. TaskOf(r) \in Tasks
    BY TaskOfRun
  <2>1. pc[r] = "executing" => state[TaskOf(r)] = "running" \/ TaskOf(r) \in Renewed
    BY DEF QueueInv, HoldInv, InUse, Singles
  <2>2. CASE Start(r) \/ Notify(r) \/ Completed(r)
    BY <2>2 DEF Start, Notify, Completed, queueVars, Phase
  <2>3. CASE Succeed(r) \/ Block(r) \/ Fail(r) \/ Reject(r)
    <3>1. /\ state[TaskOf(r)] = "running" \/ TaskOf(r) \in Renewed
          /\ state[TaskOf(r)] # "absent"
        BY <2>1, <2>3 DEF Succeed, Block, Fail, Reject, KnownInv
    <3>2. \/ r \in stray /\ state' = state
          \/ r \notin stray /\ state'[TaskOf(r)] \in Success \cup Stopped \cup Pending
        BY <1>0, <2>0, <2>3, RetryOrFailState
        DEF Succeed, Block, Fail, Reject, Mark, TypeOK, Success, Stopped, Pending
    <3>3. \A u \in Tasks \ {TaskOf(r)} : state'[u] = state[u]
        BY <1>0, <2>0, <2>3, RetryOrFailKeeps DEF Succeed, Block, Fail, Reject, Mark, TypeOK
    <3>4. CASE TaskOf(r) \in Renewed
        BY <1>0, <2>0, <3>1, <3>2, <3>3, <3>4, RenewedRun
    <3>5. CASE TaskOf(r) \notin Renewed
      <4>1. r \notin stray
        BY <3>5 DEF QueueInv, StrayInv
      <4> QED  BY <1>0, <2>0, <3>1, <3>2, <3>3, <3>5, <4>1, EndOfRun
    <3> QED  BY <3>4, <3>5
  <2>4. CASE SkipBlocked(r)
    <3>1. SkipTask(TaskOf(r)) /\ state[TaskOf(r)] # "absent"
        BY <2>4 DEF SkipBlocked, KnownInv
    <3> QED  BY <1>0, <2>0, <3>1, SkipIsPassOver
  <2> QED  BY <1>2, <2>2, <2>3, <2>4 DEF RunStep
<1>3. CASE UNCHANGED vars \/ \E t \in Tasks : WindowElapses(t)
    BY <1>3 DEF vars, queueVars, WindowElapses, Phase
<1> QED  BY <1>0, <1>1, <1>2, <1>3, CallIsOneStep DEF Next

\* For those who register tasks, the queue with all its threads, pools, retries
\* and sweeps is the task pool, as long as no handler raises
\* (ImplementsTaskPool).
THEOREM QueueIsTaskPool ==
    ASSUME ~HandlersMayRaise
    PROVE  Spec => ImplementsTaskPool
<1>1. Init => Pool!Init
    BY DEF Init, Pool!Init, PhaseOf, Pending
<1>2. Init => KeyInv /\ KnownInv
  <2> SUFFICES ASSUME Init PROVE KeyInv /\ KnownInv
    OBVIOUS
  <2>1. ASSUME NEW k \in Keys PROVE Cardinality(RunningOf(k)) <= Limit[k]
    <3>1. RunningOf(k) = {}
        BY DEF Init, RunningOf
    <3> QED  BY <3>1, FS_EmptySet, KeyAssumption
  <2>2. KnownInv
    BY TaskAssumption, CallerAssumption DEF Init, KnownInv, Threads
  <2> QED  BY <2>1, <2>2 DEF KeyInv
<1>3. QueueInv /\ KeyInv /\ KnownInv /\ [Next]_vars
      => /\ KeyInv' /\ KnownInv'
         /\ [Pool!Next]_Phase
    BY KeyStep, KnownStep, PoolStep
<1>4. Spec => [][Pool!Next]_Phase
    BY <1>2, <1>3, QueueInvariant, PTL DEF Spec
<1> QED  BY <1>1, <1>4, PTL DEF Spec, Pool!Spec, ImplementsTaskPool, Phase

-----------------------------------------------------------------------------
(* Everyone never waits for everyone                                        *)

\* Who waits for whom.  A future is in hand from its claim until it is
\* collected, its owner has a pool and has not left the drain, and in every set
\* of runs there is one that owns no other of them.
OwnInv ==
    /\ \A r \in Runs : owner[r] = NoThread <=> pc[r] = "idle"
    /\ \A r \in Runs : owner[r] # NoThread =>
          pc[owner[r]] \in {"claim", "wait", "shutdown"} /\ pool[owner[r]] > 0
    /\ \A th \in Threads : pc[th] = "wait" => InFlight(th) # {}
    /\ \A c \in Callers : pc[c] \in {"idle"} \cup Draining
    /\ \A S \in SUBSET Runs : S # {} => \E r \in S : \A x \in S : owner[x] # r

\* A step that gives nobody a future, and leaves those who have one in the drain.
LEMMA OwnFrame ==
    ASSUME TypeOK, TypeOK', OwnInv,
           \A r \in Runs : owner'[r] = owner[r] \/ owner'[r] = NoThread,
           \A r \in Runs : owner'[r] = NoThread <=> pc'[r] = "idle",
           \A r \in Runs : owner'[r] # NoThread =>
               /\ pc'[owner[r]] \in {"claim", "wait", "shutdown"}
               /\ pool'[owner[r]] = pool[owner[r]],
           \A th \in Threads : pc'[th] = "wait" =>
               pc[th] = "wait" /\ \A r \in InFlight(th) : owner'[r] = owner[r],
           \A c \in Callers : pc'[c] \in {"idle"} \cup Draining
    PROVE  OwnInv'
<1>1. \A r \in Runs : owner'[r] # NoThread =>
          pc'[owner'[r]] \in {"claim", "wait", "shutdown"} /\ pool'[owner'[r]] > 0
    BY DEF OwnInv
<1>2. \A th \in Threads : pc'[th] = "wait" => InFlight(th)' # {}
    BY DEF OwnInv, InFlight
<1>3. ASSUME NEW S \in SUBSET Runs, S # {}
      PROVE  \E r \in S : \A x \in S : owner'[x] # r
  <2>1. PICK r \in S : \A x \in S : owner[x] # r
    BY <1>3 DEF OwnInv
  <2>2. r # NoThread
    BY ThreadAssumption DEF Threads
  <2> QED  BY <2>1, <2>2
<1> QED  BY <1>1, <1>2, <1>3 DEF OwnInv

\* A step that leaves the futures in hand, and moves one thread that owns none.
LEMMA OwnFrameOfThread ==
    ASSUME TypeOK, TypeOK', OwnInv, NEW th \in Threads,
           UNCHANGED <<owner, pool>>,
           \A x \in Threads \ {th} : pc'[x] = pc[x],
           pc[th] \notin {"claim", "wait", "shutdown"},
           th \in Callers => pc'[th] \in {"idle"} \cup Draining,
           th \in Runs => (pc[th] = "idle" <=> pc'[th] = "idle"),
           pc'[th] # "wait"
    PROVE  OwnInv'
<1>1. \A r \in Runs : owner[r] # NoThread => owner[r] \in Threads \ {th}
    BY DEF OwnInv, TypeOK
<1>2. \A r \in Runs : r \in Threads
    BY DEF Threads
<1>3. \A c \in Callers : c \in Threads
    BY DEF Threads
<1>4. \A r \in Runs : owner'[r] = NoThread <=> pc'[r] = "idle"
    BY <1>2 DEF OwnInv
<1>5. \A r \in Runs : owner'[r] # NoThread =>
               /\ pc'[owner[r]] \in {"claim", "wait", "shutdown"}
               /\ pool'[owner[r]] = pool[owner[r]]
    BY <1>1 DEF OwnInv
<1>6. \A c \in Callers : pc'[c] \in {"idle"} \cup Draining
    BY <1>3 DEF OwnInv
<1>7. \A x \in Threads : pc'[x] = "wait" =>
               pc[x] = "wait" /\ \A r \in InFlight(x) : owner'[r] = owner[r]
    OBVIOUS
<1> QED  BY <1>4, <1>5, <1>6, <1>7, OwnFrame

\* A claim hands its futures to idle runs, which own nothing yet.
LEMMA OwnClaim ==
    ASSUME TypeOK, TypeOK', OwnInv, NEW th \in Threads, Claim(th)
    PROVE  OwnInv'
<1> USE DEF Threads
<1> DEFINE Futures(C) == {r \in Runs : TaskOf(r) \in C /\ FirstIdle(r)}
<1>1. PICK C \in SUBSET {t \in Tasks : Ready(t)} :
        /\ \A t \in C : \E r \in Futures(C) : TaskOf(r) = t
        /\ owner' = [r \in Runs |-> IF r \in Futures(C) THEN th ELSE owner[r]]
        /\ pool' = [pool EXCEPT ![th] = IF @ = 0 /\ C # {} THEN PoolSize(C) ELSE @]
        /\ pc' = [x \in Threads |->
                    IF x = th THEN IF C = {} /\ InFlight(th) = {} THEN "sweep" ELSE "wait"
                    ELSE IF x \in Futures(C) THEN "pending" ELSE pc[x]]
    BY DEF Claim
<1> DEFINE F == Futures(C)
<1>2. pc[th] = "claim" /\ C \in SUBSET Tasks
    BY DEF Claim
<1>3. \A r \in F : r \in Runs /\ pc[r] = "idle" /\ r # th
    BY <1>2 DEF FirstIdle
<1>4. /\ \A r \in Runs : owner'[r] = IF r \in F THEN th ELSE owner[r]
      /\ \A x \in Threads :
            pc'[x] = IF x = th THEN IF C = {} /\ InFlight(th) = {} THEN "sweep" ELSE "wait"
                     ELSE IF x \in F THEN "pending" ELSE pc[x]
    BY <1>1
<1>5. \A x \in Threads \ {th} : pool'[x] = pool[x]
    BY <1>1 DEF TypeOK
<1>6. C # {} \/ InFlight(th) # {} => pool'[th] > 0
  <2>1. CASE C # {}
    <3>1. PoolSize(C) > 0
        BY <1>2, <2>1, PoolSizeType
    <3>2. pool[th] \in Nat /\ pool'[th] = IF pool[th] = 0 THEN PoolSize(C) ELSE pool[th]
        BY <1>1, <2>1 DEF TypeOK
    <3> QED  BY <3>1, <3>2
  <2>2. CASE C = {} /\ InFlight(th) # {}
    <3>1. pool'[th] = pool[th]
        BY <1>1, <2>2 DEF TypeOK
    <3>2. pool[th] > 0
        BY <2>2, ThreadAssumption DEF OwnInv, InFlight
    <3> QED  BY <3>1, <3>2
  <2> QED  BY <2>1, <2>2
<1>7. F # {} => C # {}
    OBVIOUS
<1> HIDE DEF F
<1>8. \A r \in Runs : owner[r] # NoThread => owner[r] \in Threads /\ owner[r] \notin F
    BY <1>3 DEF OwnInv, TypeOK
<1>9. \A r \in Runs : owner'[r] = NoThread <=> pc'[r] = "idle"
  <2> SUFFICES ASSUME NEW r \in Runs PROVE owner'[r] = NoThread <=> pc'[r] = "idle"
    OBVIOUS
  <2>1. CASE r \in F
    BY <1>3, <1>4, <2>1, ThreadAssumption
  <2>2. CASE r \notin F
    BY <1>2, <1>4, <2>2 DEF OwnInv
  <2> QED  BY <2>1, <2>2
<1>10. ASSUME NEW r \in Runs, owner'[r] # NoThread
       PROVE  pc'[owner'[r]] \in {"claim", "wait", "shutdown"} /\ pool'[owner'[r]] > 0
  <2>1. CASE owner'[r] = th
    <3>1. C # {} \/ InFlight(th) # {}
        BY <1>4, <1>7, <2>1 DEF InFlight
    <3> QED  BY <1>4, <1>6, <2>1, <3>1
  <2>2. CASE owner'[r] # th
    <3>1. owner'[r] = owner[r] /\ owner[r] # NoThread
        BY <1>4, <1>10, <2>2
    <3> QED  BY <1>4, <1>5, <1>8, <2>2, <3>1 DEF OwnInv
  <2> QED  BY <2>1, <2>2
<1>11. ASSUME NEW x \in Threads, pc'[x] = "wait" PROVE InFlight(x)' # {}
  <2>1. CASE x = th /\ C # {}
    <3>1. PICK r \in F : TRUE
        BY <1>1, <2>1 DEF F
    <3> QED  BY <1>3, <1>4, <2>1, <3>1 DEF InFlight
  <2>2. CASE x = th /\ C = {}
    <3>1. PICK r \in InFlight(th) : TRUE
        BY <1>4, <1>11, <2>2
    <3>2. r \in Runs /\ owner'[r] = th
        BY <1>4, <3>1 DEF InFlight
    <3> QED  BY <2>2, <3>2 DEF InFlight
  <2>3. CASE x # th
    <3>1. x \notin F /\ pc[x] = "wait"
        BY <1>4, <1>11, <2>3
    <3>2. PICK r \in InFlight(x) : TRUE
        BY <3>1 DEF OwnInv
    <3>3. r \in Runs /\ owner[r] = x /\ x # NoThread
        BY <3>2, ThreadAssumption DEF InFlight
    <3>4. r \notin F
        BY <1>3, <3>3 DEF OwnInv
    <3> QED  BY <1>4, <3>3, <3>4 DEF InFlight
  <2> QED  BY <2>1, <2>2, <2>3
<1>12. \A c \in Callers : pc'[c] \in {"idle"} \cup Draining
  <2>1. \A c \in Callers : c \notin F
    BY <1>3, ThreadAssumption
  <2> QED  BY <1>4, <2>1 DEF OwnInv, Draining
<1>13. ASSUME NEW S \in SUBSET Runs, S # {}
       PROVE  \E r \in S : \A x \in S : owner'[x] # r
  <2>1. CASE S \cap F # {}
    <3>1. PICK r \in S \cap F : TRUE
        BY <2>1
    <3>2. r # th /\ \A x \in Runs : owner[x] # r
      <4>1. r # NoThread
        BY <3>1, ThreadAssumption
      <4> QED  BY <1>3, <1>8, <3>1, <4>1
    <3> QED  BY <1>4, <3>1, <3>2
  <2>2. CASE S \cap F = {}
    <3>1. PICK r \in S : \A x \in S : owner[x] # r
        BY <1>13 DEF OwnInv
    <3>2. \A x \in S : owner'[x] = owner[x]
        BY <1>4, <2>2
    <3> QED  BY <3>1, <3>2
  <2> QED  BY <2>1, <2>2
<1> QED  BY <1>9, <1>10, <1>11, <1>12, <1>13 DEF OwnInv

LEMMA OwnStep ==
    ASSUME TypeOK, TypeOK', OwnInv, [Next]_vars
    PROVE  OwnInv'
<1> USE DEF Goto, Threads
<1>0. CASE UNCHANGED vars \/ \E t \in Tasks : WindowElapses(t)
  <2>1. UNCHANGED <<pc, owner, pool>>
    BY <1>0 DEF vars, drainVars, WindowElapses
  <2> QED  BY <2>1 DEF OwnInv, InFlight
<1>1. ASSUME NEW c \in Callers, CallerStep(c) PROVE OwnInv'
  <2>1. UNCHANGED <<owner, pool>>
    BY <1>1 DEF CallerStep, Register, Drain, Cancel, Retry, Skip, drainVars
  <2>2. \A x \in Threads \ {c} : pc'[x] = pc[x]
    BY <1>1 DEF CallerStep, Register, Drain, Cancel, Retry, Skip, TypeOK
  <2>3. pc[c] = "idle" /\ pc'[c] \in {"idle", "claim"}
    BY <1>1 DEF CallerStep, Register, Drain, Cancel, Retry, Skip, Call, TypeOK
  <2>4. c \in Threads /\ c \notin Runs
    BY ThreadAssumption
  <2> QED  BY <2>1, <2>2, <2>3, <2>4, OwnFrameOfThread DEF Draining
<1>2. ASSUME NEW th \in Threads, LimitReached(th) PROVE OwnInv'
  <2>1. UNCHANGED <<owner, pool>> /\ pc[th] = "claim"
    BY <1>2 DEF LimitReached, drainVars
  <2>2. \A x \in Threads : pc'[x] = IF x = th THEN "shutdown" ELSE pc[x]
    BY <1>2 DEF LimitReached, TypeOK
  <2>3. \A r \in Runs : owner'[r] = NoThread <=> pc'[r] = "idle"
    BY <2>1, <2>2 DEF OwnInv
  <2>4. \A r \in Runs : owner'[r] # NoThread =>
               /\ pc'[owner[r]] \in {"claim", "wait", "shutdown"}
               /\ pool'[owner[r]] = pool[owner[r]]
    BY <2>1, <2>2 DEF OwnInv, TypeOK
  <2>5. \A c \in Callers : pc'[c] \in {"idle"} \cup Draining
    BY <2>2 DEF OwnInv, Draining
  <2> QED  BY <2>1, <2>2, <2>3, <2>4, <2>5, OwnFrame
<1>3. ASSUME NEW th \in Threads, Sweep(th) \/ Announce(th) PROVE OwnInv'
  <2>1. /\ UNCHANGED <<owner, pool>> /\ pc[th] \in {"sweep", "announce"}
        /\ pc'[th] \in {"announce", "shutdown"}
        /\ \A x \in Threads \ {th} : pc'[x] = pc[x]
    BY <1>3 DEF Sweep, Announce, drainVars, TypeOK
  <2> QED  BY <2>1, OwnFrameOfThread DEF Draining
<1>4. ASSUME NEW th \in Threads, Collect(th) PROVE OwnInv'
  <2> DEFINE D == {r \in InFlight(th) : pc[r] \in Finished}
  <2>1. /\ pc[th] = "wait" /\ UNCHANGED pool
        /\ owner' = [r \in Runs |-> IF r \in D THEN NoThread ELSE owner[r]]
    BY <1>4 DEF Collect, Release
  <2>2. PICK where \in {"shutdown", "claim"} :
            pc' = [x \in Threads |->
                        IF x = th THEN where ELSE IF x \in D THEN "idle" ELSE pc[x]]
    BY <1>4 DEF Collect
  <2>3. D \subseteq Runs /\ th \notin D /\ \A r \in D : owner[r] = th /\ pc[r] \in Finished
    BY <2>1 DEF InFlight, Finished
  <2> HIDE DEF D
  <2>4. \A r \in Runs : owner'[r] = NoThread <=> pc'[r] = "idle"
    BY <2>1, <2>2, <2>3 DEF OwnInv
  <2>5. \A r \in Runs : owner[r] # NoThread =>
               /\ pc'[owner[r]] \in {"claim", "wait", "shutdown"}
               /\ pool'[owner[r]] = pool[owner[r]]
    BY <2>1, <2>2, <2>3 DEF OwnInv, TypeOK, Finished
  <2>6. \A r \in Runs : owner'[r] = owner[r] \/ owner'[r] = NoThread
    BY <2>1
  <2>7. \A x \in Threads : pc'[x] = "wait" =>
               pc[x] = "wait" /\ \A r \in InFlight(x) : owner'[r] = owner[r]
    BY <2>1, <2>2, <2>3 DEF InFlight
  <2>8. \A c \in Callers : pc'[c] \in {"idle"} \cup Draining
    BY <2>2 DEF OwnInv, Draining
  <2> QED  BY <2>1, <2>4, <2>5, <2>6, <2>7, <2>8, OwnFrame
<1>5. ASSUME NEW th \in Threads, Shutdown(th) PROVE OwnInv'
  <2> DEFINE D == InFlight(th)
  <2>1. /\ pc[th] = "shutdown"
        /\ owner' = [r \in Runs |-> IF r \in D THEN NoThread ELSE owner[r]]
        /\ \A x \in Threads \ {th} : pool'[x] = pool[x]
    BY <1>5 DEF Shutdown, Release, TypeOK
  <2>2. PICK where \in {"idle", "notify", "raised", "done"} :
            /\ pc' = [x \in Threads |->
                        IF x = th THEN where ELSE IF x \in D THEN "idle" ELSE pc[x]]
            /\ where = "idle" <=> th \in Callers
    BY <1>5 DEF Shutdown
  <2>3. D \subseteq Runs /\ \A r \in Runs : r \in D <=> owner[r] = th
    BY DEF InFlight
  <2>4. th \notin D
    BY <1>5, <2>3 DEF Shutdown, Finished
  <2> HIDE DEF D
  <2>5. \A r \in Runs : owner'[r] = NoThread <=> pc'[r] = "idle"
    BY <2>1, <2>2, <2>3, <2>4, ThreadAssumption DEF OwnInv
  <2>6. \A r \in Runs : owner'[r] # NoThread =>
               /\ owner[r] \in Threads \ ({th} \cup D)
               /\ owner[r] = owner'[r]
    <3> SUFFICES ASSUME NEW r \in Runs, owner'[r] # NoThread
                 PROVE  owner[r] \in Threads \ ({th} \cup D) /\ owner[r] = owner'[r]
        OBVIOUS
    <3>1. owner[r] = owner'[r] /\ owner[r] \in Threads /\ owner[r] # th
        BY <2>1, <2>3 DEF TypeOK
    <3>2. owner[r] \notin D
      <4>1. \A x \in D : pc[x] \in Finished
        BY <1>5 DEF Shutdown, D
      <4> QED  BY <3>1, <4>1, ThreadAssumption DEF OwnInv, Finished
    <3> QED  BY <3>1, <3>2
  <2>7. \A r \in Runs : owner'[r] # NoThread =>
               /\ pc'[owner[r]] \in {"claim", "wait", "shutdown"}
               /\ pool'[owner[r]] = pool[owner[r]]
    BY <2>1, <2>2, <2>6 DEF OwnInv
  <2>8. \A r \in Runs : owner'[r] = owner[r] \/ owner'[r] = NoThread
    BY <2>1
  <2>9. \A x \in Threads : pc'[x] = "wait" =>
               pc[x] = "wait" /\ \A r \in InFlight(x) : owner'[r] = owner[r]
    BY <2>1, <2>2, <2>3 DEF InFlight
  <2>10. \A c \in Callers : pc'[c] \in {"idle"} \cup Draining
    BY <2>2 DEF OwnInv
  <2> QED  BY <2>5, <2>7, <2>8, <2>9, <2>10, OwnFrame
<1>6. ASSUME NEW r \in Runs, RunStep(r) PROVE OwnInv'
  <2>1. UNCHANGED <<owner, pool>>
    BY <1>6 DEF RunStep, Start, Succeed, Block, Fail, Reject, Completed, Notify, SkipBlocked,
                drainVars
  <2>2. \A x \in Threads \ {r} : pc'[x] = pc[x]
    BY <1>6 DEF RunStep, Start, Succeed, Block, Fail, Reject, Completed, Notify, SkipBlocked,
                TypeOK
  <2>3. /\ pc[r] \in {"pending", "executing", "completed", "notify", "skipping"}
        /\ pc'[r] \in {"executing", "completed", "notify", "skipping", "claim", "raised"}
    BY <1>6, TaskOfRun
    DEF RunStep, Start, Succeed, Block, Fail, Reject, Completed, Notify, SkipBlocked, TypeOK
  <2>4. r \in Threads /\ r \notin Callers
    BY ThreadAssumption
  <2> QED  BY <2>1, <2>2, <2>3, <2>4, OwnFrameOfThread
<1> QED  BY <1>0, <1>1, <1>2, <1>3, <1>4, <1>5, <1>6, OwnClaim DEF Next, DrainStep

\* With no run of a pool at work, its next future gets a worker.
LEMMA FreeWorker ==
    ASSUME TypeOK, OwnInv, NEW r \in Runs, pc[r] = "pending",
           \A x \in InFlight(owner[r]) : pc[x] \in Finished \cup {"pending"}
    PROVE  ~Waits(r)
<1>1. owner[r] # NoThread /\ pool[owner[r]] > 0 /\ pool[owner[r]] \in Nat
    BY DEF OwnInv, TypeOK
<1>2. {x \in InFlight(owner[r]) : pc[x] \notin Finished \cup {"pending"}} = {}
    OBVIOUS
<1>3. Cardinality({x \in InFlight(owner[r]) : pc[x] \notin Finished \cup {"pending"}}) = 0
    BY <1>2, FS_EmptySet
<1>4. r \in Threads
    BY TaskOfRun
<1> QED  BY <1>1, <1>3 DEF Waits, Finished

\* A drain that waits for futures, none of which has begun and not ended, has one
\* that can begin.
LEMMA WaitedFor ==
    ASSUME TypeOK, OwnInv, NEW th \in Threads, pc[th] \in {"wait", "shutdown"}, Waits(th),
           \A x \in InFlight(th) : pc[x] \in Finished \cup {"pending"}
    PROVE  \E r \in Runs : ~Waits(r)
<1>1. PICK r \in InFlight(th) : pc[r] \notin Finished
    BY DEF Waits, OwnInv, Finished
<1>2. r \in Runs /\ owner[r] = th /\ pc[r] = "pending"
    BY <1>1 DEF InFlight
<1> QED  BY <1>2, FreeWorker

LEMMA NotAllWait ==
    ASSUME TypeOK, OwnInv, ~Quiescent
    PROVE  \E th \in Threads : ~Waits(th)
<1> USE DEF Threads
<1> DEFINE AtWork == {r \in Runs : pc[r] \notin Finished \cup {"idle", "pending"}}
<1>0. \A r \in Runs : owner[r] # NoThread => owner[r] \in Threads /\ pc[r] # "idle"
    BY DEF OwnInv, TypeOK
<1>1. \A th \in Threads : \A x \in InFlight(th) :
          x \in Runs /\ (x \in AtWork \/ pc[x] \in Finished \cup {"pending"})
  <2> SUFFICES ASSUME NEW th \in Threads, NEW x \in InFlight(th)
               PROVE  x \in Runs /\ (x \in AtWork \/ pc[x] \in Finished \cup {"pending"})
    OBVIOUS
  <2>1. x \in Runs /\ owner[x] = th /\ th # NoThread
    BY ThreadAssumption DEF InFlight
  <2> QED  BY <1>0, <2>1
<1>2. CASE AtWork # {}
  <2>1. PICK r \in AtWork : \A x \in AtWork : owner[x] # r
    BY <1>2 DEF OwnInv
  <2>2. \A x \in InFlight(r) : pc[x] \in Finished \cup {"pending"}
    BY <1>1, <2>1 DEF InFlight
  <2>3. CASE pc[r] \in {"wait", "shutdown"}
    BY <2>2, <2>3, WaitedFor
  <2>4. CASE pc[r] \notin {"wait", "shutdown"}
    BY <2>4 DEF Waits
  <2> QED  BY <2>3, <2>4
<1>3. CASE AtWork = {}
  <2>1. \A th \in Threads : \A x \in InFlight(th) : pc[x] \in Finished \cup {"pending"}
    BY <1>1, <1>3
  <2>2. PICK c \in Callers : pc[c] # "idle"
    <3>1. PICK th \in Threads : pc[th] # "idle"
        BY DEF Quiescent
    <3>2. CASE th \in Runs
      <4>1. owner[th] # NoThread /\ owner[th] \in Threads
        BY <1>0, <3>1, <3>2 DEF OwnInv
      <4>2. pc[owner[th]] \in {"claim", "wait", "shutdown"}
        BY <3>2, <4>1 DEF OwnInv
      <4>3. owner[th] \notin Runs
        BY <1>3, <4>2 DEF Finished
      <4> QED  BY <4>1, <4>2, <4>3
    <3> QED  BY <3>1, <3>2
  <2>3. pc[c] \in Draining
    BY <2>2 DEF OwnInv
  <2>4. CASE pc[c] \in {"wait", "shutdown"}
    BY <2>1, <2>4, WaitedFor
  <2>5. CASE pc[c] \notin {"wait", "shutdown"}
    BY <2>3, <2>5 DEF Waits, Draining, Finished
  <2> QED  BY <2>4, <2>5
<1> QED  BY <1>2, <1>3

\* While a call is under way, some thread does not wait for another one, for any
\* number of callers and nested drains and any size of their pools: the owners
\* of futures form no ring, and no pool is made without a worker (SomebodyWorks).
THEOREM NoDeadlock == Spec => []SomebodyWorks
<1>1. Init => OwnInv
    BY ThreadAssumption DEF Init, OwnInv, InFlight, Threads
<1>2. TypeOK /\ TypeOK' /\ OwnInv /\ [Next]_vars => OwnInv'
    BY OwnStep
<1>3. TypeOK /\ [Next]_vars => TypeOK'
    BY TypeStep
<1>4. TypeOK /\ OwnInv => SomebodyWorks
    BY NotAllWait DEF SomebodyWorks
<1> QED  BY <1>1, <1>2, <1>3, <1>4, TypeCorrect, PTL DEF Spec

-----------------------------------------------------------------------------
(* Who leaves a ready task to nobody                                        *)

\* A task that is marked running belongs to a future that works on its object and
\* has yet to finish it.
RunningHeld ==
    \A t \in Tasks : state[t] = "running" =>
        \E r \in Runs : TaskOf(r) = t /\ pc[r] \in InUse /\ r \notin stray

LEMMA RunningHeldStep ==
    ASSUME QueueInv, RunningHeld, [Next]_vars
    PROVE  RunningHeld'
<1> USE DEF Goto, Threads, InUse
<1>0. TypeOK
    BY DEF QueueInv
<1> SUFFICES ASSUME NEW t \in Tasks, state'[t] = "running"
             PROVE  \E r \in Runs : TaskOf(r) = t /\ pc'[r] \in InUse /\ r \notin stray'
    BY DEF RunningHeld
<1>1. ASSUME NEW th \in Threads, Claim(th), state[t] # "running"
      PROVE  \E r \in Runs : TaskOf(r) = t /\ pc'[r] \in InUse /\ r \notin stray'
  <2>1. PICK C \in SUBSET {u \in Tasks : Ready(u)} :
          /\ \A u \in C : \E r \in {y \in Runs : TaskOf(y) \in C /\ FirstIdle(y)} : TaskOf(r) = u
          /\ state' = [u \in Tasks |-> IF u \in C THEN "running" ELSE state[u]]
          /\ pc' = [x \in Threads |->
                IF x = th THEN IF C = {} /\ InFlight(th) = {} THEN "sweep" ELSE "wait"
                ELSE IF x \in {y \in Runs : TaskOf(y) \in C /\ FirstIdle(y)}
                     THEN "pending" ELSE pc[x]]
    BY <1>1 DEF Claim
  <2>2. t \in C
    BY <1>1, <2>1
  <2>3. PICK r \in Runs : TaskOf(r) = t /\ FirstIdle(r)
    BY <2>1, <2>2
  <2>4. pc[th] = "claim" /\ pc[r] = "idle"
    BY <1>1, <2>3 DEF Claim, FirstIdle
  <2>5. pc'[r] = "pending"
    BY <2>1, <2>2, <2>3, <2>4
  <2>6. r \notin stray'
    BY <1>1, <2>4 DEF Claim, QueueInv, StrayInv
  <2> QED  BY <2>3, <2>5, <2>6
<1>2. ASSUME state[t] = "running"
      PROVE  \E r \in Runs : TaskOf(r) = t /\ pc'[r] \in InUse /\ r \notin stray'
  <2>1. PICK r \in Runs : TaskOf(r) = t /\ pc[r] \in InUse /\ r \notin stray
    BY <1>2 DEF RunningHeld
  <2>2. r \notin Callers /\ r \in Threads
    BY ThreadAssumption
  <2>3. pc'[r] \in InUse
    <3>1. ASSUME NEW c \in Callers, CallerStep(c) PROVE pc'[r] = pc[r]
        BY <1>0, <2>2, <3>1 DEF CallerStep, Register, Drain, Cancel, Retry, Skip, TypeOK
    <3>2. ASSUME NEW th \in Threads, DrainStep(th) PROVE pc'[r] \in InUse
        BY <1>0, <2>1, <2>2, <3>2
        DEF DrainStep, LimitReached, Claim, Sweep, Announce, Collect, Shutdown, FirstIdle,
            Finished, TypeOK
    <3>3. ASSUME NEW s \in Runs, s # r, RunStep(s) PROVE pc'[r] = pc[r]
        BY <1>0, <2>2, <3>3
        DEF RunStep, Start, Succeed, Block, Fail, Reject, Completed, Notify, SkipBlocked, TypeOK
    <3>4. ASSUME RunStep(r) PROVE pc'[r] \in InUse
      <4>1. CASE Start(r)
        BY <1>0, <2>2, <4>1 DEF Start, TypeOK
      <4>2. CASE Succeed(r) \/ Block(r) \/ Fail(r) \/ Reject(r)
        <5>1. state'[t] # "running"
            BY <1>0, <2>1, <2>2, <4>2, TaskOfRun, RetryOrFailState
            DEF Succeed, Block, Fail, Reject, Mark, TypeOK
        <5> QED  BY <5>1
      <4>3. ~Completed(r) /\ ~Notify(r) /\ ~SkipBlocked(r)
        BY <2>1 DEF Completed, Notify, SkipBlocked
      <4> QED  BY <3>4, <4>1, <4>2, <4>3 DEF RunStep
    <3>5. CASE UNCHANGED vars \/ \E u \in Tasks : WindowElapses(u)
        BY <2>1, <3>5 DEF vars, WindowElapses
    <3> QED  BY <2>1, <3>1, <3>2, <3>3, <3>4, <3>5 DEF Next
  <2>4. r \notin stray'
    <3>1. ASSUME NEW c \in Callers, NEW u \in Tasks, Register(c, u) PROVE r \notin stray'
      <4>1. u # t
        BY <1>0, <3>1 DEF Register, TypeOK
      <4> QED  BY <2>1, <3>1, <4>1 DEF Register, Begun
    <3>2. ASSUME NEW c \in Callers, CallerStep(c), \A u \in Tasks : ~Register(c, u)
          PROVE  stray' = stray
        BY <3>2 DEF CallerStep, Drain, Cancel, Retry, Skip, drainVars
    <3>3. ASSUME NEW th \in Threads, DrainStep(th) PROVE stray' \subseteq stray
        BY <3>3 DEF DrainStep, LimitReached, Claim, Sweep, Announce, Collect, Shutdown, drainVars
    <3>4. ASSUME NEW s \in Runs, RunStep(s) PROVE stray' = stray
        BY <3>4
        DEF RunStep, Start, Succeed, Block, Fail, Reject, Completed, Notify, SkipBlocked, drainVars
    <3>5. CASE UNCHANGED vars \/ \E u \in Tasks : WindowElapses(u)
        BY <2>1, <3>5 DEF vars, drainVars, WindowElapses
    <3> QED  BY <2>1, <3>1, <3>2, <3>3, <3>4, <3>5 DEF Next
  <2> QED  BY <2>1, <2>3, <2>4
<1>3. state[t] = "running" \/ \E th \in Threads : Claim(th)
    BY StepMoves DEF QueueInv, Moves, Pending, Success, Stopped
<1> QED  BY <1>1, <1>2, <1>3

\* What makes a ready task ready already before a step: the same tasks run and
\* wait, and its dependencies are as they were.
LEMMA ReadyBefore ==
    ASSUME TypeOK, TypeOK', NEW t \in Tasks, Ready(t)',
           t \in window => t \in window',
           \A u \in Tasks :
               \/ state'[u] = state[u]
               \/ state[u] \in Pending /\ state'[u] \in {"waiting", "blocked", "cancelled"}
    PROVE  Ready(t)
<1>1. \A u \in Tasks : state'[u] = "running" <=> state[u] = "running"
    BY DEF Pending
<1>2. state[t] \in Pending
    BY DEF Ready, Pending
<1>3. \A d \in Deps[t] : ~Blocking(state[d]) /\ state[d] \notin Active
  <2> SUFFICES ASSUME NEW d \in Deps[t] PROVE ~Blocking(state[d]) /\ state[d] \notin Active
    OBVIOUS
  <2>1. d \in Tasks /\ ~Blocking(state'[d]) /\ state'[d] \notin Active
    BY TaskAssumption DEF Ready, DependencyBlocked, MustWait, DependencyUnfinished
  <2>2. state'[d] = state[d]
    BY <2>1 DEF Blocking, Stopped, Active, Pending
  <2> QED  BY <2>1, <2>2
<1>4. HasRoom(t, {})
  <2>1. Holders(t, {})' = Holders(t, {})
    BY <1>1 DEF Holders
  <2> QED  BY <2>1 DEF Ready, MustWait, HasRoom
<1>5. t \notin window
    BY DEF Ready, MustWait
<1> QED  BY <1>2, <1>3, <1>4, <1>5 DEF Ready, DependencyBlocked, MustWait, DependencyUnfinished

\* The steps of LeftReadyOnly, with what the callers and the handlers must be
\* able to do.
LeavesReady ==
    \A t \in Tasks :
        Ready(t)' /\ ~SomebodyClaims' =>
            \/ Ready(t) /\ ~SomebodyClaims
            \/ "register" \in CallerOps /\ \E c \in Callers : Register(c, t)
            \/ t \in window
            \/ \E th \in Threads :
                pc[th] = "claim" /\ limit[th] # NoLimit /\ pc'[th] = "shutdown"
            \/ HandlersMayRaise /\ \E r \in Runs : pc[r] = "notify" /\ pc'[r] = "raised"

\* A claim hands on what is ready: it takes a task, whose future will look for
\* ready tasks in its turn, or there is none to take.
LEMMA ClaimHandsOn ==
    ASSUME TypeOK, NEW th \in Threads, Claim(th), NEW t \in Tasks, Ready(t)'
    PROVE  SomebodyClaims'
<1> USE DEF Threads
<1> DEFINE n == IF limit[th] = NoLimit THEN NoLimit ELSE Remaining(th)
           Futures(C) == {r \in Runs : TaskOf(r) \in C /\ FirstIdle(r)}
<1>1. PICK C \in SUBSET {u \in Tasks : Ready(u)} :
        /\ IsClaim(C, n)
        /\ \A u \in C : \E r \in Futures(C) : TaskOf(r) = u
        /\ state' = [u \in Tasks |-> IF u \in C THEN "running" ELSE state[u]]
        /\ window' = window \ C
        /\ pc' = [x \in Threads |->
                    IF x = th THEN IF C = {} /\ InFlight(th) = {} THEN "sweep" ELSE "wait"
                    ELSE IF x \in Futures(C) THEN "pending" ELSE pc[x]]
    BY DEF Claim
<1>2. pc[th] = "claim" /\ (limit[th] # NoLimit => Remaining(th) > 0)
    BY DEF Claim
<1>3. ASSUME NEW u \in C PROVE SomebodyClaims'
  <2>1. PICK r \in Runs : TaskOf(r) \in C /\ FirstIdle(r)
    BY <1>1, <1>3
  <2>2. pc'[r] = "pending"
    BY <1>1, <1>2, <2>1 DEF FirstIdle
  <2> QED  BY <2>2 DEF WillClaim, SomebodyClaims
<1>4. ASSUME C = {} PROVE FALSE
  <2>1. state' = state /\ window' = window
    BY <1>1, <1>4 DEF TypeOK
  <2>2. Ready(t)
    BY <2>1 DEF Ready, DependencyBlocked, MustWait, DependencyUnfinished, HasRoom, Holders
  <2>3. {u \in C : Rank[u] < Rank[t]} = {}
    BY <1>4
  <2>4. HasRoom(t, {u \in C : Rank[u] < Rank[t]})
    BY <2>2, <2>3 DEF Ready, MustWait
  <2>5. Cardinality({u \in C : Rank[u] < Rank[t]}) = 0
    BY <2>3, FS_EmptySet
  <2>6. n # NoLimit => Cardinality({u \in C : Rank[u] < Rank[t]}) < n
    BY <1>2, <2>5
  <2>7. t \in C
    BY <1>1, <2>2, <2>4, <2>6 DEF IsClaim
  <2> QED  BY <1>4, <2>7
<1> QED  BY <1>3, <1>4

\* Every other step keeps the threads that will look for ready tasks, leaves one
\* behind, or is one of those LeftReadyOnly names.
LEMMA LeavesReadyStep ==
    ASSUME TypeOK, TypeOK', RunningHeld, [Next]_vars
    PROVE  LeavesReady
<1> USE DEF Goto, Threads
<1> SUFFICES ASSUME NEW t \in Tasks, Ready(t)', ~SomebodyClaims',
                    ~("register" \in CallerOps /\ \E c \in Callers : Register(c, t)),
                    t \notin window
             PROVE  \/ Ready(t) /\ ~SomebodyClaims
                    \/ \E th \in Threads :
                        pc[th] = "claim" /\ limit[th] # NoLimit /\ pc'[th] = "shutdown"
                    \/ /\ HandlersMayRaise
                       /\ \E r \in Runs : pc[r] = "notify" /\ pc'[r] = "raised"
    BY DEF LeavesReady
<1>0. \A th \in Threads : ~WillClaim(th)'
    BY DEF SomebodyClaims
<1>1. ASSUME NEW c \in Callers, CallerStep(c) PROVE Ready(t) /\ ~SomebodyClaims
  <2>1. pc'[c] # "claim"
    BY <1>0 DEF WillClaim
  <2>3. CASE \E u \in Tasks : Register(c, u)
    <3>1. PICK u \in Tasks : Register(c, u)
        BY <2>3
    <3>2. u # t /\ UNCHANGED pc /\ window' = window \ {u}
        BY <2>1, <3>1 DEF Register, Call, TypeOK
    <3>3. \A v \in Tasks \ {u} : state'[v] = state[v]
        BY <3>1 DEF Register, TypeOK
    <3>4. u \notin Deps[t]
        BY <3>1 DEF Register, Ready, MustWait, DependencyUnfinished, Active, Pending, TypeOK
    <3>5. ~SomebodyClaims
        BY <1>0, <3>2 DEF SomebodyClaims, WillClaim
    <3>6. state[u] # "running" /\ state'[u] # "running"
      <4>1. ASSUME NEW r \in Runs PROVE pc[r] \notin InUse
        BY <3>5, TaskOfRun DEF SomebodyClaims, WillClaim, InUse
      <4> QED  BY <3>1, <4>1 DEF RunningHeld, Register, TypeOK
    <3>7. Ready(t)
      <4>1. state[t] \in Pending /\ t \notin window
        BY <3>2, <3>3 DEF Ready
      <4>2. \A d \in Deps[t] : d \in Tasks /\ state'[d] = state[d]
        BY <3>3, <3>4, TaskAssumption
      <4>3. Holders(t, {})' = Holders(t, {})
        BY <3>3, <3>6 DEF Holders
      <4> QED  BY <4>1, <4>2, <4>3, <3>2
                DEF Ready, DependencyBlocked, MustWait, DependencyUnfinished, HasRoom
    <3> QED  BY <3>5, <3>7
  <2>4. CASE \E u \in Tasks : Cancel(c, u)
    <3>1. PICK u \in Tasks : Cancel(c, u)
        BY <2>4
    <3>2. UNCHANGED pc
        BY <3>1 DEF Cancel
    <3>3. \A v \in Tasks : state'[v] = state[v] \/ (state[v] \in Pending /\ state'[v] = "cancelled")
        BY <3>1 DEF Cancel, TypeOK
    <3>4. Ready(t)
        BY <3>3, ReadyBefore
    <3> QED  BY <1>0, <3>2, <3>4 DEF SomebodyClaims, WillClaim
  <2> QED  BY <1>1, <2>1, <2>3, <2>4 DEF CallerStep, Drain, Retry, Skip, TypeOK
<1>2. ASSUME NEW th \in Threads, DrainStep(th)
      PROVE  \/ Ready(t) /\ ~SomebodyClaims
             \/ pc[th] = "claim" /\ limit[th] # NoLimit /\ pc'[th] = "shutdown"
  <2>1. CASE LimitReached(th)
    BY <2>1 DEF LimitReached, TypeOK
  <2>2. CASE Claim(th)
    BY <2>2, ClaimHandsOn
  <2>3. CASE Sweep(th)
    <3>1. PICK B \in SUBSET {u \in Tasks : state[u] \in Pending} :
            state' = [u \in Tasks |->
                        IF u \in B THEN "blocked"
                        ELSE IF state[u] = "queued" /\ MustWait(u) THEN "waiting"
                        ELSE state[u]]
        BY <2>3 DEF Sweep
    <3>2. \A v \in Tasks :
            \/ state'[v] = state[v]
            \/ state[v] \in Pending /\ state'[v] \in {"waiting", "blocked", "cancelled"}
        BY <3>1 DEF Pending
    <3>3. Ready(t)
        BY <3>2, ReadyBefore
    <3>4. \A x \in Threads : WillClaim(x) => x # th /\ pc'[x] = pc[x]
        BY <2>3 DEF Sweep, WillClaim, TypeOK
    <3> QED  BY <1>0, <3>3, <3>4 DEF SomebodyClaims, WillClaim
  <2>4. CASE Announce(th) \/ Collect(th)
    <3>1. state' = state /\ window' = window
        BY <2>4 DEF Announce, Collect, queueVars
    <3>2. Ready(t)
        BY <3>1, ReadyBefore
    <3>3. \A x \in Threads : WillClaim(x) => pc'[x] = pc[x]
        BY <2>4 DEF Announce, Collect, InFlight, WillClaim, Finished, TypeOK
    <3> QED  BY <1>0, <3>2, <3>3 DEF SomebodyClaims, WillClaim
  <2>5. CASE Shutdown(th)
    <3>1. CASE th \in failing \cap guarded
      <4>1. pc'[th] = "notify"
        BY <2>5, <3>1, ThreadAssumption DEF Shutdown, TypeOK
      <4> QED  BY <1>0, <4>1 DEF WillClaim
    <3>2. CASE th \notin failing \cap guarded
      <4>1. state' = state /\ window' = window
        BY <2>5, <3>2 DEF Shutdown, queueVars
      <4>2. Ready(t)
        BY <4>1, ReadyBefore
      <4>3. \A x \in Threads : WillClaim(x) => pc'[x] = pc[x]
        BY <2>5 DEF Shutdown, InFlight, WillClaim, Finished, TypeOK
      <4> QED  BY <1>0, <4>2, <4>3 DEF SomebodyClaims, WillClaim
    <3> QED  BY <3>1, <3>2
  <2> QED  BY <1>2, <2>1, <2>2, <2>3, <2>4, <2>5 DEF DrainStep
<1>3. ASSUME NEW r \in Runs, RunStep(r) 
      PROVE  HandlersMayRaise /\ pc[r] = "notify" /\ pc'[r] = "raised"
  <2>1. \/ pc'[r] \in {"executing", "completed", "notify", "skipping", "claim"}
        \/ HandlersMayRaise /\ pc[r] = "notify" /\ pc'[r] = "raised"
    BY <1>3
    DEF RunStep, Start, Succeed, Block, Fail, Reject, Completed, Notify, SkipBlocked, TypeOK
  <2> QED  BY <1>0, <2>1 DEF WillClaim
<1>4. CASE UNCHANGED vars \/ \E u \in Tasks : WindowElapses(u)
  <2>1. UNCHANGED <<state, pc>>
    BY <1>4 DEF vars, queueVars, WindowElapses
  <2>2. Ready(t)
    BY <2>1, ReadyBefore
  <2> QED  BY <1>0, <2>1, <2>2 DEF SomebodyClaims, WillClaim
<1> QED  BY <1>1, <1>2, <1>3, <1>4 DEF Next

\* A ready task is left to nobody by four things only, and by nothing else that
\* any number of callers and nested drains do: a registration without a drain, a
\* retry window that elapses, a drain at its limit, a handler that raises
\* (LeftReadyOnly).
THEOREM WhoLeavesReady == Spec => LeftReadyOnly
<1>1. Init => RunningHeld
    BY DEF Init, RunningHeld
<1>2. QueueInv /\ RunningHeld /\ [Next]_vars => RunningHeld'
    BY RunningHeldStep
<1>3. QueueInv /\ RunningHeld /\ [Next]_vars => LeavesReady
  <2>1. TypeOK /\ [Next]_vars => TypeOK'
    BY TypeStep
  <2> QED  BY <2>1, LeavesReadyStep DEF QueueInv
<1>4. Spec => [][LeavesReady]_vars
    BY <1>1, <1>2, <1>3, QueueInvariant, PTL DEF Spec
<1>5. LeavesReady => LeftReadyStep
    BY DEF LeavesReady, LeftReadyStep
<1> QED  BY <1>4, <1>5, PTL DEF LeftReadyOnly

-----------------------------------------------------------------------------
(* No lost wake-up                                                          *)

\* Every drain takes what it can get, and every call that adds, resets or skips
\* a task drains: the situations in which the code leaves a ready task to
\* nobody are excluded (a limited drain, a bare register, a retry window that
\* elapses, a handler that raises).
EveryoneDrains ==
    /\ ~HandlersMayRaise
    /\ Backoff = {}
    /\ Limits = {}
    /\ "register" \notin CallerOps
    /\ Initial = {}

PlainInv == window = {} /\ \A th \in Threads : limit[th] = NoLimit

LEMMA PlainStep ==
    ASSUME EveryoneDrains, QueueInv, PlainInv, [Next]_vars
    PROVE  PlainInv'
<1> USE DEF EveryoneDrains, PlainInv
<1>0. TypeOK
    BY DEF QueueInv
<1>1. ASSUME NEW c \in Callers, CallerStep(c) PROVE PlainInv'
  <2>1. ASSUME NEW t \in Tasks, Register(c, t) \/ Cancel(c, t) \/ Retry(c, t) PROVE PlainInv'
    BY <2>1 DEF Register, Cancel, Retry, drainVars
  <2>2. ASSUME NEW n \in Limits \cup {NoLimit}, Drain(c, n) PROVE PlainInv'
    BY <1>0, <2>2 DEF Drain, queueVars, TypeOK
  <2>3. ASSUME NEW t \in Tasks, Skip(c, t) PROVE PlainInv'
    BY <2>3 DEF Skip, SkipTask, queueVars, drainVars
  <2> QED  BY <1>1, <2>1, <2>2, <2>3 DEF CallerStep
<1>2. ASSUME NEW th \in Threads, DrainStep(th) PROVE PlainInv'
  <2>1. CASE LimitReached(th) \/ Sweep(th) \/ Announce(th) \/ Collect(th) \/ Claim(th)
    BY <2>1 DEF LimitReached, Sweep, Announce, Collect, Claim, queueVars, drainVars
  <2>2. CASE Shutdown(th)
    BY <1>0, <2>2 DEF Shutdown, queueVars, QueueInv, CalmInv, TypeOK
  <2> QED  BY <1>2, <2>1, <2>2 DEF DrainStep
<1>3. ASSUME NEW r \in Runs, RunStep(r) PROVE PlainInv'
    BY <1>3 DEF RunStep, Start, Succeed, Block, Fail, Reject, Completed, Notify, SkipBlocked,
                RetryOrFail, Mark, SkipTask, queueVars, drainVars
<1>4. CASE UNCHANGED vars \/ \E t \in Tasks : WindowElapses(t)
    BY <1>4 DEF vars, queueVars, drainVars, WindowElapses
<1> QED  BY <1>1, <1>2, <1>3, <1>4 DEF Next

\* When every call drains and no handler raises, nothing can leave a ready task.
LEMMA ReadyStep ==
    ASSUME EveryoneDrains, QueueInv, PlainInv, RunningHeld, ReadyIsClaimed, [Next]_vars
    PROVE  ReadyIsClaimed'
<1>1. LeavesReady
  <2>1. TypeOK /\ TypeOK'
    BY TypeStep DEF QueueInv
  <2> QED  BY <2>1, LeavesReadyStep
<1> QED  BY <1>1 DEF LeavesReady, ReadyIsClaimed, SomebodyClaims, EveryoneDrains, PlainInv

\* The threads that will still sweep, unless they find something to run.
WillSweep(th) == WillClaim(th) \/ pc[th] \in {"wait", "sweep"}

SweepDue ==
    (\E t \in Tasks : state[t] \in Active) => \E th \in Threads : WillSweep(th)

\* depth orders the tasks by their dependencies: there is no cycle.
IsDepth(depth) ==
    /\ depth \in [Tasks -> Nat]
    /\ \A t \in Tasks : \A d \in Deps[t] : depth[d] < depth[t]

LEMMA ShallowestTask ==
    ASSUME NEW depth, IsDepth(depth), NEW U \in SUBSET Tasks, U # {}
    PROVE  \E u \in U : \A d \in Deps[u] : d \notin U
<1> DEFINE D == {depth[u] : u \in U}
<1>1. D \subseteq Nat /\ D # {}
    BY DEF IsDepth
<1>2. PICK n \in D : \A m \in D : <<m, n>> \notin OpToRel(<, Nat)
    BY <1>1, WFMin, NatLessThanWellFounded
<1>3. \A m \in D : ~(m < n)
    BY <1>1, <1>2 DEF OpToRel
<1>4. PICK u \in U : n = depth[u]
    OBVIOUS
<1>5. \A d \in Deps[u] : d \in U => depth[d] \in D /\ depth[d] < n
    BY <1>4 DEF IsDepth
<1> QED  BY <1>3, <1>5

\* A sweep that leaves a task to wait leaves a thread that will come back: with
\* nothing running and nothing ready, the first unswept task of a chain would
\* have been swept.
LEMMA SweepLeavesNone ==
    ASSUME EveryoneDrains, QueueInv, PlainInv, RunningHeld, ReadyIsClaimed,
           NEW depth, IsDepth(depth), NEW th \in Threads, Sweep(th),
           NEW t \in Tasks, state'[t] \in Active
    PROVE  \E x \in Threads : WillSweep(x)'
<1> SUFFICES ASSUME \A x \in Threads : ~WillSweep(x)' PROVE FALSE
    OBVIOUS
<1>0. TypeOK
    BY DEF QueueInv
<1>1. PICK B \in SUBSET {u \in Tasks : state[u] \in Pending} :
        /\ IsSweep(B)
        /\ state' = [u \in Tasks |->
                        IF u \in B THEN "blocked"
                        ELSE IF state[u] = "queued" /\ MustWait(u) THEN "waiting"
                        ELSE state[u]]
    BY DEF Sweep
<1>2. \A x \in Threads : ~WillClaim(x)
    BY <1>0 DEF Sweep, Goto, WillSweep, WillClaim, TypeOK
<1>3. \A u \in Tasks : ~Ready(u)
    BY <1>2 DEF ReadyIsClaimed
<1>4. \A u \in Tasks : state[u] # "running"
    BY <1>2, TaskOfRun DEF RunningHeld, WillClaim, InUse
<1> DEFINE U == {u \in Tasks : state[u] \in Pending /\ u \notin B}
<1>5. t \in U
    BY <1>1, <1>4 DEF Active, Pending
<1>6. PICK u \in U : \A d \in Deps[u] : d \notin U
  <2> HIDE DEF U
  <2>1. U \in SUBSET Tasks /\ U # {}
    BY <1>5 DEF U
  <2> QED  BY <2>1, ShallowestTask
<1>7. ASSUME NEW d \in Deps[u] PROVE state[d] \in Success
  <2>1. d \in Tasks
    BY TaskAssumption
  <2>2. state[d] \in States /\ state[d] # "running"
    BY <1>0, <1>4, <2>1 DEF TypeOK
  <2>3. ~Blocking(state[d]) /\ d \notin B
    BY <1>1 DEF IsSweep
  <2>4. state[d] \notin Pending
    BY <1>6, <2>1, <2>3
  <2> QED  BY <2>2, <2>3, <2>4 DEF Blocking, States, Active, Terminal
<1>8. HasRoom(u, {})
  <2>1. Holders(u, {}) = {}
    BY <1>4 DEF Holders
  <2>2. KeyOf[u] # NoKey => Limit[KeyOf[u]] \in Nat \ {0}
    BY KeyAssumption
  <2> QED  BY <2>1, <2>2, FS_EmptySet DEF HasRoom
<1>9. Ready(u)
    BY <1>7, <1>8
    DEF Ready, DependencyBlocked, MustWait, DependencyUnfinished, PlainInv, Blocking, Success,
        Stopped, Active, Pending
<1> QED  BY <1>3, <1>9

LEMMA SweepDueStep ==
    ASSUME EveryoneDrains, QueueInv, PlainInv, RunningHeld, ReadyIsClaimed, SweepDue,
           NEW depth, IsDepth(depth), [Next]_vars
    PROVE  SweepDue'
<1> USE DEF Goto, Threads
<1>0. TypeOK /\ failing = {} /\ ~HandlersMayRaise /\ \A x \in Threads : pc[x] # "raised"
    BY DEF QueueInv, CalmInv, EveryoneDrains
<1> SUFFICES ASSUME NEW t \in Tasks, state'[t] \in Active
             PROVE  \E x \in Threads : WillSweep(x)'
    BY DEF SweepDue
<1>1. ASSUME \A u \in Tasks : state[u] \in Active <=> state'[u] \in Active,
             \A x \in Threads : WillSweep(x) => WillSweep(x)'
      PROVE  \E x \in Threads : WillSweep(x)'
    BY <1>1 DEF SweepDue
<1>2. ASSUME NEW c \in Callers, CallerStep(c) PROVE \E x \in Threads : WillSweep(x)'
  <2>1. CASE pc'[c] = "claim"
    BY <2>1 DEF WillSweep, WillClaim
  <2>2. CASE pc'[c] # "claim"
    <3>1. PICK u \in Tasks : Cancel(c, u)
        BY <1>0, <1>2, <2>2
        DEF CallerStep, Register, Drain, Retry, Skip, Call, EveryoneDrains, TypeOK
    <3>2. UNCHANGED pc
        BY <3>1 DEF Cancel
    <3>3. state[t] \in Active
        BY <1>0, <3>1 DEF Cancel, TypeOK, Active, Pending
    <3> QED  BY <3>2, <3>3 DEF SweepDue, WillSweep, WillClaim
  <2> QED  BY <2>1, <2>2
<1>3. ASSUME NEW th \in Threads, DrainStep(th) PROVE \E x \in Threads : WillSweep(x)'
  <2>1. ~LimitReached(th)
    BY DEF LimitReached, PlainInv
  <2>2. CASE Claim(th)
    <3>1. pc'[th] \in {"sweep", "wait"}
        BY <2>2 DEF Claim
    <3> QED  BY <3>1 DEF WillSweep
  <2>3. CASE Sweep(th)
    BY <2>3, SweepLeavesNone
  <2>4. CASE Announce(th) \/ Shutdown(th)
    <3>1. UNCHANGED state
        BY <1>0, <2>4 DEF Announce, Shutdown, queueVars
    <3>2. \A x \in Threads : WillSweep(x) => pc'[x] = pc[x]
        BY <1>0, <2>4 DEF Announce, Shutdown, InFlight, WillSweep, WillClaim, Finished, TypeOK
    <3> QED  BY <1>1, <3>1, <3>2 DEF WillSweep, WillClaim
  <2>5. CASE Collect(th)
    <3>1. pc'[th] = "claim"
        BY <1>0, <2>5 DEF Collect, InFlight, TypeOK
    <3> QED  BY <3>1 DEF WillSweep, WillClaim
  <2> QED  BY <1>3, <2>1, <2>2, <2>3, <2>4, <2>5 DEF DrainStep
<1>4. ASSUME NEW r \in Runs, RunStep(r) PROVE \E x \in Threads : WillSweep(x)'
  <2>1. pc'[r] \in {"executing", "completed", "notify", "skipping", "claim"}
    BY <1>0, <1>4, TaskOfRun
    DEF RunStep, Start, Succeed, Block, Fail, Reject, Completed, Notify, SkipBlocked, TypeOK
  <2> QED  BY <2>1 DEF WillSweep, WillClaim
<1>5. CASE UNCHANGED vars \/ \E u \in Tasks : WindowElapses(u)
    BY <1>1, <1>5 DEF vars, queueVars, WindowElapses, WillSweep, WillClaim
<1> QED  BY <1>2, <1>3, <1>4, <1>5 DEF Next

WakeInv == PlainInv /\ RunningHeld /\ ReadyIsClaimed

LEMMA WakeInvariant ==
    ASSUME EveryoneDrains
    PROVE  Spec => []WakeInv
<1>1. Init => WakeInv
    BY DEF Init, WakeInv, PlainInv, RunningHeld, ReadyIsClaimed, Ready, EveryoneDrains, Pending
<1>2. QueueInv /\ WakeInv /\ [Next]_vars => WakeInv'
    BY PlainStep, RunningHeldStep, ReadyStep DEF WakeInv
<1> QED  BY <1>1, <1>2, QueueInvariant, PTL DEF Spec

\* As long as every call drains and no handler raises, a ready task always has a
\* thread that has yet to look for ready tasks: no wake-up is lost between a
\* drain that stops and a task that ends (ReadyIsClaimed).
THEOREM NoLostWakeUp ==
    ASSUME EveryoneDrains
    PROVE  Spec => []ReadyIsClaimed
<1>1. WakeInv => ReadyIsClaimed
    BY DEF WakeInv
<1> QED  BY <1>1, WakeInvariant, PTL

\* Under the same assumptions, when every drain has returned no task is left
\* queued, waiting or running, whatever chain of dependencies it was in
\* (QuiescentIsSettled).
THEOREM RestIsSettled ==
    ASSUME EveryoneDrains, NEW depth, IsDepth(depth)
    PROVE  Spec => []QuiescentIsSettled
<1>1. Init => SweepDue
    BY DEF Init, SweepDue, EveryoneDrains, Active, Pending
<1>2. QueueInv /\ WakeInv /\ SweepDue /\ [Next]_vars => SweepDue'
    BY SweepDueStep DEF WakeInv
<1>3. SweepDue => QuiescentIsSettled
    BY DEF SweepDue, QuiescentIsSettled, Quiescent, WillSweep, WillClaim, Active
<1> QED  BY <1>1, <1>2, <1>3, QueueInvariant, WakeInvariant, PTL DEF Spec
=============================================================================
