------------------------------ MODULE WebSource ------------------------------
(***************************************************************************)
(* The web sources of a run.  Each source is a node that scrapes, and when *)
(* the scrape finds its extractor broken, has the extractor repaired and   *)
(* scrapes again.  The repair is a node itself, with one task that runs    *)
(* the repair agent.                                                       *)
(*                                                                         *)
(* As in NodeRuntime, the queue is seen as by its callers: a queued task   *)
(* is claimed sooner or later when its key has room, and each call under   *)
(* the queue's lock is one action.  A task's event is handled, step by     *)
(* step, by the thread that ran it (cb).                                   *)
(***************************************************************************)
EXTENDS Integers, FiniteSets

CONSTANTS
    Sources,        \* web sources of the run
    Rounds,         \* scrapes of one source (bound of the model)
    Slots,          \* max_concurrency of the key web_source
    Threshold,      \* repair_policy.max_attempts_before_repair
    RepairEnabled,  \* repair_policy.enabled
    Failures,       \* how an attempt of an extractor may fail
    MayRaise,       \* "scrape", "exec", "repair", "finish": executors that may raise
    OtherDrains,    \* whether other threads drain while a node's run executes
    OtherSkips,     \* whether somebody may skip a task of another part
    UserOps,        \* queue commands
    Budget          \* number of commands (bound of the model)

Active == {"queued", "running"}     \* queued stands for waiting as well
Stopped == {"failed", "cancelled", "blocked"}
States == Active \cup Stopped \cup {"none", "succeeded", "skipped"}
Jobs == {"succeeded", "repairing", "skipped_unrepairable", "failed"}

ASSUME SourceAssumption ==
    /\ Rounds \in Nat \ {0}
    /\ Slots \in Nat \ {0}
    /\ Threshold \in Nat \ {0}
    /\ RepairEnabled \in BOOLEAN
    /\ Failures \subseteq {"network", "blocked", "parse", "missing"}

ASSUME WebEnvironmentAssumption ==
    /\ MayRaise \subseteq {"scrape", "exec", "repair", "finish"}
    /\ OtherDrains \in BOOLEAN
    /\ OtherSkips \in BOOLEAN
    /\ UserOps \subseteq {"retry", "cancel", "skip"}
    /\ Budget \in Nat

\* A task is a source, its role and a round.
Node(s) == <<s, "node", 0>>
Scrape(s, n) == <<s, "scrape", n>>
Repair(s, n) == <<s, "repair", n>>
Exec(s, n) == <<s, "exec", n>>

Nodes == Sources \X {"node"} \X {0}
Scrapes == Sources \X {"scrape"} \X (1 .. Rounds)
Repairs == Sources \X {"repair"} \X (1 .. Rounds)
Execs == Sources \X {"exec"} \X (1 .. Rounds)
Tasks == Nodes \cup Scrapes \cup Repairs \cup Execs

Parent(t) == IF t[2] = "exec" THEN Repair(t[1], t[3]) ELSE Node(t[1])

VARIABLES
    state,      \* task -> its state, "none" until it is registered
    pc,         \* task -> where its run is
    stage,      \* node or repair -> payload.node_stage
    round,      \* source -> payload.scrape_round
    waiting,    \* sources whose blocked result says child_task_group_active
    tries,      \* scrape -> attempts of its job
    job,        \* scrape -> the job among its transient results
    cb,         \* task -> where the thread is that handles its last event
    seen,       \* scrape or repair -> the stage its callback has read
    lost,       \* repairs whose executor has raised: no thread runs them any more
    failing,    \* tasks that an exception from below is about to take back
    budget      \* commands left

nodeVars == <<pc, stage, round, waiting>>
scrapeVars == <<tries, job>>
eventVars == <<cb, seen>>
lossVars == <<lost, failing>>
vars == <<state, nodeVars, scrapeVars, eventVars, lossVars, budget>>

PCs == {"idle", "run", "patch", "active", "business", "finish"}
EventPCs == {"idle", "read", "check", "wake", "notify", "look", "skip"}
Stages == {"prepare", "scrape", "repair", "exec"}

WebTypeOK ==
    /\ state \in [Tasks -> States]
    /\ pc \in [Tasks -> PCs]
    /\ stage \in [Nodes \cup Repairs -> Stages]
    /\ round \in [Sources -> 0 .. Rounds]
    /\ waiting \subseteq Sources
    /\ tries \in [Scrapes -> 0 .. Threshold]
    /\ job \in [Scrapes -> Jobs \cup {"none"}]
    /\ cb \in [Tasks -> EventPCs]
    /\ seen \in [Scrapes \cup Repairs -> Stages]
    /\ budget \in Nat

LossTypeOK ==
    /\ lost \subseteq Repairs
    /\ failing \subseteq Tasks \ Repairs

Init ==
    /\ state = [t \in Tasks |-> IF t \in Nodes THEN "queued" ELSE "none"]
    /\ pc = [t \in Tasks |-> "idle"]
    /\ stage = [t \in Nodes \cup Repairs |-> "prepare"]
    /\ round = [s \in Sources |-> 0]
    /\ waiting = {}
    /\ tries = [t \in Scrapes |-> 0]
    /\ job = [t \in Scrapes |-> "none"]
    /\ cb = [t \in Tasks |-> "idle"]
    /\ seen = [t \in Scrapes \cup Repairs |-> "prepare"]
    /\ lost = {}
    /\ failing = {}
    /\ budget = Budget

-----------------------------------------------------------------------------
(* The queue                                                                *)

\* Nodes and scrapes of all sources share the key web_source; the repair tasks
\* of a source share a key of one slot.
OfWeb(t) == t[2] \in {"node", "scrape"}

Rivals(t) == {u \in Tasks : OfWeb(u) = OfWeb(t) /\ (OfWeb(t) \/ u[1] = t[1])}

HasRoom(t) ==
    Cardinality({u \in Rivals(t) : state[u] = "running"})
        < IF OfWeb(t) THEN Slots ELSE 1

Claim(t) ==
    /\ state[t] = "queued"
    /\ HasRoom(t)
    /\ OtherDrains \/ t \in Nodes \/ pc[Parent(t)] = "idle"
    /\ state' = [state EXCEPT ![t] = "running"]
    /\ pc' = [pc EXCEPT ![t] = "run"]
    /\ tries' = IF t \in Scrapes THEN [tries EXCEPT ![t] = 0] ELSE tries
    /\ UNCHANGED <<stage, round, waiting, job, eventVars, budget, lossVars>>

\* The run of t ends and its event is dispatched.  Bound of the model: the
\* thread of its previous event has returned.
End(t, s, handler) ==
    /\ cb[t] = "idle"
    /\ state' = [state EXCEPT ![t] = s]
    /\ pc' = [pc EXCEPT ![t] = "idle"]
    /\ cb' = [cb EXCEPT ![t] = handler]

\* unblock_released_tasks: none of these tasks depends on another.
Released(states) ==
    [t \in Tasks |-> IF states[t] = "blocked" THEN "queued" ELSE states[t]]

SkipTask(t) ==
    IF state[t] \in {"succeeded", "skipped", "running"}
    THEN UNCHANGED <<state, waiting>>
    ELSE /\ state' = Released([state EXCEPT ![t] = "skipped"])
         /\ waiting' = {}

RetryTask(t) ==
    IF state[t] \in Stopped
    THEN /\ state' = [state EXCEPT ![t] = "queued"]
         /\ waiting' = IF t \in Nodes THEN waiting \ {t[1]} ELSE waiting
    ELSE UNCHANGED <<state, waiting>>

-----------------------------------------------------------------------------
(* The tasks that scrape and repair                                         *)

\* finish_failure: the state of a job after its last attempt.
JobAfter(failure, attempts) ==
    IF failure \in {"network", "blocked"} THEN "skipped_unrepairable"
    ELSE IF RepairEnabled /\ attempts >= Threshold THEN "repairing"
    ELSE "failed"

Repeats(failure, attempts) == failure = "network" /\ attempts < Threshold

\* run_source: an attempt that succeeds, one that may be repeated, or the last.
\* Bound of the model: the last round asks for no repair.
Attempt(s, n) ==
    LET t == Scrape(s, n)
        attempts == tries[t] + 1
        EndJob(j) ==
            /\ j = "repairing" => n < Rounds
            /\ job' = [job EXCEPT ![t] = j]
            /\ End(t, "succeeded", "read")
    IN  /\ pc[t] = "run"
        /\ \/ /\ EndJob("succeeded")
              /\ tries' = [tries EXCEPT ![t] = attempts]
           \/ \E f \in Failures \ {"missing"} :
                /\ tries' = [tries EXCEPT ![t] = attempts]
                /\ IF Repeats(f, attempts)
                   THEN UNCHANGED <<state, pc, job, cb>>
                   ELSE EndJob(JobAfter(f, attempts))
           \/ /\ "missing" \in Failures
              /\ tries[t] = 0
              /\ EndJob(JobAfter("missing", 0))
              /\ UNCHANGED tries
    /\ UNCHANGED <<stage, round, waiting, seen, budget, lossVars>>

\* The source is unknown or disabled by now.
ScrapeRaises(s, n) ==
    /\ "scrape" \in MayRaise
    /\ pc[Scrape(s, n)] = "run"
    /\ tries[Scrape(s, n)] = 0
    /\ End(Scrape(s, n), "failed", "read")
    /\ UNCHANGED <<stage, round, waiting, scrapeVars, seen, budget, lossVars>>

\* The agent has run, well or not; the record of the repair may be gone.
EndExec(s, n) ==
    /\ pc[Exec(s, n)] = "run"
    /\ \/ End(Exec(s, n), "succeeded", "check")
       \/ "exec" \in MayRaise /\ End(Exec(s, n), "failed", "check")
    /\ UNCHANGED <<stage, round, waiting, scrapeVars, seen, budget, lossVars>>

-----------------------------------------------------------------------------
(* The runs of the web source node and of the repair node                   *)

Goto(t, where) == pc' = [pc EXCEPT ![t] = where]

Register(parent, child) ==
    /\ state' = [state EXCEPT ![child] = "queued"]
    /\ Goto(parent, "patch")

\* Faulty: a child that has stopped counts as one that succeeded.
EndedAnyhow(t) == state[t] \notin Active

EndedWell(t) == state[t] = "succeeded"

\* _start_web_source_node
StartNode(s) ==
    /\ pc[Node(s)] = "run"
    /\ stage[Node(s)] = "prepare"
    /\ Register(Node(s), Scrape(s, 1))
    /\ UNCHANGED <<stage, round, waiting, scrapeVars, eventVars, budget, lossVars>>

\* Faulty: a scrape without items is taken for an empty one.
CompleteScrapeEmpty(s) ==
    LET child == Scrape(s, round[s])
    IN  /\ pc[Node(s)] = "run"
        /\ stage[Node(s)] = "scrape"
        /\ \/ /\ EndedWell(child)
              /\ job[child] = "repairing"
              /\ Register(Node(s), Repair(s, round[s]))
           \/ /\ ~EndedWell(child)
              /\ Goto(Node(s), "business")
              /\ UNCHANGED state
           \/ /\ EndedWell(child)
              /\ job[child] # "repairing"
              /\ Goto(Node(s), "finish")
              /\ UNCHANGED state
        /\ UNCHANGED <<stage, round, waiting, scrapeVars, eventVars, budget, lossVars>>

\* _complete_scrape_stage
CompleteScrape(s) ==
    LET child == Scrape(s, round[s])
    IN  /\ pc[Node(s)] = "run"
        /\ stage[Node(s)] = "scrape"
        /\ \/ /\ EndedWell(child)
              /\ job[child] = "repairing"
              /\ Register(Node(s), Repair(s, round[s]))
              /\ UNCHANGED cb
           \/ /\ ~EndedWell(child) \/ job[child] = "skipped_unrepairable"
              /\ Goto(Node(s), "business")
              /\ UNCHANGED <<state, cb>>
           \/ /\ EndedWell(child)
              /\ job[child] = "succeeded"
              /\ Goto(Node(s), "finish")
              /\ UNCHANGED <<state, cb>>
           \/ /\ EndedWell(child)
              /\ job[child] \in {"failed", "none"}
              /\ End(Node(s), "failed", "idle")
        /\ UNCHANGED <<stage, round, waiting, scrapeVars, seen, budget, lossVars>>

\* _complete_repair_stage
CompleteRepair(s) ==
    /\ pc[Node(s)] = "run"
    /\ stage[Node(s)] = "repair"
    /\ IF EndedWell(Repair(s, round[s]))
       THEN Register(Node(s), Scrape(s, round[s] + 1))
       ELSE Goto(Node(s), "business") /\ UNCHANGED state
    /\ UNCHANGED <<stage, round, waiting, scrapeVars, eventVars, budget, lossVars>>

\* patch_payload: the stage, the group and the round that begin.
PatchNode(s) ==
    /\ pc[Node(s)] = "patch"
    /\ stage' = [stage EXCEPT ![Node(s)] = IF @ = "scrape" THEN "repair" ELSE "scrape"]
    /\ round' = IF stage[Node(s)] = "scrape" THEN round ELSE [round EXCEPT ![s] = @ + 1]
    /\ Goto(Node(s), "active")
    /\ UNCHANGED <<state, waiting, scrapeVars, eventVars, budget, lossVars>>

\* TaskBlocked reaches the queue: to wait for a child, or for good.
BlockNode(s) ==
    /\ pc[Node(s)] \in {"active", "business"}
    /\ waiting' = IF pc[Node(s)] = "active" THEN waiting \cup {s} ELSE waiting \ {s}
    /\ End(Node(s), "blocked", "notify")
    /\ UNCHANGED <<stage, round, scrapeVars, seen, budget, lossVars>>

\* The checkpoint is written and the results of the scrape are discarded.
FinishNode(s) ==
    /\ pc[Node(s)] = "finish"
    /\ \/ /\ End(Node(s), "succeeded", "idle")
          /\ job' = [job EXCEPT ![Scrape(s, round[s])] = "none"]
       \/ /\ "finish" \in MayRaise
          /\ End(Node(s), "failed", "idle")
          /\ UNCHANGED job
    /\ UNCHANGED <<stage, round, waiting, tries, seen, budget, lossVars>>

\* _start_repair_node
StartRepair(s, n) ==
    /\ pc[Repair(s, n)] = "run"
    /\ stage[Repair(s, n)] = "prepare"
    /\ Register(Repair(s, n), Exec(s, n))
    /\ UNCHANGED <<stage, round, waiting, scrapeVars, eventVars, budget, lossVars>>

PatchRepair(s, n) ==
    /\ pc[Repair(s, n)] = "patch"
    /\ stage' = [stage EXCEPT ![Repair(s, n)] = "exec"]
    /\ Goto(Repair(s, n), "active")
    /\ UNCHANGED <<state, round, waiting, scrapeVars, eventVars, budget, lossVars>>

\* _complete_exec_stage: the node blocks when its agent did not run, and when
\* the agent has found that no code can help (build_repair_task_result).  The
\* promotion of the extractor is in ExtractorRepair.
CompleteExec(s, n) ==
    LET t == Repair(s, n)
    IN  /\ pc[t] = "run"
        /\ stage[t] = "exec"
        /\ \/ EndedWell(Exec(s, n)) /\ End(t, "succeeded", "read")
           \/ Goto(t, "business") /\ UNCHANGED <<state, cb>>
        /\ UNCHANGED <<stage, round, waiting, scrapeVars, seen, budget, lossVars>>

BlockRepair(s, n) ==
    /\ pc[Repair(s, n)] \in {"active", "business"}
    /\ End(Repair(s, n), "blocked", "read")
    /\ UNCHANGED <<stage, round, waiting, scrapeVars, seen, budget, lossVars>>

\* The agent has failed, or the record of the repair is gone.  A repair task has
\* no max_attempts, so the comparison in the queue's except branch raises in
\* turn: the task stays running, and its key stays taken.  The drain that has
\* claimed it re-raises, and so do the drains above it, up to one that was begun
\* after the success of a task with max_attempts: it stands inside that task's
\* try.  Which one it is, if any, is left open.
RepairRaises(s, n) ==
    /\ "repair" \in MayRaise
    /\ pc[Repair(s, n)] = "run"
    /\ stage[Repair(s, n)] = "exec"
    /\ EndedWell(Exec(s, n))
    /\ Goto(Repair(s, n), "idle")
    /\ lost' = lost \cup {Repair(s, n)}
    /\ \/ UNCHANGED failing
       \/ \E t \in Tasks \ Repairs :
             /\ state[t] = "succeeded"
             /\ cb[t] = "idle"
             /\ failing' = failing \cup {t}
    /\ UNCHANGED <<state, stage, round, waiting, scrapeVars, eventVars, budget>>

\* The except branch of the task above: what had succeeded has failed.
TakeBack(t) ==
    /\ t \in failing
    /\ cb[t] = "idle"
    /\ state' = [state EXCEPT ![t] = "failed"]
    /\ cb' = [cb EXCEPT ![t] =
                 IF t \in Scrapes THEN "read" ELSE IF t \in Execs THEN "check" ELSE "idle"]
    /\ failing' = failing \ {t}
    /\ UNCHANGED <<nodeVars, scrapeVars, seen, lost, budget>>

-----------------------------------------------------------------------------
(* Events                                                                   *)

Event(t, where) == cb' = [cb EXCEPT ![t] = where]

\* Faulty: the callback knows the scrape stage only.
ReadScrapeOnly(t) ==
    /\ cb[t] = "read"
    /\ Event(t, IF stage[Parent(t)] = "scrape" THEN "check" ELSE "idle")
    /\ seen' = [seen EXCEPT ![t] = stage[Parent(t)]]
    /\ UNCHANGED <<state, nodeVars, scrapeVars, budget, lossVars>>

\* handle_web_source_child_task_callback reads the stage of the node.
Read(t) ==
    /\ cb[t] = "read"
    /\ Event(t, IF stage[Parent(t)] = "prepare" THEN "idle" ELSE "check")
    /\ seen' = [seen EXCEPT ![t] = stage[Parent(t)]]
    /\ UNCHANGED <<state, nodeVars, scrapeVars, budget, lossVars>>

\* The tasks of the group the callback asks for: the last scrape, every repair
\* of the source (they share a group id), or the agent's run.
GroupOf(t) ==
    LET s == t[1]
    IN  IF t[2] = "exec" THEN {t}
        ELSE IF seen[t] = "scrape" THEN {u \in Scrapes : u[1] = s /\ u[3] = round[s]}
        ELSE {u \in Repairs : u[1] = s}

\* group_summary: a member that is blocked is not active.
Check(t) ==
    /\ cb[t] = "check"
    /\ Event(t, IF \E u \in GroupOf(t) : state[u] \in Active THEN "idle" ELSE "wake")
    /\ UNCHANGED <<state, nodeVars, scrapeVars, seen, budget, lossVars>>

\* queue.retry of the parent
Wake(t) ==
    /\ cb[t] = "wake"
    /\ RetryTask(Parent(t))
    /\ Event(t, "idle")
    /\ UNCHANGED <<pc, stage, round, scrapeVars, seen, budget, lossVars>>

\* handle_blocked_web_source_event leaves a node alone that waits for a child,
\* as the result says when the event is put together.  (A repair the node has
\* registered is still in the queue, so ensure_repair_queue_task reuses it.)
Notify(s) ==
    /\ cb[Node(s)] = "notify"
    /\ Event(Node(s), IF s \in waiting THEN "idle" ELSE "look")
    /\ UNCHANGED <<state, nodeVars, scrapeVars, seen, budget, lossVars>>

\* safely_skip_blocked_task looks at the state, and skips.
Look(s) ==
    /\ cb[Node(s)] = "look"
    /\ Event(Node(s), IF state[Node(s)] = "blocked" THEN "skip" ELSE "idle")
    /\ UNCHANGED <<state, nodeVars, scrapeVars, seen, budget, lossVars>>

SkipBlocked(s) ==
    /\ cb[Node(s)] = "skip"
    /\ SkipTask(Node(s))
    /\ Event(Node(s), "idle")
    /\ UNCHANGED <<pc, stage, round, scrapeVars, seen, budget, lossVars>>

-----------------------------------------------------------------------------
(* Commands.  Repairs are not cancelled: Notify relies on it.               *)

Spend(op) ==
    /\ op \in UserOps
    /\ budget > 0
    /\ budget' = budget - 1

Retry(t) ==
    /\ Spend("retry")
    /\ state[t] \in Stopped
    /\ RetryTask(t)
    /\ UNCHANGED <<pc, stage, round, scrapeVars, eventVars, lossVars>>

Cancel(t) ==
    /\ Spend("cancel")
    /\ state[t] = "queued"
    /\ t \notin Repairs
    /\ state' = [state EXCEPT ![t] = "cancelled"]
    /\ UNCHANGED <<nodeVars, scrapeVars, eventVars, lossVars>>

Skip(t) ==
    /\ Spend("skip")
    /\ state[t] \in Stopped \cup {"queued"}
    /\ SkipTask(t)
    /\ UNCHANGED <<pc, stage, round, scrapeVars, eventVars, lossVars>>

SkipOther ==
    /\ OtherSkips
    /\ budget > 0
    /\ budget' = budget - 1
    /\ state' = Released(state)
    /\ waiting' = {}
    /\ UNCHANGED <<pc, stage, round, scrapeVars, eventVars, lossVars>>

-----------------------------------------------------------------------------

NodeStep(s) ==
    \/ StartNode(s)
    \/ CompleteScrape(s)
    \/ CompleteRepair(s)
    \/ PatchNode(s)
    \/ BlockNode(s)
    \/ FinishNode(s)
    \/ Notify(s)
    \/ Look(s)
    \/ SkipBlocked(s)

ChildStep(s, n) ==
    \/ Attempt(s, n)
    \/ ScrapeRaises(s, n)
    \/ EndExec(s, n)
    \/ StartRepair(s, n)
    \/ PatchRepair(s, n)
    \/ CompleteExec(s, n)
    \/ BlockRepair(s, n)
    \/ RepairRaises(s, n)

Callback(t) ==
    \/ t \in Scrapes \cup Repairs /\ Read(t)
    \/ Check(t)
    \/ Wake(t)

Command ==
    \/ \E t \in Tasks : Retry(t) \/ Cancel(t) \/ Skip(t)
    \/ SkipOther

Next ==
    \/ \E s \in Sources : NodeStep(s)
    \/ \E s \in Sources, n \in 1 .. Rounds : ChildStep(s, n)
    \/ \E t \in Tasks : Claim(t) \/ Callback(t) \/ TakeBack(t)
    \/ Command

Spec == Init /\ [][Next]_vars

\* The queue claims what is ready, executors and handlers return.
FairSpec ==
    /\ Spec
    /\ \A s \in Sources : WF_vars(NodeStep(s))
    /\ \A s \in Sources, n \in 1 .. Rounds : WF_vars(ChildStep(s, n))
    /\ WF_vars(\E t \in Tasks : Claim(t))
    /\ \A t \in Tasks : WF_vars(Callback(t)) /\ WF_vars(TakeBack(t))
=============================================================================
