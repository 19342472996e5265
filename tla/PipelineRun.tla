---------------------------- MODULE PipelineRun ----------------------------
(***************************************************************************)
(* One run of the pipeline: the ingest tasks that start_pipeline_run       *)
(* registers, the chain of followups that task events register behind them *)
(* (combine, extraction, merge, report), and the run's record run.json,    *)
(* which executors read, change and write without a lock                   *)
(* (modnews/service/pipeline, modnews/repository/runs.py).                 *)
(*                                                                         *)
(* The queue is the one of EventQueue as its callers see it: a ready task  *)
(* is claimed, a task behind a stopped one is blocked by a sweep.  A task  *)
(* id may be registered again; the queue then holds a new object, while    *)
(* the run of the old one goes on.  An object is a task id and a number.   *)
(***************************************************************************)
EXTENDS Integers, FiniteSets

CONSTANTS
    Ingest,         \* ids of the ingest tasks of the run
    Generations,    \* objects one id may have (bound of the model)
    OthersDrain,    \* whether other threads drain while start_run registers
    ClassifyOn,     \* classification is enabled for the run
    ReportOn,       \* the report is enabled for the run
    Outcomes,       \* how an ingest executor may end, besides success
    ChainFails,     \* whether executors of the chain may fail
    UserOps,        \* commands given from outside
    Budget          \* their number (bound of the model)

Chain == {"combine", "extract", "merge", "report"}
Tasks == Ingest \cup Chain
Objects == Tasks \X (1 .. Generations)
Starter == <<"start", 0>>
Threads == Objects \cup {Starter}

Success == {"succeeded", "skipped"}
Stopped == {"failed", "cancelled", "blocked"}

ASSUME PipelineAssumption ==
    /\ Ingest # {} /\ IsFiniteSet(Ingest) /\ Ingest \cap Chain = {} /\ "start" \notin Ingest
    /\ Generations \in Nat \ {0}
    /\ {OthersDrain, ClassifyOn, ReportOn, ChainFails} \subseteq BOOLEAN
    /\ Outcomes \subseteq {"failed", "blocked", "parked"}
    /\ UserOps \subseteq {"retry", "cancel", "skip", "cancel_run"}
    /\ Budget \in Nat

VARIABLES
    gen,        \* task -> the number of its object in the queue, 0 when absent
    state,      \* object -> TaskEvent.state
    parked,     \* ingest tasks whose block is child_task_group_active
    deps,       \* task -> depends_on
    pc,         \* thread -> where it is
    held,       \* thread -> what append_checkpoint or the rule's listing has read
    copy,       \* thread -> the record its update is about to write
    patch,      \* thread -> the key its update changes
    record,     \* run.json
    tmp,        \* .run.json.tmp-<pid>, one for all threads of the process
    combined,   \* ingest tasks whose items are in the combined artifact
    toCancel,   \* tasks the cancel of the run still goes through
    ops         \* commands left

queueVars == <<gen, state, parked, deps>>
fileVars == <<copy, patch, record, tmp>>
vars == <<queueVars, pc, held, fileVars, combined, toCancel, ops>>

NoRecord == [checkpoints |-> {}, keys |-> {"none"}]

Init ==
    /\ gen = [t \in Tasks |-> 0]
    /\ state = [o \in Objects |-> "absent"]
    /\ parked = {}
    /\ deps = [t \in Tasks |-> {}]
    /\ pc = [th \in Threads |-> IF th = Starter THEN "register" ELSE "idle"]
    /\ held = [th \in Threads |-> {}]
    /\ copy = [th \in Threads |-> NoRecord]
    /\ patch = [th \in Threads |-> "checkpoints"]
    /\ record = [checkpoints |-> {}, keys |-> {}]
    /\ tmp = NoRecord
    /\ combined = {}
    /\ toCancel = {}
    /\ ops = Budget

-----------------------------------------------------------------------------

Current(t) == <<t, gen[t]>>
StateOf(t) == IF gen[t] = 0 THEN "absent" ELSE state[Current(t)]
Goto(th, where) == pc' = [pc EXCEPT ![th] = where]

\* _ingest_task_ready_for_combine
Ended(t) ==
    /\ StateOf(t) \notin {"absent", "queued", "running"}
    /\ ~(StateOf(t) = "blocked" /\ t \in parked)

\* The followup rules: what the end of t may register.
FollowupOf(t) ==
    IF t \in Ingest THEN "combine"
    ELSE IF t = "combine" THEN "extract"
    ELSE IF t = "extract" THEN "merge"
    ELSE "report"

\* classification_enabled_for_run and report_enabled_for_run.
Enabled(t) ==
    /\ t # "combine" => ClassifyOn
    /\ t = "report" => ReportOn

-----------------------------------------------------------------------------
(* start: register the ingest tasks one by one, then write their ids        *)

RegisterIngest(t) ==
    /\ pc[Starter] = "register"
    /\ gen[t] = 0
    /\ gen' = [gen EXCEPT ![t] = 1]
    /\ state' = [state EXCEPT ![<<t, 1>>] = "queued"]
    /\ Goto(Starter, IF \A u \in Ingest \ {t} : gen[u] > 0 THEN "load" ELSE "register")
    /\ patch' = [patch EXCEPT ![Starter] = "task_ids"]
    /\ UNCHANGED <<parked, deps, held, copy, record, tmp, combined, toCancel, ops>>

-----------------------------------------------------------------------------
(* run.json                                                                 *)

\* append_checkpoint reads the list of checkpoints.
ReadCheckpoints(th) ==
    /\ pc[th] = "read"
    /\ held' = [held EXCEPT ![th] = record.checkpoints]
    /\ patch' = [patch EXCEPT ![th] = "checkpoints"]
    /\ Goto(th, "load")
    /\ UNCHANGED <<queueVars, copy, record, tmp, combined, toCancel, ops>>

\* update reads the record and patches one key of its copy.
LoadRecord(th) ==
    /\ pc[th] = "load"
    /\ copy' = [copy EXCEPT ![th] =
                   IF patch[th] = "checkpoints"
                   THEN [record EXCEPT !.checkpoints = held[th] \cup {th[1]}]
                   ELSE [record EXCEPT !.keys = @ \cup {patch[th]}]]
    /\ held' = [held EXCEPT ![th] = {}]
    /\ Goto(th, "stage")
    /\ UNCHANGED <<queueVars, patch, record, tmp, combined, toCancel, ops>>

\* _write_json_atomic writes the temporary file, whose name has only the pid.
StageRecord(th) ==
    /\ pc[th] = "stage"
    /\ tmp' = copy[th]
    /\ copy' = [copy EXCEPT ![th] = NoRecord]
    /\ Goto(th, "replace")
    /\ UNCHANGED <<queueVars, held, patch, record, combined, toCancel, ops>>

\* os.replace; it raises when another thread has moved the file away.
ReplaceRecord(th) ==
    /\ pc[th] = "replace"
    /\ tmp # NoRecord
    /\ record' = tmp
    /\ tmp' = NoRecord
    /\ IF th[1] = "combine" /\ patch[th] = "checkpoints"
       THEN patch' = [patch EXCEPT ![th] = "combined_ingest_path"] /\ Goto(th, "load")
       ELSE /\ patch' = [patch EXCEPT ![th] = "checkpoints"]
            /\ Goto(th, IF th = Starter THEN "done" ELSE "succeed")
    /\ UNCHANGED <<queueVars, held, copy, combined, toCancel, ops>>

-----------------------------------------------------------------------------
(* Tasks                                                                    *)

\* Faulty: a dependency that has ended in any way will do.
ClaimAfterEnd(o) ==
    /\ o = Current(o[1])
    /\ pc[o] = "idle"
    /\ state[o] = "queued"
    /\ OthersDrain \/ pc[Starter] = "done"
    /\ \A d \in deps[o[1]] : StateOf(d) \notin {"queued", "running"}
    /\ state' = [state EXCEPT ![o] = "running"]
    /\ Goto(o, "exec")
    /\ UNCHANGED <<gen, parked, deps, held, fileVars, combined, toCancel, ops>>

\* Some drain claims the task.
Claim(o) ==
    LET t == o[1]
    IN  /\ o = Current(t)
        /\ pc[o] = "idle"
        /\ state[o] = "queued"
        /\ OthersDrain \/ pc[Starter] = "done"
        /\ \A d \in deps[t] : StateOf(d) \in Success
        /\ state' = [state EXCEPT ![o] = "running"]
        /\ Goto(o, "exec")
        /\ UNCHANGED <<gen, parked, deps, held, fileVars, combined, toCancel, ops>>

\* The executor has its result: an ingest task has its items, combine reads the
\* checkpoints of the record and writes the items of all of them.
Execute(o) ==
    /\ pc[o] = "exec"
    /\ Goto(o, IF o[1] \in Ingest \cup {"combine"} THEN "read" ELSE "succeed")
    /\ combined' = IF o[1] = "combine" THEN record.checkpoints \cap Ingest ELSE combined
    /\ UNCHANGED <<queueVars, held, fileVars, toCancel, ops>>

\* Faulty: a blocked task sends nothing to the rules.
NotifiedUnblocked(o, outcome) ==
    IF o[1] = "report" \/ outcome \in {"parked", "blocked"} THEN "idle"
    ELSE IF o[1] \in Ingest THEN "list"
    ELSE IF outcome = "succeeded" THEN "check" ELSE "idle"

\* Faulty: the steps behind combine listen to no event.
NotifiedIngest(o, outcome) ==
    IF o[1] \notin Ingest \/ outcome = "parked" THEN "idle" ELSE "list"

\* What the thread of an ended task does next: the rules for combine are asked
\* after any end of an ingest task that is not a wait for children; the others
\* only after a success.
Notified(o, outcome) ==
    IF o[1] = "report" \/ outcome = "parked" THEN "idle"
    ELSE IF o[1] \in Ingest THEN "list"
    ELSE IF outcome = "succeeded" THEN "check" ELSE "idle"

End(o, outcome) ==
    /\ state' = [state EXCEPT ![o] = IF outcome = "parked" THEN "blocked" ELSE outcome]
    /\ parked' = IF outcome = "parked" THEN parked \cup {o[1]} ELSE parked \ {o[1]}
    /\ Goto(o, Notified(o, outcome))

Succeed(o) ==
    /\ pc[o] = "succeed"
    /\ End(o, "succeeded")
    /\ UNCHANGED <<gen, deps, held, fileVars, combined, toCancel, ops>>

Fail(o) ==
    /\ pc[o] = "exec"
    /\ \E outcome \in IF o[1] \in Ingest THEN Outcomes
                      ELSE IF ChainFails THEN {"failed"} ELSE {} :
            End(o, outcome)
    /\ UNCHANGED <<gen, deps, held, fileVars, combined, toCancel, ops>>

\* The executor, or the start of the run, raises FileNotFoundError.
LoseReplace(th) ==
    /\ pc[th] = "replace"
    /\ tmp = NoRecord
    /\ patch' = [patch EXCEPT ![th] = "checkpoints"]
    /\ IF th = Starter
       THEN Goto(th, "done") /\ UNCHANGED <<state, parked>>
       ELSE End(th, "failed")
    /\ UNCHANGED <<gen, deps, held, copy, record, tmp, combined, toCancel, ops>>

\* Faulty: only a failure stops the tasks behind it.
SweepFailed(t) ==
    /\ StateOf(t) = "queued"
    /\ \E d \in deps[t] : StateOf(d) = "failed"
    /\ state' = [state EXCEPT ![Current(t)] = "blocked"]
    /\ UNCHANGED <<gen, parked, deps, pc, held, fileVars, combined, toCancel, ops>>

\* _mark_blocked
Sweep(t) ==
    /\ StateOf(t) = "queued"
    /\ \E d \in deps[t] : StateOf(d) \in Stopped
    /\ state' = [state EXCEPT ![Current(t)] = "blocked"]
    /\ UNCHANGED <<gen, parked, deps, pc, held, fileVars, combined, toCancel, ops>>

\* A child of a waiting source ends, and its callback retries the source.
Unpark(t) ==
    /\ t \in parked
    /\ StateOf(t) = "blocked" /\ pc[Current(t)] = "idle"
    /\ state' = [state EXCEPT ![Current(t)] = "queued"]
    /\ parked' = parked \ {t}
    /\ UNCHANGED <<gen, deps, pc, held, fileVars, combined, toCancel, ops>>

-----------------------------------------------------------------------------
(* Followups                                                                *)

\* build_combine_ingest_followup lists the ingest tasks of the run ...
ListIngest(o) ==
    /\ pc[o] = "list"
    /\ held' = [held EXCEPT ![o] = {t \in Ingest : gen[t] > 0}]
    /\ Goto(o, "check")
    /\ UNCHANGED <<queueVars, fileVars, combined, toCancel, ops>>

\* ... and wants each of them ended; register_task looks for the followup.
CheckFollowup(o) ==
    LET next == FollowupOf(o[1])
        wanted == /\ Enabled(next)
                  /\ o[1] \in Ingest => \A t \in held[o] : Ended(t)
                  /\ gen[next] = 0
    IN  /\ pc[o] = "check"
        /\ Goto(o, IF wanted THEN "register" ELSE "idle")
        /\ held' = [held EXCEPT ![o] = IF wanted THEN @ ELSE {}]
        /\ UNCHANGED <<queueVars, fileVars, combined, toCancel, ops>>

DependsOn(o) == IF o[1] \in Ingest THEN held[o] ELSE {o[1]}

\* queue.register, which takes the place of an object with the same id.
RegisterFollowup(o) ==
    LET next == FollowupOf(o[1])
    IN  /\ pc[o] = "register" /\ o # Starter
        /\ gen[next] < Generations
        /\ gen' = [gen EXCEPT ![next] = @ + 1]
        /\ state' = [state EXCEPT ![<<next, gen[next] + 1>>] = "queued"]
        /\ deps' = [deps EXCEPT ![next] = DependsOn(o)]
        /\ held' = [held EXCEPT ![o] = {}]
        /\ Goto(o, "idle")
        /\ UNCHANGED <<parked, fileVars, combined, toCancel, ops>>

-----------------------------------------------------------------------------
(* Commands                                                                 *)

Command(op) ==
    /\ op \in UserOps
    /\ ops > 0
    /\ ops' = ops - 1

Retry(t) ==
    /\ Command("retry")
    /\ StateOf(t) \in Stopped /\ pc[Current(t)] = "idle"
    /\ state' = [state EXCEPT ![Current(t)] = "queued"]
    /\ parked' = parked \ {t}
    /\ UNCHANGED <<gen, deps, pc, held, fileVars, combined, toCancel>>

Cancel(t) ==
    /\ Command("cancel")
    /\ StateOf(t) = "queued"
    /\ state' = [state EXCEPT ![Current(t)] = "cancelled"]
    /\ UNCHANGED <<gen, parked, deps, pc, held, fileVars, combined, toCancel>>

\* A skip also takes back the blocked tasks that nothing holds any more.
IsReleased(R, t) ==
    \A u \in Tasks :
        u \in R <=> /\ StateOf(u) = "blocked" /\ u # t
                    /\ \A d \in deps[u] : d # t /\ d \notin R => StateOf(d) \notin Stopped

Skip(t) ==
    /\ Command("skip")
    /\ StateOf(t) \in {"queued"} \cup Stopped /\ pc[Current(t)] = "idle"
    /\ \E R \in SUBSET {u \in Tasks : StateOf(u) = "blocked"} :
        /\ IsReleased(R, t)
        /\ state' = [o \in Objects |->
                        IF o = Current(t) THEN "skipped"
                        ELSE IF o[1] \in R /\ o = Current(o[1]) THEN "queued"
                        ELSE state[o]]
        /\ parked' = parked \ (R \cup {t})
    /\ UNCHANGED <<gen, deps, pc, held, fileVars, combined, toCancel>>

\* cancel of the run: the tasks it lists are cancelled one at a time.
CancelRun ==
    /\ Command("cancel_run")
    /\ toCancel = {}
    /\ toCancel' = {t \in Tasks : StateOf(t) \in {"queued", "blocked"}}
    /\ UNCHANGED <<queueVars, pc, held, fileVars, combined>>

CancelNext(t) ==
    /\ t \in toCancel
    /\ toCancel' = toCancel \ {t}
    /\ state' = IF StateOf(t) = "queued"
                THEN [state EXCEPT ![Current(t)] = "cancelled"] ELSE state
    /\ UNCHANGED <<gen, parked, deps, pc, held, fileVars, combined, ops>>

-----------------------------------------------------------------------------

FileStep(th) ==
    \/ LoadRecord(th)
    \/ StageRecord(th)
    \/ ReplaceRecord(th)
    \/ LoseReplace(th)

RunStep(o) ==
    \/ Claim(o)
    \/ Execute(o)
    \/ Fail(o)
    \/ ReadCheckpoints(o)
    \/ Succeed(o)
    \/ ListIngest(o)
    \/ CheckFollowup(o)
    \/ RegisterFollowup(o)

QueueStep(t) == Sweep(t) \/ Unpark(t) \/ CancelNext(t)

UserStep ==
    \/ \E t \in Tasks : Retry(t) \/ Cancel(t) \/ Skip(t)
    \/ CancelRun

Next ==
    \/ \E t \in Ingest : RegisterIngest(t)
    \/ \E th \in Threads : FileStep(th)
    \/ \E o \in Objects : RunStep(o)
    \/ \E t \in Tasks : QueueStep(t)
    \/ UserStep

Spec == Init /\ [][Next]_vars

\* The thread of the start, the runs of claimed tasks, the drains behind them
\* and the children of waiting sources go on; nobody need give a command.
Fairness ==
    /\ WF_vars(\E t \in Ingest : RegisterIngest(t))
    /\ \A th \in Threads : WF_vars(FileStep(th))
    /\ \A o \in Objects : WF_vars(RunStep(o))
    /\ \A t \in Tasks : WF_vars(QueueStep(t))

FairSpec == Spec /\ Fairness
=============================================================================
