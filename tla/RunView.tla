------------------------------ MODULE RunView ------------------------------
(***************************************************************************)
(* What the CLI and the web UI show of a run                               *)
(* (modnews/service/pipeline/read_model.py and read_model_support.py):     *)
(* the tasks the queue knows, grouped by step, the checkpoints on disk,    *)
(* and the run state that the completion handlers keep in memory           *)
(* (run_state.py, run_state_views.py, runtime_store.py).  The handlers run *)
(* in the worker threads, read that state, and write it back later.        *)
(***************************************************************************)
EXTENDS Integers, FiniteSets, Sequences

CONSTANTS
    ViewTasks,      \* ids of the run's tasks
    ViewSteps,      \* concrete step ids
    StepOf,         \* task -> its step_id
    Stages,         \* ids of the pipeline steps (descriptors)
    StageOf,        \* concrete step -> the pipeline step it matches; those of repairs
                    \*   (extractor/repair, .../exec) match none
    Disabled,       \* pipeline steps the run's payload disables
    ViewCommands    \* commands and restarts (bound of the model)

ASSUME ViewAssumption ==
    /\ IsFiniteSet(ViewTasks)
    /\ StepOf \in [ViewTasks -> ViewSteps]
    /\ DOMAIN StageOf \subseteq ViewSteps
    /\ \A s \in DOMAIN StageOf : StageOf[s] \in Stages
    /\ Disabled \subseteq Stages
    /\ ViewCommands \in Nat

VARIABLES
    vstate,     \* task -> its state in the queue, "absent" when it has none
    vsaved,     \* step -> the status of its latest checkpoint, or "none"
    overlay,    \* _RUNTIME_RUN_STATE of the run, NoOverlay before the first sync
    handler,    \* task -> where the handler of its last end is
    draft,      \* task -> what that handler is about to write
    vcommands   \* commands and restarts left

viewVars == <<vstate, vsaved, overlay, handler, draft, vcommands>>

ViewPassed == {"succeeded", "skipped"}
ViewTerminal == ViewPassed \cup {"failed", "cancelled", "blocked"}
ViewActive == {"queued", "waiting", "running"}
Statuses == {"idle", "queued", "running", "failed", "blocked", "succeeded", "partial",
             "skipped", "completed_with_errors"}

NoStep == [status |-> "idle", queued |-> {}]
StepRows == [status : Statuses, queued : SUBSET ViewTasks]
NoOverlay == [known |-> FALSE, state |-> "queued", events |-> {},
              steps |-> [s \in ViewSteps |-> NoStep]]

ViewInit ==
    /\ vstate = [t \in ViewTasks |-> "absent"]
    /\ vsaved = [s \in ViewSteps |-> "none"]
    /\ overlay = NoOverlay
    /\ handler = [t \in ViewTasks |-> "idle"]
    /\ draft = [t \in ViewTasks |-> NoOverlay]
    /\ vcommands = ViewCommands

-----------------------------------------------------------------------------
(* Views                                                                    *)

ViewKnown == {t \in ViewTasks : vstate[t] # "absent"}
TasksOf(s) == {t \in ViewKnown : StepOf[t] = s}
StatesOf(T) == {vstate[t] : t \in T}

\* The first entry of a list of statuses that is in S, or else the default.
FirstIn(list, S, default) ==
    LET hits == {i \in DOMAIN list : list[i] \in S}
    IN  IF hits = {} THEN default
        ELSE list[CHOOSE i \in hits : \A j \in hits : i <= j]

\* step_status and derive_step_state: by the tasks, or else the checkpoint.
StepStatus(s, default) ==
    LET S == StatesOf(TasksOf(s))
        ended == IF S = {"succeeded"} THEN "succeeded" ELSE "partial"
    IN  IF S = {} THEN IF vsaved[s] = "none" THEN default ELSE vsaved[s]
        ELSE IF S \cap {"queued", "waiting"} # {} /\ S \cap {"failed", "blocked", "running"} = {}
        THEN "queued"
        ELSE FirstIn(<<"failed", "blocked", "running">>, S, ended)

\* build_step_views; a step without tasks and checkpoints has no row.
Row(s) ==
    [status |-> StepStatus(s, "idle"),
     queued |-> {t \in TasksOf(s) : vstate[t] \in ViewActive}]

HasRow(s) == TasksOf(s) # {} \/ vsaved[s] # "none"

\* Faulty: the kept row goes over the one of now.
MergeKept(s) ==
    LET kept == overlay.steps[s]
    IN  IF kept # NoStep \/ ~HasRow(s) THEN kept ELSE Row(s)

\* merge_steps: the row of now over the kept one; an empty list does not
\* replace a kept one.
Merge(s) ==
    LET kept == overlay.steps[s]
    IN  IF ~HasRow(s) THEN kept
        ELSE [status |-> Row(s).status,
              queued |-> IF Row(s).queued = {} THEN kept.queued ELSE Row(s).queued]

\* _aggregate_pipeline_step_status.
Aggregate(S) ==
    IF S = {} THEN "idle"
    ELSE FirstIn(<<"failed", "blocked", "running", "queued", "partial">>, S,
                 IF S = {"succeeded"} THEN "succeeded" ELSE CHOOSE x \in S : TRUE)

\* pipeline_status_overrides: only for a step that would be idle.
StageStatus(p) ==
    LET matching == {s \in DOMAIN StageOf : StageOf[s] = p}
        shown == Aggregate({Merge(s).status : s \in matching} \ {"idle"})
    IN  IF shown = "idle" /\ p \in Disabled THEN "skipped" ELSE shown

\* _derive_run_state: what sync_run_state keeps.
DerivedState(default) ==
    LET S == StatesOf(ViewKnown)
    IN  IF S = {} THEN default
        ELSE FirstIn(<<"failed", "blocked", "running", "queued", "waiting">>, S,
                     IF S = {"succeeded"} THEN "succeeded" ELSE "partial")

\* _resolve_run_state: what is shown.  With a cancelled task among ended ones,
\* or without tasks, the steps decide, and at last the kept state.
ShownState ==
    LET S == StatesOf(ViewKnown)
        steps == {Merge(s).status : s \in {s \in ViewSteps : HasRow(s)}}
        statuses == IF steps # {} THEN steps ELSE {StageStatus(p) : p \in Stages}
        material == statuses \ {"idle"}
        byTasks == FirstIn(<<"failed", "blocked", "running", "queued", "waiting">>, S, "none")
        bySteps == FirstIn(<<"failed", "blocked", "running", "queued">>, statuses, "none")
    IN  IF byTasks = "waiting" THEN "queued"
        ELSE IF byTasks # "none" THEN byTasks
        ELSE IF S # {} /\ S \subseteq ViewPassed
        THEN IF S = {"succeeded"} THEN "succeeded" ELSE "partial"
        ELSE IF bySteps # "none" THEN bySteps
        ELSE IF material = {"succeeded"} THEN "succeeded"
        ELSE IF "partial" \in material THEN "partial"
        ELSE overlay.state

-----------------------------------------------------------------------------
(* The run goes on                                                          *)

Ordered == vcommands > 0 /\ vcommands' = vcommands - 1

\* A task is claimed, or told to wait.
ViewClaim(t) ==
    /\ vstate[t] \in {"queued", "waiting"}
    /\ handler[t] = "idle"
    /\ \E s \in {"waiting", "running"} : vstate' = [vstate EXCEPT ![t] = s]
    /\ UNCHANGED <<vsaved, overlay, handler, draft, vcommands>>

\* A task is registered, retried, cancelled or skipped.
ViewCommand(t) ==
    /\ Ordered
    /\ handler[t] = "idle"
    /\ \/ vstate[t] \in {"absent", "failed", "cancelled", "blocked"}
          /\ vstate' = [vstate EXCEPT ![t] = "queued"]
       \/ vstate[t] \in {"queued", "waiting"}
          /\ \E s \in {"cancelled", "skipped"} : vstate' = [vstate EXCEPT ![t] = s]
    /\ UNCHANGED <<vsaved, overlay, handler, draft>>

\* A task ends; one that succeeds has written its checkpoint before.
ViewEnd(t) ==
    /\ vstate[t] = "running"
    /\ \/ /\ vstate' = [vstate EXCEPT ![t] = "succeeded"]
          /\ \E status \in {"succeeded", "completed_with_errors"} :
                vsaved' = [vsaved EXCEPT ![StepOf[t]] = status]
       \/ /\ \E s \in {"failed", "blocked"} : vstate' = [vstate EXCEPT ![t] = s]
          /\ UNCHANGED vsaved
    /\ handler' = [handler EXCEPT ![t] = "sync"]
    /\ UNCHANGED <<overlay, draft, vcommands>>

\* build_step_snapshots: no row is lost, and the status of a step without
\* tasks and checkpoints stays.
Snapshot(s) ==
    [status |-> StepStatus(s, overlay.steps[s].status), queued |-> Row(s).queued]

\* update_run_state, first half: the state named by the event, not the derived
\* one, goes into the draft.
ViewSync(t) ==
    /\ handler[t] = "sync"
    /\ handler' = [handler EXCEPT ![t] = "write"]
    /\ draft' = [draft EXCEPT ![t] =
          [known |-> TRUE,
           state |-> IF vstate[t] \in {"failed", "blocked"} THEN vstate[t] ELSE "running",
           events |-> overlay.events,
           steps |-> [s \in ViewSteps |-> Snapshot(s)]]]
    /\ UNCHANGED <<vstate, vsaved, overlay, vcommands>>

\* update_runtime_run_state: the fields of the update replace those kept,
\* whoever wrote them meanwhile.
ViewWrite(t) ==
    /\ handler[t] = "write"
    /\ overlay' = [draft[t] EXCEPT !.events = overlay.events]
    /\ \E next \in {"append", "idle"} : handler' = [handler EXCEPT ![t] = next]
    /\ draft' = [draft EXCEPT ![t] = NoOverlay]
    /\ UNCHANGED <<vstate, vsaved, vcommands>>

\* append_step_callback_events, both halves.
ViewAppend(t) ==
    /\ handler[t] = "append"
    /\ handler' = [handler EXCEPT ![t] = "store"]
    /\ draft' = [draft EXCEPT ![t] = [overlay EXCEPT !.events = @ \cup {t}]]
    /\ UNCHANGED <<vstate, vsaved, overlay, vcommands>>

ViewStore(t) ==
    /\ handler[t] = "store"
    /\ handler' = [handler EXCEPT ![t] = "idle"]
    /\ overlay' = [overlay EXCEPT !.events = draft[t].events, !.steps = draft[t].steps]
    /\ draft' = [draft EXCEPT ![t] = NoOverlay]
    /\ UNCHANGED <<vstate, vsaved, vcommands>>

\* start, resume and cancel of a run, and run_planned_tasks: one sync, with the
\* state derived, or the one the command names.
ViewSyncRun ==
    /\ Ordered
    /\ ViewKnown # {}
    /\ \E state \in {DerivedState(overlay.state), "cancelled", "queued"} :
          overlay' = [overlay EXCEPT !.known = TRUE, !.state = state,
                                     !.steps = [s \in ViewSteps |-> Snapshot(s)]]
    /\ UNCHANGED <<vstate, vsaved, handler, draft>>

\* The queue's tasks and the runtime state go; run.json and checkpoints stay.
ViewRestart ==
    /\ Ordered
    /\ vstate' = [t \in ViewTasks |-> "absent"]
    /\ overlay' = NoOverlay
    /\ handler' = [t \in ViewTasks |-> "idle"]
    /\ draft' = [t \in ViewTasks |-> NoOverlay]
    /\ UNCHANGED vsaved

ViewNext ==
    \/ \E t \in ViewTasks : ViewClaim(t)
    \/ \E t \in ViewTasks : ViewCommand(t)
    \/ \E t \in ViewTasks : ViewEnd(t)
    \/ \E t \in ViewTasks : ViewSync(t)
    \/ \E t \in ViewTasks : ViewWrite(t)
    \/ \E t \in ViewTasks : ViewAppend(t)
    \/ \E t \in ViewTasks : ViewStore(t)
    \/ ViewSyncRun
    \/ ViewRestart

ViewSpec == ViewInit /\ [][ViewNext]_viewVars

-----------------------------------------------------------------------------

\* Whatever the racing handlers have left in the runtime state, the three levels
\* that read_model.py shows agree while the queue knows the run's tasks: the
\* run's state is the worst that its pipeline steps show, and the steps that
\* belong to none of them, as those of a repair do; a run that has succeeded
\* shows no pipeline step that has not; and every unfinished task is in the list
\* of its step.
ViewsAgree ==
    LET stages == {StageStatus(p) : p \in Stages}
        others == {Merge(s).status : s \in ViewSteps \ DOMAIN StageOf}
        worst == <<"failed", "blocked", "running", "queued">>
    IN  ViewKnown # {} =>
            /\ ShownState \in {"failed", "blocked", "running", "queued"} =>
                  /\ ShownState \in stages \cup others
                  /\ FirstIn(worst, stages \cup others, "queued") = ShownState
            /\ ShownState = "succeeded" =>
                  stages \subseteq {"succeeded", "completed_with_errors", "idle", "skipped"}
            /\ \A t \in ViewKnown :
                  vstate[t] \in ViewActive => t \in Merge(StepOf[t]).queued
=============================================================================
