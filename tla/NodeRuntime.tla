---------------------------- MODULE NodeRuntime ----------------------------
(***************************************************************************)
(* A pipeline node: a task that works in stages.  Each run of the node     *)
(* registers the group of child tasks of its next stage, notes the stage   *)
(* in its payload and blocks; the events of the children wake it again.    *)
(*                                                                         *)
(* One module covers the nodes of classify (clustered extraction, merge)   *)
(* and the report node, which differ in two ways.  classify goes on only   *)
(* with a group that succeeded as a whole, the report node with whatever   *)
(* there is (Lenient); classify registers a group in one call, the report  *)
(* node task by task.                                                      *)
(*                                                                         *)
(* The queue is seen as by its callers: a queued task is claimed sooner or *)
(* later, and each call under the queue's lock is one action.              *)
(***************************************************************************)
EXTENDS Integers, FiniteSets

CONSTANTS
    Kids,           \* child tasks
    LastStage,      \* number of stages
    StageOf,        \* child -> the stage whose group it belongs to
    Lenient,        \* TRUE for the report node
    Outcomes,       \* how the executor of a child may end
    MayFinishEarly, \* the report node: no usable LLM, or nothing selected
    MayFail,        \* whether a run may raise outside collect_group_results
    OtherDrains,    \* whether other threads drain while the node's run executes
    OtherSkips,     \* whether somebody may skip a task outside the node
    UserOps,        \* queue commands on the node and its children
    Budget          \* number of such commands (bound of the model)

Active == {"queued", "running"}     \* queued stands for waiting as well
Stopped == {"failed", "cancelled", "blocked"}
States == Active \cup Stopped \cup {"succeeded", "skipped"}
Ends == {"succeeded", "failed", "blocked"}

ASSUME GroupAssumption ==
    /\ LastStage \in Nat \ {0}
    /\ StageOf \in [Kids -> 1 .. LastStage]
    /\ Lenient \in BOOLEAN

ASSUME EnvironmentAssumption ==
    /\ Outcomes \subseteq Ends
    /\ MayFinishEarly \in BOOLEAN
    /\ MayFinishEarly => Lenient
    /\ MayFail \in BOOLEAN
    /\ OtherDrains \in BOOLEAN
    /\ OtherSkips \in BOOLEAN
    /\ UserOps \subseteq {"retry", "cancel", "skip", "retry_node", "cancel_node", "skip_node"}
    /\ Budget \in Nat

VARIABLES
    parent,     \* state of the node's task
    pc,         \* where the node's run is
    at,         \* the stage the run works on: _node_stage(task) when it began
    stage,      \* payload.node_stage, 0 for "prepare"
    told,       \* node_stage in the result of the blocked node, 0 for none
    kid,        \* child -> its state, "none" until it is registered
    stored,     \* children whose batch_result is among the transient results
    cb,         \* child -> where the callback of its last event is
    seen,       \* child -> the stage its callback has read
    budget      \* commands left

parentVars == <<parent, pc, at, stage, told>>
callbackVars == <<cb, seen>>
vars == <<parentVars, kid, stored, callbackVars, budget>>

Group(s) == {k \in Kids : StageOf[k] = s}

PCs == {"idle", "decide", "register", "patch", "block", "again", "finish"}
CallbackPCs == {"idle", "read", "check", "peek", "preserve", "retry"}

NodeTypeOK ==
    /\ parent \in States
    /\ pc \in PCs
    /\ at \in 0 .. LastStage
    /\ stage \in 0 .. LastStage
    /\ told \in 0 .. LastStage
    /\ kid \in [Kids -> States \cup {"none"}]
    /\ stored \subseteq Kids
    /\ cb \in [Kids -> CallbackPCs]
    /\ seen \in [Kids -> 0 .. LastStage]
    /\ budget \in Nat

Init ==
    /\ parent = "queued"
    /\ pc = "idle"
    /\ at = 0
    /\ stage = 0
    /\ told = 0
    /\ kid = [k \in Kids |-> "none"]
    /\ stored = {}
    /\ cb = [k \in Kids |-> "idle"]
    /\ seen = [k \in Kids |-> 0]
    /\ budget = Budget

-----------------------------------------------------------------------------
(* The node's run                                                           *)

Begin ==
    /\ parent = "queued"
    /\ pc = "idle"
    /\ parent' = "running"
    /\ pc' = "decide"
    /\ at' = stage
    /\ UNCHANGED <<stage, told, kid, stored, callbackVars, budget>>

Goto(where) == pc' = where /\ UNCHANGED <<parent, at, stage, told>>

\* The first stage begins; the report node may have nothing to polish.
Prepare ==
    /\ pc = "decide"
    /\ at = 0
    /\ \/ Goto("register")
       \/ MayFinishEarly /\ Goto("finish")
    /\ UNCHANGED <<kid, stored, callbackVars, budget>>

NextStep == IF at = LastStage THEN "finish" ELSE "register"

Unfinished(k) == kid[k] \in Active \cup {"blocked"}

\* Faulty: a child that was skipped counts as one that succeeded.
CompleteOrSkipped(k) ==
    kid[k] = "skipped" \/ (kid[k] = "succeeded" /\ k \in stored)

Complete(k) == kid[k] = "succeeded" /\ k \in stored

\* Faulty: the results are taken before the group is looked at.
CollectFirst ==
    /\ ~Lenient
    /\ stored' = stored \ Group(at)
    /\ IF \E k \in Group(at) : Unfinished(k)
       THEN Goto("again")
       ELSE IF \A k \in Group(at) : Complete(k)
       THEN Goto(NextStep)
       ELSE /\ parent' = "failed"
            /\ pc' = "idle"
            /\ UNCHANGED <<at, stage, told>>
    /\ UNCHANGED <<kid, callbackVars, budget>>

\* collect_group_results: block again while the group has active or blocked
\* members, fail unless all have succeeded and their results are there, and
\* take the results.
Collect ==
    /\ ~Lenient
    /\ IF \E k \in Group(at) : Unfinished(k)
       THEN Goto("again") /\ UNCHANGED stored
       ELSE IF \A k \in Group(at) : Complete(k)
       THEN Goto(NextStep) /\ stored' = stored \ Group(at)
       ELSE /\ parent' = "failed"
            /\ pc' = "idle"
            /\ UNCHANGED <<at, stage, told, stored>>
    /\ UNCHANGED <<kid, callbackVars, budget>>

\* The report node takes what its children have left, whatever their state.
Apply ==
    /\ Lenient
    /\ stored' = stored \ Group(at)
    /\ \/ Goto(NextStep)
       \/ MayFinishEarly /\ Goto("finish")
    /\ UNCHANGED <<kid, callbackVars, budget>>

\* A run that was woken in a stage begins with the results of its children.
TakeResults ==
    /\ pc = "decide"
    /\ at > 0
    /\ Collect \/ Apply

Missing == {k \in Group(at + 1) : kid[k] = "none"}

\* classify: register_many.
RegisterGroup ==
    /\ kid' = [k \in Kids |-> IF k \in Missing THEN "queued" ELSE kid[k]]
    /\ Goto("patch")

\* The report node registers its tasks one by one.
RegisterOne(k) ==
    /\ kid' = [kid EXCEPT ![k] = "queued"]
    /\ Goto(IF Missing = {k} THEN "patch" ELSE "register")

Register ==
    /\ pc = "register"
    /\ IF Lenient /\ Missing # {}
       THEN \E k \in Missing : RegisterOne(k)
       ELSE RegisterGroup
    /\ UNCHANGED <<stored, callbackVars, budget>>

\* patch_payload: node_stage and the ids of the group.
Patch ==
    /\ pc = "patch"
    /\ stage' = at + 1
    /\ pc' = "block"
    /\ UNCHANGED <<parent, at, told, kid, stored, callbackVars, budget>>

\* TaskBlocked reaches the queue; its details name the stage that begins, and
\* no stage when the group is still at work.
Block ==
    /\ pc \in {"block", "again"}
    /\ parent' = "blocked"
    /\ told' = IF pc = "block" THEN at + 1 ELSE 0
    /\ pc' = "idle"
    /\ UNCHANGED <<at, stage, kid, stored, callbackVars, budget>>

\* The checkpoint or the report is written, and the task succeeds.
Finish ==
    /\ pc = "finish"
    /\ parent' = "succeeded"
    /\ pc' = "idle"
    /\ UNCHANGED <<at, stage, told, kid, stored, callbackVars, budget>>

\* The input cannot be read, the batches cannot be built, or the result cannot
\* be written.
Fail ==
    /\ MayFail
    /\ pc \in {"decide", "register", "finish"}
    /\ parent' = "failed"
    /\ pc' = "idle"
    /\ UNCHANGED <<at, stage, told, kid, stored, callbackVars, budget>>

-----------------------------------------------------------------------------
(* The children and the callbacks of their events                           *)

\* A drain claims the child.  Bound of the model: the callback of the child's
\* last run has returned.
Claim(k) ==
    /\ kid[k] = "queued"
    /\ cb[k] = "idle"
    /\ OtherDrains \/ pc = "idle"
    /\ kid' = [kid EXCEPT ![k] = "running"]
    /\ UNCHANGED <<parentVars, stored, callbackVars, budget>>

End(k) ==
    /\ kid[k] = "running"
    /\ \E s \in Outcomes :
        /\ kid' = [kid EXCEPT ![k] = s]
        /\ stored' = IF s = "succeeded" THEN stored \cup {k} ELSE stored
    /\ cb' = [cb EXCEPT ![k] = "read"]
    /\ UNCHANGED <<parentVars, seen, budget>>

\* Faulty: the callback knows the first stage only.
ReadFirst(k) ==
    /\ cb[k] = "read"
    /\ IF parent = "succeeded" \/ stage # 1
       THEN cb' = [cb EXCEPT ![k] = "idle"] /\ UNCHANGED seen
       ELSE cb' = [cb EXCEPT ![k] = "check"] /\ seen' = [seen EXCEPT ![k] = stage]
    /\ UNCHANGED <<parentVars, kid, stored, budget>>

\* The callback reads the node's stage from its result, else from its payload.
Read(k) ==
    /\ cb[k] = "read"
    /\ LET current == IF told # 0 THEN told ELSE stage
       IN  IF parent = "succeeded" \/ current = 0
           THEN cb' = [cb EXCEPT ![k] = "idle"] /\ UNCHANGED seen
           ELSE cb' = [cb EXCEPT ![k] = "check"] /\ seen' = [seen EXCEPT ![k] = current]
    /\ UNCHANGED <<parentVars, kid, stored, budget>>

\* Faulty: the group is taken for finished as soon as one member has ended.
CheckSelf(k) ==
    /\ cb[k] = "check"
    /\ cb' = [cb EXCEPT ![k] = "retry"]
    /\ UNCHANGED <<parentVars, kid, stored, seen, budget>>

Some(s, S) == \E x \in Group(s) : kid[x] \in S

\* classify: a group with blocked members is left to the user, a group with
\* failed ones to the pipeline.
GroupVerdict(s) ==
    IF Some(s, Active) THEN "idle"
    ELSE IF Some(s, {"blocked"}) THEN "peek"
    ELSE IF Some(s, {"failed", "cancelled"}) THEN "idle"
    ELSE "retry"

\* The report node goes on as soon as nobody is at work.
LenientVerdict(s) == IF Some(s, Active) THEN "idle" ELSE "retry"

\* group_summary of the stage that was read.
Check(k) ==
    /\ cb[k] = "check"
    /\ cb' = [cb EXCEPT ![k] = IF Lenient THEN LenientVerdict(seen[k])
                                          ELSE GroupVerdict(seen[k])]
    /\ UNCHANGED <<parentVars, kid, stored, seen, budget>>

\* _mark_parent_blocked reads the stage of the payload, and writes it back.
Peek(k) ==
    /\ cb[k] = "peek"
    /\ cb' = [cb EXCEPT ![k] = "preserve"]
    /\ seen' = [seen EXCEPT ![k] = stage]
    /\ UNCHANGED <<parentVars, kid, stored, budget>>

Preserve(k) ==
    /\ cb[k] = "preserve"
    /\ cb' = [cb EXCEPT ![k] = "idle"]
    /\ stage' = seen[k]
    /\ UNCHANGED <<parent, pc, at, told, kid, stored, seen, budget>>

\* Faulty: only a node that has failed is woken.
WakeFailed(k) ==
    /\ cb[k] = "retry"
    /\ cb' = [cb EXCEPT ![k] = "idle"]
    /\ parent' = IF parent = "failed" THEN "queued" ELSE parent
    /\ UNCHANGED <<pc, at, stage, told, kid, stored, seen, budget>>

\* queue.retry(parent): no effect on a node that runs or has ended well.
Wake(k) ==
    /\ cb[k] = "retry"
    /\ cb' = [cb EXCEPT ![k] = "idle"]
    /\ parent' = IF parent \in Stopped THEN "queued" ELSE parent
    /\ told' = 0
    /\ UNCHANGED <<pc, at, stage, kid, stored, seen, budget>>

-----------------------------------------------------------------------------
(* Commands                                                                 *)

Spend(op) ==
    /\ op \in UserOps
    /\ budget' = budget - 1

RetryNode ==
    /\ Spend("retry_node")
    /\ parent \in Stopped
    /\ parent' = "queued"
    /\ told' = 0
    /\ UNCHANGED <<pc, at, stage, kid, stored, callbackVars>>

RetryKid(k) ==
    /\ Spend("retry")
    /\ kid[k] \in Stopped
    /\ kid' = [kid EXCEPT ![k] = "queued"]
    /\ UNCHANGED <<parentVars, stored, callbackVars>>

CancelNode ==
    /\ Spend("cancel_node")
    /\ parent = "queued"
    /\ parent' = "cancelled"
    /\ UNCHANGED <<pc, at, stage, told, kid, stored, callbackVars>>

CancelKid(k) ==
    /\ Spend("cancel")
    /\ kid[k] = "queued"
    /\ kid' = [kid EXCEPT ![k] = "cancelled"]
    /\ UNCHANGED <<parentVars, stored, callbackVars>>

\* unblock_released_tasks: every blocked task of the queue whose dependencies
\* do not hold it is queued again; here, the node and its children.
ReleaseBlocked(state, states) ==
    /\ kid' = [x \in Kids |-> IF states[x] = "blocked" THEN "queued" ELSE states[x]]
    /\ parent' = IF state = "blocked" THEN "queued" ELSE state
    /\ told' = 0

SkipKid(k) ==
    /\ Spend("skip")
    /\ kid[k] \in {"queued"} \cup Stopped
    /\ ReleaseBlocked(parent, [kid EXCEPT ![k] = "skipped"])
    /\ UNCHANGED <<pc, at, stage, stored, callbackVars>>

SkipNode ==
    /\ Spend("skip_node")
    /\ parent \in {"queued"} \cup Stopped
    /\ ReleaseBlocked("skipped", kid)
    /\ UNCHANGED <<pc, at, stage, stored, callbackVars>>

\* A task of another node, a blocked web source say, is skipped.
SkipOther ==
    /\ OtherSkips
    /\ budget' = budget - 1
    /\ ReleaseBlocked(parent, kid)
    /\ UNCHANGED <<pc, at, stage, stored, callbackVars>>

-----------------------------------------------------------------------------

NodeStep ==
    \/ Begin
    \/ Prepare
    \/ TakeResults
    \/ Register
    \/ Patch
    \/ Block
    \/ Finish
    \/ Fail

KidStep(k) ==
    \/ Claim(k)
    \/ End(k)
    \/ Read(k)
    \/ Check(k)
    \/ Peek(k)
    \/ Preserve(k)
    \/ Wake(k)

Command ==
    /\ budget > 0
    /\ \/ RetryNode
       \/ CancelNode
       \/ SkipNode
       \/ SkipOther
       \/ \E k \in Kids : RetryKid(k) \/ CancelKid(k) \/ SkipKid(k)

Next == NodeStep \/ Command \/ \E k \in Kids : KidStep(k)

Spec == Init /\ [][Next]_vars

\* The queue claims what is ready, and executors and callbacks return.
FairSpec ==
    /\ Spec
    /\ WF_vars(NodeStep)
    /\ \A k \in Kids : WF_vars(KidStep(k))
=============================================================================
