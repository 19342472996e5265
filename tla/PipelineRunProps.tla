-------------------------- MODULE PipelineRunProps --------------------------
(***************************************************************************)
(* What a run of the pipeline promises.                                    *)
(***************************************************************************)
EXTENDS PipelineRun

\* A downstream task reads what the tasks before it have written: with its
\* first object in the queue, it is never at work while one of the tasks it
\* depends on could still change its output (followups.py:202, the chain of
\* depends_on).
InputsStay ==
    \A t \in Chain : gen[t] = 1 /\ StateOf(t) = "running" =>
        \A d \in deps[t] : gen[d] = 1 => StateOf(d) \in Success

\* Ingest tasks that end together each ask whether all have ended, after their
\* own end is in the queue: one of them finds it so, and once all have ended for
\* good, however they ended, combine is registered (followups.py:147,
\* steps.py:92-99).  A skip or a cancel sends no event the rules hear of.
EndedByRun(t) == Ended(t) /\ StateOf(t) \notin {"skipped", "cancelled"}

IngestIsCombined == <>[](\A t \in Ingest : EndedByRun(t)) => <>(gen["combine"] > 0)

\* A stage that succeeds has the next enabled one registered behind it, also
\* when combine was registered twice and runs twice (followups.py:45).
ChainGoesOn ==
    \A t \in Chain \ {"report"} :
        Enabled(FollowupOf(t)) => (StateOf(t) = "succeeded" ~> gen[FollowupOf(t)] > 0)

\* The thread of an object of t has yet to ask the rules, or to register.
Asking(t) == \E o \in Objects : o[1] = t /\ pc[o] \in {"list", "check", "register"}

\* No end is missed: once all ingest tasks have ended by their own runs, or a
\* stage has succeeded, what follows is in the queue or some thread is still to
\* register it, though threads that end together look at the queue and register
\* in critical sections of their own, ids are registered again, and the tasks
\* are retried, cancelled and skipped in between (followups.py:45, :147).
FollowupDue ==
    /\ (\A t \in Ingest : EndedByRun(t)) /\ gen["combine"] = 0 =>
          \E t \in Ingest : Asking(t)
    /\ \A t \in Chain \ {"report"} :
          LET next == FollowupOf(t)
          IN  StateOf(t) = "succeeded" /\ Enabled(next) /\ gen[next] = 0 => Asking(t)

\* Unless a source goes on waiting for new children for ever, the run comes to
\* rest: no task stays queued or running, and no thread stays in the middle of
\* the record (event_runtime.py, runs.py:36).
RunSettles ==
    <>[](parked = {}) =>
        <>[](/\ \A t \in Tasks : StateOf(t) \notin {"queued", "running"}
             /\ \A th \in Threads : pc[th] \in {"idle", "done"})
=============================================================================
