# A TLA+ verification project for modnews (Newsagent)

modnews is a news pipeline in one Python process: it scrapes sources, combines
what they found, extracts and merges events with an LLM, and writes a report.
All of it runs as tasks of one in-process queue. Executors run in worker
threads; when a task ends its thread dispatches an event, and the event's
handlers register further tasks, wake sleeping ones and drain the queue again,
all in that same thread. There is no database and no worker process: what must
be right is the interleaving of those threads over one dictionary of tasks.

Paths below are relative to `src/modnews/` unless they begin with `docs/` or
`tests/`.

Contents: 1 inventory, 2 plan, 3 modules and code, 4 runs, 5 fairness and
deadlock, 6 proofs, 7 what the code does not do, 8 what is not modelled.


## 1. Inventory

### 1.1 Task queue (`core/event_queue.py`, `core/event_queue_support.py`, `core/task.py`)

*State.* `_tasks`: id to `TaskEvent` (state, `depends_on`, `concurrency_key`,
`max_concurrency`, `attempt`, `max_attempts`, `next_attempt_at`, payload);
`_results` (what `queue.result` answers); `_transient_results` (objects handed
from child to parent once); one `RLock`; a flag per thread (`_local`).

*Operations.* `register`, `register_many`, `submit`, `dispatch` (register and
drain), `drain_ready(limit)`, `retry`, `skip`, `cancel`, `patch_payload`,
`collect_task_results`, `group_summary`, `load_snapshot`, `run`.

*Task states.* queued, waiting, running, succeeded, skipped, failed, cancelled,
blocked. `drain_ready` claims what is ready (dependencies succeeded or skipped,
retry window over, room under the key), runs it in a pool, and after every
finished future claims again; with nothing in flight it marks tasks behind a
dead dependency blocked and the rest waiting.

*Interactions.* Executors are looked up by task type; events `task.completed`,
`task.failed`, `task.blocked`, `task.skipped` go to the event router. Every end
of a task is followed by a nested `drain_ready` in the worker thread.

*Hard.* Concurrent and nested drains, each with a pool of its own; ids that are
registered again while their former object is queued, runs or has ended; exceptions
of handlers that travel through futures into other drains; retries; sweeps that
must reach a whole chain; `skip`, which releases blocked tasks.

*Correct when* a key's limit holds, a task has one run at a time, it runs after
its dependencies, it is tried `max_attempts` times at most, ready tasks are not
missed by drains that stop, and everything ends.

### 1.2 Event router and callbacks (`core/events.py`, `core/completion_callbacks.py`, `bootstrap/event_handlers.py`)

No state but the lists of handlers. Handlers run one after the other; an
exception leaves the loop and reaches the queue. `event_handlers.py` tries the
callbacks of web sources, classify, report and the pipeline in turn.
*Hard*: a handler that raises after the first of several effects.

### 1.3 Nodes: classify (`service/classify/*_node_runtime.py`, `batch_queue_runtime.py`) and report (`service/report/node_runtime.py`)

*State.* The node's task; `payload.node_stage` and the group id; the tasks of
the group; their transient `batch_result`.

*Operations.* A run of the node dispatches on its stage: register the first
group, patch the payload, raise `TaskBlocked`; or collect the group, go on to
the next stage, or finish. The callback of a child reads the stage, asks
`group_summary` and retries the node when the group is done.

*Hard.* The callback is three critical sections; last children of one group
call back together; a user retries, cancels or skips in between; results are
consumed by the first reader.

*Correct when* a classify node never goes on with part of a group, a report
node applies polish results only when polish has ended, a node blocked on a
finished group runs again, and the node ends.

### 1.4 Web source and repair nodes (`service/extraction/web_source_node_runtime.py`, `repair_node_runtime.py`, `repair_queue_runtime.py`, `task_registry.py`)

*State.* The stage and round of a web source, its scrape and repair children;
the repair node's own stage and exec child. *Operations.* scrape, repair on a
repairable failure, scrape again up to a number of rounds; a blocked web source
is skipped by a handler when its block is safe. *Hard*: a child that blocks is
taken for a child that has ended; all repairs of a source share one group id;
`max_attempts` without a value. *Correct when* each source ends with its last
scrape, a repair that succeeds is followed by a scrape, and no scrape runs
beside a repair. Modelled in `WebSource`.

### 1.5 Extraction orchestrator and jobs (`service/extraction/orchestrator.py`, `job_runtime.py`, `repository/web_jobs.py`)

*State.* A job per source: pending, running, succeeded, failed, waiting for
repair, attempts. *Correct when* the attempts are bounded and a job's final
state agrees with its last attempt. `WebSource` has the attempts of a job and
the decision after the last one, not the job's record on disk.

### 1.6 Extractor repair lifecycle (`repair_manager.py`, `repair_lifecycle.py`, `repair_state_ops.py`, `repair_store.py`, `repair_promote.py`, `repair_workspace.py`)

*State.* Records of repair tasks (in memory), their work directories and result
files, the live extractor, its versions and its metadata. *Operations.* create,
run an agent, validate, promote, retry, delete, restart. *Hard*: publishing is a
copy, a removal and a copy, file by file; the agent edits the draft in place;
repairs and versions are named by the second; a user acts beside the repair node; the store forgets at a restart. *Correct when* only
accepted code becomes live and the code it replaces is kept. `ExtractorRepair`.

### 1.7 Pipeline runs and followups (`service/pipeline/manager*.py`, `followups.py`, `steps.py`, `event_runtime.py`, `tasks.py`, `repository/runs.py`)

*State.* Which tasks of a run are registered, and `run.json`. *Operations.*
Ingest tasks are registered one by one; when the last one has ended combine is
registered, then extraction, merge and report. *Hard*: look-up and registration
are two critical sections, and two last tasks end together; the record is read,
changed and written without a lock; skip and cancel send no event that is
listened to. *Correct when* ingest that has ended is combined, each stage is
followed by the next with its input settled, and the run comes to rest.
`PipelineRun`.

### 1.8 Run state (`service/pipeline/run_state*.py`, `runtime_store.py`, `read_model*.py`)

*State.* An overlay in memory, read, changed and written without a lock by the
handlers of concurrent drains; the views merge it with the queue and the
checkpoints. *Correct when* tasks, stages and run never contradict each other in
what is shown. `RunView`.

### 1.9 Queue state repository (`repository/queue_state.py`) and the queue's readers

A dictionary of the process that every change of the queue is stored in, from
which a new queue is loaded; the indexes by group and dependency; the reports on
waiting, blocked and ready tasks. *Correct when* the image and the queue tell
the same of every task at every moment, and readers and scheduler agree. *Hard*:
an id may be registered again while its former object runs.
`QueueStore`.

### 1.10 Progress bus (`core/progress.py`, `repository/task_logs.py`, `cli/local/runtime.py`)

Bounded history, listener queues that drop when full, deliveries after the lock.
*Correct when* a client that replays and then follows has no gap it was not told
of. `ProgressBus`.

### 1.11 Events of the news (`service/classify/clustered_*.py`, `event_*.py`, `service/report/io/event_loader.py`)

*State.* Items, what was decided about each, events with their members.
*Operations.* batching by vectors, the answers of the LLM applied row by row,
the merge. *Hard*: an answer may name any item or event, also one merged away.
*Correct when* no item is lost and each is reported with its event. `NewsEvents`.

### 1.12 Report: rules and text (`service/report/stages/`, `reporter.py`, `pipeline.py`, `node_runtime.py`)

*State.* Scores and sections; the draft in the queue's transient results, the
texts of its children, the files all runs share. *Correct when* sections keep
their limits and their papers, a further source costs points only by a title that does not fit,
and a report that succeeds has whole files of its own with every text it has
taken.
`ReportRules`, `ReportText`.

### 1.13 Sources and ingest (`repository/runtime_config_*.py`, `source_config.py`, `service/ingest/`)

*State.* `config.json`, read, changed and written back without a lock, truncated
before it is filled; the plan of a run and what came of each source. *Correct
when* what the diagnostics call active is what a run fetches, and every source
that stays active is accounted for. `SourceIngest`.

### 1.14 Model calls (`service/classify/llm_client.py`, `llm_transport.py`, `retriever.py`, `repository/llm_cache.py`, `vector_cache.py`)

*State.* Cache files and a memory of vectors, shared by threads. *Hard*:
timeouts, limits, broken streams, answers that do not parse, two callers of one
prompt. *Correct when* only parsed answers are stored and attempts, requests and
waits are bounded. `ModelCalls`.

### 1.15 Edges

Checkpoint files, CLI, HTTP server and web UI, extractors. Disk and
presentation: the models see them as executors with outcomes and as callers with
commands.


## 2. Plan

Most important first. The queue carries everything; the nodes are protocols on
top of it; then the protocols that start and stop runs, and the components the
executors use.

| module | models | abstract specification | runs | theorems |
|---|---|---|---|---|
| `TaskPool` | what the queue promises | itself | through `EventQueue` | |
| `EventQueue` | 1.1, 1.2 | `TaskPool` | 3 | types, exclusive runs, dependencies, limits, attempts, the refinement, who leaves a ready task, no lost wake-up, no deadlock, rest |
| `NodeRuntime` | 1.3 | | 3, and 1 finding | types, whole groups, results kept, polish ends first, wake-up due |
| `WebSource` | 1.4 and the attempts of 1.5 | | 1, and 1 finding | types, order of rounds, no scrape beside a repair, nothing left behind, success has items, a blocked source is heard |
| `PipelineRun` | 1.7 | | `pipeline_run` | types, inputs of a running stage, no end missed |
| `QueueStore` | 1.9, overwrite of an id, restart | the queue's map | `services` | types, image, readers |
| `ExtractorRepair` | 1.6, the classification of 1.5 | | `node_classify` | types, what goes live, what is kept |
| `RunView` | 1.8 | | `services` | views agree |
| `ProgressBus` | 1.10 | | `services` | no gap, order of the logs |
| `NewsEvents` | 1.11 | a partition of the items | `node_report`, `news_sources` (finding) | no item lost |
| `ReportRules`, `ReportText` | 1.12 | | `node_report` | sources demote only by title; sections in order; reports are whole |
| `SourceIngest` | 1.13 | | `node_classify` | active is ingested, sources accounted |
| `ModelCalls` | 1.14 | | `node_report` | calls accounted |

All modules are written. Composition: `EventQueue` implements `TaskPool`; `NodeRuntime`, `WebSource`,
`PipelineRun`, `ReportText` and `ExtractorRepair` use of the queue what
`EventQueue` shows (a ready task is claimed, one run at a time, retry has no
effect on a running task) and do not carry its threads. `ReportText` takes
wake-ups as they come and so stands beside `NodeRuntime`, which has their
protocol. Each component has its own specification (`StoreSpec`, `RepairSpec`,
`TextSpec`, `NewsSpec`, `RulesSpec`, `CallsSpec`, `BusSpec`, `ViewSpec`,
`SourceSpec`), which the theorems are about; `ServicesMC`, `ClassifyMC` and
`ReportMC` run the same actions.

Every invariant and action property of a passing run is a theorem. What is left
to TLC is liveness; of what it needs, the parts that are safety are theorems
too: that no circle of waiting stops the queue, that no ready task is left to
nobody, that no end of a stage and no wake-up of a node is missed.


## 3. Modules and code

### `EventQueue`

A *thread* is a caller (an HTTP request or CLI command) or a *run*: one future
of `_run_claimed`, named by its task and a slot. Each thread has a program
counter. Code under the queue's lock is one action; everything between two
critical sections may be interleaved.

| model | code |
|---|---|
| `state`, `attempt`, `window` | `TaskEvent.state`, `.attempt`, `.next_attempt_at` in the future |
| `hard` | the blocked task's result says something other than a dependency |
| `owner` | whose `in_flight` holds the future |
| `pool` | `max_workers` of the drain's executor, fixed by its first claim (`event_queue.py:186`) |
| `stray` | runs whose object a later registration has replaced: what they record no longer touches the state the queue goes by |
| `guarded` | the nested drain runs inside the `try` of the executor (`event_queue.py:267-269`) |
| `failing` | an exception is on its way out of the drain through `finally` |
| `Claim` | one pass of the `while` loop: claim, submit to the pool |
| `Sweep`, `Announce` | `_mark_blocked`, and the dispatch after its lock |
| `Collect` | `wait(FIRST_COMPLETED)`, `in_flight.pop`, `future.result()` |
| `Shutdown` | `executor.shutdown(wait=True)`, then return or raise |
| `Start` .. `SkipBlocked` | `_execute_running_task` and the handlers |
| `Register` | `register` and `submit`; an id of `Renewed` may be there already, in any state, and gets a fresh queued object (`event_queue.py:137-140`, `153-157`) |
| `Drain` .. `Skip` | the calls; `Retry` and `Skip` include the drain behind them (`cli/local/queue.py:67-72`, `event_queue.py:439`) |

Abstractions: the payloads are gone; a handler does nothing, raises, or skips a
safely blocked web source; the pool's FIFO order is any order, and its size is
kept because it can deadlock; `PoolCap` stands for 64, and each width is capped
by it, which gives the same minimum. A task is registered after its
dependencies, as `service/pipeline` does; the sweep is then the fixpoint that
one pass over the dictionary computes. The pool has `max(1, min(64, ...))`
workers.

An id that is registered again while its object runs has two runs from then on:
the queue goes by the new object, which may be claimed beside the old run, and
the old run changes an object that nobody looks at (`Mark`). A run that was
claimed and has not begun fetches the new object (`_run_claimed`, `:238`). What
can still be promised is in the properties: the number of tasks marked running
under a key; one run per task, and the executors at work under a key, for ids
that are registered once; dependencies among such ids. In the code the ids that may come twice are the
followups of a run (two callbacks between look-up and registration,
`followups.py:66-69`), polish children and repairs that a user retries. `Renewed`
names them: any set in the theorems, one task in `queue_controls` and one in
`queue_raising`, none in `queue_liveness` (bound: an id that is renewed without
end never ends). Not in `EventQueue`: tasks without `max_attempts` (repairs),
whose error also ends the drains above; `WebSource` has them. The limit of a drain does not reach the
drains nested in its runs, as in the code. `run` (`event_queue.py:205`) is
called by nothing in modnews and is left out. `QueueStore` has what a change of
state does to the results, indexes and image around it.

### `TaskPool`

The promise without threads: phases new, open, running, passed, stopped; tasks
start together as far as dependencies and keys allow; a task that never ran is
stopped only behind a stopped dependency or by `Cancel`; stopped tasks reopen.
`EventQueueProps!Pool` maps the queue's states to phases.

### `NodeRuntime`

One node, its groups, one callback per child. `Lenient` and `MayFinishEarly`
make it the report node. `parent` is the node's task, `pc` its run between
critical sections, `stage` is `payload.node_stage`, `told` is the stage in the
result of the blocked node, which callbacks prefer to the payload's. `Read`,
`Check`, `Wake` are the three critical sections of a callback; `Peek` and
`Preserve` are `_mark_parent_blocked`. The queue appears as its callers see it:
`queued` also stands for waiting, a queued child is claimed by some drain.

The instance of `node_classify` has `MayFail` FALSE (`ResultsKept` is about nodes
that have not failed after they took their results, section 7), and every stage
has a child (an empty one waits for ever, section 7).

Bounds and abstractions: a child is claimed again after its previous callback
has returned; nodes and children have `max_attempts` 1, so there are no
automatic retries; the dependencies of the node have succeeded; the order of
polish tasks is any order. Children never raise `TaskBlocked` themselves today;
the outcome `blocked` in `node_liveness` and `node_report` is more than
production does and keeps the branch for it (`_mark_parent_blocked`) honest. `OtherDrains` says whether
other threads drain while the node's run executes: FALSE means a single run
whose other threads all wait for futures.

### `WebSource`

Sources, each a node with at most one scrape and one repair per round; a repair
is a node too, with one child that runs the repair agent. A task is a triple of
source, role and round.

| model | code |
|---|---|
| `state`, `pc` | the task, and its run between critical sections |
| `stage`, `round` | `payload.node_stage`, `payload.scrape_round` |
| `waiting` | sources whose blocked result has the reason `child_task_group_active` |
| `tries`, `job` | the attempts of a job in `run_source`; the job among the scrape's transient results |
| `cb`, `seen` | the thread that handles a task's last event, and the stage it has read |
| `StartNode`, `CompleteScrape`, `CompleteRepair`, `PatchNode`, `FinishNode` | `web_source_node_runtime.py`, stage by stage |
| `StartRepair`, `PatchRepair`, `CompleteExec`, `BlockRepair` | `repair_node_runtime.py` |
| `lost`, `failing` | repairs whose executor has raised; the task whose `try` the error is about to reach |
| `RepairRaises`, `TakeBack` | a repair has no `max_attempts`: the except branch raises (`event_queue.py:280`), the repair stays running, and the error leaves `future.result()` (`:198`) in the drains above, up to one inside the `try` of a task that has succeeded (`:267-269`), which then fails |
| `Attempt`, `JobAfter` | `orchestrator.py`: `run_source` and `finish_failure` |
| `Read`, `Check`, `Wake` | the callbacks of a child: payload, `group_summary`, `queue.retry` |
| `Notify`, `Look`, `SkipBlocked` | `repair_queue_runtime.py`: the handler of a blocked source |
| `SkipTask`, `Released` | `queue.skip` with `unblock_released_tasks` |

Which drain is above a repair depends on who claimed it; the model lets the error
take back any one task that has succeeded and whose events are over, or none, which is
more than the code can do. From then on a scrape whose repair is still marked
running may be run again, so rounds may overlap: all safety properties of this module
are about behaviours without a lost repair (`NoneLost`), as section 7 says.

Abstractions. The claim order is any order. Whether the agent's result promotes
an extractor is data: the node succeeds either way. The class of a failure
(network, blocked, parse, missing extractor) is given; how `web_runner.py`
arrives at it is in `ExtractorRepair`. A blocked result's `node_stage`
equals the payload's whenever it is there, so `Read` uses the payload's. A
repair that the node has registered is still in the queue when
`ensure_repair_queue_task` looks, so that call always reuses; this is why
repairs are not cancelled by commands. `Released` needs no fixpoint: these
tasks have no dependencies among each other.

Bounds. `Rounds`: the last round asks for no repair, whereas the code has no
such limit (section 7). A task's run does not end before the thread of its
previous event has returned. `Budget` commands.

### `PipelineRun`

A run with its ingest tasks and the chain combine, extract, merge, report. An
id may be registered again while the run of its former object goes on, so an
*object* is an id and a number, and each object has a thread.

| model | code |
|---|---|
| `gen`, `state`, `deps` | which object of an id the queue holds, and its task |
| `parked` | ingest tasks whose block says `child_task_group_active` |
| `RegisterIngest` | `start_pipeline_run`, one task after the other |
| `ReadCheckpoints`, `LoadRecord`, `StageRecord`, `ReplaceRecord` | `append_checkpoint` and `update` of `runs.py`: read, read again, write the temporary file, `os.replace` (which raises when another thread has taken the file) |
| `Execute`, `End`, `Succeed`, `Fail` | an executor and the end of its task, with the rule's two steps behind it: list, look for the id, register |
| `Sweep` | a task behind a stopped one is blocked |

`combine` reads the checkpoints of `run.json`; the ingest tasks in `combined`
are those whose items it found. Bounds: two objects per id, one command. One more
bound: scrape children, whose `step_id` begins with `ingest/` too, are among the
tasks that `followups.py:156-160` lists and combine depends on; the model has
the sources only. A scrape that stays failed while its source was skipped holds
combine back in the code (section 7), and not here. "First" in the properties
is the first object of an id.

### `QueueStore`

For every critical section that changes a task, what it does to `_results`,
`_transient_results`, the two indexes and the cached image, and the dispatch
that stores once more; `StoreRestart` is a new container that loads the image
(`load_snapshot`: running tasks are queued again or failed by their
`recovery_policy`, transient results are lost). The readers are operators:
`waiting_details`, `inspect_tasks`, `blocked_groups`, `group_summary`.

An id may be registered while its object runs (`StoreRenewed`). The run that was
there ends by `StoreReplacedEnds` if it holds the old object, which it then
writes over the row of the new one (`event_queue.py:265-287`), or by `StoreEnd`
if it has fetched the new one (`extra`: one run more than the state says).
`foreign` are the ids whose row or result such a run has written last; the image
is compared for all others, and results for all. Bound: one such run of an id at a time.

### `ExtractorRepair`

One extractor and its repairs, each named by the second it was created in; a
clock ticks. `live`, `enabled` and `versions` are the files of the extractor,
`workDir` and `answer` those of a repair, `record` its entry in the store. The
agent edits the draft in place while it works (`EditDraft`), and its answer is
about the draft as it then is (`EndAgent`). `Archive`, `Clear` (file by file),
`Copy`, `Fill` (a copy is partial until it is whole) and `Save` are the steps
of a promotion, by the repair node or by a user, and between any two of them a
restart, a removal or another command may come. Agents and nodes take the
extractor's key (`KeyFree`); a user's promotion takes no key and no lock.
`crossed` records that two promotions, or a promotion and an agent at the same
draft, were under way together: then two copies mix, and an edit may go live
unjudged. The code does not prevent it (section 7), so the properties are about
what happens before; `ClassifyMC` stops there (`CONSTRAINT Uncrossed`), since
nothing is claimed of what follows. Bounds: the user promotes one repair at a
time, and so do the nodes; of two sources that fail in one second the task of the
first is followed; the run of a node that registers its agent is one step with
the start of the agent. A failure's kind travels
through its message: `ByWords` is what is read out of the words again.

### `RunView`

`overlay` is the state in memory that completion handlers copy, update and
write back; `Merge`, `Aggregate`, `StageStatus` and `ShownState` are
`read_model_support.py`: tasks, checkpoints and overlay merged into steps, steps
into pipeline steps, those into the state of the run. `StageOf` is partial: the
steps of repair children match no pipeline step, but count for the run
(`read_model.py:224-226`), so that a run may show failed while no stage does. What
`ViewsAgree` says is that it is then a step outside the stages that has failed. Labels, counts and times
are left out.

### `ProgressBus`

`Emit` is the part of `emit` under the lock; `Deliver` hands the event to one
listener of the copy that was made there. A stream listens, replays the log and
then takes from its queue. A task log is the list of a task's events in its
file.

### `ModelCalls`

A call is a record with the place it is at, its attempt, its requests and the
time it has waited. Answers are named by caller and request, so that it can be
said which of two ended up in the cache. Prompts, texts and vectors are values.
`MaxRetries` is the number of attempts, 2 in the run, so that one call is
repeated. A call that finds nothing in the cache fails at once when no address
or key is configured (`LookInFile`).

### `NewsEvents`

Items go into batches by any similarity (`GroupNear` takes any items as near);
the rows of all answers come in any order and may name any item, event or
nothing that exists, since nothing compares them with their batch. `saved` is
the artifact the report reads.

### `ReportRules`

The rules as functions: classification, verification, the score in hundredths
and its parts, the scores per section, and the selection with its forced papers.
Of texts only the word lists they hit are kept. `Join` lets the first event
grow by items before it is scored. An event has the titles of its items in the order
of the items, as fitting its label, not fitting or empty; a mismatch is judged by
the first five (`Shown`), so an item that comes first can push the only fitting
title out. Bound: a joined item comes first or last. `Ranked` puts each event at the place that
the number of events before it gives (`sorted` with its key, ties by place in
the list); `Picks` goes down the ranking and takes what the entity limit still
allows (`TakenOf`), and `ShowOne` forces a paper or a trending paper in, at
the place of the weakest event, of one that is no paper if there is one.

### `ReportText`

`rdraft` is the draft among the transient results, `working` the copy a run of
the node has, `text` and `trend` what the children have left, `output` the files
of `data/output`. `ApplyPolish` and `StoreDraft` are apart, since children may
end between them; `WriteFile` writes one file. The node may be woken whenever it
has stopped, and the configuration of the LLM may change between any two reads.

### `SourceIngest`

A configuration is the rows of the sources, the steps, the listing of site
lists, and whether all NewsNow columns count. `Load`, `Change`, `Open` and
`Write` are the steps of a change; of two writers that have the file open the
longer text may show behind the shorter one. A run loads it when it plans, when
it lists the sites and in each ingest task. The file there is at first lists any
of its sites or, as the default step does, none: then the first site that is
added is the only one listed, and those of the first file are no longer fetched
(`SetSite`). `ActiveIsIngested` says that this happens to no other site. Left
out: a listing that somebody narrows by hand (`PatchStep` with "sites").

### Properties, instances, proofs

`EventQueueProps`, `NodeRuntimeProps`, `WebSourceProps`, `PipelineRunProps` and
`ExtractorRepairProps` hold properties, the other modules end with theirs.
`EventQueueMC`, `NodeRuntimeMC`, `WebSourceMC`, `PipelineRunMC`, `NewsEventsMC`,
`ServicesMC`, `ClassifyMC` and `ReportMC` are the small instances. The theorems are in
`EventQueueProofs`, `NodeRuntimeProofs`, `WebSourceProofs`, `PipelineRunProofs`,
`QueueStoreProofs`, `ExtractorRepairProofs`, `ReportProofs` (`ReportText`,
`NewsEvents`, `ReportRules`) and `ServiceProofs` (`ModelCalls`, `ProgressBus`,
`RunView`, `SourceIngest`). Operators marked
*Faulty* are plausible mistakes in the code; each property is violated when one
of them takes the place of the definition it follows, which shows that the
property can see that code.


## 4. Runs

Passing:

| run | shows |
|---|---|
| `queue_controls` | when no handler raises, what runs has only dependencies that passed; the queue implements `TaskPool`, with register, drain with limit 1, cancel, retry, skip and safe skips from two callers over a chain of three tasks and a rival; the last of the chain may be registered again in any state |
| `queue_raising` | the key's count, one run per task and the attempt budget, though handlers may raise at every dispatch, tasks are skipped, and `t2` may be registered again while it runs. `SomebodyWorks`: never do all threads wait for each other. `LeftReadyOnly`: a ready task is left without a thread that will look for it in four ways only (registered without a drain, window elapsed, drain at its limit, handler raised). |
| `queue_liveness` | `QuiescentIsSettled`: when all drains have returned nothing is queued or waiting. Every registered task ends, every call returns. |
| `node_classify` | the classify node: no stage is left with part of its group; the results of a group stay until the node takes all of them, whatever is retried, cancelled or skipped. Sources and repairs: as below |
| `node_liveness` | with one task per group, a blocked node whose group is done has a callback on its way (`WakeUpDue`), is woken and ends, unless children stay stopped |
| `node_report` | the report node: polish results are applied only when every polish task has ended, though tasks are registered one by one. Events, calls, rules and text: as below |
| `web_source` | as long as no repair is lost: rounds begin and end in order; no scrape runs beside a repair; nothing at work is left behind a success; a blocked source is not forgotten (`SourceIsHeard`); success comes with the items of the last scrape; the source ends, unless a child stays cancelled, skipped or lost |
| `pipeline_run` | no stage works on input that may still change; what follows an end is in the queue or a thread is still to register it (`FollowupDue`); ingest that has ended is combined; each stage that succeeds is followed by the next enabled one; the run settles. Two ingest tasks that may succeed, block or wait for children, and one command. |
| `services` | the store, the views and the event stream, one at a time, as below |

What `services`, `node_classify` and `node_report` show of each component, and
with which instance:

| component, run | properties | instance |
|---|---|---|
| `QueueStore`, `services` | the image tells the same as the queue after every step, but for a row that a replaced run has written last (`ImageIsCurrent`); indexes and readers agree with tasks and scheduler (`ReadersAgree`) | two tasks of a group with one slot, the second may depend on the first and be registered again without; the first may be registered while it runs; one restart |
| `RunView`, `services` | the three levels shown agree, and unfinished tasks are listed (`ViewsAgree`) | two tasks, in a step of a stage and in one of none, a disabled stage; three commands or restarts |
| `ProgressBus`, `services` | no gap for a client that replays and follows; task logs are in order (`StreamsMissNothing`) | two emitters, two clients, room for one event in the log and in a queue, two events, one clear |
| `SourceIngest`, `node_classify` | what is called active is fetched, and no site that was added later is hidden (`ActiveIsIngested`); what stays active is accounted for (`SourcesAccounted`) | a feed, two NewsNow sources (a broken cache, an unconfigured column), two sites, of which the first file has one, listed or not; two changes beside a run |
| `ModelCalls`, `node_report` | stored answers parse, returned ones are stored, failures have used their attempts, were answered with what does not parse, or had nobody to ask (`CallsAreAccounted`) | two callers each of chat and embeddings, one prompt, one text; two attempts, so that a call is repeated once |
| `NewsEvents`, `node_report` | every item in one batch and, decided, in a living event or a list (`NewsKept`) | three items, batches of two, three rows of answers |
| `ReportRules`, `node_report` | sections share nothing, keep limits, diversity and papers (`SectionsHold`); a further source costs points by its title only (`SourcesDemoteByTitle`) | every three events of six kinds, one of them with five titles of which the last fits, and an item that joins the first; sections of three, one, one and two events, so that entity limits bite and papers must be forced in |
| `ReportText`, `node_report` | a stopped node has its draft; a success has whole files of its own with all texts taken (`ReportIsWhole`) | one report with an event to polish, one of another run without; the LLM configured or not, and changed once |
| `ExtractorRepair`, `node_classify` | as long as no promotion has crossed another or an agent: only accepted code becomes live (`LiveIsAccepted`, through steps); what is replaced is kept (`ReplacedIsKept`) | three seconds, so that repairs meet in a second and in different ones; node and user publish; one command |

Instances. *Queue*: two callers; `t1` and `t2` share the key `k1` with one slot
(two tasks of one source), `t3` needs `t1`, and in `queue_controls` `t4` needs
`t3` (a chain, so that one sweep must block two tasks); `t1` has one or two
attempts. Three tasks are the fewest that show a limit and a dependency at once;
two callers with nested drains give up to five concurrent drains. `Slots` bounds
the futures a task may have at a time (a claim without a free slot is
disabled; a task has more than one when an older future still drains), `Budget`
the operations per caller. *Nodes*: two stages with groups `{k1,k2}` and `{k3}`
(two members are needed for two last callbacks), three polish tasks and a trend
task in `node_report`; `Budget` is three commands. *Web sources*: two rounds, so
that a scrape can follow a repair, and two commands; a threshold of two, so that
a failed connection is tried again and a later parse failure is repaired. More
rounds, and other threads that drain, are in the theorems of `WebSourceProofs`,
which state the safety properties of the run (`SourceIsHeard` without other
threads that drain). One source: sources meet only in the slots of their
key and when a skip releases blocked tasks of others, and the latter is
`SkipOther`; two sources with repairs are beyond TLC's reach here, and the
theorems of `WebSourceProofs` are for any number. *Services*: the components
share no state, so `ServicesMC`, `ClassifyMC` and `ReportMC` let one of theirs
move and keep the others in an initial state; the states add up. The smallest numbers that make
two of each meet are enough: two writers, two callers, two clients. *Pipeline*:
two ingest tasks end together, two objects per id let one be replaced while it
runs; after a third nothing is new, as only the latest object is in the queue.
Symmetry permutes callers, or the members
of a group; it is used only without liveness.

Runs whose property is violated: `web_repair`, `news_sources` and
`node_unheard`; section 7.


## 5. Fairness and deadlock

`FairSpec` of the queue: every drain step and every run step is taken in the
end, and retry windows elapse. These are the steps of running threads; the lock
is held only briefly, executors are assumed to return (they time out), and
handlers return. Callers owe nothing: calls are never fair. `Start` is fair
too, but enabled only when the pool has a free worker, so a pool that never
frees one is seen as a liveness violation.

`FairSpec` of a node: its run proceeds, queued tasks are claimed (what
`queue_liveness` shows of the queue), executors end and callbacks proceed.
`FairSpec` of a web source is the same for `NodeStep`, `ChildStep`, `Callback`
and the claim of some queued task. Commands are not fair. `SourceEnds` names the
cases in which a source really may wait for ever: a child that stays skipped or
cancelled sends no event, so that nobody wakes its source, and a repair whose
executor raises stays running and is lost (section 7). `OtherDrains` is FALSE in
`node_liveness` and `web_source`: every thread but the node's own waits for a
future while the node's run is between two drains. That is so for the classify
nodes of one run; it is not so when another run or `queue drain` is at work, nor
for sources that run side by side, and then a wake-up can be lost: `node_unheard`
is the run that shows it.

`SucceedsWithItems` and the other safety properties of the source need no
fairness; `TakeBack` is fair, as it is a step of a thread that unwinds.

`Fairness` of a run of the pipeline: the loop that registers goes on, each
thread proceeds in the record and in its rule, each object in the queue is
claimed and ends, a sweep comes. `OthersDrain` is FALSE: no task starts before
all ingest tasks are registered (section 7 has what happens otherwise). `IngestIsCombined` speaks of ingest tasks that ended by
their own runs, `RunSettles` of runs in which no source waits for new children
for ever. Commands are not fair, nor is anything in `ServicesMC`, `ClassifyMC`
and `ReportMC`, whose properties are about safety.

`CHECK_DEADLOCK FALSE` everywhere: the queue rests when all callers have used
their budget, a node or a source rests when it has ended or waits for a user,
a run when its tasks have ended, and each of the services when its bound is used
up.


## 6. Proofs

`tlapm` checks the eight proof modules without anything assumed beyond the named
assumptions on the constants, and the premises a theorem states itself. The
assumptions are what the code gives:

- queue: limits are positive (`max(1, ...)`), the order of tasks is total, tasks
  are finite, the web sources a handler skips have no dependencies, a task that
  is there from the beginning has dependencies that are there too;
- store: the empty string is the group of no task;
- calls: there is a prompt and a text; report: the LLM's settings change a number
  of times; news: items are numbered, a batch has room for one;
- sources: feeds, NewsNow sources and sites are different lists; what is
  built in is a feed or a NewsNow source;
- rules: the events of the instance are candidates as `event_loader.py` builds
  them (`EventCandidates`), and each section has room for one event. What a
  further source costs is proved for every candidate, not only for those of the
  instance.

`EventQueueProofs`

- `TypeCorrect`: `Spec => []TypeOK`. No run checks the types of a module on its own;
  they are part of each inductive invariant.
- `RunsAreExclusive`: `Spec => []OneRunPerTask`. Not inductive: one needs to
  know which threads drain, that a future in hand has an owner who drains, that
  only a run in `guarded` is inside its `try`, and that a task is `running`
  exactly while one of its runs is pending or executing. `HoldInv` says this of
  the ids that are registered once (`Singles`); `StrayInv` says that only runs of
  other ids have lost their object, so that nothing a replaced run does touches them.
- `DependenciesHold`: if handlers do not raise, `[]DependenciesSucceeded` (of
  tasks and dependencies registered once: a renewed dependency is open again
  while its dependents run).
  `CalmInv` adds that nothing is failing, so that the except branch never takes
  back a success; dependencies only become successes and stay so.
- `LimitsHold`: `Spec => []ConcurrencyLimit`. `KeyInv` bounds the running tasks
  of a key, those of renewed ids included: a registration takes the mark away and
  the new object has to be claimed like any other. The step that matters is `Claim`: several tasks are claimed at once,
  each with room after the earlier ones; the last of them in the order counts
  all the others, so the whole key fits. The second half of the property
  (executors at work) follows by an injection of runs into tasks through
  `OneRunPerTask`, and leaves out renewed ids, whose replaced run is still at
  work when the queue no longer counts it.
- `AttemptsAreBounded`: `Spec => []AttemptBudget`, whatever executors and
  handlers do. `BudgetInv` says that a task that may still be claimed has attempts
  left, and one that runs has used at most all of them. A skip can requeue a
  blocked task without resetting its attempts (`unblock_released_tasks` keeps
  `attempt`, `event_queue_support.py:240`), so with skips the property is about
  tasks that do not block by themselves; without skips it is about all.
- `QueueIsTaskPool`: if handlers do not raise, `Spec => ImplementsTaskPool`. Each
  step of a thread is one step of the pool or none (`PoolStep`): `Claim` is
  `Start` (with `KeyInv` for the room), a registration of an id that is there
  and the ends of the runs it has left are `Renew`, `Sweep` is `StopBehind`, a run that ends or
  is to be tried again is `End`, a skip is `PassOver` (`SkipIsPassOver`).
  `KnownInv` adds that the dependencies of a registered task are registered.
  Handlers that raise take a success back, which the pool does not allow
  (section 7), hence the premise. The pool has no fairness: this is safety.
- `WhoLeavesReady`: `Spec => LeftReadyOnly`, with no premise. A step that has a
  ready task and no thread that will claim behind it either had that before it
  (`ReadyBefore`), or is one of four: a bare `register`, a retry window that
  elapses, a drain at its limit, a handler that raises. It needs types only. The
  step that matters is `Claim`: one that stops looking found nothing ready, and
  one that takes tasks hands the looking on to their runs (`ClaimHandsOn`).
- `NoLostWakeUp`: under `EveryoneDrains`, `[]ReadyIsClaimed`: while a task is
  ready some thread will still claim. `EveryoneDrains` excludes the four ways,
  and ready tasks that are there from the beginning; given `WakeInv` (no drain
  has a limit, a running task is in the hands of a run) each step follows from
  `LeavesReadyStep`. No run checks `ReadyIsClaimed`, which `LeftReadyOnly` contains.
- `NoDeadlock`: `Spec => []SomebodyWorks`, for any widths, limits and nesting. A
  run waits for a worker, a drain for its futures, a shutdown for the rest of
  them. `OwnInv` says that a future in hand has an owner that is in its drain
  with a pool of at least one worker, and that in every set of runs there is one
  that owns no other of them. The latter is inductive since a claim gives
  futures to idle runs only, and idle runs own nothing. The run that owns none of
  the busy ones cannot be waiting: it waits for no future, and if it has no
  worker then another future of the same owner has one.
- `RestIsSettled`: under `EveryoneDrains` and without cycles among dependencies
  (`IsDepth`; tasks are registered after their dependencies),
  `[]QuiescentIsSettled`. `SweepDue` says that while a task is active some thread
  has yet to sweep. A sweep with nothing running and nothing ready leaves nothing
  active: the shallowest task left would be ready or behind a dead one.

`NodeRuntimeProofs`

- `NodeTypeCorrect`, with `RunInv`: a run that registers has a stage left.
- `GroupsAreWhole`: for classify, `[]WholeGroups`. `WholeInv` adds what `stage`,
  `told`, `at` and every pending callback have read may claim: all stages below
  it succeeded, and success of a child is final in a node's life.
- `WaitingResultsAreKept`: for classify, `[]ResultsKept`, unless the node's
  executor fails after it has taken the results (the code loses them then,
  section 7) or a child raises `TaskBlocked` (none does). `KeptInv` adds
  that a run works on the payload's stage, and that results which are gone are of
  a stage before it, or of this one and the run has just taken them.
- `ReportPolishEndsFirst`: for report, `PolishEndsFirst`, if nobody retries or
  skips a task by hand (`LeftAlone`; cancels are allowed). The report node takes
  whatever is there when it is woken, so the protection is all in the callbacks:
  `PolishInv` says that one that is about to wake the node in a stage has seen
  that stage's group ended, and that ended polish tasks stay so. A retry by hand
  starts a polish task again after the callback has looked, hence the premise.
- `WakeUpIsDue`: `[]WakeUpDue` under `OnePerGroup`: classify with one child per
  group, nobody else who drains while the node's run is at work (`node_unheard`
  shows why), and nobody who skips or retries the node itself. With two children, or a retry of the node, a late callback can
  take the wake-up away (section 7). `ResumeInv` adds where a run is and which
  children it may have by then (`AtWork`: no callback is left while the node is
  not blocked, and a run finds the group of its stage complete), and what the
  child that is waited for may be doing (`Awaited`).

`WebSourceProofs`

A repair whose executor raises is lost, and its error may take back a task that
has succeeded (`TakeBack`). From then on rounds may overlap, so the invariant is
`LossInv`: as long as none is lost (`NoneLost`), `IInv` holds and nothing is
being taken back. The properties have the same premise.

The invariant `IInv` is `BaseInv` and `Position`. `BaseInv`: types, a task is
running while it has a run, a job that is tried again has an attempt left, and
a job that asks for a repair is not of the last round. `Position` says for each
source what its place (stage, round, run) implies: `OnlyOpen`, which scrapes,
repairs and agent's runs may be registered by then, and `Justified`, which of
them must have succeeded. It is inductive because success of a task is final
and because a child is registered before the payload is patched, so that the
open rounds are those up to the payload's, and one more while the node is
between the two. Commands, wake-ups and events move only tasks that have not
succeeded and create none (`QuietPosition`), so only the steps of the node and
of the repair matter.

- `WebTypeCorrect`, `RoundsAreInOrder`, `RepairsExcludeScrapes` and
  `NoneLeftBehind` follow from `IInv`.
- `SuccessHasItems`: the action property follows from the place `finish`, which
  is reached only with a job that succeeded.
- `BlockedSourceIsHeard`: `[]SourceIsHeard` when no other thread drains while a
  node is at work (`node_unheard` shows why for a node of the same shape), under
  all commands: the safety core of `SourceEnds`. `HeardInv` adds what a run of the
  node leaves for its end (`Placed`: the child it has registered has not been
  claimed) and that only a blocked source waits. Commands and handlers keep what
  is heard (`Calm`), as do the runs of other tasks (`Elsewhere`). The callback
  that finds its group still active is the step that could lose the wake-up; by
  `Position` an active task of the group can only be the child that is waited
  for (`GroupFacts`).

`PipelineRunProofs`

`TypeInv` has the types and which rules a thread may be asking (`RuleInv`).
`RunningStageKeepsInputs` (`[]InputsStay`) needs `Live`: a thread is at work only
for a running object, no object exists ahead of its number, and a running first
object has its dependencies in the queue, those registered once with success
(`InputsHeld`). The second registration of combine is the step that could break
it: it moves the id to another object, and `InputsHeld` speaks of first ones.

`NoEndIsMissed` (`[]FollowupDue`) is the safety core of `IngestIsCombined` and
`ChainGoesOn`: every end that a rule listens to leaves its thread asking, and a
thread stops asking only when it has found the followup in the queue, has
registered it, or, for ingest, has seen another task that has not ended; that
task's own end will ask again. An end never comes about in a step that asks
nobody, since commands only take ends back (`DueFrame`, `DueQuietStep`). The
invariant is `TypeInv`, `FollowupDue` and that ingest tasks have no dependencies
(`IngestFree`), so that no sweep ends one.

`QueueStoreProofs`

`StoreInv`: types, `ImageIsCurrent`, each index holds exactly what the tasks name
(`Indexed`), and a blocked task's result, and a blocked row for the restart that
will load it, says why (`BlockedSaysWhy`, `RowSaysWhy`), unless a replaced run
has overwritten it.
`ImageStaysCurrent` is part of it, `ReadersStayInAgreement` follows: the reasons
that `inspect_tasks` and `waiting_details` give are equal because one counts the
running tasks of the key less the task itself, and the other those without it
(`RunningOthers`).

`ExtractorRepairProofs`

`RepairInv`: types; an agent's answer is of a repair of an earlier second
(`AnswersAreOld`), so that no new repair takes its name; when record and answer
call a draft fixed and no agent is at work on it, nobody has touched it since
(`DraftIsFixed`); as long as nothing has crossed, at most one publication is
under way (`OnePromotes`), no agent is at its draft, which stays as it was
judged, and before the removal the live extractor is among the versions
(`PromotionInv`). That the node's promotion meets no other node and no agent of its
extractor follows from the key; that the user's does is `crossed`. From it
`OnlyFixedDraftsGoLive` and `ReplacedExtractorsAreKept`, both action properties.

`ReportProofs`

- `ReportsAreWhole`: `TextInv`. One report runs at a time (the key), so the pages
  written so far by the one that writes are its own (`PagesOwn`); what was handed
  over is in the draft or in the copy about to be stored (`GivenKept`).
- `NewsStayKept`: `NewsInv`. Batches and pending items divide the news; nothing is
  decided before the answers and nothing removed before the merge; a decided item
  is dropped or in a living event. The merge step uses that the target is living
  and takes over the members before the source is removed.
- `SourcesDemoteOnlyByTitle`: no invariant but the type of the pool. The work is in
  lemmas about the rules, for every candidate: importance, novelty and bonuses
  grow (`ImportanceGrows`, `NoveltyGrows`, `BonusGrows`), an event that gets its
  first date may look older, but its penalty falls by more (`FreshAndRisk`),
  what a source adds to the source score outweighs the penalty it brings
  (`SourceAndRisk`), a title that goes in first or last leaves the fitting one
  among the first five unless there are five already (`InsertedTitle`,
  `FitStaysShown`), and a mismatch costs 18 points and nothing else
  (`TitleRisk`).
- `SectionsStayInOrder`: `Spec => []SectionsHold` of `RulesSpec`. `SectionsInv` says
  that each section filled so far was well chosen from what the earlier ones had
  left. The work is in what the operators return for any events and limits, with
  no fold in them: a ranking lists each event once, in order, because counting the
  events before each is an injection (`RankedLists`); the walk down the ranking takes each event
  at most once and keeps limit and diversity (`TakenIsDown`, `PicksAreSound`, by
  the first place at which it would not); a forced paper comes in and nothing
  else does (`ForceIncludes`, `ShowsOne`).

`ServiceProofs`

- `CallsStayAccounted`: `CallsInv`. What is stored has parsed; what a call claims at
  each place (`CallSound`), and how requests and waits follow from the attempt
  (`AttemptSound`), for any number of attempts; a vector in memory is on its way to the file.
- `StreamsStayWhole`: `BusInv`. A live stream is a listener and an event of the log
  was shown, is queued, handed out or dropped (`NoGap`); the task logs are
  ordered by clear and id, with the event in hand behind them (`LogInOrder`).
- `ViewsStayInAgreement`: `ViewInv`. What handlers keep is about steps that have a
  row (`KeptHasRow`). The rest is about operators: the status of a stage is the
  worst of its steps, and the state of the run the worst of its stages and of the
  steps that belong to none.
- `ActiveStaysIngested`: `ConfigInv`. Every configuration that is on disk, loaded
  or changed lists the sites that have come later than the first file
  (`ListsItsSites`), whichever writes were torn or mixed and whatever the first
  file lists.
- `SourcesStayAccounted`: `IngestInv`. A source that was active in all readings is
  of a planned step and, if a site, of the planned listing (`SeenIsPlanned`), and
  each step leaves its sources noted or still to do (`StepsDone`).

Only model-checked:

- liveness and everything under fairness: `EveryTaskEnds`, `EveryCallReturns`,
  `NodeResumes`, `NodeEnds`, `SourceEnds`, `IngestIsCombined`, `ChainGoesOn`,
  `RunSettles`. Liveness and ENABLED are beyond the prover. What they need of
  safety is proved: `NoDeadlock`, `WhoLeavesReady` and `RestIsSettled` for the
  queue, `WakeUpIsDue` for a node, `BlockedSourceIsHeard` for a source,
  `NoEndIsMissed` for a run;
- the violated properties of section 7 (`NodeResumes` holds in `node_liveness`,
  where nobody else drains).


## 7. Where the code does something else

Three runs each have one property, stated by a document, a test or the code, that
TLC finds violated.

- `web_repair`: a repair node blocks to wait for its own child; its
  `task.blocked` wakes the source, which takes the repair for one that failed,
  blocks for good and is skipped while the repair is at work.
- `node_unheard`: a node registers its children and blocks afterwards. When
  another thread drains in between, a child may end first; its callback finds a
  node that runs, which `retry` leaves alone (`event_queue.py:413`), and the node
  then blocks on a group that has ended. It is woken by hand only. The web
  source has the same shape.
- `news_sources`: items of an event that is merged away keep its id, and the
  report, which looks for sources by the items' ids, shows none for them.

These were met while modelling and are in the models, with no run of their own.

The queue and the nodes:

- a handler of `task.completed` that raises, or the drain nested under it, turns
  a succeeded task into a queued or failed one (`event_queue.py:267`);
- with two children in a group, a late callback wakes the node in its next
  stage, and the wake-up by that stage's child is lost: `NodeResumes` holds with
  one child per group only (`extraction_node_runtime.py:184`);
- skipping any task requeues every blocked task whose dependencies are fine,
  business blocks of other parts included (`event_queue_support.py:240`);
- `queue cancel` has no effect on a blocked task (`event_queue.py:399`);
- nobody drains when a retry window ends: the automatic retry waits for the
  next call (`event_queue_support.py:168`); the second of the four ways of
  `LeftReadyOnly`;
- a drain with a limit starts runs whose nested drains have none
  (`event_queue.py:181`);
- dependents of a cancelled task stay queued or waiting until somebody drains;
- a skipped or cancelled child wakes nobody: its node waits on;
- a late wake-up can make the report node write its report while the trend task
  is still at work (`report/node_runtime.py:354`);
- a classify stage without items registers nothing and waits for ever
  (`batch_queue_runtime.py:34`);
- a node that fails after taking its results cannot be retried with success
  (`batch_queue_runtime.py:78`), and a restart loses the transient results, so
  that a report node in a later stage can never finish;
- a repair task has no `max_attempts`; when its executor raises, the comparison
  in the queue's except branch raises too, and it stays running
  (`event_queue.py:280`); the error also leaves the drains above, and may turn a
  task that has succeeded, a scrape among them, into a failed one that its user
  retries while the repair's child is at work;
- an id that is registered again while its task runs has two runs: the old one no
  longer counts under its key, and writes its own row over the image when it ends
  (`event_queue.py:137-140`, `265-287`);
- a skip requeues a blocked task with the attempts it has had, so one that blocks
  by itself may be started more often than `max_attempts`
  (`event_queue_support.py:240`);
- with the default threshold of three attempts a page that cannot be parsed is
  tried once and never repaired (`orchestrator.py:59`), though
  `docs/web_extraction_agent_design.md:175` names parse errors as what should be
  repaired; and rounds of repair and scrape have no limit
  (`web_source_node_runtime.py:180`);
- a task that is registered again keeps the result of its predecessor, and
  `inspect_tasks` calls a task behind a dead dependency ready.

Runs:

- of two tasks that append to `run.json` together one checkpoint is lost, and an
  update may find its temporary file taken (`repository/runs.py:46`, `:89`);
- combine may be registered twice, and run twice (`followups.py:67`); when
  another thread drains while the ingest tasks of a run are registered, combine
  may be registered for the first of them only (`manager_support.py:21`);
- scrape children count as ingest tasks: a scrape that failed holds combine back
  though its source was skipped (`followups.py:156-160`);
- a failed repair child makes the run failed while no pipeline step shows a
  failure (`read_model.py:224-226`);
- updates of the overlay are lost; a half finished run shows as succeeded after
  a restart; a waiting task of a finished step is shown as scheduled
  (`runtime_store.py:39`, `read_model_support.py`);
- `publish_from_checkpoint` copies the files of a finished merge one by one, so
  two runs may leave files of both (`repository/outputs.py:57`).

Repairs:

- deleting a repair during its promotion brings its record back; a retry between
  the end of the agent and its evaluation leaves the repair task failed and the
  repair queued;
- nothing keeps a promotion by the user from one by the node, nor from an agent
  at the same draft: copies may mix, and code may go live that nobody has judged
  (`repair_workspace.py:53`, `repair_runtime_facade.py:54`);
- two publications in one second use one version name: the second stops before
  it has changed anything; a delete in the middle leaves no live extractor;
- a promotion enables an extractor that a user has disabled;
- two sources that fail in one second share a repair;
- a structured failure is raised as text and classified again by its words, so a
  block may come back as a parse error (`web_runner.py:35`).

Sources, calls, events, reports:

- a reader of the truncated `config.json` takes it for empty and saves the
  defaults; of two changes one may be lost; disabling a feed by its id removes
  its URL; adding a site to an empty listing turns the others off, and deleting
  the last listed one turns all on (`runtime_config_store.py:64`,
  `runtime_config_sources.py:11-70`);
- one NewsNow cache that is no JSON fails the task of all (`newsnow.py`);
- an answer of the LLM that does not parse is not asked for again, and of two
  callers of a prompt the later write stays (`llm_client.py:52`);
- events may arrive at a client out of order, as they are delivered after the
  lock (`progress.py:54`);
- a further source may cost an event 18 points: only the first five titles, in
  the order of the items, are compared with the event's (`scorer.py:264`,
  `verifier.py:50`), and the fitting one may be pushed out;
- a polish that arrives between reading and discarding is lost; a report whose
  files fail after the trend text was taken is written with the fallback when it
  is retried; warnings are appended again (`report/node_runtime.py:133-184`).


## 8. Not modelled, and why

Extractors and `mock_server.py`: sequential processing of foreign pages behind
the executor of a scrape. Wording: evidence, summaries and Markdown of a report
(`evidence.py`, half of `reporter.py`), prompts, labels and times of the views;
no state depends on it. Routing, parsing and rendering of CLI and web UI. The
job files of the orchestrator and checkpoint files: one writer each. LLM and
report settings in the configuration. Code that no task calls:
`merge_similar_events`, `apply_event_decision`, the retriever's search, the shim
of `clustered_extract.py`, and `EventQueue.run`. `publish_from_checkpoint`: a
plain race of two copies (section 7). The Codex process, the LLM, the embedding
service and the scraped sites are external: they answer anything.
