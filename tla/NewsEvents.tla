----------------------------- MODULE NewsEvents -----------------------------
(***************************************************************************)
(* How the news of a run become events: titles are put into batches by     *)
(* vector, the LLM answers every batch with items to discard, to suspect   *)
(* and to put together as an event, a second round of answers merges       *)
(* events, and the report reads what was saved                             *)
(* (service/classify/extraction_node_runtime.py, clustered_merge.py,       *)
(* clustered_embedding.py, event_state_ops.py, state_codec.py,             *)
(* service/report/event_loader.py).                                        *)
(*                                                                         *)
(* The answers of all batches are applied one row at a time: a row may     *)
(* name any item of the run, since nothing compares it with its batch, and *)
(* with enough batches any order of rows can come.  Texts, vectors and     *)
(* confidences are left out.                                               *)
(***************************************************************************)
EXTENDS Naturals, Sequences, FiniteSets, FiniteSetsExt

CONSTANTS
    News,        \* the indexes of the prepared items
    BatchSize,   \* classification.batch_size
    MaxEvents    \* bound: event rows in all answers

ASSUME NewsAssumption ==
    /\ News \subseteq Nat
    /\ BatchSize \in Nat \ {0}
    /\ MaxEvents \in Nat

VARIABLES
    newsStage,   \* "batch", "extract", "merge" or "completed"
    pending,     \* items not in a batch yet
    batches,     \* the groups of items sent to the LLM
    work,        \* the state the running node holds
    removed,     \* merged events of the running merge
    saved        \* the run's newest classification_progress artifact

newsVars == <<newsStage, pending, batches, work, removed, saved>>

\* A state with nothing decided: what a node starts from without a resume.
Fresh == [decided |-> [i \in News |-> "none"], eventOf |-> [i \in News |-> 0],
          dropped |-> {}, events |-> <<>>, live |-> {}]

NewsInit ==
    /\ newsStage = "batch" /\ pending = News /\ batches = {}
    /\ work = Fresh /\ removed = {}
    /\ saved = [stage |-> "started", state |-> Fresh]

\* decode_resume_state: only a run that has not completed is resumed.
Resumed(artifact) ==
    IF artifact.stage \in {"started", "after_clustered_event_extraction"}
    THEN artifact.state ELSE Fresh

-----------------------------------------------------------------------------
\* greedy_vector_groups: the first pending row and the rows nearest to it;
\* which those are is up to the vectors.
GroupNear(near) ==
    LET seed == Min(pending) IN
    /\ newsStage = "batch" /\ pending # {}
    /\ near \subseteq pending \ {seed}
    /\ Cardinality(near) = Min({BatchSize - 1, Cardinality(pending) - 1})
    /\ batches' = batches \cup {near \cup {seed}}
    /\ pending' = pending \ (near \cup {seed})
    /\ UNCHANGED <<newsStage, work, removed, saved>>

\* The responses of the whole group are collected by the extraction node.
Extract ==
    /\ newsStage = "batch" /\ pending = {}
    /\ newsStage' = "extract" /\ work' = Resumed(saved)
    /\ UNCHANGED <<pending, batches, removed, saved>>

\* A row of "discards" or "suspects"; an item already assigned may be named.
DropRow(i, decision) ==
    /\ newsStage = "extract" /\ i \notin work.dropped
    /\ work' = [work EXCEPT !.decided[i] = decision, !.dropped = @ \cup {i}]
    /\ UNCHANGED <<newsStage, pending, batches, removed, saved>>

\* A row of "events": the items named that no event has taken yet.
EventRow(named) ==
    LET sources == {i \in named : work.decided[i] # "assign"}
        id == Len(work.events) + 1 IN
    /\ newsStage = "extract" /\ sources # {} /\ id <= MaxEvents
    /\ work' = [decided |-> [i \in News |-> IF i \in sources THEN "assign" ELSE work.decided[i]],
                eventOf |-> [i \in News |-> IF i \in sources THEN id ELSE work.eventOf[i]],
                dropped |-> work.dropped,
                events |-> Append(work.events, sources),
                live |-> work.live \cup {id}]
    /\ UNCHANGED <<newsStage, pending, batches, removed, saved>>

\* Items no answer has named are discarded, and the checkpoint is written.
EndExtraction ==
    LET omitted == {i \in News : work.decided[i] = "none"}
        state == [work EXCEPT !.decided = [i \in News |->
                                  IF i \in omitted THEN "discard" ELSE work.decided[i]],
                              !.dropped = @ \cup omitted] IN
    /\ newsStage = "extract"
    /\ saved' = [stage |-> "after_clustered_event_extraction", state |-> state]
    /\ newsStage' = "merge" /\ work' = Resumed(saved')
    /\ UNCHANGED <<pending, batches, removed>>

\* A fault for the mutants: a merged event may still be a target.
MayBeMergedTarget(target) == target \in work.live

\* A group of "merge_groups": a target that was merged itself is passed over.
MayBeTarget(target) == target \in work.live \ removed

\* merge_event_records, of each source into the target.
Absorbed(events, target, sources) ==
    [events EXCEPT ![target] = @ \cup UNION {events[e] : e \in sources}]

MergeGroup(target, named) ==
    LET sources == (named \cap work.live) \ (removed \cup {target}) IN
    /\ newsStage = "merge" /\ MayBeTarget(target) /\ sources # {}
    /\ work' = [work EXCEPT !.events = Absorbed(@, target, sources)]
    /\ removed' = removed \cup sources
    /\ UNCHANGED <<newsStage, pending, batches, saved>>

\* The merged events leave the list; their items keep the event they named.
EndMerge ==
    LET state == [work EXCEPT !.live = @ \ removed] IN
    /\ newsStage = "merge"
    /\ saved' = [stage |-> "completed", state |-> state]
    /\ newsStage' = "completed" /\ work' = state
    /\ UNCHANGED <<pending, batches, removed>>

NewsNext ==
    \/ \E near \in SUBSET News : GroupNear(near)
    \/ Extract
    \/ \E i \in News, decision \in {"discard", "suspect"} : DropRow(i, decision)
    \/ \E named \in SUBSET News : EventRow(named)
    \/ EndExtraction
    \/ \E target \in 1..MaxEvents, named \in SUBSET (1..MaxEvents) : MergeGroup(target, named)
    \/ EndMerge

NewsSpec == NewsInit /\ [][NewsNext]_newsVars

-----------------------------------------------------------------------------
\* The source items the report gives an event: build_source_item_map groups
\* the saved items by the event they name.
SourceItems(e) == {i \in News : saved.state.eventOf[i] = e}

\* The events the report loads.
Candidates == saved.state.live

\* Every item is in exactly one batch, and after an answer, a merge or a save
\* no item is lost: an event that is kept holds it, or it is in the list of
\* the discarded.
NewsKept ==
    /\ newsStage # "batch" => /\ UNION batches = News
                              /\ \A a, b \in batches : a # b => a \cap b = {}
    /\ newsStage \in {"merge", "completed"} =>
          \A i \in News \ work.dropped : \E e \in work.live \ removed : i \in work.events[e]

\* event_loader.py promises that the report keeps the sources: an item that
\* belongs to an event is a source item of an event the report shows.
SourcesAreReported ==
    newsStage = "completed" =>
        \A i \in News : saved.state.decided[i] = "assign" =>
                            \E e \in Candidates : i \in SourceItems(e)
=============================================================================
