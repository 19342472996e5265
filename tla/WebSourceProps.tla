--------------------------- MODULE WebSourceProps ---------------------------
(***************************************************************************)
(* What scraping and repairing promise to a run.                           *)
(***************************************************************************)
EXTENDS WebSource

AtWork(t) == state[t] \in Active

\* No repair has raised so far.  One that has stays running for good, and its
\* exception may take back what has succeeded above it: from then on a scrape
\* that has already been repaired may be run once more.
NoneLost == lost = {}

\* A round begins only with the end of the one before: a repair is registered
\* for a scrape that ended with a broken extractor, the agent is run for a
\* registered repair, and the source is scraped again after its repair, and the
\* agent's run in it, have succeeded, whoever wakes the node and whenever
\* (_complete_scrape_stage, _complete_repair_stage, _complete_exec_stage); all
\* this as long as no repair has raised.
RoundsInOrder ==
    NoneLost => \A s \in Sources, n \in 1 .. Rounds :
        /\ state[Repair(s, n)] # "none" =>
              state[Scrape(s, n)] = "succeeded" /\ job[Scrape(s, n)] = "repairing"
        /\ state[Exec(s, n)] # "none" => state[Repair(s, n)] # "none"
        /\ n < Rounds /\ state[Scrape(s, n + 1)] # "none" =>
              state[Repair(s, n)] = "succeeded" /\ state[Exec(s, n)] = "succeeded"

\* An extractor is never run while a repair of it is at work, for any number of
\* early and late wake-ups of the node and of the repair, as long as no repair
\* has raised.
NoScrapeDuringRepair ==
    NoneLost => \A s \in Sources, m, n \in 1 .. Rounds :
        ~(AtWork(Scrape(s, m)) /\ (AtWork(Repair(s, n)) \/ AtWork(Exec(s, n))))

\* A source that has succeeded has left no scrape, no repair and no run of the
\* agent behind that is queued or running (_complete_scrape_stage looks at the
\* last scrape only), as long as no repair has raised.
NothingLeftBehind ==
    NoneLost => \A s \in Sources :
        state[Node(s)] = "succeeded" =>
            \A t \in Tasks \ Nodes : t[1] = s => ~AtWork(t)

\* A source that succeeds does so with the items of its last scrape
\* (_persist_web_source_checkpoint), unless that scrape was taken back and is
\* tried again.
SucceedsWithItems ==
    [][\A s \in Sources :
          NoneLost /\ state[Node(s)] # "succeeded" /\ state'[Node(s)] = "succeeded" =>
              /\ job[Scrape(s, round[s])] = "succeeded"
              /\ \A n \in (round[s] + 1) .. Rounds : state[Scrape(s, n)] = "none"]_vars

\* The child a source waits for.
Awaited(s) ==
    IF stage[Node(s)] = "repair" THEN Repair(s, round[s]) ELSE Scrape(s, round[s])

\* A source that is blocked is not forgotten.  When it waits for a child, the
\* child is still to end, or the callback of its end is on its way, unless
\* somebody keeps the child stopped by hand; when it is blocked for good, the
\* handler that skips it is on its way (handle_web_source_child_task_callback,
\* handle_blocked_web_source_event).  All this as long as no repair has raised.
SourceIsHeard ==
    NoneLost => \A s \in Sources : state[Node(s)] = "blocked" =>
        IF s \in waiting
        THEN \/ state[Awaited(s)] \in Active \cup {"cancelled", "skipped"}
             \/ cb[Awaited(s)] \in {"read", "check", "wake"}
        ELSE cb[Node(s)] \in {"notify", "look", "skip"}

\* Every source ends, or is cancelled, after any number of repairs, and when
\* others of the run are skipped; unless one of its children stays cancelled or
\* skipped, which sends no event, or a repair raises, of this source or of
\* another one: its exception leaves the drains above, and nobody may be left
\* to claim what is queued.
SourceEnds ==
    \A s \in Sources :
        \/ <>[](state[Node(s)] \in {"succeeded", "failed", "skipped", "cancelled"})
        \/ \E t \in Tasks \ Nodes : t[1] = s /\ <>[](state[t] \in {"cancelled", "skipped"})
        \/ <>~NoneLost

-----------------------------------------------------------------------------
(* What the documents and the tests say, and the code does not do           *)

\* A source is skipped when it is known that nothing can be recovered
\* (project_reorganization_proposal.md:292), hence not while one of its own
\* tasks is still at work.
SkippedAtRest ==
    [][\A s \in Sources :
          state[Node(s)] # "skipped" /\ state'[Node(s)] = "skipped" =>
              \A t \in Tasks \ Nodes : t[1] = s => ~AtWork(t)]_vars
=============================================================================
