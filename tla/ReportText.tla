----------------------------- MODULE ReportText -----------------------------
(***************************************************************************)
(* How the text of a report comes from its draft into its files.           *)
(*                                                                         *)
(* The node of a report keeps its draft in the queue's transient results,  *)
(* between runs that are stages apart: it builds the draft, takes the      *)
(* texts its polish tasks have left there, takes the trend paragraph, and  *)
(* writes the files of data/output, which all runs share                   *)
(* (service/report/node_runtime.py, pipeline.py).  When a node is woken is *)
(* the matter of NodeRuntime; here it may be whenever it has stopped.  Of  *)
(* a draft it matters which of its events were polished or given a         *)
(* warning.                                                                *)
(***************************************************************************)
EXTENDS Integers, Sequences, FiniteSets

CONSTANTS
    ReportNodes,  \* report nodes, each of a run of its own
    Selected,     \* report -> the events selected for it
    Watched,      \* those of the section watchlist
    LlmChanges    \* how often the LLM is configured anew (bound of the model)

ASSUME TextAssumption == LlmChanges \in Nat

VARIABLES
    rnode,      \* report -> state of its task
    rstage,     \* report -> payload.node_stage
    rpc,        \* report -> where its run is
    rdraft,     \* report -> report_draft among the transient results
    working,    \* report -> the draft its run works with
    polish,     \* report -> event -> state of the polish task
    text,       \* report -> event -> the polish among its transient results
    trend,      \* report -> state of the trend task, and whether it left a text
    carried,    \* report -> whether its run has the trend paragraph
    given,      \* report -> events whose polish was handed over
    written,    \* report -> files written by its run
    output,     \* file -> what it holds
    llm,        \* the LLM is configured
    llmLeft     \* changes of that left

textVars == <<rnode, rstage, rpc, rdraft, working, polish, text, trend, carried,
              given, written, output, llm, llmLeft>>

\* write_report_outputs, in its order; report_candidates and review_candidates
\* hold rows of the first file, the debug report is the last with remarks.
Files == <<"enriched_events", "evidence_events", "trend_summary", "daily_report">>

NoDraft == [made |-> FALSE, polished |-> {}, warned |-> {}]
NoPage == [by |-> "nobody", draft |-> NoDraft, trend |-> FALSE]

TextInit ==
    /\ rnode = [r \in ReportNodes |-> "queued"]
    /\ rstage = [r \in ReportNodes |-> "prepare"]
    /\ rpc = [r \in ReportNodes |-> "idle"]
    /\ rdraft = [r \in ReportNodes |-> NoDraft]
    /\ working = rdraft
    /\ polish = [r \in ReportNodes |-> [b \in Selected[r] |-> "absent"]]
    /\ text = [r \in ReportNodes |-> [b \in Selected[r] |-> "none"]]
    /\ trend = [r \in ReportNodes |-> [state |-> "absent", text |-> FALSE]]
    /\ carried = [r \in ReportNodes |-> FALSE]
    /\ given = [r \in ReportNodes |-> {}]
    /\ written = [r \in ReportNodes |-> 0]
    /\ output = [f \in DOMAIN Files |-> NoPage]
    /\ llm \in BOOLEAN
    /\ llmLeft = LlmChanges

-----------------------------------------------------------------------------
(* A run of the node                                                        *)

\* Faulty: the key is the run's own.
KeyPerRun(r) == TRUE

\* concurrency_key "report", one at a time; a blocked node does not hold it.
KeyIsFree(r) == \A q \in ReportNodes : rnode[q] # "running"

StartRun(r) ==
    /\ rnode[r] = "queued"
    /\ KeyIsFree(r)
    /\ rnode' = [rnode EXCEPT ![r] = "running"]
    /\ rpc' = [rpc EXCEPT ![r] = "start"]
    /\ UNCHANGED <<rstage, rdraft, working, polish, text, trend, carried, given,
                   written, output, llm, llmLeft>>

At(r, place) == rnode[r] = "running" /\ rpc[r] = "start" /\ rstage[r] = place
Then(r, where) == rpc' = [rpc EXCEPT ![r] = where] /\ written' = [written EXCEPT ![r] = 0]

\* _start_report_node: the draft is built anew, then it is finished or polished.
PrepareDraft(r) ==
    /\ At(r, "prepare")
    /\ working' = [working EXCEPT ![r] = [NoDraft EXCEPT !.made = TRUE]]
    /\ rdraft' = [rdraft EXCEPT ![r] = working'[r]]
    /\ Then(r, IF llm /\ Selected[r] # {} THEN "polish" ELSE "write")
    /\ UNCHANGED <<rnode, rstage, polish, text, trend, carried, given, output, llm, llmLeft>>

\* The node registers its children, patches the stage and blocks.
WaitFor(r, place) ==
    /\ rpc[r] = place
    /\ rnode' = [rnode EXCEPT ![r] = "blocked"]
    /\ rstage' = [rstage EXCEPT ![r] = place]
    /\ rpc' = [rpc EXCEPT ![r] = "idle"]
    /\ working' = [working EXCEPT ![r] = NoDraft]
    /\ UNCHANGED <<rdraft, text, carried, given, written, output, llm, llmLeft>>

RegisterPolish(r) ==
    /\ WaitFor(r, "polish")
    /\ polish' = [polish EXCEPT ![r] = [b \in Selected[r] |-> "queued"]]
    /\ UNCHANGED trend

RegisterTrend(r) ==
    /\ WaitFor(r, "trend")
    /\ trend' = [trend EXCEPT ![r].state = "queued"]
    /\ UNCHANGED polish

\* _apply_polish_results: what the polish tasks have left is put into a copy of
\* the draft; a failed one leaves a warning, a cancelled or unfinished one nothing.
ApplyPolish(r) ==
    LET texts == {b \in Selected[r] : polish[r][b] = "succeeded" /\ text[r][b] = "text"}
        failed == {b \in Selected[r] : polish[r][b] = "failed"}
    IN  /\ At(r, "polish")
        /\ working' = [working EXCEPT ![r] =
              [rdraft[r] EXCEPT !.polished = @ \cup texts, !.warned = @ \cup failed]]
        /\ given' = [given EXCEPT ![r] = @ \cup texts]
        /\ Then(r, "discard")
        /\ UNCHANGED <<rnode, rstage, rdraft, polish, text, trend, carried, output, llm, llmLeft>>

\* All their transient results are discarded, those that came meanwhile too, and
\* the draft is stored.
StoreDraft(r) ==
    /\ rpc[r] = "discard"
    /\ text' = [text EXCEPT ![r] = [b \in Selected[r] |-> "none"]]
    /\ rdraft' = [rdraft EXCEPT ![r] = working[r]]
    /\ Then(r, IF llm /\ Selected[r] \ Watched # {} THEN "trend" ELSE "write")
    /\ UNCHANGED <<rnode, rstage, working, polish, trend, carried, given, output, llm, llmLeft>>

\* _collect_trend_summary takes the paragraph for good.
CollectTrend(r) ==
    /\ At(r, "trend")
    /\ carried' = [carried EXCEPT ![r] = trend[r].state = "succeeded" /\ trend[r].text]
    /\ trend' = [trend EXCEPT ![r].text = FALSE]
    /\ working' = [working EXCEPT ![r] = rdraft[r]]
    /\ Then(r, "write")
    /\ UNCHANGED <<rnode, rstage, rdraft, polish, text, given, output, llm, llmLeft>>

\* write_report_outputs, one file after the other.
WriteFile(r) ==
    LET next == written[r] + 1
    IN  /\ rpc[r] = "write" /\ next <= Len(Files)
        /\ output' = [output EXCEPT ![next] =
              [by |-> r, draft |-> working[r], trend |-> carried[r]]]
        /\ written' = [written EXCEPT ![r] = next]
        /\ UNCHANGED <<rnode, rstage, rpc, rdraft, working, polish, text, trend, carried,
                       given, llm, llmLeft>>

Leave(r, state) ==
    /\ rnode' = [rnode EXCEPT ![r] = state]
    /\ rpc' = [rpc EXCEPT ![r] = "idle"]
    /\ working' = [working EXCEPT ![r] = NoDraft]
    /\ carried' = [carried EXCEPT ![r] = FALSE]
    /\ written' = [written EXCEPT ![r] = 0]
    /\ UNCHANGED <<rstage, polish, text, trend, given, output, llm, llmLeft>>

\* The checkpoint is written and appended to the run, and the draft discarded.
FinishReport(r) ==
    /\ rpc[r] = "write" /\ written[r] = Len(Files)
    /\ rdraft' = [rdraft EXCEPT ![r] = NoDraft]
    /\ Leave(r, "succeeded")

\* The configuration, the record of the run or the input cannot be read, or a
\* file cannot be written; after the last one, the checkpoint.
FailReport(r) ==
    /\ rpc[r] \in {"start", "write"}
    /\ Leave(r, "failed")
    /\ UNCHANGED rdraft

\* A callback or a user retries the node.
WakeReport(r) ==
    /\ rnode[r] \in {"blocked", "failed"}
    /\ rnode' = [rnode EXCEPT ![r] = "queued"]
    /\ UNCHANGED <<rstage, rpc, rdraft, working, polish, text, trend, carried, given,
                   written, output, llm, llmLeft>>

-----------------------------------------------------------------------------
(* Its children                                                             *)

ChildrenOnly == UNCHANGED <<rnode, rstage, rpc, rdraft, working, carried, given,
                            written, output, llm, llmLeft>>

\* run_report_polish_task: without an LLM, or with an empty answer, it succeeds
\* and leaves an empty polish.
EndPolish(r, b) ==
    /\ polish[r][b] = "queued"
    /\ \/ /\ polish' = [polish EXCEPT ![r][b] = "succeeded"]
          /\ \E t \in IF llm THEN {"text", "empty"} ELSE {"empty"} :
                text' = [text EXCEPT ![r][b] = t]
       \/ /\ polish' = [polish EXCEPT ![r][b] = "failed"]
          /\ UNCHANGED text
    /\ UNCHANGED trend
    /\ ChildrenOnly

\* run_report_trend_summary_task catches what the LLM raises.
EndTrend(r) ==
    /\ trend[r].state = "queued"
    /\ \/ \E t \in IF llm THEN BOOLEAN ELSE {FALSE} :
             trend' = [trend EXCEPT ![r] = [state |-> "succeeded", text |-> t]]
       \/ trend' = [trend EXCEPT ![r].state = "failed"]
    /\ UNCHANGED <<polish, text>>
    /\ ChildrenOnly

\* A user cancels a child, or retries it; what an earlier run left stays.
OrderChild(r) ==
    LET moved(s) == IF s = "queued" THEN "cancelled" ELSE "queued"
    IN  /\ \/ \E b \in Selected[r] :
                /\ polish[r][b] \in {"queued", "failed", "cancelled"}
                /\ polish' = [polish EXCEPT ![r][b] = moved(@)]
                /\ UNCHANGED trend
           \/ /\ trend[r].state \in {"queued", "failed", "cancelled"}
              /\ trend' = [trend EXCEPT ![r].state = moved(@)]
              /\ UNCHANGED polish
        /\ UNCHANGED text
        /\ ChildrenOnly

\* Every run and every child reads the configuration for itself.
ChangeLlm ==
    /\ llmLeft > 0
    /\ llmLeft' = llmLeft - 1
    /\ llm' = ~llm
    /\ UNCHANGED <<rnode, rstage, rpc, rdraft, working, polish, text, trend, carried,
                   given, written, output>>

TextNext ==
    \/ \E r \in ReportNodes :
        \/ StartRun(r) \/ PrepareDraft(r) \/ RegisterPolish(r) \/ ApplyPolish(r)
        \/ StoreDraft(r) \/ RegisterTrend(r) \/ CollectTrend(r)
        \/ WriteFile(r) \/ FinishReport(r) \/ FailReport(r) \/ WakeReport(r)
        \/ EndTrend(r) \/ OrderChild(r)
        \/ \E b \in Selected[r] : EndPolish(r, b)
    \/ ChangeLlm

TextSpec == TextInit /\ [][TextNext]_textVars

-----------------------------------------------------------------------------
\* A node that stops on its way has its draft in the queue, so that it can be
\* woken as often as it takes; and when a report succeeds, after any failures and
\* beside the reports of other runs, the files are all its own, of one draft, and
\* every polish that was handed over is in them.
ReportIsWhole ==
    /\ [](\A r \in ReportNodes :
            rstage[r] # "prepare" /\ rnode[r] # "succeeded" => rdraft[r].made)
    /\ [][\A r \in ReportNodes :
            rnode[r] # "succeeded" /\ rnode'[r] = "succeeded" =>
                /\ \A f \in DOMAIN Files : output'[f].by = r /\ output'[f] = output'[1]
                /\ given[r] \subseteq output'[1].draft.polished]_textVars
=============================================================================
