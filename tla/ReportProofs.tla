----------------------------- MODULE ReportProofs -----------------------------
(***************************************************************************)
(* Proofs about the way from the news to the reports, for any number of    *)
(* reports, any selected events, any items, and children that end, fail or *)
(* are ordered in any way.                                                 *)
(*                                                                         *)
(* Report nodes: the files of data/output are shared, but one report node  *)
(* is at work at a time: the pages that a run has written so far are all   *)
(* its own.  What the polish tasks have handed over is in the draft of the *)
(* queue, or in the copy that the run is about to store.                   *)
(* News: the batches and what is left over divide the items, and an item   *)
(* that is decided is in an event or dropped.                              *)
(* Scores: each part of the score of an event, taken with the part of the  *)
(* risk that it carries, only grows with a further source.                 *)
(* Sections: the events of a section are a list of some of those that the  *)
(* sections before it have left, and a list is made by going down a        *)
(* ranking.  What holds after every n of its events is shown for the least *)
(* n for which it would not.                                               *)
(***************************************************************************)
EXTENDS ReportText, NewsEvents, ReportRules, FiniteSetTheorems, SequenceTheorems,
        WellFoundedInduction, TLAPS

Items == UNION {Selected[r] : r \in ReportNodes}
Drafts == [made : BOOLEAN, polished : SUBSET Items, warned : SUBSET Items]
Pages == [by : ReportNodes \cup {"nobody"}, draft : Drafts, trend : BOOLEAN]
ChildStates == {"absent", "queued", "succeeded", "failed", "cancelled"}

\* The tables that the property speaks of.
TextTypeOK ==
    /\ rnode \in [ReportNodes -> {"queued", "running", "blocked", "failed", "succeeded"}]
    /\ rstage \in [ReportNodes -> {"prepare", "polish", "trend"}]
    /\ rpc \in [ReportNodes -> {"idle", "start", "polish", "discard", "trend", "write"}]
    /\ rdraft \in [ReportNodes -> Drafts]
    /\ working \in [ReportNodes -> Drafts]
    /\ carried \in [ReportNodes -> BOOLEAN]
    /\ trend \in [ReportNodes -> [state : ChildStates, text : BOOLEAN]]
    /\ given \in [ReportNodes -> SUBSET Items]
    /\ written \in [ReportNodes -> 0 .. Len(Files)]
    /\ output \in [1 .. Len(Files) -> Pages]
    /\ llm \in BOOLEAN
    /\ llmLeft \in Nat

\* The key: one report node at a time.
OneRuns ==
    \A r, q \in ReportNodes : rnode[r] = "running" /\ rnode[q] = "running" => r = q

\* A node past its first stage has a draft to go on with.
DraftKept(r) ==
    /\ rnode[r] # "succeeded" /\ (rstage[r] # "prepare" \/ rpc[r] \in {"polish", "discard", "trend"})
          => rdraft[r].made
    /\ rpc[r] = "discard" => working[r].made

\* What was handed over is in the draft, or about to be.
GivenKept(r) ==
    /\ rstage[r] = "prepare" => given[r] = {}
    /\ rnode[r] # "succeeded" /\ rpc[r] # "discard" => given[r] \subseteq rdraft[r].polished
    /\ rpc[r] \in {"discard", "write"} => given[r] \subseteq working[r].polished

PageOf(r) == [by |-> r, draft |-> working[r], trend |-> carried[r]]

PagesOwn(r) == rpc[r] = "write" => \A f \in 1 .. written[r] : output[f] = PageOf(r)

Own(r) ==
    /\ rpc[r] # "idle" => rnode[r] = "running"
    /\ DraftKept(r) /\ GivenKept(r) /\ PagesOwn(r)

TextInv == TextTypeOK /\ OneRuns /\ \A r \in ReportNodes : Own(r)

-----------------------------------------------------------------------------
(* One step of one report                                                   *)

LEMMA FileCount == Len(Files) = 4 /\ DOMAIN Files = 1 .. Len(Files)
BY DEF Files

LEMMA NoDraftType ==
    /\ NoDraft \in Drafts /\ NoDraft.polished = {}
    /\ [NoDraft EXCEPT !.made = TRUE] \in Drafts
    /\ [NoDraft EXCEPT !.made = TRUE].made = TRUE
    /\ [NoDraft EXCEPT !.made = TRUE].polished = {}
BY DEF NoDraft, Drafts

\* A step of report r leaves the tables of the others alone.
Apart(r) ==
    \A q \in ReportNodes \ {r} :
        /\ rnode'[q] = rnode[q] /\ rstage'[q] = rstage[q] /\ rpc'[q] = rpc[q]
        /\ rdraft'[q] = rdraft[q] /\ working'[q] = working[q] /\ carried'[q] = carried[q]
        /\ given'[q] = given[q] /\ written'[q] = written[q]

LEMMA StepOfOne ==
    ASSUME TextInv, NEW r \in ReportNodes, Apart(r), TextTypeOK', Own(r)',
           \/ output' = output
           \/ rnode[r] = "running",
           \/ rnode'[r] # "running"
           \/ rnode[r] = "running"
           \/ KeyIsFree(r)
    PROVE  TextInv'
<1>1. OneRuns'
    BY DEF TextInv, OneRuns, Apart, KeyIsFree
<1>2. ASSUME NEW q \in ReportNodes, q # r PROVE Own(q)'
  <2>1. Own(q)
    BY DEF TextInv
  <2>2. /\ rnode'[q] = rnode[q] /\ rstage'[q] = rstage[q] /\ rpc'[q] = rpc[q]
        /\ rdraft'[q] = rdraft[q] /\ working'[q] = working[q] /\ carried'[q] = carried[q]
        /\ given'[q] = given[q] /\ written'[q] = written[q]
    BY <1>2 DEF Apart
  <2>3. rpc[q] = "write" => output' = output
    BY <1>2, <2>1 DEF TextInv, OneRuns, Own
  <2> QED
    BY <2>1, <2>2, <2>3 DEF Own, DraftKept, GivenKept, PagesOwn, PageOf
<1> QED  BY <1>1, <1>2 DEF TextInv

-----------------------------------------------------------------------------
(* The run of a node                                                        *)

LEMMA StartRunStep ==
    ASSUME TextInv, NEW r \in ReportNodes, StartRun(r)
    PROVE  TextInv'
<1>1. TextTypeOK'
    BY DEF StartRun, TextInv, TextTypeOK
<1>2. Apart(r)
    BY DEF StartRun, TextInv, TextTypeOK, Apart
<1>3. Own(r)'
    BY DEF StartRun, TextInv, TextTypeOK, Own, DraftKept, GivenKept, PagesOwn
<1> QED  BY <1>1, <1>2, <1>3, StepOfOne DEF StartRun

LEMMA PrepareStep ==
    ASSUME TextInv, NEW r \in ReportNodes, PrepareDraft(r)
    PROVE  TextInv'
<1> DEFINE new == [NoDraft EXCEPT !.made = TRUE]
<1>1. /\ working' = [working EXCEPT ![r] = new] /\ rdraft' = [rdraft EXCEPT ![r] = new]
      /\ new \in Drafts /\ new.made /\ new.polished = {}
    BY NoDraftType DEF PrepareDraft, TextInv, TextTypeOK
<1>2. PICK where \in {"polish", "write"} : Then(r, where)
    BY DEF PrepareDraft
<1>3. /\ rnode[r] = "running" /\ rstage[r] = "prepare" /\ given[r] = {}
      /\ UNCHANGED <<rnode, rstage, trend, carried, given, output, llm, llmLeft>>
    BY DEF PrepareDraft, At, TextInv, Own, GivenKept
<1> HIDE DEF new
<1>4. TextTypeOK'
    BY <1>1, <1>2, <1>3, FileCount DEF Then, TextInv, TextTypeOK
<1>5. Apart(r)
    BY <1>1, <1>2, <1>3 DEF Then, TextInv, TextTypeOK, Apart
<1>6. Own(r)'
    BY <1>1, <1>2, <1>3 DEF Then, TextInv, TextTypeOK, Own, DraftKept, GivenKept, PagesOwn
<1> QED  BY <1>3, <1>4, <1>5, <1>6, StepOfOne

LEMMA WaitStep ==
    ASSUME TextInv, NEW r \in ReportNodes, NEW where \in {"polish", "trend"}, WaitFor(r, where),
           trend' \in [ReportNodes -> [state : ChildStates, text : BOOLEAN]]
    PROVE  TextInv'
<1>1. TextTypeOK'
    BY NoDraftType DEF WaitFor, TextInv, TextTypeOK
<1>2. Apart(r)
    BY DEF WaitFor, TextInv, TextTypeOK, Apart
<1>3. Own(r)'
  <2>1. rnode[r] = "running" /\ rdraft[r].made /\ given[r] \subseteq rdraft[r].polished
    BY DEF WaitFor, TextInv, Own, DraftKept, GivenKept
  <2> QED
    BY <2>1 DEF WaitFor, TextInv, TextTypeOK, Own, DraftKept, GivenKept, PagesOwn
<1> QED  BY <1>1, <1>2, <1>3, StepOfOne DEF WaitFor

LEMMA ThenMoves ==
    ASSUME TextInv, NEW r \in ReportNodes, NEW where \in {"discard", "write"}, Then(r, where)
    PROVE  /\ rpc' \in [ReportNodes -> {"idle", "start", "polish", "discard", "trend", "write"}]
           /\ written' \in [ReportNodes -> 0 .. Len(Files)]
           /\ rpc'[r] = where /\ written'[r] = 0
           /\ \A q \in ReportNodes \ {r} : rpc'[q] = rpc[q] /\ written'[q] = written[q]
BY FileCount DEF Then, TextInv, TextTypeOK

LEMMA ApplyStep ==
    ASSUME TextInv, NEW r \in ReportNodes, ApplyPolish(r)
    PROVE  TextInv'
<1>1. PICK texts \in SUBSET Selected[r], failed \in SUBSET Selected[r] :
        /\ working' = [working EXCEPT ![r] =
              [rdraft[r] EXCEPT !.polished = @ \cup texts, !.warned = @ \cup failed]]
        /\ given' = [given EXCEPT ![r] = @ \cup texts]
    BY DEF ApplyPolish
<1>2. /\ rnode[r] = "running" /\ rstage[r] = "polish" /\ rpc[r] = "start" /\ Then(r, "discard")
      /\ UNCHANGED <<rnode, rstage, rdraft, trend, carried, output, llm, llmLeft>>
    BY DEF ApplyPolish, At
<1>3. texts \subseteq Items /\ failed \subseteq Items /\ rdraft[r] \in Drafts
    BY DEF Items, TextInv, TextTypeOK
<1>4. working'[r] = [rdraft[r] EXCEPT !.polished = @ \cup texts, !.warned = @ \cup failed]
    BY <1>1 DEF TextInv, TextTypeOK
<1>5. /\ working'[r] \in Drafts /\ working'[r].made = rdraft[r].made
      /\ working'[r].polished = rdraft[r].polished \cup texts
    BY <1>3, <1>4 DEF Drafts
<1>6. /\ working' \in [ReportNodes -> Drafts]
      /\ \A q \in ReportNodes \ {r} : working'[q] = working[q]
    BY <1>1, <1>5 DEF TextInv, TextTypeOK
<1>7. /\ given' \in [ReportNodes -> SUBSET Items] /\ given'[r] = given[r] \cup texts
      /\ \A q \in ReportNodes \ {r} : given'[q] = given[q]
    BY <1>1, <1>3 DEF TextInv, TextTypeOK
<1>8. TextTypeOK'
    BY <1>2, <1>6, <1>7, ThenMoves DEF TextInv, TextTypeOK
<1>9. Apart(r)
    BY <1>2, <1>6, <1>7 DEF Then, TextInv, TextTypeOK, Apart
<1>10. Own(r)'
  <2>1. rdraft[r].made /\ given[r] \subseteq rdraft[r].polished
    BY <1>2 DEF TextInv, Own, DraftKept, GivenKept
  <2>2. rpc'[r] = "discard"
    BY <1>2 DEF Then, TextInv, TextTypeOK
  <2> QED
    BY <1>2, <1>5, <1>7, <2>1, <2>2 DEF Own, DraftKept, GivenKept, PagesOwn
<1> QED  BY <1>2, <1>8, <1>9, <1>10, StepOfOne

LEMMA StoreDraftStep ==
    ASSUME TextInv, NEW r \in ReportNodes, StoreDraft(r)
    PROVE  TextInv'
<1>1. PICK where \in {"trend", "write"} : Then(r, where)
    BY DEF StoreDraft
<1>2. /\ rpc[r] = "discard" /\ rdraft' = [rdraft EXCEPT ![r] = working[r]]
      /\ UNCHANGED <<rnode, rstage, working, trend, carried, given, output, llm, llmLeft>>
      /\ rnode[r] = "running" /\ working[r].made /\ given[r] \subseteq working[r].polished
    BY DEF StoreDraft, TextInv, Own, DraftKept, GivenKept
<1>3. TextTypeOK'
    BY <1>1, <1>2, FileCount DEF Then, TextInv, TextTypeOK
<1>4. Apart(r)
    BY <1>1, <1>2 DEF Then, TextInv, TextTypeOK, Apart
<1>5. Own(r)'
    BY <1>1, <1>2 DEF Then, TextInv, TextTypeOK, Own, DraftKept, GivenKept, PagesOwn
<1> QED  BY <1>2, <1>3, <1>4, <1>5, StepOfOne

LEMMA CollectStep ==
    ASSUME TextInv, NEW r \in ReportNodes, CollectTrend(r)
    PROVE  TextInv'
<1>1. /\ rnode[r] = "running" /\ rstage[r] = "trend" /\ rpc[r] = "start" /\ Then(r, "write")
      /\ working' = [working EXCEPT ![r] = rdraft[r]]
      /\ carried' \in [ReportNodes -> BOOLEAN]
      /\ \A q \in ReportNodes \ {r} : carried'[q] = carried[q]
      /\ UNCHANGED <<rnode, rstage, rdraft, given, output, llm, llmLeft>>
    BY DEF CollectTrend, At, TextInv, TextTypeOK
<1>2. trend' \in [ReportNodes -> [state : ChildStates, text : BOOLEAN]]
    BY DEF CollectTrend, TextInv, TextTypeOK
<1>3. TextTypeOK'
    BY <1>1, <1>2, ThenMoves DEF TextInv, TextTypeOK
<1>4. Apart(r)
    BY <1>1 DEF Then, TextInv, TextTypeOK, Apart
<1>5. Own(r)'
  <2>1. rdraft[r].made /\ given[r] \subseteq rdraft[r].polished
    BY <1>1 DEF TextInv, Own, DraftKept, GivenKept
  <2>2. rpc'[r] = "write" /\ written'[r] = 0 /\ working'[r] = rdraft[r]
    BY <1>1, ThenMoves DEF TextInv, TextTypeOK
  <2> QED
    BY <1>1, <2>1, <2>2 DEF Own, DraftKept, GivenKept, PagesOwn
<1> QED  BY <1>1, <1>3, <1>4, <1>5, StepOfOne

LEMMA WriteStep ==
    ASSUME TextInv, NEW r \in ReportNodes, WriteFile(r)
    PROVE  TextInv'
<1> DEFINE next == written[r] + 1
<1>1. /\ rpc[r] = "write" /\ rnode[r] = "running" /\ next \in 1 .. Len(Files)
      /\ output' = [output EXCEPT ![next] = PageOf(r)]
      /\ written' = [written EXCEPT ![r] = next]
      /\ UNCHANGED <<rnode, rstage, rpc, rdraft, working, trend, carried, given, llm, llmLeft>>
    BY FileCount DEF WriteFile, PageOf, TextInv, TextTypeOK, Own
<1>2. PageOf(r) \in Pages
    BY DEF PageOf, Pages, TextInv, TextTypeOK
<1>3. TextTypeOK'
    BY <1>1, <1>2, FileCount DEF TextInv, TextTypeOK
<1>4. Apart(r)
    BY <1>1 DEF TextInv, TextTypeOK, Apart
<1>5. PageOf(r)' = PageOf(r)
    BY <1>1 DEF PageOf
<1>6. PagesOwn(r)'
  <2> SUFFICES ASSUME NEW f \in 1 .. written'[r] PROVE output'[f] = PageOf(r)
    BY <1>5 DEF PagesOwn
  <2>1. f \in 1 .. next /\ written[r] \in Nat /\ f \in 1 .. Len(Files)
    BY <1>1, FileCount DEF TextInv, TextTypeOK
  <2>2. CASE f = next
    BY <1>1, <2>1, <2>2 DEF TextInv, TextTypeOK
  <2>3. CASE f # next
    <3>1. f \in 1 .. written[r]
        BY <2>1, <2>3
    <3>2. output[f] = PageOf(r)
        BY <1>1, <3>1 DEF TextInv, Own, PagesOwn
    <3> QED  BY <1>1, <2>1, <2>3, <3>2 DEF TextInv, TextTypeOK
  <2> QED  BY <2>2, <2>3
<1>7. Own(r)'
    BY <1>1, <1>6 DEF TextInv, Own, DraftKept, GivenKept
<1> QED  BY <1>1, <1>3, <1>4, <1>7, StepOfOne

LEMMA LeaveStep ==
    ASSUME TextInv, NEW r \in ReportNodes, FinishReport(r) \/ FailReport(r)
    PROVE  TextInv'
<1>1. PICK state \in {"succeeded", "failed"} :
        /\ Leave(r, state)
        /\ rdraft' = [rdraft EXCEPT ![r] = IF state = "failed" THEN rdraft[r] ELSE NoDraft]
        /\ rpc[r] # "idle" /\ rpc[r] # "discard"
    BY DEF FinishReport, FailReport, TextInv, TextTypeOK
<1>2. rnode[r] = "running"
    BY <1>1 DEF TextInv, Own
<1>3. TextTypeOK'
    BY <1>1, NoDraftType, FileCount DEF Leave, TextInv, TextTypeOK
<1>4. Apart(r)
    BY <1>1 DEF Leave, TextInv, TextTypeOK, Apart
<1>5. Own(r)'
    BY <1>1, <1>2 DEF Leave, TextInv, TextTypeOK, Own, DraftKept, GivenKept, PagesOwn
<1>6. output' = output /\ rnode'[r] # "running"
    BY <1>1 DEF Leave, TextInv, TextTypeOK
<1> QED  BY <1>3, <1>4, <1>5, <1>6, StepOfOne

LEMMA WakeStep ==
    ASSUME TextInv, NEW r \in ReportNodes, WakeReport(r)
    PROVE  TextInv'
<1>1. TextTypeOK'
    BY DEF WakeReport, TextInv, TextTypeOK
<1>2. Apart(r)
    BY DEF WakeReport, TextInv, TextTypeOK, Apart
<1>3. Own(r)'
    BY DEF WakeReport, TextInv, TextTypeOK, Own, DraftKept, GivenKept, PagesOwn
<1>4. rnode'[r] # "running" /\ output' = output
    BY DEF WakeReport, TextInv, TextTypeOK
<1> QED  BY <1>1, <1>2, <1>3, <1>4, StepOfOne

\* The children write only what is theirs.
LEMMA ChildStep ==
    ASSUME TextInv, UNCHANGED <<rnode, rstage, rpc, rdraft, working, carried, given, written, output>>,
           trend' \in [ReportNodes -> [state : ChildStates, text : BOOLEAN]],
           llm' \in BOOLEAN, llmLeft' \in Nat
    PROVE  TextInv'
<1>1. TextTypeOK' /\ OneRuns'
    BY DEF TextInv, TextTypeOK, OneRuns
<1>2. \A r \in ReportNodes : Own(r)'
    BY DEF TextInv, Own, DraftKept, GivenKept, PagesOwn, PageOf
<1> QED  BY <1>1, <1>2 DEF TextInv

LEMMA TextStep ==
    ASSUME TextInv, [TextNext]_textVars
    PROVE  TextInv'
<1>0. /\ trend \in [ReportNodes -> [state : ChildStates, text : BOOLEAN]]
      /\ llm \in BOOLEAN /\ llmLeft \in Nat
    BY DEF TextInv, TextTypeOK
<1>1. ASSUME NEW r \in ReportNodes, RegisterPolish(r) PROVE TextInv'
    BY <1>0, <1>1, WaitStep DEF RegisterPolish
<1>2. ASSUME NEW r \in ReportNodes, RegisterTrend(r) PROVE TextInv'
  <2>1. trend' \in [ReportNodes -> [state : ChildStates, text : BOOLEAN]]
    BY <1>0, <1>2 DEF RegisterTrend, ChildStates
  <2> QED  BY <1>2, <2>1, WaitStep DEF RegisterTrend
<1>3. ASSUME NEW r \in ReportNodes, EndTrend(r) PROVE TextInv'
  <2>1. trend' \in [ReportNodes -> [state : ChildStates, text : BOOLEAN]]
    <3>1. \/ \E t \in BOOLEAN : trend' = [trend EXCEPT ![r] = [state |-> "succeeded", text |-> t]]
          \/ trend' = [trend EXCEPT ![r].state = "failed"]
        BY <1>3 DEF EndTrend
    <3>2. CASE trend' = [trend EXCEPT ![r].state = "failed"]
        BY <1>0, <3>2 DEF ChildStates
    <3>3. ASSUME NEW t \in BOOLEAN, trend' = [trend EXCEPT ![r] = [state |-> "succeeded", text |-> t]]
          PROVE  trend' \in [ReportNodes -> [state : ChildStates, text : BOOLEAN]]
        BY <1>0, <3>3 DEF ChildStates
    <3> QED  BY <3>1, <3>2, <3>3
  <2> QED  BY <1>0, <1>3, <2>1, ChildStep DEF EndTrend, ChildrenOnly
<1>4. ASSUME NEW r \in ReportNodes, OrderChild(r) PROVE TextInv'
  <2>1. trend' \in [ReportNodes -> [state : ChildStates, text : BOOLEAN]]
    BY <1>0, <1>4 DEF OrderChild, ChildStates
  <2> QED  BY <1>0, <1>4, <2>1, ChildStep DEF OrderChild, ChildrenOnly
<1>5. ASSUME NEW r \in ReportNodes, NEW b \in Selected[r], EndPolish(r, b) PROVE TextInv'
    BY <1>0, <1>5, ChildStep DEF EndPolish, ChildrenOnly
<1>6. CASE ChangeLlm
  <2>1. llmLeft' \in Nat /\ llm' \in BOOLEAN
    BY <1>0, <1>6 DEF ChangeLlm
  <2> QED  BY <1>0, <1>6, <2>1, ChildStep DEF ChangeLlm
<1>7. CASE UNCHANGED textVars
    BY <1>0, <1>7, ChildStep DEF textVars
<1> QED
    BY <1>1, <1>2, <1>3, <1>4, <1>5, <1>6, <1>7, StartRunStep, PrepareStep, ApplyStep,
       StoreDraftStep, CollectStep, WriteStep, LeaveStep, WakeStep DEF TextNext

LEMMA TextInitially == TextInit => TextInv
<1> SUFFICES ASSUME TextInit PROVE TextInv
    OBVIOUS
<1>1. NoPage \in Pages
    BY NoDraftType DEF NoPage, Pages
<1>2. TextTypeOK
    BY <1>1, NoDraftType, FileCount, TextAssumption DEF TextInit, TextTypeOK, ChildStates
<1>3. OneRuns
    BY DEF TextInit, OneRuns
<1>4. ASSUME NEW r \in ReportNodes PROVE Own(r)
    BY DEF TextInit, Own, DraftKept, GivenKept, PagesOwn
<1> QED  BY <1>2, <1>3, <1>4 DEF TextInv

\* Nothing else makes a report node succeed.
LEMMA OnlyTheEndSucceeds ==
    ASSUME TextInv, [TextNext]_textVars, NEW r \in ReportNodes,
           rnode[r] # "succeeded", rnode'[r] = "succeeded"
    PROVE  FinishReport(r)
<1>0. /\ rnode \in [ReportNodes -> {"queued", "running", "blocked", "failed", "succeeded"}]
      /\ rnode' # rnode
    BY DEF TextInv, TextTypeOK
<1>1. PICK q \in ReportNodes : StartRun(q) \/ RegisterPolish(q) \/ RegisterTrend(q)
                               \/ FinishReport(q) \/ FailReport(q) \/ WakeReport(q)
    BY <1>0 DEF TextNext, textVars, PrepareDraft, ApplyPolish, StoreDraft, CollectTrend, WriteFile,
                EndTrend, OrderChild, EndPolish, ChildrenOnly, ChangeLlm
<1>2. CASE FinishReport(q)
    BY <1>0, <1>2 DEF FinishReport, Leave
<1>3. CASE StartRun(q) \/ RegisterPolish(q) \/ RegisterTrend(q) \/ FailReport(q) \/ WakeReport(q)
  <2>1. \E state \in {"queued", "running", "blocked", "failed"} : rnode' = [rnode EXCEPT ![q] = state]
    BY <1>3 DEF StartRun, RegisterPolish, RegisterTrend, WaitFor, FailReport, Leave, WakeReport
  <2> QED  BY <1>0, <2>1
<1> QED  BY <1>1, <1>2, <1>3

\* A report node that waits, fails or is woken has its draft, and when it
\* succeeds the files of data/output are those of its own draft, whole, with
\* every polish text that was taken from the queue on its way, although the
\* files are shared and the texts are taken for good.
THEOREM ReportsAreWhole == TextSpec => ReportIsWhole
<1>1. TextInv /\ [TextNext]_textVars => TextInv'
    BY TextStep
<1>2. TextInv => \A r \in ReportNodes :
                    rstage[r] # "prepare" /\ rnode[r] # "succeeded" => rdraft[r].made
    BY DEF TextInv, Own, DraftKept
<1>3. TextInv /\ [TextNext]_textVars =>
        [\A r \in ReportNodes :
            rnode[r] # "succeeded" /\ rnode'[r] = "succeeded" =>
                /\ \A f \in DOMAIN Files : output'[f].by = r /\ output'[f] = output'[1]
                /\ given[r] \subseteq output'[1].draft.polished]_textVars
  <2> SUFFICES ASSUME TextInv, [TextNext]_textVars, NEW r \in ReportNodes,
                      rnode[r] # "succeeded", rnode'[r] = "succeeded"
               PROVE  /\ \A f \in DOMAIN Files : output'[f].by = r /\ output'[f] = output'[1]
                      /\ given[r] \subseteq output'[1].draft.polished
    OBVIOUS
  <2>1. FinishReport(r)
    BY OnlyTheEndSucceeds
  <2>2. /\ rpc[r] = "write" /\ written[r] = Len(Files) /\ output' = output
    BY <2>1 DEF FinishReport, Leave
  <2>3. \A f \in 1 .. Len(Files) : output[f] = PageOf(r)
    BY <2>2 DEF TextInv, Own, PagesOwn
  <2>4. given[r] \subseteq working[r].polished
    BY <2>2 DEF TextInv, Own, GivenKept
  <2>5. PageOf(r).by = r /\ PageOf(r).draft = working[r]
    BY DEF PageOf
  <2> QED  BY <2>2, <2>3, <2>4, <2>5, FileCount
<1> QED  BY <1>1, <1>2, <1>3, TextInitially, PTL DEF TextSpec, ReportIsWhole

-----------------------------------------------------------------------------
(* The news and their events                                                *)

Decisions == {"none", "discard", "suspect", "assign"}
Works == [decided : [News -> Decisions], eventOf : [News -> Nat], dropped : SUBSET News,
          events : Seq(SUBSET News), live : SUBSET Nat]

NewsTypeOK ==
  /\ newsStage \in {"batch", "extract", "merge", "completed"}
  /\ pending \subseteq News
  /\ work \in Works
  /\ work.live \subseteq DOMAIN work.events

\* The batches and what is left over make up the items, each once.
BatchesDivide ==
  /\ UNION batches = News \ pending
  /\ \A a, b \in batches : a # b => a \cap b = {}
  /\ newsStage # "batch" => pending = {}

\* Before the answers nothing is decided, and before the merge nothing removed.
NothingAhead ==
  /\ newsStage = "batch" => saved = [stage |-> "started", state |-> Fresh]
  /\ newsStage \in {"batch", "extract"} => removed = {}

Holds(w, i, gone) == i \in w.dropped \/ \E e \in w.live \ gone : i \in w.events[e]

\* A decided item is dropped or in an event; after the answers all are decided.
DecidedIsHeld ==
  /\ newsStage = "extract" => \A i \in News : work.decided[i] # "none" => Holds(work, i, removed)
  /\ newsStage \in {"merge", "completed"} => \A i \in News : Holds(work, i, removed)

NewsInv == NewsTypeOK /\ BatchesDivide /\ NothingAhead /\ DecidedIsHeld

\* A set of numbers that is not empty has a smallest one.
LEMMA SmallestNumber ==
    ASSUME NEW S \in SUBSET Nat, S # {}
    PROVE  \E x \in S : \A y \in S : x <= y
<1>1. \E x \in S : \A y \in S : ~ (<<y, x>> \in OpToRel(<, Nat))
    BY NatLessThanWellFounded, WFMin, Zenon
<1>2. \A x, y \in Nat : y < x => <<y, x>> \in OpToRel(<, Nat)
    BY DEF OpToRel
<1>3. \A x, y \in Nat : x <= y \/ y < x
    OBVIOUS
<1> QED  BY <1>1, <1>2, <1>3

LEMMA SmallestIsOne ==
    ASSUME NEW S \in SUBSET Nat, S # {}
    PROVE  Min(S) \in S
BY SmallestNumber DEF Min

LEMMA FreshType == Fresh \in Works /\ Fresh.live = {} /\ \A i \in News : Fresh.decided[i] = "none"
<1>1. <<>> \in Seq(SUBSET News)
    OBVIOUS
<1> QED  BY <1>1 DEF Fresh, Works, Decisions

LEMMA NewsInitially == NewsInit => NewsInv
<1> SUFFICES ASSUME NewsInit PROVE NewsInv
    OBVIOUS
<1>1. NewsTypeOK
    BY FreshType DEF NewsInit, NewsTypeOK
<1>2. BatchesDivide /\ NothingAhead /\ DecidedIsHeld
    BY DEF NewsInit, BatchesDivide, NothingAhead, DecidedIsHeld
<1> QED  BY <1>1, <1>2 DEF NewsInv

LEMMA GroupStep ==
    ASSUME NewsInv, NEW near \in SUBSET News, GroupNear(near)
    PROVE  NewsInv'
<1> DEFINE seed == Min(pending)
<1>1. /\ newsStage = "batch" /\ pending # {} /\ near \subseteq pending
      /\ batches' = batches \cup {near \cup {seed}}
      /\ pending' = pending \ (near \cup {seed})
      /\ UNCHANGED <<newsStage, work, removed, saved>>
    BY DEF GroupNear
<1>2. pending \subseteq Nat /\ pending \subseteq News
    BY NewsAssumption DEF NewsInv, NewsTypeOK
<1>3. seed \in pending
    BY <1>1, <1>2, SmallestIsOne
<1> HIDE DEF seed
<1>4. NewsTypeOK'
    BY <1>1 DEF NewsInv, NewsTypeOK
<1>5. BatchesDivide'
  <2>1. UNION batches' = News \ pending'
    <3>1. \A i : i \in UNION batches' <=> i \in UNION batches \/ i \in near \cup {seed}
        BY <1>1
    <3>2. UNION batches = News \ pending
        BY DEF NewsInv, BatchesDivide
    <3>3. near \cup {seed} \subseteq News
        BY <1>2, <1>3
    <3>4. pending' = pending \ (near \cup {seed})
        BY <1>1
    <3> QED  BY <3>1, <3>2, <3>3, <3>4
  <2>2. \A a \in batches : a \cap (near \cup {seed}) = {}
    BY <1>1, <1>3 DEF NewsInv, BatchesDivide
  <2>3. \A a, b \in batches' : a # b => a \cap b = {}
    BY <1>1, <2>2 DEF NewsInv, BatchesDivide
  <2> QED  BY <1>1, <2>1, <2>3 DEF BatchesDivide
<1>6. NothingAhead' /\ DecidedIsHeld'
    BY <1>1 DEF NewsInv, NothingAhead, DecidedIsHeld
<1> QED  BY <1>4, <1>5, <1>6 DEF NewsInv

LEMMA AnswerStep ==
    ASSUME NewsInv, Extract
    PROVE  NewsInv'
<1>1. work' = Fresh
    BY DEF Extract, Resumed, NewsInv, NothingAhead
<1>2. NewsTypeOK'
    BY <1>1, FreshType DEF Extract, NewsInv, NewsTypeOK
<1>3. BatchesDivide' /\ NothingAhead'
    BY DEF Extract, NewsInv, BatchesDivide, NothingAhead
<1>4. DecidedIsHeld'
    BY <1>1, FreshType DEF Extract, DecidedIsHeld
<1> QED  BY <1>2, <1>3, <1>4 DEF NewsInv

LEMMA DropStep ==
    ASSUME NewsInv, NEW i \in News, NEW decision \in {"discard", "suspect"}, DropRow(i, decision)
    PROVE  NewsInv'
<1> USE DEF NewsInv, NewsTypeOK
<1>1. /\ newsStage = "extract"
      /\ work' = [work EXCEPT !.decided[i] = decision, !.dropped = @ \cup {i}]
      /\ UNCHANGED <<newsStage, pending, batches, removed, saved>>
    BY DEF DropRow
<1>2. /\ work'.decided = [work.decided EXCEPT ![i] = decision]
      /\ work'.dropped = work.dropped \cup {i}
      /\ work'.events = work.events /\ work'.live = work.live
    BY <1>1 DEF Works
<1>3. work' \in Works
    BY <1>1 DEF Works, Decisions
<1>4. NewsTypeOK'
    BY <1>1, <1>2, <1>3
<1>5. BatchesDivide' /\ NothingAhead'
    BY <1>1 DEF BatchesDivide, NothingAhead
<1>6. DecidedIsHeld'
    BY <1>1, <1>2 DEF DecidedIsHeld, Holds, Works
<1> QED  BY <1>4, <1>5, <1>6

LEMMA EventStep ==
    ASSUME NewsInv, NEW named \in SUBSET News, EventRow(named)
    PROVE  NewsInv'
<1> USE DEF NewsInv, NewsTypeOK
<1> DEFINE sources == {i \in named : work.decided[i] # "assign"}
           id == Len(work.events) + 1
<1>1. /\ newsStage = "extract"
      /\ work' = [decided |-> [i \in News |-> IF i \in sources THEN "assign" ELSE work.decided[i]],
                  eventOf |-> [i \in News |-> IF i \in sources THEN id ELSE work.eventOf[i]],
                  dropped |-> work.dropped,
                  events |-> Append(work.events, sources),
                  live |-> work.live \cup {id}]
      /\ UNCHANGED <<newsStage, pending, batches, removed, saved>>
    BY DEF EventRow
<1>2. work.events \in Seq(SUBSET News) /\ sources \in SUBSET News
    BY DEF Works
<1> HIDE DEF sources
<1>3. /\ Append(work.events, sources) \in Seq(SUBSET News)
      /\ id \in Nat
      /\ DOMAIN Append(work.events, sources) = DOMAIN work.events \cup {id}
      /\ Append(work.events, sources)[id] = sources
      /\ \A e \in DOMAIN work.events : Append(work.events, sources)[e] = work.events[e]
    BY <1>2
<1> HIDE DEF id
<1>4. NewsTypeOK'
    BY <1>1, <1>3 DEF Works, Decisions
<1>5. BatchesDivide' /\ NothingAhead'
    BY <1>1 DEF BatchesDivide, NothingAhead
<1>6. DecidedIsHeld'
  <2>1. removed = {}
    BY <1>1 DEF NothingAhead
  <2> SUFFICES ASSUME NEW i \in News, work'.decided[i] # "none" PROVE Holds(work', i, {})
    BY <1>1, <2>1 DEF DecidedIsHeld
  <2>2. CASE i \in sources
    BY <1>1, <1>3, <2>2 DEF Holds
  <2>3. CASE i \notin sources
    BY <1>1, <1>3, <2>1, <2>3 DEF DecidedIsHeld, Holds
  <2> QED  BY <2>2, <2>3
<1> QED  BY <1>4, <1>5, <1>6

LEMMA ExtractedStep ==
    ASSUME NewsInv, EndExtraction
    PROVE  NewsInv'
<1> USE DEF NewsInv, NewsTypeOK
<1> DEFINE omitted == {i \in News : work.decided[i] = "none"}
           decided == [i \in News |-> IF i \in omitted THEN "discard" ELSE work.decided[i]]
<1>1. /\ newsStage = "extract" /\ newsStage' = "merge"
      /\ work' = [work EXCEPT !.decided = decided, !.dropped = @ \cup omitted]
      /\ UNCHANGED <<pending, batches, removed>>
    BY DEF EndExtraction, Resumed
<1>2. decided \in [News -> Decisions] /\ omitted \subseteq News
    BY DEF Works, Decisions
<1>3. \A i \in News : i \notin omitted => work.decided[i] # "none"
    OBVIOUS
<1> HIDE DEF decided, omitted
<1>4. /\ work'.dropped = work.dropped \cup omitted
      /\ work'.events = work.events /\ work'.live = work.live
    BY <1>1 DEF Works
<1>5. work' \in Works
    BY <1>1, <1>2 DEF Works
<1>6. NewsTypeOK'
    BY <1>1, <1>4, <1>5
<1>7. BatchesDivide' /\ NothingAhead'
    BY <1>1 DEF BatchesDivide, NothingAhead
<1>8. DecidedIsHeld'
    BY <1>1, <1>3, <1>4 DEF DecidedIsHeld, Holds
<1> QED  BY <1>6, <1>7, <1>8

LEMMA MergeStep ==
    ASSUME NewsInv, NEW target, NEW named, MergeGroup(target, named)
    PROVE  NewsInv'
<1> USE DEF NewsInv, NewsTypeOK
<1> DEFINE sources == (named \cap work.live) \ (removed \cup {target})
           taken == UNION {work.events[e] : e \in sources}
<1>1. /\ newsStage = "merge" /\ target \in work.live \ removed
      /\ work' = [work EXCEPT !.events = Absorbed(work.events, target, sources)]
      /\ removed' = removed \cup sources
      /\ UNCHANGED <<newsStage, pending, batches, saved>>
    BY DEF MergeGroup, MayBeTarget
<1>2. sources \subseteq work.live /\ target \notin sources
    OBVIOUS
<1>3. work.events \in Seq(SUBSET News)
    BY DEF Works
<1>4. \A e \in sources : work.events[e] \subseteq taken
    OBVIOUS
<1>5. taken \subseteq News
  <2>1. \A e \in sources : work.events[e] \subseteq News
    BY <1>2, <1>3
  <2> QED  BY <2>1
<1>6. Absorbed(work.events, target, sources) = [work.events EXCEPT ![target] = @ \cup taken]
    BY DEF Absorbed
<1> HIDE DEF taken, sources
<1>7. target \in DOMAIN work.events
    BY <1>1
<1>8. work' = [work EXCEPT !.events = [work.events EXCEPT ![target] = @ \cup taken]]
    BY <1>1, <1>6
<1>9. /\ work'.events = [work.events EXCEPT ![target] = @ \cup taken]
      /\ work'.dropped = work.dropped /\ work'.live = work.live
    BY <1>8 DEF Works
<1>10. work'.events \in Seq(SUBSET News) /\ DOMAIN work'.events = DOMAIN work.events
    BY <1>3, <1>5, <1>7, <1>9
<1>11. work' \in Works
    BY <1>8, <1>9, <1>10 DEF Works
<1>12. NewsTypeOK'
    BY <1>1, <1>9, <1>10, <1>11
<1>13. BatchesDivide' /\ NothingAhead'
    BY <1>1 DEF BatchesDivide, NothingAhead
<1>14. DecidedIsHeld'
  <2> SUFFICES ASSUME NEW i \in News PROVE Holds(work', i, removed')
    BY <1>1 DEF DecidedIsHeld
  <2>1. CASE i \in work.dropped
    BY <1>9, <2>1 DEF Holds
  <2>2. CASE \E e \in work.live \ removed : i \in work.events[e]
    <3> PICK e \in work.live \ removed : i \in work.events[e]
        BY <2>2
    <3>1. CASE e \in sources
        BY <1>1, <1>2, <1>3, <1>4, <1>7, <1>9, <3>1 DEF Holds
    <3>2. CASE e \notin sources
        BY <1>1, <1>3, <1>7, <1>9, <3>2 DEF Holds
    <3> QED  BY <3>1, <3>2
  <2> QED  BY <1>1, <2>1, <2>2 DEF DecidedIsHeld, Holds
<1> QED  BY <1>12, <1>13, <1>14

LEMMA MergedStep ==
    ASSUME NewsInv, EndMerge
    PROVE  NewsInv'
<1> USE DEF NewsInv, NewsTypeOK
<1>1. /\ newsStage = "merge" /\ newsStage' = "completed"
      /\ work' = [work EXCEPT !.live = @ \ removed]
      /\ UNCHANGED <<pending, batches, removed>>
    BY DEF EndMerge
<1>2. /\ work'.live = work.live \ removed
      /\ work'.events = work.events /\ work'.dropped = work.dropped
    BY <1>1 DEF Works
<1>3. work' \in Works
    BY <1>1 DEF Works
<1>4. NewsTypeOK'
    BY <1>1, <1>2, <1>3
<1>5. BatchesDivide' /\ NothingAhead'
    BY <1>1 DEF BatchesDivide, NothingAhead
<1>6. DecidedIsHeld'
    BY <1>1, <1>2 DEF DecidedIsHeld, Holds
<1> QED  BY <1>4, <1>5, <1>6

LEMMA NewsStep == NewsInv /\ [NewsNext]_newsVars => NewsInv'
<1> SUFFICES ASSUME NewsInv, [NewsNext]_newsVars PROVE NewsInv'
    OBVIOUS
<1>1. CASE UNCHANGED newsVars
    BY <1>1 DEF newsVars, NewsInv, NewsTypeOK, BatchesDivide, NothingAhead, DecidedIsHeld
<1>2. CASE NewsNext
    BY <1>2, GroupStep, AnswerStep, DropStep, EventStep, ExtractedStep, MergeStep, MergedStep
       DEF NewsNext
<1> QED  BY <1>1, <1>2

\* NewsEvents!NewsKept: every item is in one batch, and no answer, merge or save
\* of clustered_merge.py loses one, for any items, batches and event rows.
THEOREM NewsStayKept == NewsSpec => []NewsKept
<1>1. NewsInit => NewsInv
    BY NewsInitially
<1>2. NewsInv /\ [NewsNext]_newsVars => NewsInv'
    BY NewsStep
<1>3. NewsInv => NewsKept
    BY DEF NewsInv, NewsTypeOK, BatchesDivide, DecidedIsHeld, Holds, NewsKept
<1> QED  BY <1>1, <1>2, <1>3, PTL DEF NewsSpec

-----------------------------------------------------------------------------
(* The score of an event                                                    *)

LEMMA MinOfTwo ==
    ASSUME NEW a \in Int, NEW b \in Int
    PROVE  Min({a, b}) = IF a <= b THEN a ELSE b
<1> DEFINE m == IF a <= b THEN a ELSE b
           least == CHOOSE x \in {a, b} : \A y \in {a, b} : x <= y
<1>1. m \in {a, b} /\ \A y \in {a, b} : m <= y
    OBVIOUS
<1>2. least \in {a, b} /\ \A y \in {a, b} : least <= y
    BY <1>1
<1>3. least = m
    BY <1>1, <1>2
<1> QED  BY <1>3 DEF Min

LEMMA MaxOfTwo ==
    ASSUME NEW a \in Int, NEW b \in Int
    PROVE  Max({a, b}) = IF a <= b THEN b ELSE a
<1> DEFINE m == IF a <= b THEN b ELSE a
           most == CHOOSE x \in {a, b} : \A y \in {a, b} : x >= y
<1>1. m \in {a, b} /\ \A y \in {a, b} : m >= y
    OBVIOUS
<1>2. most \in {a, b} /\ \A y \in {a, b} : most >= y
    BY <1>1
<1>3. most = m
    BY <1>1, <1>2
<1> QED  BY <1>3 DEF Max

LEMMA ClampType ==
    ASSUME NEW x \in Int
    PROVE  /\ (Clamp(x) \in Int /\ 0 <= Clamp(x) /\ Clamp(x) <= 10000)
           /\ Clamp(x) = IF x < 0 THEN 0 ELSE IF x > 10000 THEN 10000 ELSE x
<1>1. Min({10000, x}) = IF 10000 <= x THEN 10000 ELSE x
    BY MinOfTwo
<1>2. PICK y \in Int : y = Min({10000, x})
    BY <1>1
<1>3. Max({0, y}) = IF 0 <= y THEN y ELSE 0
    BY MaxOfTwo
<1>4. Clamp(x) = Max({0, y})
    BY <1>2 DEF Clamp
<1>5. y = (IF 10000 <= x THEN 10000 ELSE x) /\ Clamp(x) = (IF 0 <= y THEN y ELSE 0)
    BY <1>1, <1>2, <1>3, <1>4
<1> HIDE DEF Clamp
<1> QED  BY <1>5

LEMMA ClampGrows ==
    ASSUME NEW x \in Int, NEW y \in Int, x <= y
    PROVE  Clamp(x) <= Clamp(y)
BY ClampType

KindNames == {"official", "authority_media", "chinese_media", "community", "unknown"}

LEMMA PlatformScores ==
    /\ PlatformScore["official"] = 94 /\ PlatformScore["authority_media"] = 86
    /\ PlatformScore["chinese_media"] = 78 /\ PlatformScore["community"] = 64
    /\ PlatformScore["unknown"] = 62
BY DEF PlatformScore

LEMMA BaseType == \A t \in DOMAIN ImportanceBase : ImportanceBase[t] \in Nat
BY DEF ImportanceBase

LEMMA KindType == \A p : SourceKind(p) \in KindNames
BY DEF SourceKind, KindNames

LEMMA DivGrows ==
    ASSUME NEW x \in Int, NEW y \in Int, NEW k \in Int, y >= x + 10000 * k
    PROVE  /\ x \div 100 \in Int /\ y \div 100 \in Int
           /\ y \div 100 >= (x \div 100) + 100 * k
BY SMT

PlatformNames == {"36kr_ai", "arxiv", "blog", "huggingface_papers_trending",
                  "openai", "reddit", "reuters"}

LEMMA PlatformRange == Range(Platforms) = PlatformNames
<1>1. DOMAIN Platforms = 1 .. 7
    BY DEF Platforms
<1>2. Range(Platforms) = {Platforms[i] : i \in 1 .. 7}
    BY <1>1 DEF Range
<1>3. /\ Platforms[1] = "36kr_ai" /\ Platforms[2] = "arxiv" /\ Platforms[3] = "blog"
      /\ Platforms[4] = "huggingface_papers_trending" /\ Platforms[5] = "openai"
      /\ Platforms[6] = "reddit" /\ Platforms[7] = "reuters"
    BY DEF Platforms
<1>4. \A i \in 1 .. 7 : i = 1 \/ i = 2 \/ i = 3 \/ i = 4 \/ i = 5 \/ i = 6 \/ i = 7
    OBVIOUS
<1> HIDE DEF Platforms
<1>5. \A i \in 1 .. 7 : Platforms[i] \in PlatformNames
    BY <1>3, <1>4 DEF PlatformNames
<1>6. \A p \in PlatformNames : \E i \in 1 .. 7 : p = Platforms[i]
    BY <1>3 DEF PlatformNames
<1> QED  BY <1>2, <1>5, <1>6

LEMMA FinitePlatforms == \A S \in SUBSET PlatformNames : IsFiniteSet(S)
<1>1. IsFiniteSet(PlatformNames)
  <2>1. IsFiniteSet({"36kr_ai"})
    BY FS_Singleton
  <2>2. IsFiniteSet({"36kr_ai"} \cup {"arxiv"})
    BY <2>1, FS_AddElement
  <2>3. IsFiniteSet({"36kr_ai"} \cup {"arxiv"} \cup {"blog"})
    BY <2>2, FS_AddElement
  <2>4. IsFiniteSet({"36kr_ai"} \cup {"arxiv"} \cup {"blog"} \cup {"huggingface_papers_trending"})
    BY <2>3, FS_AddElement
  <2>5. IsFiniteSet({"36kr_ai"} \cup {"arxiv"} \cup {"blog"} \cup {"huggingface_papers_trending"}
                    \cup {"openai"})
    BY <2>4, FS_AddElement
  <2>6. IsFiniteSet({"36kr_ai"} \cup {"arxiv"} \cup {"blog"} \cup {"huggingface_papers_trending"}
                    \cup {"openai"} \cup {"reddit"})
    BY <2>5, FS_AddElement
  <2>7. IsFiniteSet({"36kr_ai"} \cup {"arxiv"} \cup {"blog"} \cup {"huggingface_papers_trending"}
                    \cup {"openai"} \cup {"reddit"} \cup {"reuters"})
    BY <2>6, FS_AddElement
  <2>8. PlatformNames = {"36kr_ai"} \cup {"arxiv"} \cup {"blog"} \cup {"huggingface_papers_trending"}
                        \cup {"openai"} \cup {"reddit"} \cup {"reuters"}
    BY DEF PlatformNames
  <2> QED  BY <2>7, <2>8
<1> QED  BY <1>1, FS_Subset

LEMMA CountGrows ==
    ASSUME NEW S \in SUBSET PlatformNames, NEW T \in SUBSET PlatformNames, S \subseteq T
    PROVE  Cardinality(S) <= Cardinality(T)
BY FinitePlatforms, FS_Subset

LEMMA CountOf ==
    ASSUME NEW S \in SUBSET PlatformNames
    PROVE  /\ Cardinality(S) \in Nat
           /\ Cardinality(S) = 0 <=> S = {}
           /\ Cardinality(S) = 1 <=> \E p : S = {p}
BY FinitePlatforms, FS_CardinalityType, FS_EmptySet, FS_Singleton

\* The best of some kinds of source.
BestOf(K) == Max({PlatformScore[k] : k \in K})

LEMMA BestScore ==
    ASSUME NEW K \in SUBSET KindNames, K # {}
    PROVE  /\ BestOf(K) \in 62 .. 94
           /\ \A k \in K : PlatformScore[k] <= BestOf(K)
           /\ \E k \in K : BestOf(K) = PlatformScore[k]
<1>1. \A k \in K : PlatformScore[k] \in 62 .. 94
    BY PlatformScores DEF KindNames
<1>2. \E k \in K : \A j \in K : PlatformScore[j] <= PlatformScore[k]
  <2>1. CASE "official" \in K
    BY <2>1, PlatformScores DEF KindNames
  <2>2. CASE "official" \notin K /\ "authority_media" \in K
    BY <2>2, PlatformScores DEF KindNames
  <2>3. CASE {"official", "authority_media"} \cap K = {} /\ "chinese_media" \in K
    BY <2>3, PlatformScores DEF KindNames
  <2>4. CASE {"official", "authority_media", "chinese_media"} \cap K = {} /\ "community" \in K
    BY <2>4, PlatformScores DEF KindNames
  <2>5. CASE {"official", "authority_media", "chinese_media", "community"} \cap K = {}
    <3>1. K = {"unknown"}
        BY <2>5 DEF KindNames
    <3> QED  BY <3>1, PlatformScores
  <2> QED  BY <2>1, <2>2, <2>3, <2>4, <2>5
<1> DEFINE V == {PlatformScore[k] : k \in K}
           most == CHOOSE x \in V : \A y \in V : x >= y
<1>3. PICK k \in K : \A j \in K : PlatformScore[j] <= PlatformScore[k]
    BY <1>2
<1>4. PlatformScore[k] \in V /\ V \subseteq Int /\ \A y \in V : PlatformScore[k] >= y
    BY <1>1, <1>3
<1>5. BestOf(K) = most
    BY DEF BestOf, Max
<1>6. \A j \in K : PlatformScore[j] \in V
    OBVIOUS
<1>7. \A y \in V : y \in 62 .. 94
    BY <1>1
<1>9. \A y \in V : \E j \in K : y = PlatformScore[j]
    OBVIOUS
<1> HIDE DEF V
<1>8. most \in V /\ \A y \in V : most >= y
    BY <1>4
<1> QED  BY <1>5, <1>6, <1>7, <1>8, <1>9

\* What one platform alone is worth.
LoneScore(k) ==
    IF k = "official" THEN 90 ELSE IF k = "authority_media" THEN 84
    ELSE IF k = "chinese_media" THEN 76 ELSE IF k = "community" THEN 64 ELSE 62

LEMMA SourceOfNone ==
    ASSUME NEW c, c.platforms = {}
    PROVE  SourceScore(c) = 2500
<1>1. Cardinality(c.platforms) = 0
    BY FS_EmptySet
<1>2. Kinds(c) = {}
    BY DEF Kinds
<1>3. Min({25}) = 25
    BY DEF Min
<1> DEFINE ceiling == [official |-> 90, authority_media |-> 84, chinese_media |-> 76,
                       community |-> 64, unknown |-> 62]
<1>4. SourceScore(c) = 100 * Min({25} \cup {ceiling[k] : k \in Kinds(c)})
    BY <1>1 DEF SourceScore
<1>5. {25} \cup {ceiling[k] : k \in Kinds(c)} = {25}
    BY <1>2
<1> QED  BY <1>3, <1>4, <1>5

LEMMA SourceOfOne ==
    ASSUME NEW c, NEW p, c.platforms = {p}
    PROVE  SourceScore(c) = 100 * LoneScore(SourceKind(p))
<1> DEFINE k == SourceKind(p)
           ceiling == [official |-> 90, authority_media |-> 84, chinese_media |-> 76,
                       community |-> 64, unknown |-> 62]
<1>1. Cardinality(c.platforms) = 1
    BY FS_Singleton
<1>2. Kinds(c) = {k}
    BY DEF Kinds
<1>3. k \in KindNames
    BY KindType
<1>4. ceiling[k] = LoneScore(k)
    BY <1>3 DEF KindNames, LoneScore
<1> HIDE DEF k
<1>5. {ceiling[j] : j \in Kinds(c)} = {LoneScore(k)}
    BY <1>2, <1>4
<1>6. {PlatformScore[j] : j \in Kinds(c)} = {PlatformScore[k]}
    BY <1>2
<1>7. PlatformScore[k] \in Int /\ LoneScore(k) \in Int /\ LoneScore(k) <= PlatformScore[k]
    BY <1>3, PlatformScores DEF KindNames, LoneScore
<1>8. Max({PlatformScore[k]}) = PlatformScore[k]
  <2>1. {PlatformScore[k]} = {PlatformScore[k], PlatformScore[k]}
    OBVIOUS
  <2> QED  BY <1>7, <2>1, MaxOfTwo
<1> DEFINE n == Cardinality(c.platforms)
           base == IF n = 0 THEN 25 ELSE Max({PlatformScore[j] : j \in Kinds(c)})
<1>9. SourceScore(c) = 100 * Min({Max({PlatformScore[j] : j \in Kinds(c)})}
                                 \cup {ceiling[j] : j \in Kinds(c)})
  <2>1. SourceScore(c) =
          IF n <= 1 THEN 100 * Min({base} \cup {ceiling[j] : j \in Kinds(c)})
          ELSE Clamp(100 * (base + Min({12, 4 * (n - 1)}) + If("official" \in Kinds(c), 4)))
    BY DEF SourceScore
  <2>2. n = 1 /\ base = Max({PlatformScore[j] : j \in Kinds(c)})
    BY <1>1
  <2> HIDE DEF n, base, ceiling
  <2> QED  BY <2>1, <2>2
<1>10. SourceScore(c) = 100 * Min({PlatformScore[k], LoneScore(k)})
  <2>1. {PlatformScore[k]} \cup {LoneScore(k)} = {PlatformScore[k], LoneScore(k)}
    OBVIOUS
  <2> QED  BY <1>5, <1>6, <1>8, <1>9, <2>1
<1>11. Min({PlatformScore[k], LoneScore(k)}) = LoneScore(k)
    BY <1>7, MinOfTwo
<1> QED  BY <1>10, <1>11 DEF k

Spread(n) == IF 12 <= 4 * (n - 1) THEN 12 ELSE 4 * (n - 1)

LEMMA SourceOfMany ==
    ASSUME NEW c, NEW n \in Nat, n = Cardinality(c.platforms), n >= 2
    PROVE  SourceScore(c) = Clamp(100 * (BestOf(Kinds(c)) + Spread(n)
                                         + (IF "official" \in Kinds(c) THEN 4 ELSE 0)))
<1>1. PICK m \in Int : m = 4 * (n - 1)
    OBVIOUS
<1>2. Min({12, m}) = Spread(n)
    BY <1>1, MinOfTwo DEF Spread
<1>3. SourceScore(c) = Clamp(100 * (BestOf(Kinds(c)) + Min({12, 4 * (n - 1)})
                                    + If("official" \in Kinds(c), 4)))
    BY DEF SourceScore, BestOf
<1> QED  BY <1>1, <1>2, <1>3 DEF If

\* The candidate d is c with further items.  Its titles are left open, and
\* nothing else of it is told apart by the score.
Grown(c, d) ==
    /\ d.type = c.type /\ d.words = c.words /\ d.links = c.links
    /\ c.platforms \subseteq d.platforms
    /\ c.members <= d.members
    /\ d.confidence = c.confidence \/ (c.confidence = "low" /\ d.confidence \in {"mid", "high"})
          \/ (c.confidence = "mid" /\ d.confidence = "high")
    /\ d.age = c.age \/ (d.age \in Nat /\ (c.age = -1 \/ d.age <= c.age))

\* The risk of a platform that is alone.
LoneRisk(c) ==
    IF Cardinality(c.platforms) > 1 THEN 0
    ELSE (IF "official" \notin Kinds(c) THEN 2 ELSE 0) + (IF "community" \in Kinds(c) THEN 3 ELSE 0)

\* What a further source adds to the source score outweighs the risk it brings.
LEMMA SourceAndRisk ==
    ASSUME NEW c, NEW d, c.platforms \in SUBSET PlatformNames, d.platforms \in SUBSET PlatformNames,
           c.platforms \subseteq d.platforms
    PROVE  /\ SourceScore(c) \in Int /\ 0 <= SourceScore(c) /\ SourceScore(c) <= 10000
           /\ SourceScore(d) \in Int /\ 0 <= SourceScore(d) /\ SourceScore(d) <= 10000
           /\ LoneRisk(c) \in 0 .. 5 /\ LoneRisk(d) \in 0 .. 5
           /\ 12 * SourceScore(d) >= 12 * SourceScore(c) + 10000 * (LoneRisk(d) - LoneRisk(c))
<1> DEFINE m == Cardinality(c.platforms)
           n == Cardinality(d.platforms)
<1>1. /\ m \in Nat /\ n \in Nat /\ m <= n
      /\ m = 0 <=> c.platforms = {}
      /\ n = 0 <=> d.platforms = {}
      /\ m = 1 <=> \E p : c.platforms = {p}
      /\ n = 1 <=> \E p : d.platforms = {p}
    BY CountGrows, CountOf
<1>2. /\ Kinds(c) \subseteq Kinds(d) /\ Kinds(d) \subseteq KindNames /\ Kinds(c) \subseteq KindNames
      /\ \A p \in c.platforms : SourceKind(p) \in Kinds(c)
      /\ \A p \in d.platforms : SourceKind(p) \in Kinds(d)
    BY KindType DEF Kinds
<1>3. \A k \in KindNames : LoneScore(k) \in 62 .. 90 /\ LoneScore(k) <= PlatformScore[k]
    BY PlatformScores DEF KindNames, LoneScore
<1>4. LoneRisk(c) \in 0 .. 5 /\ LoneRisk(d) \in 0 .. 5
    BY <1>1 DEF LoneRisk
<1>5. m >= 2 => /\ SourceScore(c) = Clamp(100 * (BestOf(Kinds(c)) + Spread(m)
                                                 + (IF "official" \in Kinds(c) THEN 4 ELSE 0)))
                /\ LoneRisk(c) = 0 /\ BestOf(Kinds(c)) \in 62 .. 94
                /\ \A k \in Kinds(c) : PlatformScore[k] <= BestOf(Kinds(c))
  <2> HAVE m >= 2
  <2>1. c.platforms # {}
    BY <1>1
  <2>2. Kinds(c) # {} /\ Kinds(c) \in SUBSET KindNames
    BY <1>2, <2>1
  <2>3. BestOf(Kinds(c)) \in 62 .. 94 /\ \A k \in Kinds(c) : PlatformScore[k] <= BestOf(Kinds(c))
    BY <2>2, BestScore
  <2> QED  BY <1>1, <2>3, SourceOfMany DEF LoneRisk
<1>6. n >= 2 => /\ SourceScore(d) = Clamp(100 * (BestOf(Kinds(d)) + Spread(n)
                                                 + (IF "official" \in Kinds(d) THEN 4 ELSE 0)))
                /\ LoneRisk(d) = 0 /\ BestOf(Kinds(d)) \in 62 .. 94
                /\ \A k \in Kinds(d) : PlatformScore[k] <= BestOf(Kinds(d))
  <2> HAVE n >= 2
  <2>1. d.platforms # {}
    BY <1>1
  <2>2. Kinds(d) # {} /\ Kinds(d) \in SUBSET KindNames
    BY <1>2, <2>1
  <2>3. BestOf(Kinds(d)) \in 62 .. 94 /\ \A k \in Kinds(d) : PlatformScore[k] <= BestOf(Kinds(d))
    BY <2>2, BestScore
  <2> QED  BY <1>1, <2>3, SourceOfMany DEF LoneRisk
<1>7. m >= 2 => \E x \in Int : /\ x = 100 * (BestOf(Kinds(c)) + Spread(m)
                                              + (IF "official" \in Kinds(c) THEN 4 ELSE 0))
                               /\ x >= 6600 /\ SourceScore(c) = Clamp(x)
  <2> HAVE m >= 2
  <2>1. PICK b \in Int : b = BestOf(Kinds(c)) /\ b >= 62
    BY <1>5
  <2>2. Spread(m) \in Int /\ Spread(m) >= 4
    BY <1>1 DEF Spread
  <2> QED  BY <1>5, <2>1, <2>2
<1>8. n >= 2 => \E x \in Int : /\ x = 100 * (BestOf(Kinds(d)) + Spread(n)
                                              + (IF "official" \in Kinds(d) THEN 4 ELSE 0))
                               /\ x >= 6600 /\ SourceScore(d) = Clamp(x)
  <2> HAVE n >= 2
  <2>1. PICK b \in Int : b = BestOf(Kinds(d)) /\ b >= 62
    BY <1>6
  <2>2. Spread(n) \in Int /\ Spread(n) >= 4
    BY <1>1 DEF Spread
  <2> QED  BY <1>6, <2>1, <2>2
<1>9. ASSUME NEW x \in Int, x >= 6600 PROVE (Clamp(x) \in Int /\ 6600 <= Clamp(x) /\ Clamp(x) <= 10000)
  <2>1. PICK y \in Int : y = Clamp(x) /\ y = IF x < 0 THEN 0 ELSE IF x > 10000 THEN 10000 ELSE x
    BY ClampType
  <2> QED  BY <1>9, <2>1
<1>10. \A p \in c.platforms : c.platforms = {p} =>
          SourceScore(c) = 100 * LoneScore(SourceKind(p)) /\ LoneScore(SourceKind(p)) \in 62 .. 90
    BY <1>3, KindType, SourceOfOne
<1>11. \A p \in d.platforms : d.platforms = {p} =>
          SourceScore(d) = 100 * LoneScore(SourceKind(p)) /\ LoneScore(SourceKind(p)) \in 62 .. 90
    BY <1>3, KindType, SourceOfOne
<1>12. m = 0 => SourceScore(c) = 2500 /\ LoneRisk(c) = 2
    BY <1>1, SourceOfNone DEF LoneRisk, Kinds
<1>13. n = 0 => SourceScore(d) = 2500 /\ LoneRisk(d) = 2
    BY <1>1, SourceOfNone DEF LoneRisk, Kinds
<1>14. n = 1 => (SourceScore(d) \in Int /\ 6200 <= SourceScore(d) /\ SourceScore(d) <= 9000)
  <2> HAVE n = 1
  <2> PICK p : d.platforms = {p}
    BY <1>1
  <2>1. p \in d.platforms
    OBVIOUS
  <2>2. PICK l \in 62 .. 90 : SourceScore(d) = 100 * l
    BY <1>11, <2>1
  <2> QED  BY <2>2
<1>15. m = 1 => (SourceScore(c) \in Int /\ 6200 <= SourceScore(c) /\ SourceScore(c) <= 9000)
  <2> HAVE m = 1
  <2> PICK p : c.platforms = {p}
    BY <1>1
  <2>1. p \in c.platforms
    OBVIOUS
  <2>2. PICK l \in 62 .. 90 : SourceScore(c) = 100 * l
    BY <1>10, <2>1
  <2> QED  BY <2>2
<1>16. (SourceScore(c) \in Int /\ 0 <= SourceScore(c) /\ SourceScore(c) <= 10000)
  <2>1. CASE m = 0
    BY <1>12, <2>1
  <2>2. CASE m = 1
    BY <1>15, <2>2
  <2>3. CASE m >= 2
    BY <1>7, <1>9, <2>3
  <2> QED  BY <1>1, <2>1, <2>2, <2>3
<1>17. (SourceScore(d) \in Int /\ 0 <= SourceScore(d) /\ SourceScore(d) <= 10000)
  <2>1. CASE n = 0
    BY <1>13, <2>1
  <2>2. CASE n = 1
    BY <1>14, <2>2
  <2>3. CASE n >= 2
    BY <1>8, <1>9, <2>3
  <2> QED  BY <1>1, <2>1, <2>2, <2>3
<1>18. 12 * SourceScore(d) >= 12 * SourceScore(c) + 10000 * (LoneRisk(d) - LoneRisk(c))
  <2> PICK sc \in Int : sc = SourceScore(c) /\ 0 <= sc /\ sc <= 10000
    BY <1>16
  <2> PICK sd \in Int : sd = SourceScore(d) /\ 0 <= sd /\ sd <= 10000
    BY <1>17
  <2> PICK rc \in Int : rc = LoneRisk(c) /\ 0 <= rc /\ rc <= 5
    BY <1>4
  <2> PICK rd \in Int : rd = LoneRisk(d) /\ 0 <= rd /\ rd <= 5
    BY <1>4
  <2> SUFFICES 12 * sd >= 12 * sc + 10000 * (rd - rc)
    OBVIOUS
  <2>1. CASE n = 0 \/ (m = 1 /\ n = 1)
    <3>1. c.platforms = d.platforms
        BY <1>1, <2>1
    <3>2. SourceScore(c) = SourceScore(d) /\ LoneRisk(c) = LoneRisk(d)
        BY <3>1 DEF SourceScore, LoneRisk, Kinds
    <3> QED  BY <3>2
  <2>2. CASE m = 0 /\ n = 1
    <3>1. sc = 2500 /\ rc = 2 /\ sd >= 6200
        BY <1>12, <1>14, <2>2
    <3> QED  BY <3>1
  <2>3. CASE m = 0 /\ n >= 2
    <3>1. sc = 2500 /\ rc = 2 /\ sd >= 6600
        BY <1>8, <1>9, <1>12, <2>3
    <3> QED  BY <3>1
  <2>4. CASE m = 1 /\ n >= 2
    <3>1. PICK p : c.platforms = {p}
        BY <1>1, <2>4
    <3>2. p \in c.platforms
        BY <3>1
    <3>3. SourceKind(p) \in Kinds(d) /\ SourceKind(p) \in KindNames
        BY <1>2, <3>2
    <3>4. PICK l \in 62 .. 90 : /\ l = LoneScore(SourceKind(p)) /\ SourceScore(c) = 100 * l
        BY <1>10, <3>1, <3>2
    <3>5. BestOf(Kinds(d)) \in Int /\ l <= BestOf(Kinds(d))
        BY <1>3, <1>6, <2>4, <3>3, <3>4, PlatformScores DEF KindNames
    <3>6. Spread(n) \in Int /\ Spread(n) >= 4
        BY <1>1, <2>4 DEF Spread
    <3>7. PICK x \in Int : x >= 100 * l /\ SourceScore(d) = Clamp(x)
        BY <1>8, <2>4, <3>5, <3>6
    <3>8. sd = IF x < 0 THEN 0 ELSE IF x > 10000 THEN 10000 ELSE x
        BY <3>7, ClampType
    <3>9. sd >= 100 * l
        BY <3>7, <3>8
    <3>10. rd = 0 /\ sc = 100 * l
        BY <1>6, <2>4, <3>4
    <3> QED  BY <3>9, <3>10
  <2>5. CASE m >= 2
    <3>1. PICK a \in Int, b \in Int : a = BestOf(Kinds(c)) /\ b = BestOf(Kinds(d))
        BY <1>1, <1>5, <1>6, <2>5
    <3>2. a <= b
      <4>1. Kinds(c) # {} /\ Kinds(c) \in SUBSET KindNames
        BY <1>1, <1>2, <2>5
      <4>2. \E k \in Kinds(c) : BestOf(Kinds(c)) = PlatformScore[k]
        BY <4>1, BestScore
      <4> QED  BY <1>1, <1>2, <1>6, <2>5, <3>1, <4>2
    <3>3. Spread(m) \in Int /\ Spread(n) \in Int /\ Spread(m) <= Spread(n)
        BY <1>1, <2>5 DEF Spread
    <3>4. PICK x \in Int, y \in Int : x <= y /\ SourceScore(c) = Clamp(x) /\ SourceScore(d) = Clamp(y)
        BY <1>1, <1>2, <1>7, <1>8, <2>5, <3>1, <3>2, <3>3
    <3>5. sc <= sd
        BY <3>4, ClampGrows
    <3>6. rc = 0 /\ rd = 0
        BY <1>1, <1>5, <1>6, <2>5
    <3> QED  BY <3>5, <3>6
  <2>6. \/ n = 0 \/ (m = 1 /\ n = 1) \/ (m = 0 /\ n = 1)
        \/ (m = 0 /\ n >= 2) \/ (m = 1 /\ n >= 2) \/ m >= 2
    <3>1. m \in Nat /\ n \in Nat /\ m <= n
        BY <1>1
    <3> HIDE DEF m, n
    <3> QED  BY <3>1
  <2> QED  BY <2>1, <2>2, <2>3, <2>4, <2>5, <2>6
<1> QED  BY <1>4, <1>16, <1>17, <1>18

LEMMA SourceScoreType == \A c : c.platforms \in SUBSET PlatformNames => SourceScore(c) \in Int
BY SourceAndRisk

-----------------------------------------------------------------------------
(* The parts of a score                                                     *)

\* A part of a score is a number of hundredths.
Part(x) == x \in Int /\ 0 <= x /\ x <= 10000

LEMMA PartsOfClamp ==
    ASSUME NEW x \in Int, NEW y \in Int, x <= y
    PROVE  Part(Clamp(x)) /\ Part(Clamp(y)) /\ Clamp(x) <= Clamp(y)
BY ClampType, ClampGrows DEF Part

LEMMA FocusCount == \A c : Cardinality(Focuses(c)) \in Nat
<1>1. IsFiniteSet({"chip"} \cup {"bio"})
    BY FS_Singleton, FS_AddElement
<1>2. \A c : Focuses(c) \subseteq {"chip"} \cup {"bio"}
    BY DEF Focuses
<1> QED  BY <1>1, <1>2, FS_Subset, FS_CardinalityType

LEMMA ImportanceGrows ==
    ASSUME NEW c \in EventCandidates, NEW d \in EventCandidates, Grown(c, d)
    PROVE  Part(Importance(c)) /\ Part(Importance(d)) /\ Importance(c) <= Importance(d)
<1> DEFINE high == {"model_release", "policy", "hardware", "infrastructure", "partnership", "legal"}
           breadth(n) == IF n >= 2 THEN IF 8 <= 3 * n THEN 8 ELSE 3 * n ELSE 0
           trust(e) == (IF e.type \in high /\ e.confidence = "high" THEN 5 ELSE 0)
                       + (IF e.members >= 4 THEN 4 ELSE 0)
                       - (IF e.confidence = "low" THEN 10 ELSE 0)
           base(e) == ImportanceBase[e.type] + 8 * Cardinality(Focuses(e))
                      + (IF Cardinality(Focuses(e)) = 2 THEN 3 ELSE 0)
<1>1. ASSUME NEW e \in EventCandidates
      PROVE  Importance(e) = Clamp(100 * (base(e) + breadth(Cardinality(e.platforms)) + trust(e)))
  <2>1. PICK n \in Nat : n = Cardinality(e.platforms)
    BY CountOf, PlatformRange DEF EventCandidates
  <2>2. PICK k \in Int : k = 3 * n
    BY <2>1
  <2>3. Min({8, k}) = IF 8 <= k THEN 8 ELSE k
    BY MinOfTwo
  <2>4. If(n >= 2, Min({8, 3 * n})) = breadth(n)
    BY <2>2, <2>3 DEF If
  <2>5. PICK f \in Nat : f = Cardinality(Focuses(e))
    BY FocusCount
  <2>6. PICK b \in Nat : b = ImportanceBase[e.type]
    BY BaseType DEF EventCandidates
  <2>7. Importance(e) = Clamp(100 * (b + If(n >= 2, Min({8, 3 * n}))
              + If(e.type \in high /\ e.confidence = "high", 5) + If(e.members >= 4, 4)
              + 8 * f + If(f = 2, 3) - If(e.confidence = "low", 10)))
    BY <2>1, <2>5, <2>6 DEF Importance
  <2>8. breadth(n) \in Int
    OBVIOUS
  <2> HIDE DEF breadth, high
  <2>9. Importance(e) = Clamp(100 * ((b + 8 * f + (IF f = 2 THEN 3 ELSE 0)) + breadth(n)
              + ((IF e.type \in high /\ e.confidence = "high" THEN 5 ELSE 0)
                 + (IF e.members >= 4 THEN 4 ELSE 0) - (IF e.confidence = "low" THEN 10 ELSE 0))))
    BY <2>4, <2>7, <2>8 DEF If
  <2> QED  BY <2>1, <2>5, <2>6, <2>9
<1>2. PICK m \in Nat, n \in Nat : m = Cardinality(c.platforms) /\ n = Cardinality(d.platforms) /\ m <= n
    BY CountOf, CountGrows, PlatformRange DEF EventCandidates, Grown
<1>3. breadth(m) \in Int /\ breadth(n) \in Int /\ breadth(m) <= breadth(n)
    BY <1>2
<1>4. trust(c) \in Int /\ trust(d) \in Int /\ trust(c) <= trust(d)
    BY DEF Grown, EventCandidates
<1>5. base(d) = base(c) /\ base(c) \in Int
  <2>1. Focuses(d) = Focuses(c) /\ d.type = c.type
    BY DEF Grown, Focuses
  <2>2. Cardinality(Focuses(c)) \in Nat /\ ImportanceBase[c.type] \in Nat
    BY FocusCount, BaseType DEF EventCandidates
  <2> QED  BY <2>1, <2>2
<1> HIDE DEF base, breadth, trust
<1>6. PICK x \in Int, y \in Int : /\ x = 100 * (base(c) + breadth(m) + trust(c))
                                  /\ y = 100 * (base(d) + breadth(n) + trust(d)) /\ x <= y
    BY <1>3, <1>4, <1>5
<1>7. Importance(c) = Clamp(x) /\ Importance(d) = Clamp(y)
    BY <1>1, <1>2, <1>6
<1> QED  BY <1>6, <1>7, PartsOfClamp

LEMMA NoveltyGrows ==
    ASSUME NEW c \in EventCandidates, NEW d \in EventCandidates, Grown(c, d)
    PROVE  Part(Novelty(c)) /\ Part(Novelty(d)) /\ Novelty(c) <= Novelty(d)
<1> DEFINE types == {"model_release", "product_release", "open_source", "research", "benchmark"}
           score(e) == 58 + (IF e.type \in types THEN 14 ELSE 0)
                       + (IF "release" \in e.words THEN 16 ELSE 0)
                       + (IF "chip" \in e.words THEN 3 ELSE 0) + (IF "bio" \in e.words THEN 5 ELSE 0)
                       - (IF "again" \in e.words THEN 14 ELSE 0)
                       + (IF e.members >= 5 THEN 4 ELSE 0)
<1>1. Novelty(c) = Clamp(100 * score(c)) /\ Novelty(d) = Clamp(100 * score(d))
    BY DEF Novelty, If
<1>2. score(c) \in Int /\ score(d) \in Int /\ score(c) <= score(d)
    BY DEF Grown, EventCandidates
<1> HIDE DEF score
<1>3. PICK x \in Int, y \in Int : x = 100 * score(c) /\ y = 100 * score(d) /\ x <= y
    BY <1>2
<1> QED  BY <1>1, <1>3, PartsOfClamp

\* The words, the type and the links alone decide these two.
LEMMA WordsDecide ==
    ASSUME NEW c, NEW d, Grown(c, d)
    PROVE  /\ Part(Relevance(c)) /\ Relevance(d) = Relevance(c)
           /\ Part(Actionability(c)) /\ Actionability(d) = Actionability(c)
<1>1. PICK x \in Int : Relevance(c) = Clamp(x)
  <2> DEFINE x == 100 * ((IF "ai" \in c.words THEN 88 ELSE IF Focuses(c) # {} THEN 82 ELSE 52)
                         + (IF "chip" \in c.words THEN 10 ELSE 0)
                         + (IF "bio" \in c.words THEN 12 ELSE 0))
  <2>1. Relevance(c) = Clamp(x)
    BY DEF Relevance, If
  <2>2. x \in Int
    OBVIOUS
  <2> QED  BY <2>1, <2>2
<1>2. PICK y \in Int : Actionability(c) = Clamp(y)
  <2> DEFINE types == {"model_release", "product_release", "open_source", "tooling", "benchmark",
                       "hardware", "infrastructure", "policy", "legal"}
             y == 100 * (45 + (IF c.type \in types THEN 22 ELSE 0)
                         + (IF "release" \in c.words THEN 18 ELSE 0)
                         + (IF c.type \in {"policy", "legal", "hardware", "infrastructure"}
                            THEN 8 ELSE 0)
                         + (IF "chip" \in c.words THEN 8 ELSE 0)
                         + (IF "bio" \in c.words THEN 7 ELSE 0) + (IF c.links THEN 5 ELSE 0))
  <2>1. Actionability(c) = Clamp(y)
    BY DEF Actionability, If
  <2>2. y \in Int
    OBVIOUS
  <2> QED  BY <2>1, <2>2
<1>3. Relevance(d) = Relevance(c) /\ Actionability(d) = Actionability(c)
    BY DEF Relevance, Actionability, Focuses, Grown
<1> QED  BY <1>1, <1>2, <1>3, PartsOfClamp

\* An event that gets its first time may look older than one without, but its
\* risk falls by more.
AgeRisk(c) == IF c.age = -1 THEN 6 ELSE 0

LEMMA FreshAndRisk ==
    ASSUME NEW c \in EventCandidates, NEW d \in EventCandidates, Grown(c, d)
    PROVE  /\ Part(Freshness(c)) /\ Part(Freshness(d))
           /\ 16 * Freshness(d) >= 16 * Freshness(c) + 10000 * (AgeRisk(d) - AgeRisk(c))
BY DEF Freshness, AgeRisk, Part, Grown, EventCandidates

\* Papers stay papers, and their bonus stays.
LEMMA BonusGrows ==
    ASSUME NEW c, NEW d, Grown(c, d), NEW x \in Int, NEW y \in Int, x <= y, NEW k \in Nat
    PROVE  /\ Part(Clamp(x + If(IsPaperSignal(c), k))) /\ Part(Clamp(y + If(IsPaperSignal(d), k)))
           /\ Clamp(x + If(IsPaperSignal(c), k)) <= Clamp(y + If(IsPaperSignal(d), k))
<1>1. IsPaperSignal(c) => IsPaperSignal(d)
    BY DEF IsPaperSignal, Grown
<1>2. PICK v \in Int, w \in Int : /\ v = x + If(IsPaperSignal(c), k)
                                  /\ w = y + If(IsPaperSignal(d), k) /\ v <= w
    BY <1>1 DEF If
<1> QED  BY <1>2, PartsOfClamp

OtherRisk(c) == (IF c.confidence = "low" THEN 8 ELSE 0) + (IF Mismatch(c) THEN 18 ELSE 0)

LEMMA RiskParts ==
    ASSUME NEW c \in EventCandidates
    PROVE  Risk(c) = 100 * (LoneRisk(c) + AgeRisk(c) + OtherRisk(c))
<1>1. PICK n \in Nat : n = Cardinality(c.platforms)
    BY CountOf, PlatformRange DEF EventCandidates
<1> DEFINE r == If(n <= 1 /\ "official" \notin Kinds(c), 2)
                + If(n <= 1 /\ "community" \in Kinds(c), 3)
                + If(c.confidence = "low", 8) + If(c.age = -1, 6) + If(Mismatch(c), 18)
<1>2. r = LoneRisk(c) + AgeRisk(c) + OtherRisk(c) /\ r \in Int /\ r <= 37
    BY <1>1 DEF If, LoneRisk, AgeRisk, OtherRisk
<1>3. Risk(c) = 100 * Min({40, r})
    BY <1>1 DEF Risk
<1> HIDE DEF r
<1>4. Min({40, r}) = r
    BY <1>2, MinOfTwo
<1> QED  BY <1>2, <1>3, <1>4

\* The score before the risk is taken off.
Weighted(c) ==
    32 * Clamp(Importance(c) + If(IsPaperSignal(c), 500)) + 12 * SourceScore(c)
    + 16 * Freshness(c) + 17 * Clamp(Relevance(c) + If(IsPaperSignal(c), 600))
    + 12 * Clamp(Actionability(c) + If(IsPaperSignal(c), IF "code" \in c.words THEN 800 ELSE 300))
    + 11 * Clamp(Novelty(c) + If(IsPaperSignal(c), 500))

LEMMA FinalScore == \A c : Scores(c).final = Clamp(Weighted(c) \div 100 - Risk(c))
BY DEF Scores, Weighted

\* A candidate that has grown scores no less, whatever it was, but for the
\* points m that its titles cost it.
LEMMA GrownScoresMore ==
    ASSUME NEW c \in EventCandidates, NEW d \in EventCandidates, Grown(c, d),
           NEW m \in Nat, OtherRisk(d) <= OtherRisk(c) + m
    PROVE  Scores(d).final >= Scores(c).final - 100 * m
<1> DEFINE I(e) == Clamp(Importance(e) + If(IsPaperSignal(e), 500))
           R(e) == Clamp(Relevance(e) + If(IsPaperSignal(e), 600))
           N(e) == Clamp(Novelty(e) + If(IsPaperSignal(e), 500))
           k == IF "code" \in c.words THEN 800 ELSE 300
           A(e) == Clamp(Actionability(e) + If(IsPaperSignal(e), k))
<1>1. Part(I(c)) /\ Part(I(d)) /\ I(c) <= I(d)
  <2> PICK x \in Int, y \in Int : x = Importance(c) /\ y = Importance(d) /\ x <= y
    BY ImportanceGrows DEF Part
  <2> QED  BY BonusGrows
<1>2. Part(R(c)) /\ Part(R(d)) /\ R(c) <= R(d)
  <2> PICK x \in Int, y \in Int : x = Relevance(c) /\ y = Relevance(d) /\ x <= y
    BY WordsDecide DEF Part
  <2> QED  BY BonusGrows
<1>3. Part(N(c)) /\ Part(N(d)) /\ N(c) <= N(d)
  <2> PICK x \in Int, y \in Int : x = Novelty(c) /\ y = Novelty(d) /\ x <= y
    BY NoveltyGrows DEF Part
  <2> QED  BY BonusGrows
<1>4. Part(A(c)) /\ Part(A(d)) /\ A(c) <= A(d)
  <2> PICK x \in Int, y \in Int : x = Actionability(c) /\ y = Actionability(d) /\ x <= y
    BY WordsDecide DEF Part
  <2>1. k \in Nat
    OBVIOUS
  <2> HIDE DEF k
  <2> QED  BY <2>1, BonusGrows
<1>5. /\ Weighted(c) = 32 * I(c) + 12 * SourceScore(c) + 16 * Freshness(c) + 17 * R(c)
                       + 12 * A(c) + 11 * N(c)
      /\ Weighted(d) = 32 * I(d) + 12 * SourceScore(d) + 16 * Freshness(d) + 17 * R(d)
                       + 12 * A(d) + 11 * N(d)
    BY DEF Weighted, Grown
<1> HIDE DEF I, R, N, A, k
<1>6. /\ SourceScore(c) \in Int /\ SourceScore(d) \in Int
      /\ LoneRisk(c) \in Int /\ LoneRisk(d) \in Int
      /\ 12 * SourceScore(d) >= 12 * SourceScore(c) + 10000 * (LoneRisk(d) - LoneRisk(c))
  <2>1. /\ c.platforms \in SUBSET PlatformNames /\ d.platforms \in SUBSET PlatformNames
        /\ c.platforms \subseteq d.platforms
    BY PlatformRange DEF EventCandidates, Grown
  <2>2. SourceScore(c) \in Int /\ SourceScore(d) \in Int
    BY <2>1, SourceScoreType
  <2>3. LoneRisk(c) \in 0 .. 5 /\ LoneRisk(d) \in 0 .. 5
    BY <2>1, SourceAndRisk
  <2>4. 12 * SourceScore(d) >= 12 * SourceScore(c) + 10000 * (LoneRisk(d) - LoneRisk(c))
    BY <2>1, SourceAndRisk
  <2> QED  BY <2>2, <2>3, <2>4
<1>7. /\ Freshness(c) \in Int /\ Freshness(d) \in Int
      /\ AgeRisk(c) \in Int /\ AgeRisk(d) \in Int
      /\ 16 * Freshness(d) >= 16 * Freshness(c) + 10000 * (AgeRisk(d) - AgeRisk(c))
    BY FreshAndRisk DEF Part, AgeRisk
<1>8. OtherRisk(c) \in Int /\ OtherRisk(d) \in Int /\ OtherRisk(d) <= OtherRisk(c) + m
    BY DEF OtherRisk
<1>9. PICK w \in Int : w = Weighted(c)
    BY <1>1, <1>2, <1>3, <1>4, <1>5, <1>6, <1>7 DEF Part
<1>10. PICK v \in Int : v = Weighted(d)
    BY <1>1, <1>2, <1>3, <1>4, <1>5, <1>6, <1>7 DEF Part
<1>11. PICK q \in Int : q = LoneRisk(c) + AgeRisk(c) + OtherRisk(c)
    BY <1>6, <1>7, <1>8
<1>12. PICK r \in Int : r = LoneRisk(d) + AgeRisk(d) + OtherRisk(d)
    BY <1>6, <1>7, <1>8
<1>13. v >= w + 10000 * ((r - q) - m)
    BY <1>1, <1>2, <1>3, <1>4, <1>5, <1>6, <1>7, <1>8, <1>9, <1>10, <1>11, <1>12 DEF Part
<1>14. PICK k1 \in Int : k1 = (r - q) - m
    OBVIOUS
<1>15. /\ w \div 100 \in Int /\ v \div 100 \in Int
       /\ v \div 100 >= (w \div 100) + 100 * k1
    BY <1>13, <1>14, DivGrows
<1>16. Risk(c) = 100 * q /\ Risk(d) = 100 * r
    BY <1>11, <1>12, RiskParts
<1>17. PICK x \in Int, y \in Int : /\ x = (w \div 100) - 100 * q /\ y = (v \div 100) - 100 * r
                                   /\ x - 100 * m <= y
    BY <1>14, <1>15
<1>18. Scores(c).final = Clamp(x) /\ Scores(d).final = Clamp(y)
    BY <1>9, <1>10, <1>16, <1>17, FinalScore
<1>19. /\ Clamp(x) = IF x < 0 THEN 0 ELSE IF x > 10000 THEN 10000 ELSE x
       /\ Clamp(y) = IF y < 0 THEN 0 ELSE IF y > 10000 THEN 10000 ELSE y
    BY ClampType
<1> QED  BY <1>17, <1>18, <1>19

LEMMA GrownIsReflexive == \A c \in EventCandidates : Grown(c, c)
BY DEF EventCandidates, Grown

\* What an event is ranked by are numbers.
LEMMA PartsOfScores ==
    ASSUME NEW c \in EventCandidates
    PROVE  LET s == Scores(c)
           IN  /\ s.importance \in Int /\ s.source \in Int /\ s.freshness \in Int
               /\ s.relevance \in Int /\ s.novelty \in Int /\ s.action \in Int
               /\ s.risk \in Int /\ s.final \in Int
<1> DEFINE I == Clamp(Importance(c) + If(IsPaperSignal(c), 500))
           R == Clamp(Relevance(c) + If(IsPaperSignal(c), 600))
           N == Clamp(Novelty(c) + If(IsPaperSignal(c), 500))
           k == IF "code" \in c.words THEN 800 ELSE 300
           A == Clamp(Actionability(c) + If(IsPaperSignal(c), k))
           W == 32 * I + 12 * SourceScore(c) + 16 * Freshness(c) + 17 * R + 12 * A + 11 * N
<1>1. Grown(c, c)
    BY GrownIsReflexive
<1>2. I \in Int
  <2> PICK x \in Int : x = Importance(c)
    BY <1>1, ImportanceGrows DEF Part
  <2> QED  BY <1>1, BonusGrows DEF Part
<1>3. R \in Int
  <2> PICK x \in Int : x = Relevance(c)
    BY <1>1, WordsDecide DEF Part
  <2> QED  BY <1>1, BonusGrows DEF Part
<1>4. N \in Int
  <2> PICK x \in Int : x = Novelty(c)
    BY <1>1, NoveltyGrows DEF Part
  <2> QED  BY <1>1, BonusGrows DEF Part
<1>5. A \in Int
  <2> PICK x \in Int : x = Actionability(c)
    BY <1>1, WordsDecide DEF Part
  <2>1. k \in Nat
    OBVIOUS
  <2> HIDE DEF k
  <2> QED  BY <1>1, <2>1, BonusGrows DEF Part
<1>6. SourceScore(c) \in Int /\ LoneRisk(c) \in Int
  <2>1. c.platforms \in SUBSET PlatformNames
    BY PlatformRange DEF EventCandidates
  <2>2. LoneRisk(c) \in 0 .. 5 /\ SourceScore(c) \in Int
    BY <2>1, SourceAndRisk
  <2> QED  BY <2>2
<1>7. Freshness(c) \in Int
    BY <1>1, FreshAndRisk DEF Part
<1>8. PICK risk \in Int : risk = Risk(c)
  <2>1. AgeRisk(c) \in Int /\ OtherRisk(c) \in Int
    BY DEF AgeRisk, OtherRisk
  <2> QED  BY <1>6, <2>1, RiskParts
<1>9. /\ Scores(c).importance = I /\ Scores(c).source = SourceScore(c)
      /\ Scores(c).freshness = Freshness(c) /\ Scores(c).relevance = R
      /\ Scores(c).novelty = N /\ Scores(c).action = A /\ Scores(c).risk = Risk(c)
    BY DEF Scores
<1>10. Scores(c).final = Clamp(W \div 100 - Risk(c))
    BY FinalScore DEF Weighted
<1> HIDE DEF I, R, N, A
<1>11. PICK w \in Int : w = W
    BY <1>2, <1>3, <1>4, <1>5, <1>6, <1>7
<1>12. PICK x \in Int : x = (w \div 100) - risk
    OBVIOUS
<1>13. Scores(c).final \in Int
    BY <1>8, <1>10, <1>11, <1>12, ClampType
<1> QED  BY <1>2, <1>3, <1>4, <1>5, <1>6, <1>7, <1>8, <1>9, <1>13

-----------------------------------------------------------------------------
(* The events of a run                                                      *)

\* Every title keeps its value, and its place among the others.
LEMMA InsertedTitle ==
    ASSUME NEW s \in Seq(Titles), NEW t \in Titles, NEW at \in 1 .. (Len(s) + 1)
    PROVE  /\ InsertAt(s, at, t) \in Seq(Titles)
           /\ Len(InsertAt(s, at, t)) = Len(s) + 1
           /\ \A i \in 1 .. Len(s) : InsertAt(s, at, t)[IF i < at THEN i ELSE i + 1] = s[i]
<1> DEFINE a == SubSeq(s, 1, at - 1)
           b == SubSeq(s, at, Len(s))
           u == InsertAt(s, at, t)
<1>1. PICK n \in Nat : n = Len(s)
    OBVIOUS
<1>2. a \in Seq(Titles) /\ Len(a) = at - 1 /\ \A i \in 1 .. (at - 1) : a[i] = s[i]
    OBVIOUS
<1>3. /\ b \in Seq(Titles) /\ Len(b) = (n - at) + 1
      /\ \A i \in 1 .. ((n - at) + 1) : b[i] = s[(at + i) - 1]
  <2>1. at \in Int /\ Len(s) \in Int /\ \A i \in at .. Len(s) : s[i] \in Titles
    OBVIOUS
  <2>2. /\ b \in Seq(Titles)
        /\ Len(b) = IF at <= Len(s) THEN Len(s) - at + 1 ELSE 0
        /\ \A i \in 1 .. Len(s) - at + 1 : b[i] = s[at + i - 1]
    BY <2>1, SubSeqProperties
  <2> HIDE DEF b
  <2>3. Len(b) = (n - at) + 1
    BY <1>1, <2>2
  <2>4. \A i \in 1 .. ((n - at) + 1) : b[i] = s[(at + i) - 1]
    BY <1>1, <2>2
  <2> QED  BY <2>2, <2>3, <2>4
<1>4. PICK g \in Seq(Titles) : g = <<t>> /\ Len(g) = 1
  <2>1. <<t>> \in Seq(Titles) /\ Len(<<t>>) = 1
    OBVIOUS
  <2> QED  BY <2>1, Zenon
<1>5. u = (a \o g) \o b
    BY <1>4 DEF InsertAt
<1> HIDE DEF a, b, u
<1>6. PICK f \in Seq(Titles) : /\ f = a \o g /\ Len(f) = at
                              /\ \A i \in 1 .. (at - 1) : f[i] = a[i]
  <2>1. /\ a \o g \in Seq(Titles)
        /\ Len(a \o g) = Len(a) + Len(g)
        /\ \A i \in 1 .. Len(a) + Len(g) : (a \o g)[i] = IF i <= Len(a) THEN a[i] ELSE g[i - Len(a)]
    BY <1>2, <1>4, ConcatProperties, Zenon
  <2>2. PICK f \in Seq(Titles) : f = a \o g
    BY <2>1
  <2>3. Len(f) = at
    BY <1>2, <1>4, <2>1, <2>2
  <2>4. \A i \in 1 .. (at - 1) : f[i] = a[i]
    BY <1>2, <1>4, <2>1, <2>2
  <2> QED  BY <2>2, <2>3, <2>4
<1>7. /\ u \in Seq(Titles) /\ Len(u) = n + 1
      /\ \A i \in 1 .. (n + 1) : u[i] = IF i <= at THEN f[i] ELSE b[i - at]
  <2>1. /\ f \o b \in Seq(Titles)
        /\ Len(f \o b) = Len(f) + Len(b)
        /\ \A i \in 1 .. Len(f) + Len(b) : (f \o b)[i] = IF i <= Len(f) THEN f[i] ELSE b[i - Len(f)]
    BY <1>3, ConcatProperties, Zenon
  <2>2. u = f \o b /\ Len(f) = at /\ Len(f) + Len(b) = n + 1
    BY <1>1, <1>3, <1>5, <1>6
  <2> QED  BY <2>1, <2>2
<1>8. ASSUME NEW i \in 1 .. n PROVE u[IF i < at THEN i ELSE i + 1] = s[i]
  <2>1. CASE i < at
    <3>1. u[i] = f[i] /\ f[i] = a[i] /\ a[i] = s[i]
        BY <1>1, <1>2, <1>6, <1>7, <2>1
    <3> QED  BY <2>1, <3>1
  <2>2. CASE i >= at
    <3>1. PICK j \in 1 .. ((n - at) + 1) : j = (i - at) + 1
        BY <1>1, <2>2
    <3>2. PICK k \in 1 .. (n + 1) : k = i + 1 /\ k - at = j /\ k > at /\ (at + j) - 1 = i
        BY <1>1, <3>1, <2>2
    <3>3. u[k] = b[j]
        BY <1>7, <3>2
    <3>4. b[j] = s[i]
        BY <1>3, <3>1, <3>2
    <3> QED  BY <2>2, <3>2, <3>3, <3>4
  <2> QED  BY <2>1, <2>2
<1> QED  BY <1>1, <1>7, <1>8 DEF u

\* With five places at the front, a sixth title is needed to push one out.
LEMMA FitStaysShown ==
    ASSUME NEW s \in Seq(Titles), NEW t \in Titles, NEW at \in 1 .. (Len(s) + 1),
           Len(s) < 5, "fits" \in Range(s)
    PROVE  "fits" \in Shown(InsertAt(s, at, t))
<1>1. PICK i \in 1 .. Len(s) : s[i] = "fits"
    BY DEF Range
<1>2. PICK u \in Seq(Titles) : u = InsertAt(s, at, t)
    BY InsertedTitle
<1>3. PICK j \in Int : j = IF i < at THEN i ELSE i + 1
    OBVIOUS
<1>4. Len(u) = Len(s) + 1 /\ u[j] = "fits"
    BY <1>1, <1>2, <1>3, InsertedTitle
<1>5. j \in DOMAIN u /\ j <= 5
    BY <1>2, <1>3, <1>4
<1> QED  BY <1>2, <1>4, <1>5 DEF Shown

LEMMA TitleRisk ==
    ASSUME NEW c, NEW d, d.confidence = c.confidence \/ d.confidence # "low"
    PROVE  /\ OtherRisk(d) <= OtherRisk(c) + 18
           /\ (Mismatch(d) => Mismatch(c)) => OtherRisk(d) <= OtherRisk(c)
BY DEF OtherRisk

PoolTypeOK == pool \in [ReportEvents -> EventCandidates]

Levels == [low |-> 1, mid |-> 2, high |-> 3]

\* What assign_item_to_event makes of a candidate.
Joined(c, p, age, confidence, words, titles) ==
    [c EXCEPT !.platforms = @ \cup {p}, !.members = @ + 1,
              !.age = IF c.age = -1 \/ (age # -1 /\ age < c.age) THEN age ELSE c.age,
              !.confidence = IF Levels[confidence] > Levels[@] THEN confidence ELSE @,
              !.words = words, !.titles = titles]

LEMMA JoinedIsGrown ==
    ASSUME NEW c \in EventCandidates, NEW p \in PlatformNames, NEW age \in Nat \cup {-1},
           NEW confidence \in {"low", "mid", "high"}, NEW words \in SUBSET Words,
           NEW titles \in Seq(Titles)
    PROVE  /\ Joined(c, p, age, confidence, words, titles) \in EventCandidates
           /\ Joined(c, p, age, confidence, words, titles).titles = titles
           /\ Joined(c, p, age, confidence, words, titles).words = c.words
                 => Grown(c, Joined(c, p, age, confidence, words, titles))
<1> DEFINE new == Joined(c, p, age, confidence, words, titles)
<1>1. /\ c.members \in Nat /\ c.age \in Nat \cup {-1}
      /\ c.confidence \in {"low", "mid", "high"} /\ c.platforms \subseteq PlatformNames
    BY PlatformRange DEF EventCandidates
<1>2. Levels["low"] = 1 /\ Levels["mid"] = 2 /\ Levels["high"] = 3
    BY DEF Levels
<1>3. PICK trust \in {"low", "mid", "high"} :
        /\ trust = IF Levels[confidence] > Levels[c.confidence] THEN confidence ELSE c.confidence
        /\ \/ trust = c.confidence
           \/ c.confidence = "low" /\ trust \in {"mid", "high"}
           \/ c.confidence = "mid" /\ trust = "high"
    BY <1>1, <1>2
<1>4. PICK since \in Nat \cup {-1} :
        since = IF c.age = -1 \/ (age # -1 /\ age < c.age) THEN age ELSE c.age
    BY <1>1
<1>5. PICK n \in Nat : n = c.members + 1
    BY <1>1
<1>6. PICK from \in SUBSET PlatformNames : from = c.platforms \cup {p}
    BY <1>1
<1>7. new = [c EXCEPT !.platforms = from, !.members = n, !.age = since, !.confidence = trust,
                      !.words = words, !.titles = titles]
    BY <1>3, <1>4, <1>5, <1>6 DEF Joined
<1> HIDE DEF new
<1>8. /\ new.type = c.type /\ new.links = c.links /\ new.platforms = from /\ new.members = n
      /\ new.age = since /\ new.confidence = trust /\ new.words = words /\ new.titles = titles
    BY <1>7 DEF EventCandidates
<1>9. new \in EventCandidates
    BY <1>7, PlatformRange DEF EventCandidates
<1>10. new.words = c.words => Grown(c, new)
    BY <1>1, <1>3, <1>4, <1>5, <1>6, <1>8 DEF Grown
<1> QED  BY <1>8, <1>9, <1>10 DEF new

\* What the first event is after an item has joined it.
LEMMA JoinGrows ==
    ASSUME PoolTypeOK, NEW p \in PlatformNames, NEW age \in Nat \cup {-1},
           NEW confidence \in {"low", "mid", "high"}, NEW words \in SUBSET Words,
           NEW title \in Titles, NEW at \in 1 .. (Len(pool[1].titles) + 1),
           Join(p, age, confidence, words, title, at)
    PROVE  /\ PoolTypeOK'
           /\ pool'[1].words = pool[1].words => Grown(pool[1], pool'[1])
           /\ pool'[1].titles = InsertAt(pool[1].titles, at, title)
<1>1. 1 \in ReportEvents
    BY RulesAssumption DEF ReportEvents
<1>2. PICK c \in EventCandidates : c = pool[1]
    BY <1>1 DEF PoolTypeOK
<1>3. c.titles \in Seq(Titles) /\ at \in 1 .. (Len(c.titles) + 1)
    BY <1>2 DEF EventCandidates
<1>4. PICK titles \in Seq(Titles) : titles = InsertAt(c.titles, at, title)
    BY <1>3, InsertedTitle
<1>5. pool' = [pool EXCEPT ![1] = Joined(pool[1], p, age, confidence, words, titles)]
    BY <1>2, <1>4 DEF Join, Joined, Levels
<1>6. PICK new : new = Joined(c, p, age, confidence, words, titles)
    OBVIOUS
<1>7. new \in EventCandidates /\ new.titles = titles /\ (new.words = c.words => Grown(c, new))
    BY <1>6, JoinedIsGrown
<1>8. PoolTypeOK' /\ pool'[1] = new
    BY <1>1, <1>2, <1>5, <1>6, <1>7 DEF PoolTypeOK
<1> QED  BY <1>2, <1>4, <1>7, <1>8

LEMMA PoolStep ==
    ASSUME PoolTypeOK, [ReportNext]_reportVars
    PROVE  /\ PoolTypeOK'
           /\ (pool' # pool /\ pool'[1].words = pool[1].words) =>
                 LET c == pool[1]
                     lost == Scores(c).final - Scores(pool'[1]).final
                 IN  /\ lost <= 1800
                     /\ lost > 0 => Len(c.titles) >= 5 \/ "fits" \notin Range(c.titles)
<1>1. CASE UNCHANGED reportVars \/ ScoreAll \/ \E i \in DOMAIN Sections : Choose(i)
  <2>1. pool' = pool
    BY <1>1 DEF reportVars, ScoreAll, Choose
  <2> QED  BY <2>1 DEF PoolTypeOK
<1>2. CASE \E p \in {"arxiv", "blog", "openai", "reddit", "reuters"}, age \in {-1, 12, 100},
              confidence \in {"low", "high"}, words \in {pool[1].words, pool[1].words \cup {"again"}},
              title \in {"fits", "other"}, at \in {1, Len(pool[1].titles) + 1} :
                 Join(p, age, confidence, words, title, at)
  <2> PICK p \in {"arxiv", "blog", "openai", "reddit", "reuters"}, age \in {-1, 12, 100},
           confidence \in {"low", "high"}, words \in {pool[1].words, pool[1].words \cup {"again"}},
           title \in {"fits", "other"}, at \in {1, Len(pool[1].titles) + 1} :
                 Join(p, age, confidence, words, title, at)
    BY <1>2
  <2>1. 1 \in ReportEvents
    BY RulesAssumption DEF ReportEvents
  <2>2. pool[1] \in EventCandidates
    BY <2>1 DEF PoolTypeOK
  <2>3. words \in SUBSET Words
    BY <2>2 DEF EventCandidates, Words
  <2>4. p \in PlatformNames /\ age \in Nat \cup {-1} /\ confidence \in {"low", "mid", "high"}
    BY DEF PlatformNames
  <2>5. /\ pool[1].titles \in Seq(Titles) /\ title \in Titles
        /\ at \in 1 .. (Len(pool[1].titles) + 1)
    BY <2>2 DEF EventCandidates, Titles
  <2>6. /\ PoolTypeOK' /\ (pool'[1].words = pool[1].words => Grown(pool[1], pool'[1]))
        /\ pool'[1].titles = InsertAt(pool[1].titles, at, title)
    BY <2>3, <2>4, <2>5, JoinGrows
  <2> SUFFICES ASSUME pool'[1].words = pool[1].words
               PROVE  LET c == pool[1]
                          lost == Scores(c).final - Scores(pool'[1]).final
                      IN  /\ lost <= 1800
                          /\ lost > 0 => Len(c.titles) >= 5 \/ "fits" \notin Range(c.titles)
    BY <2>6
  <2>7. PICK c \in EventCandidates, d \in EventCandidates : c = pool[1] /\ d = pool'[1]
    BY <2>1, <2>2, <2>6 DEF PoolTypeOK
  <2>8. Grown(c, d)
    BY <2>6, <2>7
  <2>9. /\ OtherRisk(d) <= OtherRisk(c) + 18
        /\ (Mismatch(d) => Mismatch(c)) => OtherRisk(d) <= OtherRisk(c)
    BY <2>8, TitleRisk DEF Grown
  <2>10. PICK f \in Int, g \in Int : f = Scores(c).final /\ g = Scores(d).final
    BY PartsOfScores
  <2>11. g >= f - 1800
    BY <2>8, <2>9, <2>10, GrownScoresMore
  <2>12. (Mismatch(d) => Mismatch(c)) => g >= f
    <3> HAVE Mismatch(d) => Mismatch(c)
    <3>1. OtherRisk(d) <= OtherRisk(c) + 0
        BY <2>9 DEF OtherRisk
    <3> QED  BY <2>8, <2>10, <3>1, GrownScoresMore
  <2>13. (Len(c.titles) < 5 /\ "fits" \in Range(c.titles)) => ~Mismatch(d)
    BY <2>5, <2>6, <2>7, FitStaysShown DEF Mismatch
  <2>14. Len(c.titles) \in Nat
    BY <2>5, <2>7
  <2> QED  BY <2>7, <2>10, <2>11, <2>12, <2>13, <2>14
<1>3. ReportNext => \/ ScoreAll \/ \E i \in DOMAIN Sections : Choose(i)
                    \/ \E p \in {"arxiv", "blog", "openai", "reddit", "reuters"},
                          age \in {-1, 12, 100}, confidence \in {"low", "high"},
                          words \in {pool[1].words, pool[1].words \cup {"again"}},
                          title \in {"fits", "other"}, at \in {1, Len(pool[1].titles) + 1} :
                             Join(p, age, confidence, words, title, at)
    BY DEF ReportNext
<1> QED  BY <1>1, <1>2, <1>3

\* ReportRules!SourcesDemoteByTitle: a further source costs an event points only
\* by its title, and then no more than a mismatch does (scorer.py), whatever type,
\* words, sources, age and confidence it has.
THEOREM SourcesDemoteOnlyByTitle == RulesSpec => SourcesDemoteByTitle
<1>1. ReportInit => PoolTypeOK
    BY RulesAssumption DEF ReportInit, PoolTypeOK
<1>2. PoolTypeOK /\ [ReportNext]_reportVars => PoolTypeOK'
    BY PoolStep
<1>3. PoolTypeOK /\ [ReportNext]_reportVars =>
        [(pool' # pool /\ pool'[1].words = pool[1].words) =>
            LET c == pool[1]
                lost == Scores(c).final - Scores(pool'[1]).final
            IN  /\ lost <= 1800
                /\ lost > 0 => Len(c.titles) >= 5 \/ "fits" \notin Range(c.titles)]_reportVars
    BY PoolStep
<1> QED  BY <1>1, <1>2, <1>3, PTL DEF RulesSpec, SourcesDemoteByTitle

-----------------------------------------------------------------------------
(* A ranking lists a set of events, each once.                              *)

\* An event that is scored: what a section compares are numbers.
Scored(section) ==
    \A e \in ReportEvents : \A i \in 1 .. 5 : SortKey(section, e)[i] \in Int

Distinct(s) == \A i, j \in DOMAIN s : s[i] = s[j] => i = j

\* A section orders the events totally: the place of an event settles a tie.
LEMMA BeforeOrders ==
    ASSUME NEW section, Scored(section)
    PROVE  /\ \A a \in ReportEvents : ~Before(section, a, a)
           /\ \A a, b, c \in ReportEvents :
                 Before(section, a, b) /\ Before(section, b, c) => Before(section, a, c)
           /\ \A a, b \in ReportEvents : a # b => Before(section, a, b) \/ Before(section, b, a)
<1> DEFINE key(e) == SortKey(section, e)
<1>1. \A e \in ReportEvents : \A i \in 1 .. 5 : key(e)[i] \in Int
    BY DEF Scored
<1>2. \A a, b \in ReportEvents : key(a)[5] = key(b)[5] => a = b
    BY RulesAssumption DEF SortKey, ReportEvents
<1> HIDE DEF key
<1>3. \A a, b : Before(section, a, b) <=>
         \E i \in 1 .. 5 : key(a)[i] > key(b)[i] /\ \A j \in 1 .. (i - 1) : key(a)[j] = key(b)[j]
    BY DEF Before, key
<1>4. \A a, b \in ReportEvents : Before(section, a, b) <=>
         \/ key(a)[1] > key(b)[1]
         \/ key(a)[1] = key(b)[1] /\ key(a)[2] > key(b)[2]
         \/ key(a)[1] = key(b)[1] /\ key(a)[2] = key(b)[2] /\ key(a)[3] > key(b)[3]
         \/ key(a)[1] = key(b)[1] /\ key(a)[2] = key(b)[2] /\ key(a)[3] = key(b)[3]
            /\ key(a)[4] > key(b)[4]
         \/ key(a)[1] = key(b)[1] /\ key(a)[2] = key(b)[2] /\ key(a)[3] = key(b)[3]
            /\ key(a)[4] = key(b)[4] /\ key(a)[5] > key(b)[5]
  <2> SUFFICES ASSUME NEW a \in ReportEvents, NEW b \in ReportEvents
               PROVE  Before(section, a, b) <=>
         \/ key(a)[1] > key(b)[1]
         \/ key(a)[1] = key(b)[1] /\ key(a)[2] > key(b)[2]
         \/ key(a)[1] = key(b)[1] /\ key(a)[2] = key(b)[2] /\ key(a)[3] > key(b)[3]
         \/ key(a)[1] = key(b)[1] /\ key(a)[2] = key(b)[2] /\ key(a)[3] = key(b)[3]
            /\ key(a)[4] > key(b)[4]
         \/ key(a)[1] = key(b)[1] /\ key(a)[2] = key(b)[2] /\ key(a)[3] = key(b)[3]
            /\ key(a)[4] = key(b)[4] /\ key(a)[5] > key(b)[5]
    OBVIOUS
  <2>1. 1 .. 5 = {1, 2, 3, 4, 5} /\ 1 .. (1 - 1) = {} /\ 1 .. (2 - 1) = {1}
        /\ 1 .. (3 - 1) = {1, 2} /\ 1 .. (4 - 1) = {1, 2, 3} /\ 1 .. (5 - 1) = {1, 2, 3, 4}
    OBVIOUS
  <2> QED  BY <1>3, <2>1
<1>5. \A a \in ReportEvents : ~Before(section, a, a)
    BY <1>1, <1>4
<1>6. \A a, b, c \in ReportEvents :
         Before(section, a, b) /\ Before(section, b, c) => Before(section, a, c)
    BY <1>1, <1>4
<1>7. \A a, b \in ReportEvents : a # b => Before(section, a, b) \/ Before(section, b, a)
    BY <1>1, <1>2, <1>4
<1> QED  BY <1>5, <1>6, <1>7

\* An event is ranked by how many are before it: each place is taken once.
LEMMA RankedLists ==
    ASSUME NEW section, Scored(section), NEW S \in SUBSET ReportEvents
    PROVE  /\ IsFiniteSet(S) /\ Cardinality(S) \in Nat
           /\ Ranked(section, S) \in Seq(S)
           /\ Len(Ranked(section, S)) = Cardinality(S)
           /\ Distinct(Ranked(section, S))
           /\ Range(Ranked(section, S)) = S
<1> DEFINE N == Cardinality(S)
           ahead(e) == {f \in S : Before(section, f, e)}
           place == [e \in S |-> Cardinality(ahead(e))]
           r == Ranked(section, S)
<1>1. IsFiniteSet(S) /\ N \in Nat
  <2>1. IsFiniteSet(1 .. PoolSize)
    BY RulesAssumption, FS_Interval
  <2> QED  BY <2>1, FS_Subset, FS_CardinalityType DEF ReportEvents
<1>2. \A e \in S : ahead(e) \in SUBSET (S \ {e}) /\ IsFiniteSet(ahead(e))
  <2>1. \A e \in S : ahead(e) \in SUBSET (S \ {e})
    BY BeforeOrders
  <2>2. \A e \in S : ahead(e) \in SUBSET S
    OBVIOUS
  <2> QED  BY <1>1, <2>1, <2>2, FS_Subset
<1>3. place \in [S -> 0 .. (N - 1)]
  <2> SUFFICES ASSUME NEW e \in S PROVE Cardinality(ahead(e)) \in 0 .. (N - 1)
    OBVIOUS
  <2>1. IsFiniteSet(S \ {e}) /\ Cardinality(S \ {e}) = N - 1
    BY <1>1, FS_RemoveElement
  <2>2. Cardinality(ahead(e)) <= Cardinality(S \ {e})
    BY <1>2, <2>1, FS_Subset
  <2>3. Cardinality(ahead(e)) \in Nat
    BY <1>2, FS_CardinalityType
  <2> QED  BY <1>1, <2>1, <2>2, <2>3
<1>4. \A a, b \in S : Before(section, a, b) => place[a] # place[b]
  <2> SUFFICES ASSUME NEW a \in S, NEW b \in S, Before(section, a, b) PROVE place[a] # place[b]
    OBVIOUS
  <2>1. ahead(a) \in SUBSET ahead(b)
    BY BeforeOrders
  <2>2. a \in ahead(b) /\ a \notin ahead(a)
    BY BeforeOrders
  <2>3. Cardinality(ahead(a)) # Cardinality(ahead(b))
    BY <1>2, <2>1, <2>2, FS_Subset
  <2> QED  BY <2>3
<1>5. place \in Injection(S, 0 .. (N - 1))
  <2>1. \A a, b \in S : place[a] = place[b] => a = b
    BY <1>4, BeforeOrders
  <2> HIDE DEF place
  <2> QED  BY <1>3, <2>1 DEF Injection, IsInjective
<1>6. place \in Surjection(S, 0 .. (N - 1))
  <2>1. IsFiniteSet(0 .. (N - 1)) /\ Cardinality(0 .. (N - 1)) = N
    BY <1>1, FS_Interval
  <2> HIDE DEF place
  <2> QED  BY <1>5, <2>1, FS_Injection
<1>7. \A n \in 1 .. N : \E e \in S : place[e] = n - 1
  <2> HIDE DEF place
  <2> QED  BY <1>1, <1>6 DEF Surjection
<1>8. r = [n \in 1 .. N |-> CHOOSE e \in S : Cardinality(ahead(e)) = n - 1]
    BY DEF Ranked
<1>9. \A n \in 1 .. N : r[n] \in S /\ place[r[n]] = n - 1
  <2> TAKE n \in 1 .. N
  <2>1. \E e \in S : Cardinality(ahead(e)) = n - 1
    BY <1>7
  <2>2. r[n] = CHOOSE e \in S : Cardinality(ahead(e)) = n - 1
    BY <1>8
  <2>3. r[n] \in S /\ Cardinality(ahead(r[n])) = n - 1
    BY <2>1, <2>2
  <2> QED  BY <2>3
<1>10. DOMAIN r = 1 .. N
    BY <1>8
<1> HIDE DEF r, place, ahead
<1>11. r \in Seq(S) /\ Len(r) = N
  <2>1. r \in [1 .. N -> S]
    BY <1>8, <1>9, <1>10
  <2> QED  BY <1>1, <2>1
<1>12. Distinct(r)
    BY <1>1, <1>9, <1>10 DEF Distinct
<1>13. \A e \in S : \E n \in 1 .. N : r[n] = e
  <2> TAKE e \in S
  <2>1. PICK n \in 1 .. N : place[e] = n - 1
    BY <1>1, <1>3
  <2>2. place[r[n]] = place[e] /\ r[n] \in S
    BY <1>9, <2>1
  <2> QED  BY <1>5, <2>2 DEF Injection, IsInjective
<1>14. Range(r) = S
    BY <1>9, <1>10, <1>13 DEF Range
<1> QED  BY <1>1, <1>11, <1>12, <1>14 DEF r

-----------------------------------------------------------------------------
(* Down a ranking: what is taken after n of its events.                     *)

\* The next step of going down a ranking.
TakeNext(section, ranking, taken, n) ==
    IF Refused(section, taken, ranking[n]) THEN taken ELSE Append(taken, ranking[n])

IsDown(section, ranking, g, m) ==
    g = [n \in 0 .. m |-> IF n = 0 THEN <<>> ELSE TakeNext(section, ranking, g[n - 1], n)]

\* What is taken is computed step by step, however long the ranking is.
LEMMA TakenIsDown ==
    ASSUME NEW section, NEW ranking, Len(ranking) \in Nat
    PROVE  /\ TakenOf(section, ranking)[0] = <<>>
           /\ \A n \in 1 .. Len(ranking) :
                 TakenOf(section, ranking)[n]
                    = TakeNext(section, ranking, TakenOf(section, ranking)[n - 1], n)
<1> DEFINE L == Len(ranking)
           None == {m \in Nat : ~ \E g : IsDown(section, ranking, g, m)}
<1>1. ASSUME None # {} PROVE FALSE
  <2>1. PICK m \in None : \A y \in None : m <= y
    BY <1>1, SmallestNumber
  <2>2. CASE m = 0
    <3> DEFINE g == [n \in 0 .. 0 |-> <<>>]
    <3>1. IsDown(section, ranking, g, 0)
      BY DEF IsDown
    <3> QED  BY <2>1, <2>2, <3>1
  <2>3. CASE m # 0
    <3>1. m - 1 \in Nat /\ m - 1 \notin None
      BY <2>1, <2>3
    <3>2. PICK g : IsDown(section, ranking, g, m - 1)
      BY <3>1
    <3> DEFINE h == [n \in 0 .. m |-> IF n = m THEN TakeNext(section, ranking, g[m - 1], m) ELSE g[n]]
    <3>3. \A n \in 0 .. (m - 1) : h[n] = g[n]
      BY <2>1
    <3>4. \A n \in 0 .. (m - 1) : g[n] = IF n = 0 THEN <<>> ELSE TakeNext(section, ranking, g[n - 1], n)
      BY <3>2 DEF IsDown
    <3>5. h[m] = TakeNext(section, ranking, h[m - 1], m)
      BY <2>1, <3>1, <3>3
    <3>6. \A n \in 0 .. (m - 1) : h[n] = IF n = 0 THEN <<>> ELSE TakeNext(section, ranking, h[n - 1], n)
      <4> TAKE n \in 0 .. (m - 1)
      <4>1. n # 0 => n - 1 \in 0 .. (m - 1)
        BY <2>1
      <4> HIDE DEF h
      <4> QED  BY <3>3, <3>4, <4>1
    <3>7. \A n \in 0 .. m : n = m \/ n \in 0 .. (m - 1)
      BY <2>1
    <3>8. \A n \in 0 .. m : h[n] = IF n = 0 THEN <<>> ELSE TakeNext(section, ranking, h[n - 1], n)
      <4> HIDE DEF h
      <4> QED  BY <2>3, <3>5, <3>6, <3>7
    <3>9. h = [n \in 0 .. m |-> h[n]]
      OBVIOUS
    <3> HIDE DEF h
    <3>10. IsDown(section, ranking, h, m)
      BY <3>8, <3>9 DEF IsDown
    <3> QED  BY <2>1, <3>10
  <2> QED  BY <2>2, <2>3
<1> DEFINE after == TakenOf(section, ranking)
<1>2. after = CHOOSE g : g = [n \in 0 .. L |->
                IF n = 0 THEN <<>>
                ELSE IF Refused(section, g[n - 1], ranking[n]) THEN g[n - 1]
                ELSE Append(g[n - 1], ranking[n])]
    BY Zenon DEF TakenOf
<1>3. \A g : IsDown(section, ranking, g, L) <=> g = [n \in 0 .. L |->
                IF n = 0 THEN <<>>
                ELSE IF Refused(section, g[n - 1], ranking[n]) THEN g[n - 1]
                ELSE Append(g[n - 1], ranking[n])]
    BY Zenon DEF IsDown, TakeNext
<1>4. \E g : IsDown(section, ranking, g, L)
    BY <1>1
<1>5. IsDown(section, ranking, after, L)
  <2> HIDE DEF after
  <2> QED  BY <1>2, <1>3, <1>4, Zenon
<1> HIDE DEF after
<1>6. \A n \in 0 .. L : after[n] = IF n = 0 THEN <<>> ELSE TakeNext(section, ranking, after[n - 1], n)
    BY <1>5 DEF IsDown
<1>7. after[0] = <<>>
    BY <1>6
<1>8. \A n \in 1 .. L : after[n] = TakeNext(section, ranking, after[n - 1], n)
  <2>1. \A n \in 1 .. L : n \in 0 .. L /\ n # 0
    OBVIOUS
  <2> QED  BY <1>6, <2>1
<1> QED  BY <1>7, <1>8 DEF after

\* Refused, by what the events taken so far are like.
Crowded(section, T, e) ==
    LET name == enriched[e].entity
        main == MainPlatform(e)
    IN  \/ name # "" /\ Cardinality(OfEntity(T, name)) >= IF section = "top_news" THEN 2 ELSE 1
        \/ /\ section = "top_news"
           /\ \/ Cardinality(OfType(T, enriched[e].type)) >= TypeLimit(enriched[e].type)
              \/ main # "" /\ Cardinality(OfPlatform(T, main)) >= 3

LEMMA RefusedIsCrowded ==
    ASSUME NEW section, NEW taken, NEW e
    PROVE  Refused(section, taken, e) <=>
              Len(taken) >= SectionMax[section] \/ Crowded(section, Range(taken), e)
BY Zenon DEF Refused, Crowded

\* An event that is not refused leaves the section diverse.
LEMMA DiverseGrows ==
    ASSUME NEW section, NEW T, IsFiniteSet(T), NEW e, Diverse(section, T),
           ~Crowded(section, T, e)
    PROVE  Diverse(section, T \cup {e})
<1> DEFINE U == T \cup {e}
<1>1. \A B \in SUBSET T : /\ IsFiniteSet(B) /\ IsFiniteSet(B \cup {e})
                          /\ Cardinality(B) \in Nat /\ Cardinality(B \cup {e}) \in Nat
                          /\ Cardinality(B \cup {e}) <= Cardinality(B) + 1
  <2> TAKE B \in SUBSET T
  <2>1. IsFiniteSet(B)
    BY FS_Subset
  <2>2. /\ IsFiniteSet(B \cup {e})
        /\ Cardinality(B \cup {e}) = IF e \in B THEN Cardinality(B) ELSE Cardinality(B) + 1
    BY <2>1, FS_AddElement
  <2>3. Cardinality(B) \in Nat /\ Cardinality(B \cup {e}) \in Nat
    BY <2>1, <2>2, FS_CardinalityType
  <2> QED  BY <2>1, <2>2, <2>3
<1>2. ASSUME NEW f \in U, enriched[f].entity # ""
      PROVE  Cardinality(OfEntity(U, enriched[f].entity)) <= IF section = "top_news" THEN 2 ELSE 1
  <2> DEFINE name == enriched[f].entity
             B == OfEntity(T, name)
             limit == IF section = "top_news" THEN 2 ELSE 1
  <2>1. B \in SUBSET T
    BY DEF OfEntity
  <2>2. CASE enriched[e].entity = name
    <3>1. OfEntity(U, name) = B \cup {e}
      BY <2>2 DEF OfEntity
    <3>2. ~(Cardinality(B) >= limit)
      BY <1>2, <2>2 DEF Crowded
    <3> QED  BY <1>1, <2>1, <3>1, <3>2
  <2>3. CASE enriched[e].entity # name
    <3>1. OfEntity(U, name) = B /\ f \in T
      BY <2>3 DEF OfEntity
    <3> QED  BY <1>2, <3>1 DEF Diverse
  <2> QED  BY <2>2, <2>3
<1>3. ASSUME NEW f \in U, section = "top_news"
      PROVE  Cardinality(OfType(U, enriched[f].type)) <= TypeLimit(enriched[f].type)
  <2> DEFINE type == enriched[f].type
             B == OfType(T, type)
  <2>1. B \in SUBSET T
    BY DEF OfType
  <2>2. CASE enriched[e].type = type
    <3>1. OfType(U, type) = B \cup {e}
      BY <2>2 DEF OfType
    <3>2. ~(Cardinality(B) >= TypeLimit(type))
      BY <1>3, <2>2 DEF Crowded
    <3>3. TypeLimit(type) \in Nat
      BY DEF TypeLimit
    <3> QED  BY <1>1, <2>1, <3>1, <3>2, <3>3
  <2>3. CASE enriched[e].type # type
    <3>1. OfType(U, type) = B /\ f \in T
      BY <2>3 DEF OfType
    <3> QED  BY <1>3, <3>1 DEF Diverse
  <2> QED  BY <2>2, <2>3
<1>4. ASSUME NEW f \in U, section = "top_news", MainPlatform(f) # ""
      PROVE  Cardinality(OfPlatform(U, MainPlatform(f))) <= 3
  <2> DEFINE main == MainPlatform(f)
             B == OfPlatform(T, main)
  <2>1. B \in SUBSET T
    BY DEF OfPlatform
  <2>2. CASE MainPlatform(e) = main
    <3>1. OfPlatform(U, main) = B \cup {e}
      BY <2>2 DEF OfPlatform
    <3>2. ~(Cardinality(B) >= 3)
      BY <1>4, <2>2 DEF Crowded
    <3> QED  BY <1>1, <2>1, <3>1, <3>2
  <2>3. CASE MainPlatform(e) # main
    <3>1. OfPlatform(U, main) = B /\ f \in T
      BY <2>3 DEF OfPlatform
    <3> QED  BY <1>4, <3>1 DEF Diverse
  <2> QED  BY <2>2, <2>3
<1> QED  BY <1>2, <1>3, <1>4 DEF Diverse

\* A list of events of S, each once, no longer than the limit of its section.
IsList(section, s, S) == s \in Seq(S) /\ Distinct(s) /\ Len(s) <= SectionMax[section]

\* A list has as many events as it has places.
LEMMA ListRange ==
    ASSUME NEW S, NEW s \in Seq(S), Distinct(s)
    PROVE  /\ IsFiniteSet(Range(s)) /\ Cardinality(Range(s)) = Len(s)
           /\ Range(s) \in SUBSET S
           /\ Range(s) = {s[i] : i \in 1 .. Len(s)}
<1>1. Len(s) \in Nat /\ DOMAIN s = 1 .. Len(s) /\ s \in [1 .. Len(s) -> S]
    OBVIOUS
<1>2. Range(s) = {s[i] : i \in 1 .. Len(s)} /\ Range(s) \in SUBSET S
    BY <1>1 DEF Range
<1>3. s \in [1 .. Len(s) -> Range(s)]
    BY <1>1, <1>2
<1>4. s \in Bijection(1 .. Len(s), Range(s))
  <2>1. s \in Injection(1 .. Len(s), Range(s))
    BY <1>1, <1>3 DEF Injection, IsInjective, Distinct
  <2>2. s \in Surjection(1 .. Len(s), Range(s))
    BY <1>2, <1>3 DEF Surjection
  <2> QED  BY <2>1, <2>2 DEF Bijection
<1>5. IsFiniteSet(1 .. Len(s)) /\ Cardinality(1 .. Len(s)) = Len(s)
    BY <1>1, FS_Interval
<1>6. ExistsBijection(1 .. Len(s), Range(s))
    BY <1>4 DEF ExistsBijection
<1> QED  BY <1>2, <1>5, <1>6, FS_Bijection

\* A further event makes a list longer by one.
LEMMA ListGrows ==
    ASSUME NEW S, NEW s \in Seq(S), Distinct(s), NEW e \in S, e \notin Range(s)
    PROVE  /\ Append(s, e) \in Seq(S) /\ Len(Append(s, e)) = Len(s) + 1
           /\ Distinct(Append(s, e))
           /\ Range(Append(s, e)) = Range(s) \cup {e}
<1> DEFINE t == Append(s, e)
<1>1. /\ t \in Seq(S) /\ Len(t) = Len(s) + 1 /\ Len(s) \in Nat
      /\ DOMAIN t = 1 .. Len(s) + 1 /\ DOMAIN s = 1 .. Len(s)
      /\ \A i \in 1 .. Len(s) : t[i] = s[i]
      /\ t[Len(s) + 1] = e
    OBVIOUS
<1>2. \A i \in 1 .. Len(s) + 1 : i \in 1 .. Len(s) \/ i = Len(s) + 1
    BY <1>1
<1>3. \A i \in 1 .. Len(s) : s[i] # e
    BY <1>1 DEF Range
<1> HIDE DEF t
<1>4. Distinct(t)
    BY <1>1, <1>2, <1>3 DEF Distinct
<1>5. Range(t) = Range(s) \cup {e}
  <2>1. \A i \in 1 .. Len(s) : i \in 1 .. Len(s) + 1
    BY <1>1
  <2>2. Len(s) + 1 \in 1 .. Len(s) + 1
    BY <1>1
  <2>3. \A x : x \in Range(t) => x \in Range(s) \cup {e}
    BY <1>1, <1>2 DEF Range
  <2>4. \A x : x \in Range(s) \cup {e} => x \in Range(t)
    BY <1>1, <2>1, <2>2 DEF Range
  <2> QED  BY <2>3, <2>4
<1> QED  BY <1>1, <1>4, <1>5 DEF t

\* Whatever a section picks down its ranking: within its limit, and diverse.
LEMMA PicksAreSound ==
    ASSUME NEW section \in Range(Sections), Scored(section), NEW S \in SUBSET ReportEvents
    PROVE  /\ IsList(section, Picks(section, S), S)
           /\ Diverse(section, Range(Picks(section, S)))
<1> DEFINE r == Ranked(section, S)
           N == Cardinality(S)
           t == TakenOf(section, r)
           sound(n) == /\ IsList(section, t[n], S)
                       /\ Diverse(section, Range(t[n]))
                       /\ \A f \in Range(t[n]) : \E i \in 1 .. n : r[i] = f
           Bad == {n \in Nat : n <= N /\ ~sound(n)}
<1>1. /\ N \in Nat /\ r \in Seq(S) /\ Len(r) = N /\ Distinct(r) /\ DOMAIN r = 1 .. N
      /\ \A i \in 1 .. N : r[i] \in S
    BY RankedLists
<1>2. SectionMax[section] \in Nat \ {0}
    BY RulesAssumption
<1>3. /\ t[0] = <<>>
      /\ \A n \in 1 .. N : t[n] = TakeNext(section, r, t[n - 1], n)
    BY <1>1, TakenIsDown
<1> HIDE DEF t, r
<1>4. sound(0)
  <2>1. Range(<<>>) = {} /\ <<>> \in Seq(S) /\ Len(<<>>) = 0
    BY DEF Range
  <2>2. Distinct(<<>>)
    BY DEF Distinct
  <2>3. Diverse(section, {})
    BY DEF Diverse
  <2>4. IsList(section, <<>>, S)
    BY <1>2, <2>1, <2>2 DEF IsList
  <2>5. Range(t[0]) = {}
    BY <1>3, <2>1
  <2>6. IsList(section, t[0], S)
    BY <1>3, <2>4
  <2> QED  BY <2>3, <2>5, <2>6
<1>5. ASSUME NEW n \in 1 .. N, sound(n - 1) PROVE sound(n)
  <2> DEFINE p == t[n - 1]
  <2>1. n - 1 \in Nat /\ \A i \in 1 .. (n - 1) : i \in 1 .. n /\ i \in 1 .. N /\ i # n
    BY <1>1
  <2>2. /\ p \in Seq(S) /\ Distinct(p) /\ Len(p) <= SectionMax[section]
        /\ Diverse(section, Range(p)) /\ \A f \in Range(p) : \E i \in 1 .. (n - 1) : r[i] = f
    BY <1>5 DEF IsList
  <2>3. t[n] = TakeNext(section, r, p, n)
    BY <1>3
  <2>4. r[n] \in S
    BY <1>1
  <2>5. CASE Refused(section, p, r[n])
    <3>1. t[n] = p
      BY <2>3, <2>5 DEF TakeNext
    <3> QED  BY <2>1, <2>2, <3>1 DEF IsList
  <2>6. CASE ~Refused(section, p, r[n])
    <3>1. t[n] = Append(p, r[n])
      BY <2>3, <2>6 DEF TakeNext
    <3>2. ~(Len(p) >= SectionMax[section]) /\ ~Crowded(section, Range(p), r[n])
      BY <2>6, RefusedIsCrowded
    <3>3. r[n] \notin Range(p)
      BY <1>1, <2>1, <2>2 DEF Distinct
    <3> HIDE DEF p
    <3>4. /\ t[n] \in Seq(S) /\ Len(t[n]) = Len(p) + 1 /\ Distinct(t[n])
          /\ Range(t[n]) = Range(p) \cup {r[n]}
      BY <2>2, <2>4, <3>1, <3>3, ListGrows
    <3>5. Len(p) \in Nat /\ IsFiniteSet(Range(p))
      BY <2>2, ListRange
    <3>6. Diverse(section, Range(t[n]))
      BY <2>2, <3>2, <3>4, <3>5, DiverseGrows
    <3>7. \A f \in Range(t[n]) : \E i \in 1 .. n : r[i] = f
      BY <2>1, <2>2, <3>4
    <3> QED  BY <1>2, <3>2, <3>4, <3>5, <3>6, <3>7 DEF IsList
  <2> QED  BY <2>5, <2>6
<1>6. Bad = {}
  <2> SUFFICES ASSUME Bad # {} PROVE FALSE
    OBVIOUS
  <2>1. PICK m \in Bad : \A y \in Bad : m <= y
    BY SmallestNumber
  <2> HIDE DEF sound
  <2>2. m # 0
    BY <1>4, <2>1
  <2>3. m \in 1 .. N /\ m - 1 \in Nat /\ m - 1 <= N /\ m - 1 \notin Bad
    BY <1>1, <2>1, <2>2
  <2>4. sound(m - 1)
    BY <2>3
  <2> QED  BY <1>5, <2>1, <2>3, <2>4
<1>7. sound(N)
    BY <1>1, <1>6
<1> QED  BY <1>7 DEF t, r, Picks

\* Among places with scores one is the weakest, and the first of those.
LEMMA SmallestRange ==
    ASSUME NEW n \in Nat, NEW score \in [1 .. n -> Nat], NEW spots \in SUBSET (1 .. n), spots # {}
    PROVE  \E i \in spots : \A j \in spots : score[i] < score[j] \/ (score[i] = score[j] /\ i <= j)
<1> DEFINE values == {score[i] : i \in spots}
<1>1. values \in SUBSET Nat /\ values # {}
    OBVIOUS
<1>2. PICK v \in values : \A w \in values : v <= w
  <2> HIDE DEF values
  <2> QED  BY <1>1, SmallestNumber
<1> DEFINE least == {i \in spots : score[i] = v}
<1>3. least \in SUBSET Nat /\ least # {}
  <2>1. \E k \in spots : score[k] = v
    BY <1>2
  <2>2. \A k \in least : k \in Nat
    OBVIOUS
  <2>3. \E k : k \in least
    BY <2>1
  <2> HIDE DEF least
  <2> QED  BY <2>2, <2>3
<1>4. PICK i \in least : \A j \in least : i <= j
  <2> HIDE DEF least
  <2> QED  BY <1>3, SmallestNumber
<1>5. \A j \in spots : score[i] < score[j] \/ (score[i] = score[j] /\ i <= j)
  <2> TAKE j \in spots
  <2>1. score[i] = v /\ v <= score[j] /\ score[j] \in Nat /\ v \in Nat
    BY <1>1, <1>2, <1>4
  <2>2. score[j] = v => i <= j
    BY <1>4
  <2> QED  BY <2>1, <2>2
<1> QED  BY <1>4, <1>5

\* A forced event is in the section, which stays within its limit.
LEMMA ForceIncludes ==
    ASSUME NEW section \in Range(Sections), NEW S \in SUBSET ReportEvents, NEW s,
           IsList(section, s, S), NEW e \in S,
           \A f \in ReportEvents : enriched[f].sections[section] \in Nat
    PROVE  /\ IsList(section, ForceInclude(s, e, section), S)
           /\ e \in Range(ForceInclude(s, e, section))
<1> DEFINE others == {i \in DOMAIN s : ~IsPaper(enriched[s[i]])}
           spots == IF others = {} THEN DOMAIN s ELSE others
           score(i) == enriched[s[i]].sections[section]
           weakest == CHOOSE i \in spots : \A j \in spots :
                        score(i) < score(j) \/ (score(i) = score(j) /\ i <= j)
<1>1. /\ s \in Seq(S) /\ Distinct(s) /\ Len(s) <= SectionMax[section] /\ Len(s) \in Nat
      /\ DOMAIN s = 1 .. Len(s) /\ SectionMax[section] \in Nat \ {0}
      /\ \A i \in 1 .. Len(s) : s[i] \in S
    BY RulesAssumption DEF IsList
<1>2. ForceInclude(s, e, section) =
        IF e \in Range(s) THEN s
        ELSE IF Len(s) < SectionMax[section] THEN Append(s, e)
        ELSE [s EXCEPT ![weakest] = e]
    BY DEF ForceInclude
<1>3. CASE e \in Range(s)
    BY <1>2, <1>3
<1>4. CASE e \notin Range(s) /\ Len(s) < SectionMax[section]
  <2>1. ForceInclude(s, e, section) = Append(s, e)
    BY <1>2, <1>4
  <2>2. /\ Append(s, e) \in Seq(S) /\ Len(Append(s, e)) = Len(s) + 1 /\ Distinct(Append(s, e))
        /\ Range(Append(s, e)) = Range(s) \cup {e}
    BY <1>1, <1>4, ListGrows
  <2> QED  BY <1>1, <1>4, <2>1, <2>2 DEF IsList
<1>5. CASE e \notin Range(s) /\ ~(Len(s) < SectionMax[section])
  <2>1. ForceInclude(s, e, section) = [s EXCEPT ![weakest] = e]
    BY <1>2, <1>5
  <2>2. spots \in SUBSET (1 .. Len(s)) /\ spots # {}
    BY <1>1, <1>5
  <2> DEFINE marks == [i \in 1 .. Len(s) |-> score(i)]
  <2>3. marks \in [1 .. Len(s) -> Nat]
    BY <1>1
  <2> HIDE DEF spots
  <2>4. \E i \in spots : \A j \in spots : marks[i] < marks[j] \/ (marks[i] = marks[j] /\ i <= j)
    <3> PICK n \in Nat : n = Len(s)
      BY <1>1
    <3> HIDE DEF marks
    <3>1. marks \in [1 .. n -> Nat] /\ spots \in SUBSET (1 .. n)
      BY <2>2, <2>3
    <3> QED  BY <2>2, <3>1, SmallestRange
  <2>5. \E i \in spots : \A j \in spots : score(i) < score(j) \/ (score(i) = score(j) /\ i <= j)
    BY <2>2, <2>4
  <2>6. weakest \in spots
    <3> HIDE DEF score
    <3> QED  BY <2>5, Zenon
  <2>7. PICK w \in 1 .. Len(s) : w = weakest
    BY <2>2, <2>6
  <2> DEFINE t == [s EXCEPT ![w] = e]
  <2>8. ForceInclude(s, e, section) = t
    BY <2>1, <2>7
  <2>9. /\ t \in Seq(S) /\ Len(t) = Len(s)
        /\ \A j \in 1 .. Len(s) : t[j] = IF j = w THEN e ELSE s[j]
        /\ DOMAIN t = 1 .. Len(s)
    BY <1>1, ExceptSeq
  <2> HIDE DEF t
  <2>10. Distinct(t)
    <3>1. \A j \in 1 .. Len(s) : s[j] # e
      BY <1>1, <1>5 DEF Range
    <3> QED  BY <1>1, <2>9, <3>1 DEF Distinct
  <2>11. e \in Range(t)
    BY <2>9 DEF Range
  <2> QED  BY <1>1, <2>8, <2>9, <2>10, <2>11 DEF IsList
<1> QED  BY <1>3, <1>4, <1>5

\* What a section that wants papers shows of the events S left to it.
ShowsPapers(section, S, T) ==
    LET good == GoodPapers(section, S)
    IN  /\ good # {} => \E e \in T : IsPaper(enriched[e])
        /\ (\E e \in good : IsTrending(enriched[e])) => \E e \in T : IsTrending(enriched[e])

LEMMA TrendingIsPaper == \A e : IsTrending(e) => IsPaper(e)
BY DEF IsTrending, IsPaper, PaperPlatforms

\* After ShowOne a wanted event is shown, or there is no good one.
LEMMA ShowsOne ==
    ASSUME NEW section \in Range(Sections), Scored(section), NEW S \in SUBSET ReportEvents,
           \A f \in ReportEvents : enriched[f].sections[section] \in Nat,
           NEW s, IsList(section, s, S), NEW wanted
    PROVE  /\ IsList(section, ShowOne(section, s, S, wanted), S)
           /\ Range(ShowOne(section, s, S, wanted)) \cap wanted # {}
                 \/ GoodPapers(section, S) \cap wanted = {}
           /\ \/ ShowOne(section, s, S, wanted) = s
              \/ Range(ShowOne(section, s, S, wanted)) \cap wanted # {}
<1> DEFINE good == GoodPapers(section, S) \cap wanted
           e == Ranked(section, good)[1]
<1>1. ShowOne(section, s, S, wanted) =
        IF good = {} \/ Range(s) \cap wanted # {} THEN s ELSE ForceInclude(s, e, section)
    BY DEF ShowOne
<1>2. good \in SUBSET S /\ good \in SUBSET ReportEvents /\ good \subseteq wanted
    BY DEF GoodPapers
<1> HIDE DEF good
<1>3. CASE good = {} \/ Range(s) \cap wanted # {}
    BY <1>1, <1>3 DEF good
<1>4. CASE ~(good = {} \/ Range(s) \cap wanted # {})
  <2>1. /\ Cardinality(good) \in Nat /\ IsFiniteSet(good)
        /\ Ranked(section, good) \in Seq(good) /\ Len(Ranked(section, good)) = Cardinality(good)
    BY <1>2, RankedLists
  <2>2. Cardinality(good) # 0
    BY <1>4, <2>1, FS_EmptySet
  <2>3. e \in good
    BY <2>1, <2>2
  <2> HIDE DEF e
  <2>4. /\ IsList(section, ForceInclude(s, e, section), S)
        /\ e \in Range(ForceInclude(s, e, section))
    BY <1>2, <2>3, ForceIncludes
  <2> QED  BY <1>1, <1>2, <1>4, <2>3, <2>4
<1> QED  BY <1>3, <1>4

\* A trending paper may take the place of the only paper: it is one itself.
LEMMA PapersAreShown ==
    ASSUME NEW section \in Range(Sections), Scored(section), NEW S \in SUBSET ReportEvents,
           \A f \in ReportEvents : enriched[f].sections[section] \in Nat
    PROVE  /\ IsList(section, WithPapers(section, S), S)
           /\ ShowsPapers(section, S, Range(WithPapers(section, S)))
<1> DEFINE papers == {e \in S : IsPaper(enriched[e])}
           trending == {e \in S : IsTrending(enriched[e])}
           one == ShowOne(section, Picks(section, S), S, papers)
           two == ShowOne(section, one, S, trending)
           T == Range(two)
           shown == Ranked(section, T)
<1>1. IsList(section, Picks(section, S), S)
    BY PicksAreSound
<1>2. /\ IsList(section, one, S)
      /\ Range(one) \cap papers # {} \/ GoodPapers(section, S) \cap papers = {}
  <2> HIDE DEF papers
  <2> QED  BY <1>1, ShowsOne
<1>3. /\ IsList(section, two, S)
      /\ Range(two) \cap trending # {} \/ GoodPapers(section, S) \cap trending = {}
      /\ two = one \/ Range(two) \cap trending # {}
  <2> HIDE DEF trending, one
  <2> QED  BY <1>2, ShowsOne
<1> HIDE DEF one, two
<1>4. /\ IsFiniteSet(T) /\ T \in SUBSET S /\ T \in SUBSET ReportEvents
      /\ Cardinality(T) = Len(two) /\ Len(two) <= SectionMax[section]
    BY <1>3, ListRange DEF IsList
<1>5. /\ Cardinality(T) \in Nat /\ shown \in Seq(T) /\ Len(shown) = Cardinality(T)
      /\ Distinct(shown) /\ Range(shown) = T
  <2> HIDE DEF T
  <2> QED  BY <1>4, RankedLists
<1>6. WithPapers(section, S) = SubSeq(shown, 1, Min({Len(shown), SectionMax[section]}))
    BY DEF WithPapers, one, two
<1> HIDE DEF shown, T
<1>7. WithPapers(section, S) = shown
  <2>1. PICK n \in Int, m \in Int : n = Len(shown) /\ m = SectionMax[section] /\ n <= m
    BY <1>4, <1>5, RulesAssumption
  <2>2. Min({n, m}) = n
    BY <2>1, MinOfTwo
  <2>3. SubSeq(shown, 1, Len(shown)) = shown
    BY <1>5, SubSeqFull
  <2> QED  BY <1>6, <2>1, <2>2, <2>3
<1>8. IsList(section, shown, S)
  <2>1. shown \in Seq(S)
    BY <1>4, <1>5, SeqMonotonic
  <2> QED  BY <1>4, <1>5, <2>1 DEF IsList
<1>9. ShowsPapers(section, S, T)
  <2>1. GoodPapers(section, S) \subseteq papers
    BY DEF GoodPapers
  <2>2. T \cap papers # {} \/ GoodPapers(section, S) = {}
    BY <1>2, <1>3, <2>1, TrendingIsPaper DEF T
  <2>3. T \cap trending # {} \/ GoodPapers(section, S) \cap trending = {}
    BY <1>3 DEF T
  <2>4. GoodPapers(section, S) \subseteq S
    BY DEF GoodPapers
  <2> QED  BY <2>2, <2>3, <2>4 DEF ShowsPapers
<1> QED  BY <1>5, <1>7, <1>8, <1>9

\* So are the scores of its sections.
LEMMA SectionScoresType ==
    ASSUME NEW s, NEW e,
           s.importance \in Int, s.source \in Int, s.freshness \in Int, s.relevance \in Int,
           s.novelty \in Int, s.action \in Int, s.risk \in Int
    PROVE  \A section \in Range(Sections) : SectionScores(s, e)[section] \in Nat
<1>1. PICK n \in Nat : n = Cardinality(Focuses(e))
    BY FocusCount
<1>2. PICK n4 \in Int : n4 = 4 * n
    OBVIOUS
<1>3. PICK bonus \in Int : bonus = Min({7, 4 * Cardinality(Focuses(e))})
    BY <1>1, <1>2, MinOfTwo
<1>4. PICK risk \in Int : risk = s.risk
    OBVIOUS
<1>5. PICK mild \in Int : mild = Min({s.risk, 2400})
    BY <1>4, MinOfTwo
<1>6. PICK paper \in Int : paper = If(IsPaper(e), 600)
    BY DEF If
<1>7. PICK code \in Int : code = If(IsReusable(e), 500)
    BY DEF If
<1>8. PICK t \in Int : t = (40 * s.importance + 14 * s.source + 22 * s.freshness
                + 14 * s.relevance + 10 * s.novelty - 45 * s.risk) \div 100 + 100 * bonus
    OBVIOUS
<1>9. PICK i \in Int : i = (32 * s.novelty + 28 * s.relevance + 10 * s.source
                + 18 * s.importance + 12 * s.freshness - 35 * s.risk) \div 100
                + 80 * bonus + paper
    OBVIOUS
<1>10. PICK d \in Int : d = (38 * s.action + 26 * s.novelty + 10 * s.source
                + 16 * s.relevance + 10 * s.importance - 30 * s.risk) \div 100
                + 65 * bonus + code
    OBVIOUS
<1>11. PICK w \in Int : w = (34 * s.importance + 18 * s.novelty + 16 * s.action
                + 14 * s.freshness + 10 * s.relevance + 8 * mild - 50 * (s.risk - mild)) \div 100
                + 90 * bonus
    OBVIOUS
<1>12. SectionScores(s, e) = [top_news |-> Clamp(t), insight |-> Clamp(i),
                              deep_asset |-> Clamp(d), watchlist |-> Clamp(w)]
    BY <1>3, <1>5, <1>6, <1>7, <1>8, <1>9, <1>10, <1>11 DEF SectionScores
<1>13. Clamp(t) \in Nat /\ Clamp(i) \in Nat /\ Clamp(d) \in Nat /\ Clamp(w) \in Nat
    BY ClampType
<1>14. Range(Sections) = {"top_news", "insight", "deep_asset", "watchlist"}
    BY DEF Range, Sections
<1> QED  BY <1>12, <1>13, <1>14

-----------------------------------------------------------------------------
(* The sections of a report                                                 *)

\* The sections that have chosen when a stage begins.
Filled(st) ==
    IF st = "insight" THEN {"top_news"}
    ELSE IF st = "deep_asset" THEN {"top_news", "insight"}
    ELSE IF st = "watchlist" THEN {"top_news", "insight", "deep_asset"}
    ELSE IF st = "done" THEN Range(Sections) ELSE {}

\* What the sections before it leave to a section.
Left(s) ==
    {e \in ReportEvents : IsCandidate(s, enriched[e])} \ UNION {Range(chosen[t]) : t \in Filled(s)}

WellChosen(s) ==
    /\ IsList(s, chosen[s], Left(s))
    /\ s \in {"top_news", "watchlist"} => Diverse(s, Range(chosen[s]))
    /\ s \in {"insight", "deep_asset"} => ShowsPapers(s, Left(s), Range(chosen[s]))

SectionsInv ==
    /\ PoolTypeOK
    /\ reportStage \in {"grow", "done"} \cup Range(Sections)
    /\ DOMAIN chosen = Range(Sections)
    /\ reportStage # "grow" => enriched = [e \in ReportEvents |-> Enriched(pool[e])]
    /\ \A s \in Range(Sections) \ Filled(reportStage) : chosen[s] = <<>>
    /\ \A s \in Filled(reportStage) : WellChosen(s)

LEMMA SectionsAre ==
    /\ Range(Sections) = {"top_news", "insight", "deep_asset", "watchlist"}
    /\ Len(Sections) = 4 /\ DOMAIN Sections = 1 .. 4
    /\ Sections[1] = "top_news" /\ Sections[2] = "insight"
    /\ Sections[3] = "deep_asset" /\ Sections[4] = "watchlist"
BY DEF Range, Sections

LEMMA EventsAreScored ==
    ASSUME PoolTypeOK, enriched = [e \in ReportEvents |-> Enriched(pool[e])],
           NEW section \in Range(Sections)
    PROVE  /\ Scored(section)
           /\ \A f \in ReportEvents : enriched[f].sections[section] \in Nat
<1>1. ASSUME NEW e \in ReportEvents
      PROVE  /\ enriched[e].sections[section] \in Nat
             /\ enriched[e].score.final \in Int /\ enriched[e].score.importance \in Int
             /\ enriched[e].score.source \in Int
  <2>1. PICK c \in EventCandidates : c = pool[e]
    BY DEF PoolTypeOK
  <2>2. /\ enriched[e].score = Scores(c)
        /\ enriched[e].sections = SectionScores(Scores(c), c)
    BY <2>1 DEF Enriched
  <2>3. PICK s : s = Scores(c)
    OBVIOUS
  <2>4. /\ s.importance \in Int /\ s.source \in Int /\ s.freshness \in Int /\ s.relevance \in Int
        /\ s.novelty \in Int /\ s.action \in Int /\ s.risk \in Int /\ s.final \in Int
    BY <2>3, PartsOfScores
  <2>5. SectionScores(s, c)[section] \in Nat
    BY <2>4, SectionScoresType
  <2> QED  BY <2>2, <2>3, <2>4, <2>5
<1>2. ASSUME NEW e \in ReportEvents PROVE PoolSize - e \in Int
    BY RulesAssumption DEF ReportEvents
<1>3. Scored(section)
    BY <1>1, <1>2 DEF Scored, SortKey
<1> QED  BY <1>1, <1>3

LEMMA SectionsInitially == ReportInit => SectionsInv
BY SectionsAre, RulesAssumption DEF ReportInit, SectionsInv, PoolTypeOK, Filled

\* Sections read of a state what the events are and what was chosen.
LEMMA SameEvents ==
    ASSUME UNCHANGED enriched
    PROVE  /\ \A section, S : Diverse(section, S)' <=> Diverse(section, S)
           /\ \A section, S, T : ShowsPapers(section, S, T)' <=> ShowsPapers(section, S, T)
BY DEF Diverse, OfEntity, OfType, OfPlatform, MainPlatform, ShowsPapers, GoodPapers

\* The sections choose one after another.
LEMMA OrderOfSections ==
    ASSUME NEW i \in DOMAIN Sections, NEW next,
           next = IF i = Len(Sections) THEN "done" ELSE Sections[i + 1]
    PROVE  /\ next \in {"done"} \cup Range(Sections) /\ Sections[i] \in Range(Sections)
           /\ Filled(next) = Filled(Sections[i]) \cup {Sections[i]}
           /\ Filled(next) \subseteq Range(Sections)
           /\ \A t \in Filled(Sections[i]) : t # Sections[i] /\ Sections[i] \notin Filled(t)
           /\ Sections[i] \notin Filled(Sections[i])
<1>1. i \in {1, 2, 3, 4}
    BY SectionsAre
<1>2. CASE i = 1
    BY <1>2, SectionsAre DEF Filled
<1>3. CASE i = 2
    BY <1>3, SectionsAre DEF Filled
<1>4. CASE i = 3
    BY <1>4, SectionsAre DEF Filled
<1>5. CASE i = 4
    BY <1>5, SectionsAre DEF Filled
<1> QED  BY <1>1, <1>2, <1>3, <1>4, <1>5

\* A section chooses among what is left, and leaves the earlier ones alone.
LEMMA ChooseStep ==
    ASSUME SectionsInv, NEW i \in DOMAIN Sections, Choose(i)
    PROVE  SectionsInv'
<1> DEFINE section == Sections[i]
           earlier == UNION {Range(chosen[s]) : s \in Range(Sections)}
           S == {e \in ReportEvents : IsCandidate(section, enriched[e])} \ earlier
           new == IF section \in {"top_news", "watchlist"} THEN Picks(section, S)
                  ELSE WithPapers(section, S)
<1>1. /\ reportStage = section /\ section \in Range(Sections) /\ reportStage # "grow"
      /\ reportStage' \in {"done"} \cup Range(Sections)
      /\ Filled(reportStage') = Filled(section) \cup {section} /\ Filled(reportStage') \subseteq Range(Sections)
      /\ \A t \in Filled(section) : t # section /\ section \notin Filled(t)
      /\ section \notin Filled(section)
  <2>1. /\ reportStage = section
        /\ reportStage' = IF i = Len(Sections) THEN "done" ELSE Sections[i + 1]
    BY DEF Choose
  <2>2. section # "grow"
    BY SectionsAre
  <2> QED  BY <2>1, <2>2, OrderOfSections
<1>2. /\ chosen' = [chosen EXCEPT ![section] = new]
      /\ UNCHANGED <<pool, enriched>>
    BY DEF Choose
<1>3. Left(section) = S
  <2>1. \A s \in Range(Sections) : s \in Filled(section) \/ Range(chosen[s]) = {}
    <3>1. \A s \in Range(Sections) : s \in Filled(section) \/ chosen[s] = <<>>
      BY <1>1 DEF SectionsInv
    <3>2. Range(<<>>) = {}
      BY DEF Range
    <3> QED  BY <3>1, <3>2
  <2>2. Filled(section) \subseteq Range(Sections)
    BY <1>1
  <2>3. earlier = UNION {Range(chosen[t]) : t \in Filled(section)}
    BY <2>1, <2>2
  <2> QED  BY <2>3 DEF Left
<1>4. S \in SUBSET ReportEvents
    OBVIOUS
<1>5. Scored(section) /\ \A f \in ReportEvents : enriched[f].sections[section] \in Nat
    BY <1>1, EventsAreScored DEF SectionsInv
<1> HIDE DEF S
<1>6. /\ IsList(section, new, S)
      /\ section \in {"top_news", "watchlist"} => Diverse(section, Range(new))
      /\ section \in {"insight", "deep_asset"} => ShowsPapers(section, S, Range(new))
  <2>1. CASE section \in {"top_news", "watchlist"}
    <3>1. new = Picks(section, S) /\ section \notin {"insight", "deep_asset"}
      BY <2>1
    <3> HIDE DEF new, section
    <3> QED  BY <1>1, <1>4, <1>5, <3>1, PicksAreSound
  <2>2. CASE section \notin {"top_news", "watchlist"}
    <3>1. new = WithPapers(section, S)
      BY <2>2
    <3> HIDE DEF new, section
    <3> QED  BY <1>1, <1>4, <1>5, <2>2, <3>1, PapersAreShown
  <2> QED  BY <2>1, <2>2
<1> HIDE DEF new, section
<1>7. /\ DOMAIN chosen = Range(Sections) /\ chosen'[section] = new
      /\ DOMAIN chosen' = Range(Sections)
      /\ \A t \in Range(Sections) : t # section => chosen'[t] = chosen[t]
    BY <1>1, <1>2 DEF SectionsInv
<1>8. ASSUME NEW t \in Filled(section) PROVE WellChosen(t)'
  <2>1. WellChosen(t) /\ t \in Range(Sections) /\ t # section /\ section \notin Filled(t)
    BY <1>1 DEF SectionsInv
  <2>2. Filled(t) \subseteq Range(Sections)
    BY SectionsAre DEF Filled
  <2>3. chosen'[t] = chosen[t]
    BY <1>7, <2>1
  <2>4. {Range(chosen'[u]) : u \in Filled(t)} = {Range(chosen[u]) : u \in Filled(t)}
    BY <1>7, <2>1, <2>2
  <2>5. Left(t)' = Left(t)
    BY <1>2, <2>4 DEF Left
  <2> QED  BY <1>2, <2>1, <2>3, <2>5, SameEvents DEF WellChosen
<1>9. WellChosen(section)'
  <2>1. {Range(chosen'[u]) : u \in Filled(section)} = {Range(chosen[u]) : u \in Filled(section)}
    BY <1>1, <1>7
  <2>2. Left(section)' = S
    BY <1>2, <1>3, <2>1 DEF Left
  <2> QED  BY <1>2, <1>6, <1>7, <2>2, SameEvents DEF WellChosen
<1>10. PoolTypeOK' /\ (reportStage' # "grow" => enriched' = [e \in ReportEvents |-> Enriched(pool'[e])])
    BY <1>1, <1>2 DEF SectionsInv, PoolTypeOK
<1>11. \A s \in Range(Sections) \ Filled(reportStage') : chosen'[s] = <<>>
    BY <1>1, <1>7 DEF SectionsInv
<1> QED  BY <1>1, <1>7, <1>8, <1>9, <1>10, <1>11 DEF SectionsInv

LEMMA SectionsStep ==
    ASSUME SectionsInv, [ReportNext]_reportVars
    PROVE  SectionsInv'
<1>1. CASE UNCHANGED reportVars
  <2>1. \A s : WellChosen(s)' <=> WellChosen(s)
    <3>1. \A s : Left(s)' = Left(s)
      BY <1>1 DEF reportVars, Left
    <3> QED  BY <1>1, <3>1, SameEvents DEF reportVars, WellChosen
  <2> QED  BY <1>1, <2>1 DEF reportVars, SectionsInv, PoolTypeOK
<1>2. CASE ScoreAll
  <2>1. reportStage = "grow" /\ reportStage' = "top_news" /\ UNCHANGED <<pool, chosen>>
        /\ enriched' = [e \in ReportEvents |-> Enriched(pool[e])]
    BY <1>2, SectionsAre DEF ScoreAll
  <2>2. Filled("grow") = {} /\ Filled("top_news") = {}
    BY DEF Filled
  <2> QED  BY <2>1, <2>2, SectionsAre DEF SectionsInv, PoolTypeOK
<1>3. CASE \E i \in DOMAIN Sections : Choose(i)
    BY <1>3, ChooseStep
<1>4. CASE \E p \in {"arxiv", "blog", "openai", "reddit", "reuters"}, age \in {-1, 12, 100},
              confidence \in {"low", "high"}, words \in {pool[1].words, pool[1].words \cup {"again"}},
              title \in {"fits", "other"}, at \in {1, Len(pool[1].titles) + 1} :
                 Join(p, age, confidence, words, title, at)
  <2>1. reportStage = "grow" /\ UNCHANGED <<reportStage, chosen>>
    BY <1>4 DEF Join
  <2>2. PoolTypeOK'
    BY PoolStep DEF SectionsInv
  <2>3. Filled("grow") = {}
    BY DEF Filled
  <2> QED  BY <2>1, <2>2, <2>3 DEF SectionsInv
<1> QED  BY <1>1, <1>2, <1>3, <1>4, Zenon DEF ReportNext

LEMMA SectionsSound == SectionsInv => SectionsHold
<1> SUFFICES ASSUME SectionsInv, reportStage = "done" PROVE SectionsHold
    BY DEF SectionsHold
<1> DEFINE shown(s) == Range(chosen[s])
<1>1. \A s \in Range(Sections) : WellChosen(s)
    BY DEF SectionsInv, Filled
<1>2. ASSUME NEW s \in Range(Sections)
      PROVE  /\ shown(s) \subseteq Left(s) /\ Len(chosen[s]) <= SectionMax[s]
             /\ Cardinality(shown(s)) = Len(chosen[s])
    BY <1>1, ListRange DEF WellChosen, IsList
<1>3. \A s \in Range(Sections) : \A t \in Filled(s) : shown(s) \cap shown(t) = {}
    BY <1>2 DEF Left
<1>4. \A s, t \in Range(Sections) : s # t => t \in Filled(s) \/ s \in Filled(t)
    BY SectionsAre DEF Filled
<1>5. \A s, t \in Range(Sections) : s # t => shown(s) \cap shown(t) = {}
  <2> HIDE DEF shown
  <2> QED  BY <1>3, <1>4
<1>6. \A s \in Range(Sections) : \A e \in shown(s) : enriched[e].status # "needs_review"
    BY <1>2 DEF Left, IsCandidate
<1>7. Diverse("top_news", shown("top_news")) /\ Diverse("watchlist", shown("watchlist"))
    BY <1>1, SectionsAre DEF WellChosen
<1>8. /\ ShowsPapers("insight", Left("insight"), shown("insight"))
      /\ ShowsPapers("deep_asset", Left("deep_asset"), shown("deep_asset"))
    BY <1>1, SectionsAre DEF WellChosen
<1>9. /\ Left("insight") = {e \in ReportEvents : IsCandidate("insight", enriched[e])}
                              \ UNION {shown(t) : t \in {"top_news"}}
      /\ Left("deep_asset") = {e \in ReportEvents : IsCandidate("deep_asset", enriched[e])}
                                 \ UNION {shown(t) : t \in {"top_news", "insight"}}
    BY DEF Left, Filled
<1> QED  BY <1>2, <1>5, <1>6, <1>7, <1>8, <1>9 DEF SectionsHold, ShowsPapers

\* ReportRules!SectionsHold: whatever the events, their scores and the limits are,
\* assign_report_sections shows an event once and nothing that needs a review,
\* keeps every limit and the diversity of the top news and the watchlist, and
\* shows a good paper, and a trending one, wherever the section wants one
\* (reporter.py, _select_top_news to _dedupe_keep_order).
THEOREM SectionsStayInOrder == RulesSpec => []SectionsHold
<1>1. SectionsInv /\ [ReportNext]_reportVars => SectionsInv'
    BY SectionsStep
<1> QED  BY <1>1, SectionsInitially, SectionsSound, PTL DEF RulesSpec
=============================================================================
