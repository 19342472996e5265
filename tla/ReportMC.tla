------------------------------- MODULE ReportMC -------------------------------
(***************************************************************************)
(* From the news to the report for TLC: the events the news become, the    *)
(* calls of the models, the report node with its polish children, the      *)
(* rules its sections follow and the texts it writes, each on a small      *)
(* instance of its own.  They share no state: a behaviour is one of any    *)
(* one of them, as in ClassifyMC.                                          *)
(***************************************************************************)
EXTENDS NodeRuntimeMC, NewsEvents, ModelCalls, ReportRules, ReportText

VARIABLE part

allVars == <<part, vars, newsVars, callVars, reportVars, textVars>>

-----------------------------------------------------------------------------
(* Six kinds of event: an official release, a rumour, a paper none of whose *)
(* items fits, a well sourced paper, a trending one, and one of whose five *)
(* items only the last one fits.                                           *)

Ev(type, platforms, words) ==
    [type |-> type, platforms |-> platforms, words |-> words, members |-> 3,
     confidence |-> "low", age |-> 100, titles |-> <<"fits", "empty">>, links |-> TRUE,
     entity |-> ""]

Official == [Ev("model_release", {"openai"}, {"ai", "release"}) EXCEPT !.entity = "openai"]

SixKinds ==
    {Official,
     [Ev("model_release", {"reddit"}, {"ai", "reportedly"}) EXCEPT !.entity = "acme"],
     [Ev("research", {}, {"method", "ai", "chip", "code"})
        EXCEPT !.titles = <<"other">>, !.entity = "acme", !.age = -1],
     [Ev("research", {"reuters"}, {"ai", "chip", "bio", "code"})
        EXCEPT !.entity = "acme", !.confidence = "high", !.age = 12],
     Ev("research", {"huggingface_papers_trending"}, {"method", "ai", "code"}),
     [Ev("research", {"arxiv"}, {"ai", "method", "bio", "code"})
        EXCEPT !.members = 5, !.titles = <<"other", "other", "other", "other", "fits">>]}

\* A report that polishes its event, and one with nothing to say.
OneSelected == ("r1" :> {"b1"}) @@ ("r2" :> {})

Limits == ("top_news" :> 3) @@ ("insight" :> 1) @@ ("deep_asset" :> 1) @@ ("watchlist" :> 2)

-----------------------------------------------------------------------------
PartsInit ==
    /\ part \in {"news", "calls", "node", "rules", "text"}
    /\ NewsInit /\ CallsInit /\ Init /\ ReportInit /\ TextInit
    /\ part = "text" \/ llm
    /\ part = "rules" \/ pool = [e \in ReportEvents |-> Official]

PartsNext ==
    \/ part = "news" /\ NewsNext /\ UNCHANGED <<part, callVars, vars, reportVars, textVars>>
    \/ part = "calls" /\ CallsNext /\ UNCHANGED <<part, newsVars, vars, reportVars, textVars>>
    \/ part = "node" /\ Next /\ UNCHANGED <<part, newsVars, callVars, reportVars, textVars>>
    \/ part = "rules" /\ ReportNext /\ UNCHANGED <<part, newsVars, callVars, vars, textVars>>
    \/ part = "text" /\ TextNext /\ UNCHANGED <<part, newsVars, callVars, vars, reportVars>>

PartsSpec == PartsInit /\ [][PartsNext]_allVars
=============================================================================
