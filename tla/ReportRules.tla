----------------------------- MODULE ReportRules -----------------------------
(***************************************************************************)
(* From the events of a run to the sections of its report: an event grows  *)
(* while items are assigned to it (service/classify/event_state_ops.py);   *)
(* then it is classified, scored and verified (service/report/stages),     *)
(* and the sections choose their events one after another                  *)
(* (service/report/reporter.py).                                           *)
(*                                                                         *)
(* A score is a number of hundredths, as the weights are.  Of the texts    *)
(* the model keeps the word lists they hit: every list is one word.  The   *)
(* platforms stand for the kinds of source the rules tell apart.           *)
(***************************************************************************)
EXTENDS Integers, Sequences, FiniteSets, FiniteSetsExt, SequencesExt

CONSTANTS
    Profiles,     \* what an event may look like before it grows
    PoolSize,     \* number of events of the run
    SectionMax,   \* REPORT_LIMITS: section -> number of events
    Joins         \* items assigned to the first event (bound of the model)

VARIABLES
    reportStage,  \* "grow", then the section chosen next, then "done"
    pool,         \* event -> EventCandidate
    enriched,     \* event -> EnrichedEvent
    chosen,       \* section -> the events it shows, in order
    joins         \* items left to join

reportVars == <<reportStage, pool, enriched, chosen, joins>>

ReportEvents == 1 .. PoolSize
Sections == <<"top_news", "insight", "deep_asset", "watchlist">>

\* The platforms as record.platforms sorts them.
Platforms == <<"36kr_ai", "arxiv", "blog", "huggingface_papers_trending",
               "openai", "reddit", "reuters">>

SourceKind(p) ==
    IF p \in {"arxiv", "huggingface_papers_trending", "openai"} THEN "official"
    ELSE IF p = "reuters" THEN "authority_media"
    ELSE IF p = "36kr_ai" THEN "chinese_media"
    ELSE IF p = "reddit" THEN "community" ELSE "unknown"

PlatformScore == [official |-> 94, authority_media |-> 86, chinese_media |-> 78,
                  community |-> 64, unknown |-> 62]

ImportanceBase ==
    [model_release |-> 92, policy |-> 88, hardware |-> 86, infrastructure |-> 84,
     product_release |-> 78, partnership |-> 76, legal |-> 74, acquisition |-> 72,
     funding |-> 70, research |-> 68, open_source |-> 68, tooling |-> 66,
     benchmark |-> 64, company_business |-> 58, company_policy |-> 56, rumor |-> 45,
     unknown |-> 45]

NewsTypes == {"model_release", "product_release", "policy", "partnership", "funding",
              "acquisition", "hardware", "infrastructure", "legal", "company_business",
              "company_policy"}
PaperTypes == {"research", "benchmark", "paper"}
PaperPlatforms == {"arxiv", "huggingface_papers_trending"}

Words == {"ai", "chip", "bio", "code", "method", "release", "again", "course",
          "garbled", "reportedly"}
\* A title of a source has a word of the label, or none of them, or is no text.
Titles == {"fits", "other", "empty"}
EventCandidates == [type : DOMAIN ImportanceBase, platforms : SUBSET Range(Platforms),
                    members : Nat, confidence : {"low", "mid", "high"}, age : Nat \cup {-1},
                    words : SUBSET Words, titles : Seq(Titles), links : BOOLEAN, entity : STRING]

ASSUME RulesAssumption ==
    /\ Profiles \subseteq EventCandidates
    /\ PoolSize \in Nat \ {0}
    /\ SectionMax \in [Range(Sections) -> Nat \ {0}]
    /\ Joins \in Nat

Clamp(x) == Max({0, Min({10000, x})})
\* _has_possible_mismatch: none of the titles at the front fits.
Shown(titles) == {titles[i] : i \in {j \in DOMAIN titles : j <= 5}}
Mismatch(c) == "other" \in Shown(c.titles) /\ "fits" \notin Shown(c.titles)

If(condition, points) == IF condition THEN points ELSE 0
Kinds(c) == {SourceKind(p) : p \in c.platforms}

-----------------------------------------------------------------------------
(* One event: classifier.py, scorer.py, verifier.py.  A candidate has a     *)
(* type, platforms, members, a confidence of three levels, the hours since  *)
(* its latest item (-1 for none), its words, the titles of its items in the *)
(* order of the items, links, and the entity that comes first.              *)

Layer(c) ==
    IF c.type = "rumor" THEN "noise"
    ELSE IF c.type \in NewsTypes THEN "news"
    ELSE IF c.type \in PaperTypes \/ "method" \in c.words THEN "insight"
    ELSE IF c.type \in {"open_source", "tooling"} \/ "code" \in c.words THEN "deep_asset"
    ELSE "news"

Focuses(c) == c.words \cap {"chip", "bio"}
IsPaperSignal(c) ==
    \/ c.platforms \cap PaperPlatforms # {}
    \/ c.type \in {"research", "benchmark"} /\ "method" \in c.words

Importance(c) ==
    LET n == Cardinality(c.platforms)
        high == {"model_release", "policy", "hardware", "infrastructure", "partnership", "legal"}
        score == ImportanceBase[c.type] + If(n >= 2, Min({8, 3 * n}))
                 + If(c.type \in high /\ c.confidence = "high", 5) + If(c.members >= 4, 4)
                 + 8 * Cardinality(Focuses(c)) + If(Cardinality(Focuses(c)) = 2, 3)
                 - If(c.confidence = "low", 10)
    IN  Clamp(100 * score)

\* Faulty: several platforms are worth what the weakest of them is.
SourceOfWeakest(c) ==
    LET n == Cardinality(c.platforms)
        base == IF n = 0 THEN 25 ELSE Min({PlatformScore[k] : k \in Kinds(c)})
    IN  Clamp(100 * (base + If(n >= 2, Min({12, 4 * (n - 1)}))))

\* One platform alone has a lower ceiling; several add to the best of them.
SourceScore(c) ==
    LET n == Cardinality(c.platforms)
        base == IF n = 0 THEN 25 ELSE Max({PlatformScore[k] : k \in Kinds(c)})
        ceiling == [official |-> 90, authority_media |-> 84, chinese_media |-> 76,
                    community |-> 64, unknown |-> 62]
    IN  IF n <= 1 THEN 100 * Min({base} \cup {ceiling[k] : k \in Kinds(c)})
        ELSE Clamp(100 * (base + Min({12, 4 * (n - 1)}) + If("official" \in Kinds(c), 4)))

Freshness(c) ==
    100 * (IF c.age = -1 THEN 20 ELSE IF c.age <= 24 THEN 100 ELSE IF c.age <= 72 THEN 82
           ELSE IF c.age <= 168 THEN 62 ELSE IF c.age <= 720 THEN 34 ELSE 12)

Relevance(c) ==
    LET score == IF "ai" \in c.words THEN 88 ELSE IF Focuses(c) # {} THEN 82 ELSE 52
    IN  Clamp(100 * (score + If("chip" \in c.words, 10) + If("bio" \in c.words, 12)))

Actionability(c) ==
    LET types == {"model_release", "product_release", "open_source", "tooling", "benchmark",
                  "hardware", "infrastructure", "policy", "legal"}
    IN  Clamp(100 * (45 + If(c.type \in types, 22) + If("release" \in c.words, 18)
                     + If(c.type \in {"policy", "legal", "hardware", "infrastructure"}, 8)
                     + If("chip" \in c.words, 8) + If("bio" \in c.words, 7) + If(c.links, 5)))

Novelty(c) ==
    LET types == {"model_release", "product_release", "open_source", "research", "benchmark"}
    IN  Clamp(100 * (58 + If(c.type \in types, 14) + If("release" \in c.words, 16)
                     + If("chip" \in c.words, 3) + If("bio" \in c.words, 5)
                     - If("again" \in c.words, 14) + If(c.members >= 5, 4)))

Risk(c) ==
    LET single == Cardinality(c.platforms) <= 1
    IN  100 * Min({40, If(single /\ "official" \notin Kinds(c), 2)
                       + If(single /\ "community" \in Kinds(c), 3)
                       + If(c.confidence = "low", 8) + If(c.age = -1, 6) + If(Mismatch(c), 18)})

\* score_event: the parts, and their weighted sum less the risk.
Scores(c) ==
    LET paper == IsPaperSignal(c)
        importance == Clamp(Importance(c) + If(paper, 500))
        relevance == Clamp(Relevance(c) + If(paper, 600))
        novelty == Clamp(Novelty(c) + If(paper, 500))
        action == Clamp(Actionability(c) + If(paper, IF "code" \in c.words THEN 800 ELSE 300))
    IN  [importance |-> importance, source |-> SourceScore(c), freshness |-> Freshness(c),
         relevance |-> relevance, novelty |-> novelty, action |-> action, risk |-> Risk(c),
         final |-> Clamp((32 * importance + 12 * SourceScore(c) + 16 * Freshness(c)
                          + 17 * relevance + 12 * action + 11 * novelty) \div 100 - Risk(c))]

VerifyStatus(c) ==
    IF "garbled" \in c.words \/ c.age = -1 \/ Mismatch(c) THEN "needs_review"
    ELSE IF "reportedly" \in c.words THEN "rumor"
    ELSE IF "community" \in Kinds(c) /\ Cardinality(c.platforms) = 1 THEN "single_source"
    ELSE IF "official" \in Kinds(c) THEN "verified"
    ELSE IF /\ Cardinality(c.platforms) >= 2
            /\ Kinds(c) \cap {"authority_media", "chinese_media"} # {} THEN "verified"
    ELSE "single_source"

-----------------------------------------------------------------------------
(* reporter.py: who may be in a section, and how a section ranks them.      *)

IsPaper(e) ==
    \/ e.platforms \cap PaperPlatforms # {}
    \/ e.type \in PaperTypes /\ "method" \in e.words
IsTrending(e) == "huggingface_papers_trending" \in e.platforms
IsReusable(e) == "code" \in e.words

SectionScores(s, e) ==
    LET bonus == Min({7, 4 * Cardinality(Focuses(e))})
        mild == Min({s.risk, 2400})
    IN  [top_news |-> Clamp((40 * s.importance + 14 * s.source + 22 * s.freshness
                + 14 * s.relevance + 10 * s.novelty - 45 * s.risk) \div 100 + 100 * bonus),
         insight |-> Clamp((32 * s.novelty + 28 * s.relevance + 10 * s.source
                + 18 * s.importance + 12 * s.freshness - 35 * s.risk) \div 100
                + 80 * bonus + If(IsPaper(e), 600)),
         deep_asset |-> Clamp((38 * s.action + 26 * s.novelty + 10 * s.source
                + 16 * s.relevance + 10 * s.importance - 30 * s.risk) \div 100
                + 65 * bonus + If(IsReusable(e), 500)),
         watchlist |-> Clamp((34 * s.importance + 18 * s.novelty + 16 * s.action
                + 14 * s.freshness + 10 * s.relevance + 8 * mild - 50 * (s.risk - mild)) \div 100
                + 90 * bonus)]

\* build_report_draft, for one event.
Enriched(c) ==
    [layer |-> Layer(c), type |-> c.type, platforms |-> c.platforms, words |-> c.words,
     entity |-> c.entity, links |-> c.links, status |-> VerifyStatus(c), score |-> Scores(c),
     sections |-> SectionScores(Scores(c), c)]

\* Every section asks for something else; none takes what needs a review.
IsCandidate(section, e) ==
    LET s == e.score
        asset == /\ "course" \notin e.words
                 /\ e.type \in {"open_source", "tooling", "benchmark", "research"}
                       \/ e.layer \in {"insight", "deep_asset"}
                 /\ "code" \in e.words \/ "method" \in e.words \/ e.links
                 /\ \/ s.action >= 7000 \/ s.novelty >= 7200
                    \/ IsPaper(e) /\ s.final >= 5200
                 /\ s.risk <= 1800
        community == e.platforms # {} /\ \A p \in e.platforms : SourceKind(p) = "community"
        watched == {"rumor", "company_business", "company_policy", "funding", "partnership",
                    "product_release", "model_release"}
    IN  /\ e.status # "needs_review"
        /\ CASE section = "top_news" ->
                    /\ e.layer = "news" /\ e.status # "rumor"
                    /\ s.final >= 7200 /\ s.risk <= 1800
             [] section = "insight" ->
                    /\ e.status \in {"verified", "single_source"} /\ s.risk <= 1800
                    /\ \/ e.layer = "insight" /\ s.final >= 5800
                       \/ e.type \in PaperTypes /\ s.final >= 5600
                       \/ IsPaper(e) /\ s.final >= 5000 /\ s.source >= 7000
             [] section = "deep_asset" ->
                    asset /\ e.status \in {"verified", "single_source"} /\ s.final >= 6000
             [] OTHER ->
                    \/ e.status = "rumor" /\ s.importance >= 5500
                    \/ e.status = "single_source" /\ s.final >= 7400 /\ s.importance >= 7000
                    \/ community /\ s.final >= 6800 /\ s.importance >= 7000
                    \/ e.type \in watched /\ s.risk >= 1200 /\ s.final >= 6500

\* _sort_for_section: best first, and among equals as build_report_draft sorted.
SortKey(section, e) ==
    <<enriched[e].sections[section], enriched[e].score.final, enriched[e].score.importance,
      enriched[e].score.source, PoolSize - e>>

Before(section, a, b) ==
    \E i \in 1 .. 5 : /\ SortKey(section, a)[i] > SortKey(section, b)[i]
                      /\ \A j \in 1 .. (i - 1) : SortKey(section, a)[j] = SortKey(section, b)[j]

Ranked(section, S) ==
    [n \in 1 .. Cardinality(S) |->
        CHOOSE e \in S : Cardinality({f \in S : Before(section, f, e)}) = n - 1]

MainPlatform(e) == LET has == {i \in DOMAIN Platforms : Platforms[i] \in enriched[e].platforms}
                   IN  IF has = {} THEN "" ELSE Platforms[Min(has)]

TypeLimit(t) ==
    IF t \in {"product_release", "company_business", "funding", "partnership", "policy",
              "legal", "company_policy"} THEN 2 ELSE 3

OfType(S, t) == {f \in S : enriched[f].type = t}
OfEntity(S, n) == {f \in S : enriched[f].entity = n}
OfPlatform(S, p) == {f \in S : MainPlatform(f) = p}

\* _select_top_news takes few of a type, an entity, a platform; _dedupe_section
\* one of an entity; both up to the limit.
Refused(section, taken, e) ==
    LET like == OfEntity(Range(taken), enriched[e].entity)
        main == MainPlatform(e)
        type == enriched[e].type
    IN  \/ Len(taken) >= SectionMax[section]
        \/ enriched[e].entity # "" /\ Cardinality(like) >= IF section = "top_news" THEN 2 ELSE 1
        \/ /\ section = "top_news"
           /\ \/ Cardinality(OfType(Range(taken), type)) >= TypeLimit(type)
              \/ main # "" /\ Cardinality(OfPlatform(Range(taken), main)) >= 3

\* The events taken after the first n of a ranking.
TakenOf(section, ranking) ==
    LET taken[n \in 0 .. Len(ranking)] ==
            IF n = 0 THEN <<>>
            ELSE IF Refused(section, taken[n - 1], ranking[n]) THEN taken[n - 1]
            ELSE Append(taken[n - 1], ranking[n])
    IN  taken

Picks(section, S) == TakenOf(section, Ranked(section, S))[Cardinality(S)]

\* Faulty: the event is added at the end, and the limit may cut it off again.
AddLast(taken, e, section) == Append(taken, e)

\* _force_include_candidate: in a full section it takes the place of the
\* weakest event, of one that is no paper if there is one.
ForceInclude(taken, e, section) ==
    LET others == {i \in DOMAIN taken : ~IsPaper(enriched[taken[i]])}
        spots == IF others = {} THEN DOMAIN taken ELSE others
        score(i) == enriched[taken[i]].sections[section]
        weakest == CHOOSE i \in spots : \A j \in spots :
                        score(i) < score(j) \/ (score(i) = score(j) /\ i <= j)
    IN  IF e \in Range(taken) THEN taken
        ELSE IF Len(taken) < SectionMax[section] THEN Append(taken, e)
        ELSE [taken EXCEPT ![weakest] = e]

\* Papers good enough for a section: two of the sections want to show one.
GoodPapers(section, S) ==
    {e \in S : /\ IsPaper(enriched[e]) /\ enriched[e].sections[section] >= 5800
               /\ section = "deep_asset" => IsReusable(enriched[e])}

\* A section without any of the wanted events gets the best good paper of them.
ShowOne(section, taken, S, wanted) ==
    LET good == GoodPapers(section, S) \cap wanted
    IN  IF good = {} \/ Range(taken) \cap wanted # {} THEN taken
        ELSE ForceInclude(taken, Ranked(section, good)[1], section)

\* _select_research_section and _select_asset_section.
WithPapers(section, S) ==
    LET papers == {e \in S : IsPaper(enriched[e])}
        trending == {e \in S : IsTrending(enriched[e])}
        withPaper == ShowOne(section, Picks(section, S), S, papers)
        shown == Ranked(section, Range(ShowOne(section, withPaper, S, trending)))
    IN  SubSeq(shown, 1, Min({Len(shown), SectionMax[section]}))

-----------------------------------------------------------------------------
ReportInit ==
    /\ reportStage = "grow"
    /\ pool \in [ReportEvents -> Profiles]
    /\ enriched = <<>>
    /\ chosen = [s \in Range(Sections) |-> <<>>]
    /\ joins = Joins

\* assign_item_to_event: a platform more or not, a member more, a later latest
\* time or not, the higher confidence, and other representative titles.  The
\* loader puts the title of the item where its index is among the others'.
Join(p, age, confidence, words, title, at) ==
    LET c == pool[1]
        level == [low |-> 1, mid |-> 2, high |-> 3]
    IN  /\ reportStage = "grow" /\ joins > 0
        /\ joins' = joins - 1
        /\ pool' = [pool EXCEPT ![1] =
              [c EXCEPT !.platforms = @ \cup {p}, !.members = @ + 1,
                        !.age = IF c.age = -1 \/ (age # -1 /\ age < c.age) THEN age ELSE c.age,
                        !.confidence = IF level[confidence] > level[@] THEN confidence ELSE @,
                        !.words = words, !.titles = InsertAt(@, at, title)]]
        /\ UNCHANGED <<reportStage, enriched, chosen>>

\* build_report_draft, up to the sort.
ScoreAll ==
    /\ reportStage = "grow"
    /\ reportStage' = Sections[1]
    /\ enriched' = [e \in ReportEvents |-> Enriched(pool[e])]
    /\ UNCHANGED <<pool, chosen, joins>>

\* assign_report_sections: each section chooses among the events that the
\* sections before it have left.
Choose(i) ==
    LET section == Sections[i]
        earlier == UNION {Range(chosen[s]) : s \in Range(Sections)}
        S == {e \in ReportEvents : IsCandidate(section, enriched[e])} \ earlier
    IN  /\ reportStage = section
        /\ chosen' = [chosen EXCEPT ![section] = IF section \in {"top_news", "watchlist"}
                                                THEN Picks(section, S) ELSE WithPapers(section, S)]
        /\ reportStage' = IF i = Len(Sections) THEN "done" ELSE Sections[i + 1]
        /\ UNCHANGED <<pool, enriched, joins>>

ReportNext ==
    \/ \E p \in {"arxiv", "blog", "openai", "reddit", "reuters"}, age \in {-1, 12, 100},
          confidence \in {"low", "high"}, words \in {pool[1].words, pool[1].words \cup {"again"}},
          title \in {"fits", "other"}, at \in {1, Len(pool[1].titles) + 1} :
            Join(p, age, confidence, words, title, at)
    \/ ScoreAll
    \/ \E i \in DOMAIN Sections : Choose(i)

RulesSpec == ReportInit /\ [][ReportNext]_reportVars

-----------------------------------------------------------------------------
\* Whatever ceilings, penalties and bonuses apply, and as long as the titles it
\* shows keep their words, a further source costs an event points only by its
\* title: where none fits, or where it pushes the one that fits out of the five
\* that score_event looks at.  Then it costs what a mismatch does and no more.
SourcesDemoteByTitle ==
    [][(pool' # pool /\ pool'[1].words = pool[1].words) =>
          LET c == pool[1]
              lost == Scores(c).final - Scores(pool'[1]).final
          IN  /\ lost <= 1800
              /\ lost > 0 => Len(c.titles) >= 5 \/ "fits" \notin Range(c.titles)]_reportVars

\* Few of a type, an entity and a platform are in the top news, one of an
\* entity in the watchlist.
Diverse(section, S) ==
    \A e \in S :
        LET name == enriched[e].entity
            main == MainPlatform(e)
        IN  /\ name # "" => Cardinality(OfEntity(S, name)) <= IF section = "top_news" THEN 2 ELSE 1
            /\ section = "top_news" =>
                  /\ Cardinality(OfType(S, enriched[e].type)) <= TypeLimit(enriched[e].type)
                  /\ main # "" => Cardinality(OfPlatform(S, main)) <= 3

\* A report shows an event once, keeps its limits, shows nothing that needs a
\* review, keeps the top news and the watchlist diverse, and in each section that
\* wants papers shows a good paper if there is one that no earlier section shows,
\* and a trending one likewise.
SectionsHold ==
    LET shown(s) == Range(chosen[s])
        left(s, earlier) == {e \in ReportEvents : IsCandidate(s, enriched[e])}
                                \ UNION {shown(t) : t \in earlier}
        papers(s, earlier) ==
            LET good == GoodPapers(s, left(s, earlier))
            IN  /\ good # {} => \E e \in shown(s) : IsPaper(enriched[e])
                /\ (\E e \in good : IsTrending(enriched[e]))
                      => \E e \in shown(s) : IsTrending(enriched[e])
    IN  reportStage = "done" =>
            /\ \A s, t \in Range(Sections) : s # t => shown(s) \cap shown(t) = {}
            /\ \A s \in Range(Sections) : /\ Len(chosen[s]) <= SectionMax[s]
                                          /\ Cardinality(shown(s)) = Len(chosen[s])
                                          /\ \A e \in shown(s) : enriched[e].status # "needs_review"
            /\ Diverse("top_news", shown("top_news")) /\ Diverse("watchlist", shown("watchlist"))
            /\ papers("insight", {"top_news"})
            /\ papers("deep_asset", {"top_news", "insight"})
=============================================================================
