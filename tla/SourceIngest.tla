---------------------------- MODULE SourceIngest ----------------------------
(***************************************************************************)
(* The configured sources, and the ingest of a run that goes by them.      *)
(*                                                                         *)
(* config.json is read, changed and written back by the CLI and by the     *)
(* threads of the web server without a lock; a write truncates the file    *)
(* before it fills it, and a file that cannot be parsed is read as {} and  *)
(* replaced by the defaults (repository/runtime_config_*.py,               *)
(* source_config.py).  A run reads it when it is planned and again in each *)
(* ingest task (core/config.py, service/ingest).                           *)
(***************************************************************************)
EXTENDS Integers, Sequences, FiniteSets

CONSTANTS
    Feeds,          \* rss sources
    Nows,           \* newsnow sources
    Sites,          \* site lists, each a web source with an extractor
    Seeds,          \* feeds and newsnow sources of the built-in files
    KnownSites,     \* sites of a configuration that is there at first
    OtherColumn,    \* newsnow sources of a column that is not configured
    CacheFile,      \* newsnow source -> its cache: "none", "rows", "other", "broken"
    ConfigWriters,  \* threads and processes that change the configuration
    ConfigOps,      \* what they may do
    ConfigBudget    \* how often (bound of the model)

Sources == Feeds \cup Nows \cup Sites
StepNames == {"rss", "newsnow", "site_lists"}
TheRun == "run"
Readers == ConfigWriters \cup {TheRun}

\* A source is a row of one of three lists; the built-in files name no site.
ASSUME SourceAssumption ==
    /\ Feeds \cap Nows = {} /\ Feeds \cap Sites = {} /\ Nows \cap Sites = {}
    /\ Seeds \subseteq Feeds \cup Nows
    /\ KnownSites \subseteq Sites
    /\ OtherColumn \subseteq Nows
    /\ TheRun \notin ConfigWriters
    /\ ConfigOps \subseteq {"add", "disable", "delete", "restore", "enabled", "include_all"}
    /\ ConfigBudget \in Nat

VARIABLES
    file,       \* config.json is "whole", "missing" or "torn"
    config,     \* the configuration in a whole file, Defaults for another
    spot,       \* reader -> its place in load, change and save
    data,       \* reader -> the configuration it works with
    mixed,      \* readers whose open file another one has written to
    order,      \* writer -> the operation and the source it is about
    runAt,      \* what the run does next
    plan,       \* the steps and sites the run has tasks for
    account,    \* source -> what came of it in the run
    todo,       \* sources the running ingest task has not fetched
    noticed,    \* sources active in every configuration the run has read
    configLeft  \* operations left

configVars == <<file, config, spot, data, mixed, order, configLeft>>
ingestVars == <<runAt, plan, account, todo, noticed>>
sourceVars == <<configVars, ingestVars>>

-----------------------------------------------------------------------------
(* Configurations                                                           *)

\* migrate_runtime_config and normalize_config of {}: default steps, no source.
Defaults == [row |-> [s \in Sources |-> "absent"], urls |-> {}, listing |-> {},
             steps |-> StepNames, all |-> FALSE]

\* build_initial_config: the built-in feeds and newsnow sources.
InitialConfig ==
    [Defaults EXCEPT !.row = [s \in Sources |-> IF s \in Seeds THEN "on" ELSE "absent"],
                     !.urls = Feeds \cap Seeds]

On(c, S) == {s \in S : c.row[s] = "on"}

\* enabled_rss_sources, enabled_newsnow_sources.
EnabledFeeds(c) == IF "rss" \in c.steps THEN On(c, Feeds) ELSE {}
EnabledNows(c) ==
    IF "newsnow" \in c.steps THEN {s \in On(c, Nows) : c.all \/ s \notin OtherColumn} ELSE {}

\* SiteListsStep.plan_tasks; requested are the sites of the run's options.  No
\* site requested and none listed: all of them.
PlannedSites(c, requested) ==
    LET sites == IF requested # {} THEN requested ELSE c.listing
    IN  IF "site_lists" \notin c.steps THEN {}
        ELSE {s \in On(c, Sites) : sites = {} \/ s \in sites}

Listed(c, s) == c.listing = {} \/ s \in c.listing

\* source_diagnostics: the rows it calls active.
ActiveSources(c) ==
    {s \in Sources :
        /\ c.row[s] = "on"
        /\ s \in Feeds => "rss" \in c.steps
        /\ s \in Nows => "newsnow" \in c.steps /\ (s \notin OtherColumn \/ c.all)
        /\ s \in Sites => "site_lists" \in c.steps /\ Listed(c, s)}

\* update_rss_item: the row is replaced by what the caller gives, so a disable
\* that gives the id only takes the url away.
SetFeed(c, s, state, url) ==
    [c EXCEPT !.row[s] = state, !.urls = IF url THEN @ \cup {s} ELSE @ \ {s}]

\* update_newsnow_item: an unknown id becomes a row too.
SetNow(c, s, state) == [c EXCEPT !.row[s] = state]

\* update_site_list_item: a new site joins the listing, and is the only one in a
\* listing that was empty: the sites that were there before are then not listed.
SetSite(c, s, state) ==
    [c EXCEPT !.row[s] = state,
              !.listing = IF c.row[s] = "absent" THEN @ \cup {s} ELSE @]

\* Faulty: a deleted source leaves the listing only.
DropListing(c, s) == [c EXCEPT !.urls = @ \ {s}, !.listing = @ \ {s}]

\* delete_rss_item, delete_site_list_item.
Drop(c, s) == [c EXCEPT !.row[s] = "absent", !.urls = @ \ {s}, !.listing = @ \ {s}]

\* merge_builtin_rss, merge_builtin_newsnow: what is there keeps its state.
Restore(c) ==
    [c EXCEPT !.row = [s \in Sources |-> IF s \in Seeds /\ c.row[s] = "absent"
                                         THEN "on" ELSE c.row[s]],
              !.urls = @ \cup (Feeds \cap Seeds)]

StepOfSource(s) ==
    IF s \in Feeds THEN "rss" ELSE IF s \in Nows THEN "newsnow" ELSE "site_lists"

\* apply_step_patch; the key is "enabled" or "include_all", and never "sites": a
\* listing that somebody narrows by hand is left out.
PatchStep(c, key, s) ==
    IF key = "enabled"
    THEN [c EXCEPT !.steps = IF StepOfSource(s) \in @ THEN @ \ {StepOfSource(s)}
                             ELSE @ \cup {StepOfSource(s)}]
    ELSE [c EXCEPT !.all = ~@]

Changed(c, op, s) ==
    IF op = "add" /\ s \in Feeds THEN SetFeed(c, s, "on", TRUE)
    ELSE IF op = "add" /\ s \in Nows THEN SetNow(c, s, "on")
    ELSE IF op = "add" THEN SetSite(c, s, "on")
    ELSE IF op = "disable" /\ s \in Feeds THEN SetFeed(c, s, "off", FALSE)
    ELSE IF op = "disable" /\ s \in Nows THEN SetNow(c, s, "off")
    ELSE IF op = "disable" THEN SetSite(c, s, "off")
    ELSE IF op = "delete" THEN IF s \in Nows THEN c ELSE Drop(c, s)
    ELSE IF op = "restore" THEN Restore(c)
    ELSE PatchStep(c, op, s)

-----------------------------------------------------------------------------
(* Load and save                                                            *)

NoOrder == <<>>

\* The file that is there at first may list all its sites, some, or, as the
\* default step does, none.
SourceInit ==
    /\ file \in {"missing", "whole"}
    /\ IF file = "missing" THEN config = Defaults
       ELSE \E listing \in SUBSET KnownSites :
              config = [InitialConfig EXCEPT !.listing = listing,
                          !.row = [s \in Sources |-> IF s \in KnownSites THEN "on" ELSE @[s]]]
    /\ spot = [r \in Readers |-> "idle"]
    /\ data = [r \in Readers |-> Defaults]
    /\ mixed = {}
    /\ order = [w \in ConfigWriters |-> NoOrder]
    /\ runAt = "plan" /\ plan = [steps |-> {}, listing |-> {}, sites |-> {}]
    /\ account = [s \in Sources |-> "none"]
    /\ todo = {} /\ noticed = Sources
    /\ configLeft = ConfigBudget

\* A command, a request, or a step of the run begins with load.
BeginOrder(w, op, s) ==
    /\ configLeft > 0 /\ spot[w] = "idle"
    /\ order' = [order EXCEPT ![w] = <<op, s>>]
    /\ spot' = [spot EXCEPT ![w] = "load"]
    /\ configLeft' = configLeft - 1
    /\ UNCHANGED <<file, config, data, mixed, ingestVars>>

\* load_runtime_config reads the file.  Where there is none the built-in sources
\* are written first; what cannot be parsed is {}, and its migration is saved.
Load(r) ==
    /\ spot[r] = "load"
    /\ data' = [data EXCEPT ![r] = IF file = "missing" THEN InitialConfig ELSE config]
    /\ spot' = [spot EXCEPT ![r] = IF file = "whole" THEN "have"
                               ELSE IF file = "missing" THEN "create" ELSE "migrate"]
    /\ UNCHANGED <<file, config, mixed, order, configLeft, ingestVars>>

\* _mutate: the change is made to what was loaded.
Change(w) ==
    /\ spot[w] = "have"
    /\ data' = [data EXCEPT ![w] = Changed(@, order[w][1], order[w][2])]
    /\ order' = [order EXCEPT ![w] = NoOrder]
    /\ spot' = [spot EXCEPT ![w] = "save"]
    /\ UNCHANGED <<file, config, mixed, configLeft, ingestVars>>

Opened == [create |-> "open-create", migrate |-> "open-migrate", save |-> "open-save"]

\* write_config: write_text opens the file, which empties it ...
Open(r) ==
    /\ spot[r] \in DOMAIN Opened
    /\ file' = "torn" /\ config' = Defaults
    /\ spot' = [spot EXCEPT ![r] = Opened[@]]
    /\ UNCHANGED <<data, mixed, order, configLeft, ingestVars>>

\* ... and fills it; of two that have it open the longer text shows behind the
\* shorter one.  What was created is read again.
Write(r) ==
    LET opened(x) == spot[x] \in {Opened[place] : place \in DOMAIN Opened}
    IN  /\ opened(r)
        /\ file' \in {"whole"} \cup (IF r \in mixed THEN {"torn"} ELSE {})
        /\ config' = IF file' = "whole" THEN data[r] ELSE Defaults
        /\ mixed' = (mixed \ {r}) \cup {x \in Readers \ {r} : opened(x)}
        /\ spot' = [spot EXCEPT ![r] = IF @ = "open-create" THEN "load"
                                   ELSE IF @ = "open-migrate" THEN "have" ELSE "idle"]
        /\ data' = IF spot[r] = "open-save" THEN [data EXCEPT ![r] = Defaults] ELSE data
        /\ UNCHANGED <<order, configLeft, ingestVars>>

-----------------------------------------------------------------------------
(* The ingest of a run                                                      *)

\* Each of its steps loads the configuration for itself.
RunLoads ==
    /\ runAt \in {"plan", "sites", "rss", "newsnow"}
    /\ spot[TheRun] = "idle"
    /\ spot' = [spot EXCEPT ![TheRun] = "load"]
    /\ UNCHANGED <<file, config, data, mixed, order, configLeft, ingestVars>>

Has(step) ==
    /\ runAt = step /\ spot[TheRun] = "have"
    /\ spot' = [spot EXCEPT ![TheRun] = "idle"]
    /\ noticed' = noticed \cap ActiveSources(data[TheRun])
    /\ UNCHANGED <<file, config, data, mixed, order, configLeft>>

\* build_config: the steps, and the options each passes to its tasks.
PlanSteps ==
    LET c == data[TheRun]
    IN  /\ Has("plan")
        /\ plan' = [plan EXCEPT !.steps = c.steps, !.listing = c.listing]
        /\ runAt' = IF "site_lists" \in c.steps THEN "sites" ELSE "rss"
        /\ UNCHANGED <<account, todo>>

PlanSites ==
    LET sites == PlannedSites(data[TheRun], plan.listing)
    IN  /\ Has("sites")
        /\ plan' = [plan EXCEPT !.sites = sites]
        /\ account' = [s \in Sources |-> IF s \in sites THEN "task" ELSE account[s]]
        /\ runAt' = "rss"
        /\ UNCHANGED todo

\* run_ingest_step_task, if the step was planned: the sources to fetch.
StartTask(step, fetch, S, next) ==
    /\ Has(step)
    /\ todo' = IF step \in plan.steps THEN S ELSE {}
    /\ runAt' = IF step \in plan.steps THEN fetch ELSE next
    /\ UNCHANGED <<plan, account>>

StartFeeds == StartTask("rss", "fetch-rss", EnabledFeeds(data[TheRun]), "newsnow")
StartNows == StartTask("newsnow", "fetch-newsnow", EnabledNows(data[TheRun]), "done")

\* Faulty: an error is passed over.
NotedItems(s, outcome) == IF outcome = "error" THEN account ELSE [account EXCEPT ![s] = outcome]

\* The result of a source, or the error that names it.
Noted(s, outcome) == [account EXCEPT ![s] = outcome]

\* One feed: its entries, or an error that names it.
FetchFeed(s) ==
    /\ runAt = "fetch-rss" /\ s \in todo
    /\ \E outcome \in (IF s \in data[TheRun].urls THEN {"items", "error"} ELSE {"error"}) :
          account' = Noted(s, outcome)
    /\ todo' = todo \ {s}
    /\ UNCHANGED <<configVars, runAt, plan, noticed>>

\* One newsnow source: after the last try the rows of the cache and an error, or
\* only an error.  A cache that is no JSON ends the task.
FetchNow(s) ==
    /\ runAt = "fetch-newsnow" /\ s \in todo
    /\ \/ /\ account' = Noted(s, "items")
          /\ todo' = todo \ {s}
          /\ UNCHANGED runAt
       \/ /\ CacheFile[s] # "broken"
          /\ account' = Noted(s, IF CacheFile[s] = "rows" THEN "cached" ELSE "error")
          /\ todo' = todo \ {s}
          /\ UNCHANGED runAt
       \/ /\ CacheFile[s] = "broken"
          /\ account' = [n \in Sources |-> IF n \in Nows THEN "failed" ELSE account[n]]
          /\ todo' = {}
          /\ runAt' = "done"
    /\ UNCHANGED <<configVars, plan, noticed>>

\* The items and the checkpoint are written; other tasks follow.
EndTask ==
    /\ runAt \in {"fetch-rss", "fetch-newsnow"} /\ todo = {}
    /\ runAt' = IF runAt = "fetch-rss" THEN "newsnow" ELSE "done"
    /\ UNCHANGED <<configVars, plan, account, todo, noticed>>

\* What an operation is about: a source, a step, named by one of its sources, or
\* the whole configuration.
Targets(op) ==
    LET oneOf(S) == IF S = {} THEN {} ELSE {CHOOSE s \in S : TRUE}
    IN  IF op = "enabled" THEN UNION {oneOf(S) : S \in {Feeds, Nows, Sites}}
        ELSE IF op \in {"restore", "include_all"} THEN oneOf(Sources)
        ELSE Sources

SourceNext ==
    \/ \E w \in ConfigWriters, op \in ConfigOps : \E s \in Targets(op) : BeginOrder(w, op, s)
    \/ \E r \in Readers : Load(r) \/ Open(r) \/ Write(r)
    \/ \E w \in ConfigWriters : Change(w)
    \/ RunLoads \/ PlanSteps \/ PlanSites \/ StartFeeds \/ StartNows
    \/ \E s \in Sources : FetchFeed(s) \/ FetchNow(s)
    \/ EndTask

SourceSpec == SourceInit /\ [][SourceNext]_sourceVars

-----------------------------------------------------------------------------
\* However the writes interleave, the sources that the diagnostics call active
\* are those that a run planned from the same file fetches; and the listing that
\* each change keeps hides no site that was added, deleted and added again, or
\* disabled and enabled meanwhile: an enabled site that no run fetches is one of
\* the file that was there at first.
ActiveIsIngested ==
    file = "whole" =>
        /\ ActiveSources(config) = EnabledFeeds(config) \cup EnabledNows(config)
                              \cup PlannedSites(config, config.listing)
        /\ "site_lists" \in config.steps =>
              On(config, Sites) \ ActiveSources(config) \subseteq KnownSites

\* A source that is active in every configuration that the steps of the run have
\* read is accounted for when its step is over: by items, by an error, by a task
\* of its own, or by the failure of its task.
SourcesAccounted ==
    LET over == IF runAt = "done" THEN Sources
                ELSE IF runAt \in {"newsnow", "fetch-newsnow"} THEN Feeds \cup Sites
                ELSE IF runAt \in {"rss", "fetch-rss"} THEN Sites ELSE {}
    IN  \A s \in noticed \cap over : account[s] # "none"
=============================================================================
