--------------------------- MODULE ExtractorRepair ---------------------------
(***************************************************************************)
(* The life of an extractor: it is scraped with, judged broken, repaired   *)
(* by an agent in a work directory of the repair, and replaced.            *)
(*                                                                         *)
(* WebSource says when the tasks of a repair run.  Here is what they do to *)
(* the files and to the records of the repairs, for one extractor: the     *)
(* extractors share nothing else.  A call of the queue or of the store is  *)
(* one action, and so is each of the file operations that a reader or a    *)
(* crash may separate.                                                     *)
(***************************************************************************)
EXTENDS Integers, FiniteSets

CONSTANTS
    Seconds,        \* length of a behaviour in seconds (bound of the model)
    Publishers,     \* who publishes: the repair "node", the "user", or both
    RepairOps,      \* commands
    RepairBudget    \* number of commands (bound of the model)

ASSUME RepairAssumption ==
    /\ Seconds \in Nat \ {0}
    /\ Publishers \subseteq {"node", "user"}
    /\ RepairOps \subseteq {"create", "retry", "delete", "enable", "remove", "restart"}
    /\ RepairBudget \in Nat

\* A repair and a version are named after the second they begin in.  A task of
\* the queue for a repair is registered by the node of a source, or by the user.
Repairs == 1 .. Seconds
RepairTasks == Repairs \X {"auto", "user"}

\* What an extractor's directory holds: the code that was there, the template of a
\* new one, what an agent has edited, what an agent calls fixed, or some of the
\* files of a copy or of a removal under way.
Code == {"old", "bootstrap", "edited", "fixed", "partial"}

\* fixed stands for needs_review as well.
Answers == {"fixed", "failed", "skipped_unrepairable", "garbled"}
Records == {"absent", "queued", "succeeded", "failed", "blocked"}
Steps == {"idle", "archive", "clear", "copy", "fill", "save"}

VARIABLES
    clock,      \* the second
    live,       \* extractors/<source>/current, "none" when it is not there
    enabled,    \* status in the metadata of the live extractor
    versions,   \* second -> the version archived under its tag
    record,     \* repair -> status in the store, which is in memory
    workDir,    \* repair -> current/extractor.py of its work directory
    answer,     \* repair -> result.json
    job,        \* task of the queue -> where it is
    promoting,  \* publisher -> its place in promote_repair_task
    subject,    \* publisher -> the task whose repair it promotes
    crossed,    \* whether a promotion has met another one, or an agent, at its draft
    opsLeft     \* commands left

fileVars == <<live, enabled, versions, workDir, answer>>
promoteVars == <<promoting, subject, crossed>>
repairVars == <<clock, fileVars, record, job, promoteVars, opsLeft>>

Jobs == {"none", "exec", "agent", "again", "node", "promoting", "stuck", "ended"}

RepairInit ==
    /\ clock = 1
    /\ live \in {"none", "old"}
    /\ enabled = TRUE
    /\ versions = [s \in Repairs |-> "none"]
    /\ record = [r \in Repairs |-> "absent"]
    /\ workDir = [r \in Repairs |-> "none"]
    /\ answer = [r \in Repairs |-> "none"]
    /\ job = [t \in RepairTasks |-> "none"]
    /\ promoting = [p \in Publishers |-> "idle"]
    /\ subject = [p \in Publishers |-> <<1, "user">>]
    /\ crossed = FALSE
    /\ opsLeft = RepairBudget

\* Who promotes the draft of a repair, and whether an agent works on it.
PromotersOf(r) == {p \in Publishers : promoting[p] # "idle" /\ subject[p][1] = r}
AgentAt(r) == \E t \in RepairTasks : t[1] = r /\ job[t] \in {"agent", "again"}

Tick ==
    /\ clock < Seconds
    /\ clock' = clock + 1
    /\ UNCHANGED <<fileVars, record, job, promoteVars, opsLeft>>

-----------------------------------------------------------------------------
(* Scraping                                                                 *)

\* What a run of the extractor says: its status, or "raises", and whether the
\* message has a word of BLOCKED_MARKERS or of NETWORK_MARKERS.
Reports ==
    [status : {"ok", "blocked", "network_error", "parse_error", "empty", "raises"},
     words  : SUBSET {"blocked", "network"}]

\* ExtractorRegistry.run: it cannot be read or loaded, it is disabled, or it runs;
\* of some of its files anything can come.  None of the messages of the registry
\* has a marker.
CanReport(report) ==
    live = "none" \/ ~enabled => report = [status |-> "raises", words |-> {}]

\* classify_exception
ByWords(words, otherwise) ==
    IF "blocked" \in words THEN "blocked"
    ELSE IF "network" \in words THEN "network_error" ELSE otherwise

\* run_extractor raises what classify_result has found, as a text that begins
\* with the kind, and classify_exception finds the kind again by the words.
FailureOf(report) == ByWords(report.words, "parse_error")

Unrepairable(kind) == kind \in {"blocked", "network_error"}

\* should_auto_repair, for a source whose repairs are enabled, after its last
\* attempt.
StartsRepair(report) == report.status # "ok" /\ ~Unrepairable(FailureOf(report))

-----------------------------------------------------------------------------
(* A repair is created                                                      *)

\* The draft begins with the live extractor, or with a template where the registry
\* has none that it can read.
Drafts ==
    IF live = "none" THEN {"bootstrap"}
    ELSE IF live = "partial" THEN {"bootstrap", "partial"} ELSE {live}

\* prepare_repair_workspace and create_repair_task.  A second creation in the
\* same second has the name of the first: it takes over its directory, where a
\* result.json stays, and its record.
Create ==
    /\ record' = [record EXCEPT ![clock] = "queued"]
    /\ \E draft \in Drafts : workDir' = [workDir EXCEPT ![clock] = draft]

\* Every repair of an extractor, and the run of its agent, take the key
\* extractor.repair:<source>.  What is registered anew while it runs no longer
\* counts.
KeyFree == \A t \in RepairTasks : job[t] \notin {"agent", "again", "promoting", "stuck"}

\* finish_failure creates, and the node of the source registers the task.  Two
\* sources may share an extractor (bound of the model: only the task that the
\* first of them registers in a second is followed).
Scrape ==
    /\ \E report \in Reports : CanReport(report) /\ StartsRepair(report)
    /\ Create
    /\ job' = [job EXCEPT ![<<clock, "auto">>] = IF @ = "none" THEN "exec" ELSE @]
    /\ UNCHANGED <<clock, live, enabled, versions, answer, promoteVars, opsLeft>>

-----------------------------------------------------------------------------
(* The agent runs                                                           *)

\* run_task_once loads the record (a KeyError fails the task, and the node blocks
\* on it); the status running is in the loaded copy only.  The key keeps it from
\* the promotion of a node, but not from that of the user.  (The run of the node
\* before, which registers the agent's task, is the same step.)
StartAgent(t) ==
    /\ job[t] = "exec"
    /\ KeyFree
    /\ job' = [job EXCEPT ![t] = IF record[t[1]] = "absent" THEN "ended" ELSE "agent"]
    /\ crossed' = (crossed \/ PromotersOf(t[1]) # {})
    /\ UNCHANGED <<clock, fileVars, record, promoting, subject, opsLeft>>

\* External: the agent works on the draft in place, at any time of its run.
EditDraft(t) ==
    /\ job[t] \in {"agent", "again"}
    /\ workDir[t[1]] # "none"
    /\ workDir' = [workDir EXCEPT ![t[1]] = "edited"]
    /\ UNCHANGED <<clock, live, enabled, versions, answer, record, job, promoteVars, opsLeft>>

\* validate_final_result, apply_repair_final_result
StatusOf(a) ==
    IF a = "fixed" THEN "succeeded"
    ELSE IF a = "skipped_unrepairable" THEN "blocked"
    ELSE "failed"

\* run_repair_task, and the copy is saved over whatever the record has become.
\* External: an agent that exits with 0 has written its answer, about the draft as
\* it is then, and takes more than a second.  It may be killed, or find its
\* directory removed.
EndAgent(t) ==
    LET r == t[1]
    IN  /\ job[t] \in {"agent", "again"}
        /\ clock > r
        /\ job' = [job EXCEPT ![t] = IF @ = "again" THEN "exec" ELSE "node"]
        /\ \/ /\ workDir[r] # "none"
              /\ \E a \in Answers :
                    /\ answer' = [answer EXCEPT ![r] = a]
                    /\ workDir' = [workDir EXCEPT ![r] = IF a = "fixed" THEN a ELSE "edited"]
                    /\ record' = [record EXCEPT ![r] = StatusOf(a)]
           \/ /\ record' = [record EXCEPT ![r] = "failed"]
              /\ UNCHANGED <<workDir, answer>>
    /\ UNCHANGED <<clock, live, enabled, versions, promoteVars, opsLeft>>

-----------------------------------------------------------------------------
(* The node ends, and the draft is published                               *)

\* Faulty: whatever has an answer is promoted.
MayPromoteAnswered(r) == record[r] # "absent" /\ answer[r] # "none"

\* promote_repair_task: the conditions that raise before a file is touched.
MayPromote(r) == record[r] = "succeeded" /\ answer[r] = "fixed" /\ workDir[r] # "none"

\* Bound of the model: the user promotes one repair at a time, and so do the nodes,
\* of which two promote only after the first one was registered anew.
BeginPromotion(p, t) ==
    /\ promoting[p] = "idle"
    /\ promoting' = [promoting EXCEPT ![p] = "archive"]
    /\ subject' = [subject EXCEPT ![p] = t]
    /\ crossed' = (crossed \/ AgentAt(t[1]) \/ \E q \in Publishers : promoting[q] # "idle")

\* finalize_task, whose copy is loaded here, and build_repair_task_result when
\* there is nothing to promote.  A repair that has not succeeded raises, and the
\* queue leaves the node running (WebSource, RepairRaises); one that has is
\* reported as succeeded even if its promotion raises.
Finalize(t) ==
    /\ job[t] = "node"
    /\ KeyFree
    /\ IF MayPromote(t[1])
       THEN /\ BeginPromotion("node", t)
            /\ job' = [job EXCEPT ![t] = "promoting"]
       ELSE /\ job' = [job EXCEPT ![t] =
                 IF record[t[1]] \in {"succeeded", "blocked"} THEN "ended" ELSE "stuck"]
            /\ UNCHANGED promoteVars
    /\ UNCHANGED <<clock, fileVars, record, opsLeft>>

\* RepairRuntimeFacade.promote_task, which takes no key and no lock.
Promote(r) ==
    /\ MayPromote(r)
    /\ BeginPromotion("user", <<r, "user">>)
    /\ UNCHANGED <<clock, fileVars, record, job, opsLeft>>

MoveTo(p, where) ==
    /\ promoting' = [promoting EXCEPT ![p] = where]
    /\ UNCHANGED <<clock, job, subject, crossed, opsLeft>>

\* An exception: the caller of the user gets it, finalize_task swallows it.
GiveUp(p) == MoveTo(p, IF p = "node" THEN "save" ELSE "idle")

\* Faulty: the live extractor goes before it is archived.
ArchiveAfter(p) ==
    /\ promoting[p] = "archive"
    /\ MoveTo(p, "clear")
    /\ live' = "none"
    /\ UNCHANGED <<enabled, versions, workDir, answer, record>>

\* publish_repair_workspace copies the live extractor to the version of this
\* second.  copytree raises when there is one.
Archive(p) ==
    /\ promoting[p] = "archive"
    /\ IF live = "none" THEN MoveTo(p, "copy") /\ UNCHANGED versions
       ELSE IF versions[clock] = "none"
       THEN MoveTo(p, "clear") /\ versions' = [versions EXCEPT ![clock] = live]
       ELSE GiveUp(p) /\ UNCHANGED versions
    /\ UNCHANGED <<live, enabled, workDir, answer, record>>

\* rmtree of the live extractor, file by file, which raises if it has gone.
Clear(p) ==
    /\ promoting[p] = "clear"
    /\ IF live = "none" THEN GiveUp(p) /\ UNCHANGED live
       ELSE \/ MoveTo(p, "clear") /\ live' = "partial"
            \/ MoveTo(p, "copy") /\ live' = "none"
    /\ UNCHANGED <<enabled, versions, workDir, answer, record>>

\* copytree of the draft, which raises when the draft has gone or when there is
\* a live extractor again ...
Copy(p) ==
    /\ promoting[p] = "copy"
    /\ IF workDir[subject[p][1]] # "none" /\ live = "none"
       THEN MoveTo(p, "fill") /\ live' = "partial"
       ELSE GiveUp(p) /\ UNCHANGED live
    /\ UNCHANGED <<enabled, versions, workDir, answer, record>>

\* The metadata, the manifest and the source of what has been promoted: it is
\* enabled, whatever a user had set.
Enabling == enabled' = TRUE

\* ... and when one of the two goes while the files are copied.
Fill(p) ==
    /\ promoting[p] = "fill"
    /\ LET draft == workDir[subject[p][1]]
       IN IF draft # "none" /\ live # "none"
          THEN /\ MoveTo(p, "save")
               /\ live' = draft
               /\ Enabling
          ELSE GiveUp(p) /\ UNCHANGED <<live, enabled>>
    /\ UNCHANGED <<versions, workDir, answer, record>>

\* _save_task writes the copy that was loaded, so a record that has been deleted
\* comes back; the node has succeeded, if it was not registered anew meanwhile.
Save(p) ==
    /\ promoting[p] = "save"
    /\ record' = [record EXCEPT ![subject[p][1]] = "succeeded"]
    /\ promoting' = [promoting EXCEPT ![p] = "idle"]
    /\ job' = IF p = "node" /\ job[subject[p]] = "promoting"
              THEN [job EXCEPT ![subject[p]] = "ended"] ELSE job
    /\ UNCHANGED <<clock, fileVars, subject, crossed, opsLeft>>

-----------------------------------------------------------------------------
(* Commands                                                                 *)

SpendOp(op) ==
    /\ op \in RepairOps
    /\ opsLeft > 0
    /\ opsLeft' = opsLeft - 1

\* _submit_task registers the node repair-<id> anew.  An agent that runs goes on,
\* and its task keeps the key; so does a promotion by the node, which loses it.
Requeue(t) ==
    /\ job' = [job EXCEPT ![t] = IF @ \in {"agent", "again"} THEN "again" ELSE "exec"]
    /\ crossed' = (crossed \/ job[t] = "promoting")
    /\ UNCHANGED <<promoting, subject>>

\* RepairRuntimeFacade.create_task
CreateByUser ==
    /\ SpendOp("create")
    /\ Create
    /\ \/ Requeue(<<clock, "user">>)
       \/ UNCHANGED <<job, promoteVars>>        \* auto_start is off
    /\ UNCHANGED <<clock, live, enabled, versions, answer>>

\* RepairRuntimeFacade.retry_task
RetryRepair(r) ==
    /\ SpendOp("retry")
    /\ record[r] # "absent"
    /\ record' = [record EXCEPT ![r] = "queued"]
    /\ Requeue(<<r, "user">>)
    /\ UNCHANGED <<clock, fileVars>>

DeleteRepair(r) ==
    /\ SpendOp("delete")
    /\ record[r] # "absent"
    /\ record' = [record EXCEPT ![r] = "absent"]
    /\ workDir' = [workDir EXCEPT ![r] = "none"]
    /\ answer' = [answer EXCEPT ![r] = "none"]
    /\ UNCHANGED <<clock, live, enabled, versions, job, promoteVars>>

SetEnabled ==
    /\ SpendOp("enable")
    /\ live # "none"
    /\ enabled' = ~enabled
    /\ UNCHANGED <<clock, live, versions, workDir, answer, record, job, promoteVars>>

\* ExtractorRegistry.delete
RemoveExtractor ==
    /\ SpendOp("remove")
    /\ live' = "none"
    /\ versions' = [s \in Repairs |-> "none"]
    /\ UNCHANGED <<clock, enabled, workDir, answer, record, job, promoteVars>>

\* The process ends anywhere: files stay, the records, the queue and its runs
\* are gone.
Restart ==
    /\ SpendOp("restart")
    /\ record' = [r \in Repairs |-> "absent"]
    /\ job' = [t \in RepairTasks |-> "none"]
    /\ promoting' = [p \in Publishers |-> "idle"]
    /\ UNCHANGED <<clock, fileVars, subject, crossed>>

-----------------------------------------------------------------------------

RepairNext ==
    \/ Tick
    \/ Scrape
    \/ \E t \in RepairTasks :
        \/ StartAgent(t)
        \/ EditDraft(t)
        \/ EndAgent(t)
        \/ Finalize(t)
    \/ \E r \in Repairs :
        \/ "user" \in Publishers /\ Promote(r)
        \/ RetryRepair(r)
        \/ DeleteRepair(r)
    \/ \E p \in Publishers : Archive(p) \/ Clear(p) \/ Copy(p) \/ Fill(p) \/ Save(p)
    \/ CreateByUser
    \/ SetEnabled
    \/ RemoveExtractor
    \/ Restart

RepairSpec == RepairInit /\ [][RepairNext]_repairVars
=============================================================================
