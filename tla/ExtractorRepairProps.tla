------------------------ MODULE ExtractorRepairProps ------------------------
(***************************************************************************)
(* What the repair of an extractor promises to those who scrape with it.   *)
(***************************************************************************)
EXTENDS ExtractorRepair

\* No draft goes live but one that an agent has called fixed and that nobody has
\* worked on since, after any retries, deletions, restarts, promotions by the user
\* and repairs created in one second (finalize_task and promote_repair_task, which
\* look at the record and at result.json of the past).  Nothing in the code keeps
\* a promotion by the user from an agent at its draft or from another promotion:
\* this is promised as long as they have not crossed.
LiveIsAccepted ==
    [][live' # live /\ ~crossed => live' \in {"none", "partial", "fixed"}]_repairVars

\* An extractor that goes away, or of which the first file goes, is archived: at
\* every moment, a crash included, what scrapes have used is live or is among the
\* versions (publish_repair_workspace), unless a user removes the extractor with
\* its versions, or promotions have crossed.
ReplacedIsKept ==
    [][live \notin {"none", "partial"} /\ live' # live /\ ~crossed =>
          \/ \E s \in Repairs : versions'[s] = live
          \/ opsLeft' # opsLeft]_repairVars
=============================================================================
