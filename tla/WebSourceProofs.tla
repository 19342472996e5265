--------------------------- MODULE WebSourceProofs ---------------------------
(***************************************************************************)
(* Proofs about the web sources, for any sources, rounds, failures and     *)
(* commands.                                                               *)
(*                                                                         *)
(* A source knows where it is from its stage, its round and its run.       *)
(* Position says what that place implies for its scrapes and repairs: which*)
(* of them may be registered, and which have succeeded by then.  Success   *)
(* is final for every task as long as no repair raises, so a place once    *)
(* reached stays justified.                                                *)
(*                                                                         *)
(* The last part shows that a source which is blocked is not forgotten:    *)
(* Placed says what its run leaves for the end, Heard who will move it on. *)
(***************************************************************************)
EXTENDS WebSourceProps, TLAPS

\* A task is marked running for as long as it has a run.
RunInv == \A t \in Tasks : pc[t] # "idle" => state[t] = "running"

\* A job that is tried again has an attempt left.
TriesInv == \A t \in Scrapes : pc[t] = "run" => tries[t] < Threshold

JobInv == \A s \in Sources, n \in 1 .. Rounds :
              job[Scrape(s, n)] = "repairing" => n < Rounds

\* The rounds a source has come to: it registers a task before it patches its
\* payload.
ScrapeOpen(s, n) ==
    \/ n <= round[s]
    \/ n = round[s] + 1 /\ pc[Node(s)] = "patch" /\ stage[Node(s)] # "scrape"

RepairOpen(s, n) ==
    \/ n < round[s]
    \/ n = round[s] /\ (stage[Node(s)] = "repair" \/ pc[Node(s)] = "patch")

Place(s) ==
    /\ stage[Node(s)] \in {"prepare", "scrape", "repair"}
    /\ stage[Node(s)] = "prepare" <=> round[s] = 0
    /\ state[Node(s)] # "none"
    /\ pc[Node(s)] = "patch" /\ stage[Node(s)] # "scrape" => round[s] < Rounds
    /\ pc[Node(s)] = "finish" \/ state[Node(s)] = "succeeded" =>
          stage[Node(s)] = "scrape" /\ state[Scrape(s, round[s])] = "succeeded"
    /\ pc[Node(s)] = "finish" => job[Scrape(s, round[s])] = "succeeded"

OnlyOpen(s, n) ==
    /\ state[Scrape(s, n)] # "none" => ScrapeOpen(s, n)
    /\ state[Repair(s, n)] # "none" => RepairOpen(s, n)
    /\ state[Exec(s, n)] # "none" =>
          /\ state[Repair(s, n)] # "none"
          /\ stage[Repair(s, n)] = "exec" \/ pc[Repair(s, n)] = "patch"

Justified(s, n) ==
    /\ RepairOpen(s, n) => state[Scrape(s, n)] = "succeeded" /\ job[Scrape(s, n)] = "repairing"
    /\ n < Rounds /\ ScrapeOpen(s, n + 1) => state[Repair(s, n)] = "succeeded"
    /\ state[Repair(s, n)] = "succeeded" => state[Exec(s, n)] = "succeeded"

PositionOf(s) ==
    /\ Place(s)
    /\ \A n \in 1 .. Rounds : OnlyOpen(s, n) /\ Justified(s, n)

Position == \A s \in Sources : PositionOf(s)

BaseInv == WebTypeOK /\ RunInv /\ TriesInv /\ JobInv

IInv == BaseInv /\ Position
-----------------------------------------------------------------------------
(* Tasks                                                                    *)

LEMMA TaskFacts ==
  /\ \A s \in Sources : Node(s) \in Nodes
  /\ \A s \in Sources, n \in 1 .. Rounds :
        Scrape(s, n) \in Scrapes /\ Repair(s, n) \in Repairs /\ Exec(s, n) \in Execs
  /\ Nodes \subseteq Tasks /\ Scrapes \subseteq Tasks
  /\ Repairs \subseteq Tasks /\ Execs \subseteq Tasks
  /\ \A t \in Scrapes : t \notin Nodes \cup Repairs \cup Execs
  /\ \A t \in Nodes : t \notin Repairs \cup Execs
  /\ \A t \in Repairs : t \notin Execs
  BY DEF Node, Scrape, Repair, Exec, Nodes, Scrapes, Repairs, Execs, Tasks

LEMMA TaskNames ==
  ASSUME NEW t \in Tasks
  PROVE  \E s \in Sources, n \in 1 .. Rounds :
            t \in {Node(s), Scrape(s, n), Repair(s, n), Exec(s, n)}
<1>1. 1 \in 1 .. Rounds
  BY SourceAssumption
<1>2. CASE t \in Nodes
  BY <1>1, <1>2 DEF Nodes, Node
<1>3. CASE t \in Scrapes
  BY <1>3 DEF Scrapes, Scrape
<1>4. CASE t \in Repairs
  BY <1>4 DEF Repairs, Repair
<1>5. CASE t \in Execs
  BY <1>5 DEF Execs, Exec
<1>6. QED
  BY <1>2, <1>3, <1>4, <1>5 DEF Tasks

\* A task has one name.
LEMMA NamesDiffer ==
  ASSUME NEW s, NEW u, NEW m, NEW n
  PROVE  /\ Node(s) = Node(u) => s = u
         /\ Scrape(s, m) = Scrape(u, n) => s = u /\ m = n
         /\ Repair(s, m) = Repair(u, n) => s = u /\ m = n
         /\ Exec(s, m) = Exec(u, n) => s = u /\ m = n
  BY DEF Node, Scrape, Repair, Exec

LEMMA ParentFacts ==
  /\ \A s \in Sources, n \in 1 .. Rounds :
        Parent(Scrape(s, n)) = Node(s) /\ Parent(Repair(s, n)) = Node(s)
  /\ \A t \in Tasks : Parent(t) \in Nodes \cup Repairs
  BY DEF Parent, Node, Scrape, Repair, Exec, Nodes, Scrapes, Repairs, Execs, Tasks

-----------------------------------------------------------------------------
(* What the queue does to a task that it does not run                       *)

\* Nothing is registered, started or finished.
Quiet ==
    /\ state' \in [Tasks -> States]
    /\ \A t \in Tasks, x \in {"none", "succeeded", "running"} : state'[t] = x <=> state[t] = x

LEMMA ReleasedFacts ==
  ASSUME NEW f \in [Tasks -> States]
  PROVE  /\ Released(f) \in [Tasks -> States]
         /\ \A t \in Tasks, x \in {"none", "succeeded", "running"} :
               Released(f)[t] = x <=> f[t] = x
  BY DEF Released, States, Active, Stopped

LEMMA SkipIsQuiet ==
  ASSUME WebTypeOK, NEW t \in Tasks, state[t] # "none", SkipTask(t)
  PROVE  Quiet /\ waiting' \subseteq Sources
<1>1. CASE state[t] \in {"succeeded", "skipped", "running"}
  BY <1>1 DEF SkipTask, WebTypeOK, Quiet
<1>2. CASE state[t] \notin {"succeeded", "skipped", "running"}
  <2> DEFINE skipped == [state EXCEPT ![t] = "skipped"]
  <2>1. skipped \in [Tasks -> States]
    BY DEF WebTypeOK, States
  <2>2. \A u \in Tasks, x \in {"none", "succeeded", "running"} : skipped[u] = x <=> state[u] = x
    BY <1>2 DEF WebTypeOK
  <2>3. state' = Released(skipped) /\ waiting' = {}
    BY <1>2 DEF SkipTask
  <2>4. QED
    BY <2>1, <2>2, <2>3, ReleasedFacts DEF Quiet
<1>3. QED
  BY <1>1, <1>2

LEMMA RetryIsQuiet ==
  ASSUME WebTypeOK, NEW t \in Tasks, RetryTask(t)
  PROVE  Quiet /\ waiting' \subseteq Sources
  BY DEF RetryTask, WebTypeOK, Quiet, States, Active, Stopped

-----------------------------------------------------------------------------
(* Types, runs and jobs                                                     *)

LEMMA InitBase == Init => BaseInv
<1> SUFFICES ASSUME Init PROVE BaseInv
  OBVIOUS
<1>1. WebTypeOK
  BY SourceAssumption, WebEnvironmentAssumption
     DEF Init, WebTypeOK, States, Active, PCs, Stages, Jobs, EventPCs
<1>2. RunInv /\ TriesInv /\ JobInv
  BY TaskFacts DEF Init, RunInv, TriesInv, JobInv
<1>3. QED
  BY <1>1, <1>2 DEF BaseInv

\* A step that runs nothing keeps what is known of runs and jobs.
LEMMA QuietBase ==
  ASSUME BaseInv, WebTypeOK', Quiet, UNCHANGED <<pc, tries, job>>
  PROVE  BaseInv'
  BY DEF BaseInv, Quiet, RunInv, TriesInv, JobInv

\* Events and commands run nothing.
QuietStep ==
    \/ \E s \in Sources : Notify(s) \/ Look(s) \/ SkipBlocked(s)
    \/ \E t \in Tasks : Callback(t)
    \/ Command

LEMMA QuietStepFacts ==
  ASSUME IInv, QuietStep
  PROVE  WebTypeOK' /\ Quiet /\ UNCHANGED <<pc, stage, round, tries, job>>
<1> USE DEF IInv, BaseInv
<1>1. ASSUME NEW s \in Sources, Notify(s) \/ Look(s)
      PROVE  WebTypeOK' /\ Quiet /\ UNCHANGED <<pc, stage, round, tries, job>>
  BY <1>1, TaskFacts DEF Notify, Look, Event, WebTypeOK, EventPCs, Quiet, nodeVars, scrapeVars
<1>2. ASSUME NEW s \in Sources, SkipBlocked(s)
      PROVE  WebTypeOK' /\ Quiet /\ UNCHANGED <<pc, stage, round, tries, job>>
  <2>1. Node(s) \in Tasks /\ state[Node(s)] # "none"
    BY TaskFacts DEF Position, PositionOf, Place
  <2>2. Quiet /\ waiting' \subseteq Sources
    BY <1>2, <2>1, SkipIsQuiet DEF SkipBlocked
  <2>3. QED
    BY <1>2, <2>2 DEF SkipBlocked, Event, WebTypeOK, EventPCs, Quiet, scrapeVars
<1>3. ASSUME NEW t \in Tasks, t \in Scrapes \cup Repairs /\ Read(t)
      PROVE  WebTypeOK' /\ Quiet /\ UNCHANGED <<pc, stage, round, tries, job>>
  <2>1. stage[Parent(t)] \in Stages
    BY ParentFacts DEF WebTypeOK
  <2>2. QED
    BY <1>3, <2>1 DEF Read, Event, WebTypeOK, EventPCs, Quiet, nodeVars, scrapeVars
<1>4. ASSUME NEW t \in Tasks, Check(t)
      PROVE  WebTypeOK' /\ Quiet /\ UNCHANGED <<pc, stage, round, tries, job>>
  BY <1>4 DEF Check, Event, WebTypeOK, EventPCs, Quiet, nodeVars, scrapeVars
<1>5. ASSUME NEW t \in Tasks, Wake(t)
      PROVE  WebTypeOK' /\ Quiet /\ UNCHANGED <<pc, stage, round, tries, job>>
  <2>1. Quiet /\ waiting' \subseteq Sources
    BY <1>5, ParentFacts, TaskFacts, RetryIsQuiet DEF Wake
  <2>2. QED
    BY <1>5, <2>1 DEF Wake, Event, WebTypeOK, EventPCs, Quiet, scrapeVars
<1>6. ASSUME NEW t \in Tasks, Retry(t)
      PROVE  WebTypeOK' /\ Quiet /\ UNCHANGED <<pc, stage, round, tries, job>>
  <2>1. Quiet /\ waiting' \subseteq Sources
    BY <1>6, RetryIsQuiet DEF Retry
  <2>2. QED
    BY <1>6, <2>1 DEF Retry, Spend, WebTypeOK, Quiet, scrapeVars, eventVars
<1>7. ASSUME NEW t \in Tasks, Cancel(t)
      PROVE  WebTypeOK' /\ Quiet /\ UNCHANGED <<pc, stage, round, tries, job>>
  BY <1>7 DEF Cancel, Spend, WebTypeOK, Quiet, nodeVars, scrapeVars, eventVars, States, Stopped
<1>8. ASSUME NEW t \in Tasks, Skip(t)
      PROVE  WebTypeOK' /\ Quiet /\ UNCHANGED <<pc, stage, round, tries, job>>
  <2>1. Quiet /\ waiting' \subseteq Sources
    BY <1>8, SkipIsQuiet DEF Skip, Stopped
  <2>2. QED
    BY <1>8, <2>1 DEF Skip, Spend, WebTypeOK, Quiet, scrapeVars, eventVars
<1>9. ASSUME SkipOther
      PROVE  WebTypeOK' /\ Quiet /\ UNCHANGED <<pc, stage, round, tries, job>>
  <2>1. Quiet
    BY <1>9, ReleasedFacts DEF SkipOther, WebTypeOK, Quiet
  <2>2. QED
    BY <1>9, <2>1 DEF SkipOther, WebTypeOK, Quiet, scrapeVars, eventVars
<1>10. QED
  BY <1>1, <1>2, <1>3, <1>4, <1>5, <1>6, <1>7, <1>8, <1>9 DEF QuietStep, Callback, Command

LEMMA ClaimBase ==
  ASSUME IInv, NEW t \in Tasks, Claim(t)
  PROVE  BaseInv'
<1> USE SourceAssumption DEF IInv, BaseInv, Claim
<1>1. WebTypeOK'
  BY DEF WebTypeOK, States, Active, PCs, eventVars
<1>2. RunInv'
  BY DEF RunInv, WebTypeOK
<1>3. TriesInv' /\ JobInv'
  BY TaskFacts DEF TriesInv, JobInv, WebTypeOK
<1>4. QED
  BY <1>1, <1>2, <1>3

\* A run that ends keeps its types.
LEMMA EndFacts ==
  ASSUME WebTypeOK, NEW t \in Tasks, NEW x \in States, NEW h \in EventPCs, End(t, x, h)
  PROVE  /\ state' \in [Tasks -> States] /\ pc' \in [Tasks -> PCs] /\ cb' \in [Tasks -> EventPCs]
         /\ state'[t] = x /\ pc'[t] = "idle"
         /\ \A u \in Tasks \ {t} : state'[u] = state[u] /\ pc'[u] = pc[u]
  BY DEF End, WebTypeOK, PCs

LEMMA AttemptBase ==
  ASSUME IInv, NEW s \in Sources, NEW n \in 1 .. Rounds, Attempt(s, n)
  PROVE  BaseInv'
<1> DEFINE t == Scrape(s, n)
           attempts == tries[t] + 1
           EndJob(j) ==
             /\ j = "repairing" => n < Rounds
             /\ job' = [job EXCEPT ![t] = j]
             /\ End(t, "succeeded", "read")
<1> USE SourceAssumption DEF IInv, BaseInv
<1>1. t \in Scrapes /\ t \in Tasks /\ pc[t] = "run"
  BY TaskFacts DEF Attempt
<1>2. tries[t] \in 0 .. Threshold /\ tries[t] < Threshold /\ attempts \in 0 .. Threshold
  BY <1>1 DEF TriesInv, WebTypeOK
<1>3. UNCHANGED <<stage, round, waiting, seen, budget>>
  BY DEF Attempt
<1>4. ASSUME NEW j \in Jobs, EndJob(j),
             tries' = tries \/ tries' = [tries EXCEPT ![t] = attempts]
      PROVE  BaseInv'
  <2>1. WebTypeOK'
    BY <1>1, <1>2, <1>3, <1>4, EndFacts DEF WebTypeOK, States, EventPCs
  <2>2. RunInv'
    BY <1>1, <1>4, EndFacts DEF RunInv, States, EventPCs
  <2>3. TriesInv'
    BY <1>1, <1>2, <1>4, TaskFacts, EndFacts DEF TriesInv, WebTypeOK, States, EventPCs
  <2>4. JobInv'
    <3> SUFFICES ASSUME NEW u \in Sources, NEW m \in 1 .. Rounds, job'[Scrape(u, m)] = "repairing"
                 PROVE  m < Rounds
      BY DEF JobInv
    <3>1. CASE Scrape(u, m) = t
      BY <1>4, <3>1, <1>1, NamesDiffer DEF WebTypeOK
    <3>2. CASE Scrape(u, m) # t
      BY <1>4, <3>2, TaskFacts DEF WebTypeOK, JobInv
    <3>3. QED
      BY <3>1, <3>2
  <2>5. QED
    BY <2>1, <2>2, <2>3, <2>4
<1>5. CASE EndJob("succeeded") /\ tries' = [tries EXCEPT ![t] = attempts]
  BY <1>4, <1>5 DEF Jobs
<1>6. ASSUME NEW f \in Failures \ {"missing"},
             tries' = [tries EXCEPT ![t] = attempts],
             IF Repeats(f, attempts)
             THEN UNCHANGED <<state, pc, job, cb>>
             ELSE EndJob(JobAfter(f, attempts))
      PROVE  BaseInv'
  <2>1. CASE Repeats(f, attempts)
    <3>1. attempts < Threshold
      BY <2>1 DEF Repeats
    <3>2. WebTypeOK'
      BY <1>1, <1>2, <1>3, <1>6, <2>1 DEF WebTypeOK
    <3>3. RunInv' /\ JobInv'
      BY <1>6, <2>1 DEF RunInv, JobInv
    <3>4. TriesInv'
      BY <1>1, <1>6, <2>1, <3>1 DEF TriesInv, WebTypeOK
    <3>5. QED
      BY <3>2, <3>3, <3>4
  <2>2. CASE ~Repeats(f, attempts)
    <3>1. JobAfter(f, attempts) \in Jobs
      BY DEF JobAfter, Jobs
    <3>2. QED
      BY <1>4, <1>6, <2>2, <3>1
  <2>3. QED
    BY <2>1, <2>2
<1>7. CASE EndJob(JobAfter("missing", 0)) /\ UNCHANGED tries
  <2>1. JobAfter("missing", 0) \in Jobs
    BY DEF JobAfter, Jobs
  <2>2. QED
    BY <1>4, <1>7, <2>1
<1>8. QED
  BY <1>5, <1>6, <1>7 DEF Attempt

LEMMA EndBase ==
  ASSUME IInv, NEW t \in Tasks, NEW x \in States, NEW h \in EventPCs, End(t, x, h),
         UNCHANGED <<stage, round, tries, seen, budget>>,
         waiting' \subseteq Sources,
         \/ UNCHANGED job
         \/ \E u \in Scrapes : job' = [job EXCEPT ![u] = "none"]
  PROVE  BaseInv'
<1> USE TaskFacts DEF IInv, BaseInv
<1>1. job' \in [Scrapes -> Jobs \cup {"none"}] /\ \A u \in Scrapes : job'[u] \in {job[u], "none"}
  BY DEF WebTypeOK
<1>2. WebTypeOK'
  BY <1>1, EndFacts DEF WebTypeOK
<1>3. RunInv'
  BY EndFacts DEF RunInv
<1>4. TriesInv'
  BY EndFacts DEF TriesInv
<1>5. JobInv'
  BY <1>1 DEF JobInv
<1>6. QED
  BY <1>2, <1>3, <1>4, <1>5

LEMMA GotoBase ==
  ASSUME IInv, NEW t \in Tasks, NEW w \in PCs \ {"run"}, Goto(t, w), pc[t] # "idle",
         UNCHANGED <<state, waiting, tries, job, cb, seen, budget>>,
         stage' \in [Nodes \cup Repairs -> Stages], round' \in [Sources -> 0 .. Rounds]
  PROVE  BaseInv'
<1> USE TaskFacts DEF IInv, BaseInv
<1>1. WebTypeOK'
  BY DEF WebTypeOK, Goto
<1>2. RunInv'
  BY DEF RunInv, Goto, WebTypeOK
<1>3. TriesInv' /\ JobInv'
  BY DEF TriesInv, JobInv, Goto, WebTypeOK
<1>4. QED
  BY <1>1, <1>2, <1>3

LEMMA RegisterBase ==
  ASSUME IInv, NEW t \in Tasks, NEW child \in Tasks, Register(t, child), pc[t] = "run",
         state[child] = "none", UNCHANGED <<stage, round, waiting, tries, job, cb, seen, budget>>
  PROVE  /\ BaseInv'
         /\ state' = [state EXCEPT ![child] = "queued"]
         /\ pc' = [pc EXCEPT ![t] = "patch"]
<1> USE TaskFacts DEF IInv, BaseInv, Register, Goto
<1>1. WebTypeOK'
  BY DEF WebTypeOK, States, Active, PCs
<1>2. RunInv'
  BY DEF RunInv, WebTypeOK
<1>3. TriesInv' /\ JobInv'
  BY DEF TriesInv, JobInv, WebTypeOK
<1>4. QED
  BY <1>1, <1>2, <1>3

\* The other steps of scrapes and repairs.
ChildMove(s, n) ==
    \/ ScrapeRaises(s, n)
    \/ EndExec(s, n)
    \/ StartRepair(s, n)
    \/ PatchRepair(s, n)
    \/ CompleteExec(s, n)
    \/ BlockRepair(s, n)
    \/ RepairRaises(s, n)

LEMMA ChildBase ==
  ASSUME IInv, NEW s \in Sources, NEW n \in 1 .. Rounds, ChildMove(s, n)
  PROVE  BaseInv'
<1> USE TaskFacts
<1>1. UNCHANGED <<round, waiting, tries, job, seen, budget>>
  BY DEF ChildMove, ScrapeRaises, EndExec, StartRepair, PatchRepair, CompleteExec, BlockRepair,
         RepairRaises, scrapeVars, eventVars
<1>2. WebTypeOK /\ waiting' \subseteq Sources
  BY <1>1 DEF IInv, BaseInv, WebTypeOK
<1>3. {"succeeded", "failed", "blocked"} \subseteq States /\ {"read", "check", "idle"} \subseteq EventPCs
  BY DEF States, Stopped, EventPCs
<1>4. CASE ScrapeRaises(s, n)
  BY <1>1, <1>2, <1>3, <1>4, EndBase DEF ScrapeRaises
<1>5. CASE EndExec(s, n)
  BY <1>1, <1>2, <1>3, <1>5, EndBase DEF EndExec
<1>6. CASE StartRepair(s, n)
  <2>1. state[Exec(s, n)] = "none"
    BY <1>6 DEF StartRepair, IInv, Position, PositionOf, OnlyOpen
  <2>2. QED
    BY <1>1, <1>6, <2>1, RegisterBase DEF StartRepair, eventVars
<1>7. CASE PatchRepair(s, n)
  BY <1>1, <1>2, <1>7, GotoBase DEF PatchRepair, eventVars, PCs, WebTypeOK, Stages
<1>8. CASE CompleteExec(s, n)
  <2>1. CASE End(Repair(s, n), "succeeded", "read")
    BY <1>1, <1>2, <1>3, <1>8, <2>1, EndBase DEF CompleteExec
  <2>2. CASE Goto(Repair(s, n), "business") /\ UNCHANGED <<state, cb>>
    BY <1>1, <1>2, <1>8, <2>2, GotoBase DEF CompleteExec, PCs, WebTypeOK
  <2>3. QED
    BY <1>8, <2>1, <2>2 DEF CompleteExec
<1>9. CASE BlockRepair(s, n)
  BY <1>1, <1>2, <1>3, <1>9, EndBase DEF BlockRepair
<1>10. CASE RepairRaises(s, n)
  BY <1>1, <1>2, <1>10, GotoBase DEF RepairRaises, eventVars, PCs, WebTypeOK
<1>11. QED
  BY <1>4, <1>5, <1>6, <1>7, <1>8, <1>9, <1>10 DEF ChildMove

\* What the place of a source says where the node acts.
LEMMA PlaceFacts ==
  ASSUME IInv, NEW s \in Sources
  PROVE  /\ round[s] \in 0 .. Rounds
         /\ pc[Node(s)] # "patch" /\ stage[Node(s)] = "prepare" => state[Scrape(s, 1)] = "none"
         /\ pc[Node(s)] # "patch" /\ stage[Node(s)] = "scrape" =>
               round[s] \in 1 .. Rounds /\ state[Repair(s, round[s])] = "none"
         /\ pc[Node(s)] # "patch" /\ stage[Node(s)] = "repair" =>
               /\ round[s] \in 1 .. Rounds - 1
               /\ state[Scrape(s, round[s] + 1)] = "none"
         /\ pc[Node(s)] = "patch" /\ stage[Node(s)] # "scrape" => round[s] < Rounds
<1> USE SourceAssumption, TaskFacts
<1>1. round[s] \in 0 .. Rounds /\ (stage[Node(s)] = "prepare" <=> round[s] = 0)
  BY DEF IInv, BaseInv, WebTypeOK, Position, PositionOf, Place
<1>2. \A n \in 1 .. Rounds : OnlyOpen(s, n) /\ Justified(s, n)
  BY DEF IInv, Position, PositionOf
<1>3. pc[Node(s)] # "patch" /\ stage[Node(s)] = "prepare" => state[Scrape(s, 1)] = "none"
  BY <1>1, <1>2 DEF OnlyOpen, ScrapeOpen
<1>4. ASSUME pc[Node(s)] # "patch", stage[Node(s)] = "scrape"
      PROVE  round[s] \in 1 .. Rounds /\ state[Repair(s, round[s])] = "none"
  <2>1. round[s] \in 1 .. Rounds
    BY <1>1, <1>4
  <2>2. ~RepairOpen(s, round[s])
    BY <1>1, <1>4 DEF RepairOpen
  <2>3. QED
    BY <1>2, <2>1, <2>2 DEF OnlyOpen
<1>5. ASSUME pc[Node(s)] # "patch", stage[Node(s)] = "repair"
      PROVE  round[s] \in 1 .. Rounds - 1 /\ state[Scrape(s, round[s] + 1)] = "none"
  <2>1. round[s] \in 1 .. Rounds /\ RepairOpen(s, round[s])
    BY <1>1, <1>5 DEF RepairOpen
  <2>2. job[Scrape(s, round[s])] = "repairing"
    BY <1>2, <2>1 DEF Justified
  <2>3. round[s] < Rounds
    BY <2>1, <2>2 DEF IInv, BaseInv, JobInv
  <2>4. ~ScrapeOpen(s, round[s] + 1) /\ round[s] + 1 \in 1 .. Rounds
    BY <1>1, <1>5, <2>3 DEF ScrapeOpen
  <2>5. QED
    BY <1>2, <2>1, <2>3, <2>4 DEF OnlyOpen
<1>6. pc[Node(s)] = "patch" /\ stage[Node(s)] # "scrape" => round[s] < Rounds
  BY DEF IInv, Position, PositionOf, Place
<1>7. QED
  BY <1>1, <1>3, <1>4, <1>5, <1>6

NodeMove(s) ==
    \/ StartNode(s)
    \/ CompleteScrape(s)
    \/ CompleteRepair(s)
    \/ PatchNode(s)
    \/ BlockNode(s)
    \/ FinishNode(s)

LEMMA NodeBase ==
  ASSUME IInv, NEW s \in Sources, NodeMove(s)
  PROVE  BaseInv'
<1> USE TaskFacts, SourceAssumption
<1>1. WebTypeOK /\ Node(s) \in Tasks /\ 1 \in 1 .. Rounds
  BY DEF IInv, BaseInv
<1>2. {"succeeded", "failed", "blocked"} \subseteq States /\ {"notify", "idle"} \subseteq EventPCs
  BY DEF States, Stopped, EventPCs
<1>3. CASE StartNode(s)
  BY <1>1, <1>3, PlaceFacts, RegisterBase DEF StartNode, scrapeVars, eventVars
<1>4. CASE CompleteScrape(s)
  <2> DEFINE child == Scrape(s, round[s])
  <2>1. UNCHANGED <<stage, round, waiting, tries, job, seen, budget>>
    BY <1>4 DEF CompleteScrape, scrapeVars
  <2>2. pc[Node(s)] = "run" /\ stage[Node(s)] = "scrape"
    BY <1>4 DEF CompleteScrape
  <2>3. waiting' \subseteq Sources /\ stage' \in [Nodes \cup Repairs -> Stages]
        /\ round' \in [Sources -> 0 .. Rounds]
    BY <1>1, <2>1 DEF WebTypeOK
  <2>4. CASE Register(Node(s), Repair(s, round[s])) /\ UNCHANGED cb
    BY <1>1, <2>1, <2>2, <2>4, PlaceFacts, RegisterBase
  <2>5. CASE (Goto(Node(s), "business") \/ Goto(Node(s), "finish")) /\ UNCHANGED <<state, cb>>
    BY <1>1, <2>1, <2>2, <2>3, <2>5, GotoBase DEF PCs
  <2>6. CASE End(Node(s), "failed", "idle")
    BY <1>1, <1>2, <2>1, <2>3, <2>6, EndBase
  <2>7. QED
    BY <1>4, <2>4, <2>5, <2>6 DEF CompleteScrape
<1>5. CASE CompleteRepair(s)
  <2>1. CASE EndedWell(Repair(s, round[s]))
    BY <1>1, <1>5, <2>1, PlaceFacts, RegisterBase DEF CompleteRepair, scrapeVars, eventVars
  <2>2. CASE ~EndedWell(Repair(s, round[s]))
    BY <1>1, <1>5, <2>2, GotoBase DEF CompleteRepair, scrapeVars, eventVars, PCs, WebTypeOK
  <2>3. QED
    BY <2>1, <2>2
<1>6. CASE PatchNode(s)
  <2>1. round' \in [Sources -> 0 .. Rounds] /\ stage' \in [Nodes \cup Repairs -> Stages]
    BY <1>1, <1>6, PlaceFacts DEF PatchNode, WebTypeOK, Stages
  <2>2. QED
    BY <1>1, <1>6, <2>1, GotoBase DEF PatchNode, scrapeVars, eventVars, PCs
<1>7. CASE BlockNode(s)
  <2>1. waiting' \subseteq Sources
    BY <1>1, <1>7 DEF BlockNode, WebTypeOK
  <2>2. QED
    BY <1>1, <1>2, <1>7, <2>1, EndBase DEF BlockNode, scrapeVars
<1>8. CASE FinishNode(s)
  <2>1. waiting' \subseteq Sources /\ UNCHANGED <<stage, round, tries, seen, budget>>
    BY <1>1, <1>8 DEF FinishNode, WebTypeOK
  <2>2. CASE End(Node(s), "succeeded", "idle") /\ job' = [job EXCEPT ![Scrape(s, round[s])] = "none"]
    <3>1. Scrape(s, round[s]) \in Scrapes
      BY <1>8, PlaceFacts DEF FinishNode, IInv, Position, PositionOf, Place
    <3>2. QED
      BY <1>1, <1>2, <2>1, <2>2, <3>1, EndBase
  <2>3. CASE End(Node(s), "failed", "idle") /\ UNCHANGED job
    BY <1>1, <1>2, <2>1, <2>3, EndBase
  <2>4. QED
    BY <1>8, <2>2, <2>3 DEF FinishNode
<1>9. QED
  BY <1>3, <1>4, <1>5, <1>6, <1>7, <1>8 DEF NodeMove

LEMMA NextCases ==
  ASSUME Next
  PROVE  \/ \E s \in Sources : NodeMove(s)
         \/ \E s \in Sources, n \in 1 .. Rounds : Attempt(s, n) \/ ChildMove(s, n)
         \/ \E t \in Tasks : Claim(t)
         \/ QuietStep
         \/ \E t \in Tasks : TakeBack(t)
  BY DEF Next, NodeStep, ChildStep, NodeMove, ChildMove, QuietStep

-----------------------------------------------------------------------------
(* The place of a source                                                    *)

\* A step that does not move source s: it registers none of its scrapes and
\* repairs, and what has succeeded stays.
Mild(s) ==
    /\ round'[s] = round[s]
    /\ stage'[Node(s)] = stage[Node(s)]
    /\ \A w \in {"patch", "finish"} : pc'[Node(s)] = w <=> pc[Node(s)] = w
    /\ state'[Node(s)] # "none"
    /\ state'[Node(s)] = "succeeded" => state[Node(s)] = "succeeded"
    /\ \A n \in 1 .. Rounds :
        /\ \A t \in {Scrape(s, n), Repair(s, n)} : state'[t] # "none" => state[t] # "none"
        /\ \A t \in {Scrape(s, n), Repair(s, n), Exec(s, n)} :
              state[t] = "succeeded" => state'[t] = "succeeded"
        /\ state[Scrape(s, n)] = "succeeded" => job'[Scrape(s, n)] = job[Scrape(s, n)]
        /\ state'[Exec(s, n)] # "none" =>
              /\ state'[Repair(s, n)] # "none"
              /\ stage'[Repair(s, n)] = "exec" \/ pc'[Repair(s, n)] = "patch"
        /\ state'[Repair(s, n)] = "succeeded" => state'[Exec(s, n)] = "succeeded"

LEMMA MildStep ==
  ASSUME IInv, NEW s \in Sources, Mild(s)
  PROVE  PositionOf(s)'
<1>1. PositionOf(s) /\ round[s] \in 0 .. Rounds
  BY DEF IInv, Position, BaseInv, WebTypeOK
<1>2. \A n \in 1 .. Rounds :
         /\ ScrapeOpen(s, n)' <=> ScrapeOpen(s, n)
         /\ ScrapeOpen(s, n + 1)' <=> ScrapeOpen(s, n + 1)
         /\ RepairOpen(s, n)' <=> RepairOpen(s, n)
  BY DEF Mild, ScrapeOpen, RepairOpen
<1>3. Place(s)'
  BY <1>1, SourceAssumption DEF Mild, PositionOf, Place
<1>4. ASSUME NEW n \in 1 .. Rounds
      PROVE  (OnlyOpen(s, n) /\ Justified(s, n))'
  <2>1. OnlyOpen(s, n) /\ Justified(s, n)
    BY <1>1 DEF PositionOf
  <2>2. OnlyOpen(s, n)'
    BY <1>2, <2>1 DEF Mild, OnlyOpen
  <2>3. Justified(s, n)'
    BY <1>2, <2>1 DEF Mild, Justified
  <2>4. QED
    BY <2>2, <2>3
<1>5. QED
  BY <1>3, <1>4 DEF PositionOf

\* The facts of a source's tasks that a step starts from.
LEMMA OwnFacts ==
  ASSUME IInv, NEW s \in Sources
  PROVE  /\ state[Node(s)] # "none"
         /\ \A n \in 1 .. Rounds :
              /\ state[Exec(s, n)] # "none" =>
                    /\ state[Repair(s, n)] # "none"
                    /\ stage[Repair(s, n)] = "exec" \/ pc[Repair(s, n)] = "patch"
              /\ state[Repair(s, n)] = "succeeded" => state[Exec(s, n)] = "succeeded"
         /\ \A t \in Tasks : pc[t] # "idle" => state[t] = "running"
  BY DEF IInv, BaseInv, RunInv, Position, PositionOf, Place, OnlyOpen, Justified

LEMMA QuietPosition ==
  ASSUME IInv, NEW s \in Sources, Quiet, UNCHANGED <<pc, stage, round, job>>
  PROVE  PositionOf(s)'
<1>1. Mild(s)
  BY OwnFacts, TaskFacts DEF Mild, Quiet
<1>2. QED
  BY <1>1, MildStep

LEMMA ClaimPosition ==
  ASSUME IInv, NEW s \in Sources, NEW t \in Tasks, Claim(t)
  PROVE  PositionOf(s)'
<1>1. state[t] = "queued" /\ pc[t] = "idle"
  BY DEF Claim, IInv, BaseInv, RunInv
<1>2. UNCHANGED <<stage, round, job>>
  BY DEF Claim
<1>3. /\ state'[t] = "running" /\ pc'[t] = "run"
      /\ \A u \in Tasks \ {t} : state'[u] = state[u] /\ pc'[u] = pc[u]
  BY DEF Claim, IInv, BaseInv, WebTypeOK
<1>4. Mild(s)
  BY <1>1, <1>2, <1>3, OwnFacts, TaskFacts DEF Mild
<1>5. QED
  BY <1>4, MildStep

\* A run of another task than the source's own node ends.
LEMMA EndPosition ==
  ASSUME IInv, NEW s \in Sources, NEW t \in Tasks, NEW x \in States \ {"none"}, NEW h \in EventPCs,
         End(t, x, h), pc[t] # "idle", t # Node(s), UNCHANGED <<stage, round>>,
         \A u \in Tasks : u # t /\ u \in Scrapes /\ u[1] = s => job'[u] = job[u],
         t \in Repairs =>
            /\ state[Exec(t[1], t[3])] # "none" => stage[t] = "exec"
            /\ x = "succeeded" => state[Exec(t[1], t[3])] = "succeeded"
  PROVE  PositionOf(s)'
<1>1. state[t] = "running"
  BY DEF IInv, BaseInv, RunInv
<1>2. /\ state'[t] = x /\ pc'[t] = "idle"
      /\ \A u \in Tasks \ {t} : state'[u] = state[u] /\ pc'[u] = pc[u]
  BY EndFacts DEF IInv, BaseInv
<1>3. \A n \in 1 .. Rounds : state[Scrape(s, n)] = "succeeded" => job'[Scrape(s, n)] = job[Scrape(s, n)]
  BY <1>1, TaskFacts DEF Scrape
<1>4. ASSUME NEW n \in 1 .. Rounds
      PROVE  /\ state'[Exec(s, n)] # "none" =>
                  /\ state'[Repair(s, n)] # "none"
                  /\ stage'[Repair(s, n)] = "exec" \/ pc'[Repair(s, n)] = "patch"
             /\ state'[Repair(s, n)] = "succeeded" => state'[Exec(s, n)] = "succeeded"
  <2>1. CASE t = Repair(s, n)
    <3>1. t[1] = s /\ t[3] = n /\ t \in Repairs /\ Exec(s, n) # t /\ Exec(s, n) \in Tasks
      BY <2>1, TaskFacts DEF Repair
    <3>2. QED
      BY <1>2, <2>1, <3>1
  <2>2. CASE t = Exec(s, n)
    BY <1>1, <1>2, <2>2, OwnFacts, TaskFacts
  <2>3. CASE t \notin {Repair(s, n), Exec(s, n)}
    BY <1>2, <2>3, OwnFacts, TaskFacts
  <2>4. QED
    BY <2>1, <2>2, <2>3
<1>5. Mild(s)
  BY <1>1, <1>2, <1>3, <1>4, OwnFacts, TaskFacts DEF Mild
<1>6. QED
  BY <1>5, MildStep

LEMMA AttemptPosition ==
  ASSUME IInv, NEW s \in Sources, NEW u \in Sources, NEW n \in 1 .. Rounds, Attempt(u, n)
  PROVE  PositionOf(s)'
<1> DEFINE t == Scrape(u, n)
<1>1. t \in Tasks /\ t \in Scrapes /\ t \notin Repairs /\ t # Node(s) /\ pc[t] = "run"
  BY TaskFacts DEF Attempt
<1>2. UNCHANGED <<stage, round>>
  BY DEF Attempt
<1>3. ASSUME NEW j, End(t, "succeeded", "read"), job' = [job EXCEPT ![t] = j]
      PROVE  PositionOf(s)'
  <2>1. \A v \in Tasks : v # t /\ v \in Scrapes /\ v[1] = s => job'[v] = job[v]
    BY <1>3 DEF IInv, BaseInv, WebTypeOK
  <2>2. QED
    BY <1>1, <1>2, <1>3, <2>1, EndPosition DEF States, EventPCs
<1>4. CASE UNCHANGED <<state, pc, job, cb>>
  <2>1. Quiet
    BY <1>4 DEF Quiet, IInv, BaseInv, WebTypeOK
  <2>2. QED
    BY <1>2, <1>4, <2>1, QuietPosition
<1>5. QED
  BY <1>3, <1>4 DEF Attempt

\* A child's run goes on, without an end.
LEMMA GotoPosition ==
  ASSUME IInv, NEW s \in Sources, NEW t \in Tasks \ Nodes, NEW w, Goto(t, w),
         UNCHANGED <<state, round, job>>, \A u \in Sources : stage'[Node(u)] = stage[Node(u)],
         \A u \in Repairs : u # t => stage'[u] = stage[u],
         t \in Repairs => stage'[t] = "exec"
  PROVE  PositionOf(s)'
<1>1. \A u \in Tasks : u # t => pc'[u] = pc[u]
  BY DEF Goto, IInv, BaseInv, WebTypeOK
<1>2. Mild(s)
  BY <1>1, OwnFacts, TaskFacts DEF Mild
<1>3. QED
  BY <1>2, MildStep

LEMMA ChildPosition ==
  ASSUME IInv, NEW s \in Sources, NEW u \in Sources, NEW n \in 1 .. Rounds, ChildMove(u, n)
  PROVE  PositionOf(s)'
<1> USE TaskFacts
<1>1. UNCHANGED <<round, job>>
  BY DEF ChildMove, ScrapeRaises, EndExec, StartRepair, PatchRepair, CompleteExec, BlockRepair,
         RepairRaises, scrapeVars
<1>2. {"succeeded", "failed", "blocked"} \subseteq States \ {"none"} /\ {"read", "check"} \subseteq EventPCs
  BY DEF States, Stopped, EventPCs
<1>3. Node(s) \notin {Scrape(u, n), Repair(u, n), Exec(u, n)}
  OBVIOUS
<1>4. state[Exec(u, n)] # "none" => stage[Repair(u, n)] = "exec" \/ pc[Repair(u, n)] = "patch"
  BY OwnFacts
<1>5. CASE ScrapeRaises(u, n)
  BY <1>1, <1>2, <1>3, <1>5, EndPosition DEF ScrapeRaises
<1>6. CASE EndExec(u, n)
  BY <1>1, <1>2, <1>3, <1>6, EndPosition DEF EndExec
<1>7. CASE StartRepair(u, n)
  <2>1. state[Exec(u, n)] = "none" /\ state[Repair(u, n)] = "running"
    BY <1>4, <1>7, OwnFacts DEF StartRepair
  <2>2. /\ state'[Exec(u, n)] = "queued" /\ pc'[Repair(u, n)] = "patch"
        /\ \A t \in Tasks : t # Exec(u, n) => state'[t] = state[t]
        /\ \A t \in Tasks : t # Repair(u, n) => pc'[t] = pc[t]
        /\ UNCHANGED stage
    BY <1>7 DEF StartRepair, Register, Goto, IInv, BaseInv, WebTypeOK
  <2>3. ASSUME NEW m \in 1 .. Rounds
        PROVE  /\ state'[Exec(s, m)] # "none" =>
                    /\ state'[Repair(s, m)] # "none"
                    /\ stage'[Repair(s, m)] = "exec" \/ pc'[Repair(s, m)] = "patch"
               /\ state'[Repair(s, m)] = "succeeded" => state'[Exec(s, m)] = "succeeded"
    <3>1. CASE Exec(s, m) = Exec(u, n)
      BY <2>1, <2>2, <3>1, NamesDiffer
    <3>2. CASE Exec(s, m) # Exec(u, n)
      BY <2>1, <2>2, <3>2, OwnFacts
    <3>3. QED
      BY <3>1, <3>2
  <2>4. Mild(s)
    BY <1>1, <2>1, <2>2, <2>3, OwnFacts DEF Mild
  <2>5. QED
    BY <2>4, MildStep
<1>8. CASE PatchRepair(u, n)
  BY <1>1, <1>8, GotoPosition DEF PatchRepair, IInv, BaseInv, WebTypeOK
<1>9. CASE CompleteExec(u, n)
  <2>1. CASE EndedWell(Exec(u, n)) /\ End(Repair(u, n), "succeeded", "read")
    <3>1. Repair(u, n)[1] = u /\ Repair(u, n)[3] = n /\ state[Exec(u, n)] = "succeeded"
      BY <2>1 DEF Repair, EndedWell
    <3>2. QED
      BY <1>1, <1>2, <1>3, <1>9, <2>1, <3>1, EndPosition DEF CompleteExec
  <2>2. CASE Goto(Repair(u, n), "business") /\ UNCHANGED <<state, cb>>
    BY <1>1, <1>9, <2>2, GotoPosition DEF CompleteExec
  <2>3. QED
    BY <1>9, <2>1, <2>2 DEF CompleteExec
<1>10. CASE BlockRepair(u, n)
  <2>1. Repair(u, n)[1] = u /\ Repair(u, n)[3] = n
    BY DEF Repair
  <2>2. state[Exec(u, n)] # "none" => stage[Repair(u, n)] = "exec"
    BY <1>4, <1>10 DEF BlockRepair
  <2>3. QED
    BY <1>1, <1>2, <1>3, <1>10, <2>1, <2>2, EndPosition DEF BlockRepair
<1>11. CASE RepairRaises(u, n)
  BY <1>1, <1>11, GotoPosition DEF RepairRaises
<1>12. QED
  BY <1>5, <1>6, <1>7, <1>8, <1>9, <1>10, <1>11 DEF ChildMove

\* A node moves no other source.
LEMMA OtherPosition ==
  ASSUME IInv, NEW s \in Sources, NEW u \in Sources, s # u, NodeMove(u)
  PROVE  PositionOf(s)'
<1> USE TaskFacts
<1>1. Node(s) # Node(u)
      /\ \A m, n \in 1 .. Rounds : Scrape(s, m) # Scrape(u, n) /\ Repair(s, m) # Repair(u, n)
  BY NamesDiffer
<1>2. round[u] \in 0 .. Rounds
  BY DEF IInv, BaseInv, WebTypeOK
<1>3. /\ round'[s] = round[s]
      /\ \A t \in Nodes \cup Repairs : t # Node(u) => stage'[t] = stage[t]
      /\ \A t \in Tasks : t # Node(u) => pc'[t] = pc[t]
  BY DEF NodeMove, StartNode, CompleteScrape, CompleteRepair, PatchNode, BlockNode, FinishNode,
         Register, Goto, End, IInv, BaseInv, WebTypeOK
<1>4. \A t \in Scrapes : t[1] = s => job'[t] = job[t]
  <2>1. Scrape(u, round[u])[1] = u
    BY DEF Scrape
  <2>2. QED
    BY <2>1 DEF NodeMove, StartNode, CompleteScrape, CompleteRepair, PatchNode, BlockNode,
        FinishNode,
         scrapeVars, IInv, BaseInv, WebTypeOK
<1>5. \A t \in Tasks : t[1] = s => state'[t] = state[t]
  <2>1. \A n : Node(u)[1] = u /\ Scrape(u, n)[1] = u /\ Repair(u, n)[1] = u
    BY DEF Node, Scrape, Repair
  <2>2. QED
    BY <2>1 DEF NodeMove, StartNode, CompleteScrape, CompleteRepair, PatchNode, BlockNode,
        FinishNode,
         Register, End, IInv, BaseInv, WebTypeOK
<1>6. \A n : Node(s)[1] = s /\ Scrape(s, n)[1] = s /\ Repair(s, n)[1] = s /\ Exec(s, n)[1] = s
  BY DEF Node, Scrape, Repair, Exec
<1>7. Mild(s)
  BY <1>1, <1>3, <1>4, <1>5, <1>6, OwnFacts DEF Mild
<1>8. QED
  BY <1>7, MildStep

\* A node registers the task of the next stage.
LEMMA RegisterPosition ==
  ASSUME IInv, NEW s \in Sources, Register(Node(s), Scrape(s, round[s] + 1)), pc[Node(s)] = "run",
         UNCHANGED <<stage, round, job>>,
         \/ stage[Node(s)] = "prepare"
         \/ stage[Node(s)] = "repair" /\ state[Repair(s, round[s])] = "succeeded"
  PROVE  PositionOf(s)'
<1> USE TaskFacts, SourceAssumption
<1>1. /\ Place(s) /\ \A n \in 1 .. Rounds : OnlyOpen(s, n) /\ Justified(s, n)
      /\ round[s] \in 0 .. Rounds - 1 /\ stage[Node(s)] # "scrape"
      /\ state[Node(s)] = "running"
  BY PlaceFacts, OwnFacts DEF IInv, Position, PositionOf, Place
<1> DEFINE child == Scrape(s, round[s] + 1)
<1>2. /\ child \in Scrapes
      /\ \A t \in Tasks \ {child} : state'[t] = state[t]
      /\ pc'[Node(s)] = "patch" /\ \A t \in Tasks \ {Node(s)} : pc'[t] = pc[t]
  BY <1>1 DEF Register, Goto, IInv, BaseInv, WebTypeOK
<1>3. \A n \in 1 .. Rounds : Scrape(s, n) = child => n = round[s] + 1
  BY <1>1, NamesDiffer
<1>4. Place(s)'
  BY <1>1, <1>2 DEF Place
<1>5. ASSUME NEW n \in 1 .. Rounds
      PROVE  (OnlyOpen(s, n) /\ Justified(s, n))'
  <2>1. OnlyOpen(s, n) /\ Justified(s, n)
    BY <1>1
  <2>2. /\ state'[Repair(s, n)] = state[Repair(s, n)] /\ state'[Exec(s, n)] = state[Exec(s, n)]
        /\ n # round[s] + 1 => state'[Scrape(s, n)] = state[Scrape(s, n)]
        /\ pc'[Repair(s, n)] = pc[Repair(s, n)]
    BY <1>2, <1>3
  <2>3. OnlyOpen(s, n)'
    BY <1>1, <1>2, <2>1, <2>2 DEF OnlyOpen, ScrapeOpen, RepairOpen
  <2>4. RepairOpen(s, n)' => RepairOpen(s, n) /\ n <= round[s]
    BY <1>1 DEF RepairOpen, Place
  <2>5. ASSUME n < Rounds, ScrapeOpen(s, n + 1)'
        PROVE  state[Repair(s, n)] = "succeeded"
    <3>1. CASE n + 1 <= round[s]
      BY <2>1, <2>5, <3>1 DEF ScrapeOpen, Justified
    <3>2. CASE n = round[s]
      BY <1>1, <3>2 DEF Place
    <3>3. QED
      BY <1>1, <2>5, <3>1, <3>2 DEF ScrapeOpen
  <2>6. Justified(s, n)'
    <3>1. RepairOpen(s, n)' => state'[Scrape(s, n)] = "succeeded" /\ job'[Scrape(s, n)] = "repairing"
      BY <1>1, <2>1, <2>2, <2>4 DEF Justified
    <3>2. QED
      BY <2>1, <2>2, <2>5, <3>1 DEF Justified
  <2>7. QED
    BY <2>3, <2>6
<1>6. QED
  BY <1>4, <1>5 DEF PositionOf

\* A node registers the repair of its last scrape.
LEMMA RepairPosition ==
  ASSUME IInv, NEW s \in Sources, Register(Node(s), Repair(s, round[s])), pc[Node(s)] = "run",
         UNCHANGED <<stage, round, job>>, stage[Node(s)] = "scrape",
         state[Scrape(s, round[s])] = "succeeded", job[Scrape(s, round[s])] = "repairing"
  PROVE  PositionOf(s)'
<1> USE TaskFacts, SourceAssumption
<1>1. /\ Place(s) /\ \A n \in 1 .. Rounds : OnlyOpen(s, n) /\ Justified(s, n)
      /\ round[s] \in 1 .. Rounds /\ state[Repair(s, round[s])] = "none"
      /\ state[Node(s)] = "running"
  BY PlaceFacts, OwnFacts DEF IInv, Position, PositionOf
<1> DEFINE child == Repair(s, round[s])
<1>2. /\ child \in Repairs /\ state'[child] = "queued"
      /\ \A t \in Tasks \ {child} : state'[t] = state[t]
      /\ pc'[Node(s)] = "patch" /\ \A t \in Tasks \ {Node(s)} : pc'[t] = pc[t]
  BY <1>1 DEF Register, Goto, IInv, BaseInv, WebTypeOK
<1>3. \A n \in 1 .. Rounds : Repair(s, n) = child => n = round[s]
  BY <1>1, NamesDiffer
<1>4. Place(s)'
  BY <1>1, <1>2 DEF Place
<1>5. ASSUME NEW n \in 1 .. Rounds
      PROVE  (OnlyOpen(s, n) /\ Justified(s, n))'
  <2>1. OnlyOpen(s, n) /\ Justified(s, n)
    BY <1>1
  <2>2. /\ state'[Scrape(s, n)] = state[Scrape(s, n)] /\ state'[Exec(s, n)] = state[Exec(s, n)]
        /\ n # round[s] => state'[Repair(s, n)] = state[Repair(s, n)]
        /\ pc'[Repair(s, n)] = pc[Repair(s, n)]
    BY <1>2, <1>3
  <2>3. ScrapeOpen(s, n)' <=> ScrapeOpen(s, n)
    BY <1>1 DEF ScrapeOpen
  <2>4. ScrapeOpen(s, n + 1)' => ScrapeOpen(s, n + 1) /\ n # round[s]
    BY <1>1 DEF ScrapeOpen
  <2>5. RepairOpen(s, n)' => RepairOpen(s, n) \/ n = round[s]
    BY <1>1 DEF RepairOpen
  <2>6. OnlyOpen(s, n)'
    <3>1. RepairOpen(s, n) \/ n = round[s] => RepairOpen(s, n)'
      BY <1>1, <1>2 DEF RepairOpen
    <3>2. n = round[s] => state[Exec(s, n)] = "none"
      BY <1>1, <2>1 DEF OnlyOpen
    <3>3. QED
      BY <2>1, <2>2, <2>3, <3>1, <3>2 DEF OnlyOpen
  <2>7. Justified(s, n)'
    <3>1. RepairOpen(s, n)' => state'[Scrape(s, n)] = "succeeded" /\ job'[Scrape(s, n)] = "repairing"
      BY <2>1, <2>2, <2>5 DEF Justified
    <3>2. n < Rounds /\ ScrapeOpen(s, n + 1)' => state'[Repair(s, n)] = "succeeded"
      BY <2>1, <2>2, <2>4 DEF Justified
    <3>3. state'[Repair(s, n)] = "succeeded" => state'[Exec(s, n)] = "succeeded"
      BY <1>2, <2>1, <2>2 DEF Justified
    <3>4. QED
      BY <3>1, <3>2, <3>3 DEF Justified
  <2>8. QED
    BY <2>6, <2>7
<1>6. QED
  BY <1>4, <1>5 DEF PositionOf

\* The node patches its payload: what was open stays open, and no more.
LEMMA PatchPosition ==
  ASSUME IInv, NEW s \in Sources, PatchNode(s)
  PROVE  PositionOf(s)'
<1> USE TaskFacts, SourceAssumption
<1>1. /\ Place(s) /\ \A n \in 1 .. Rounds : OnlyOpen(s, n) /\ Justified(s, n)
      /\ round[s] \in 0 .. Rounds /\ pc[Node(s)] = "patch"
      /\ state[Node(s)] = "running"
  BY PlaceFacts, OwnFacts DEF IInv, Position, PositionOf, PatchNode
<1>2. /\ UNCHANGED <<state, job>> /\ pc'[Node(s)] = "active"
      /\ \A t \in Repairs : pc'[t] = pc[t] /\ stage'[t] = stage[t]
  BY DEF PatchNode, Goto, scrapeVars, IInv, BaseInv, WebTypeOK
<1>3. \/ stage[Node(s)] = "scrape" /\ stage'[Node(s)] = "repair" /\ round'[s] = round[s]
      \/ stage[Node(s)] # "scrape" /\ stage'[Node(s)] = "scrape" /\ round'[s] = round[s] + 1
  BY DEF PatchNode, IInv, BaseInv, WebTypeOK
<1>4. Place(s)'
  BY <1>1, <1>2, <1>3 DEF Place
<1>5. ASSUME NEW n \in 1 .. Rounds
      PROVE  (OnlyOpen(s, n) /\ Justified(s, n))'
  <2>1. OnlyOpen(s, n) /\ Justified(s, n)
    BY <1>1
  <2>2. /\ ScrapeOpen(s, n)' <=> ScrapeOpen(s, n)
        /\ ScrapeOpen(s, n + 1)' <=> ScrapeOpen(s, n + 1)
        /\ RepairOpen(s, n)' <=> RepairOpen(s, n)
    BY <1>1, <1>2, <1>3 DEF Place, ScrapeOpen, RepairOpen
  <2>3. QED
    BY <1>2, <2>1, <2>2 DEF OnlyOpen, Justified
<1>6. QED
  BY <1>4, <1>5 DEF PositionOf

\* A run of the node ends, or goes on to its end, without a registration.
LEMMA RestPosition ==
  ASSUME IInv, NEW s \in Sources, pc[Node(s)] \notin {"idle", "patch"}, UNCHANGED <<stage, round>>,
         \A t \in Tasks : t # Node(s) => state'[t] = state[t] /\ pc'[t] = pc[t],
         pc'[Node(s)] # "patch", state'[Node(s)] # "none",
         pc'[Node(s)] = "finish" \/ state'[Node(s)] = "succeeded" =>
            /\ stage[Node(s)] = "scrape"
            /\ state[Scrape(s, round[s])] = "succeeded",
         pc'[Node(s)] = "finish" => job'[Scrape(s, round[s])] = "succeeded",
         \A t \in Scrapes :
            job'[t] # job[t] => t = Scrape(s, round[s]) /\ stage[Node(s)] = "scrape"
  PROVE  PositionOf(s)'
<1> USE TaskFacts, SourceAssumption
<1>1. /\ Place(s) /\ \A n \in 1 .. Rounds : OnlyOpen(s, n) /\ Justified(s, n)
      /\ round[s] \in 0 .. Rounds
  BY PlaceFacts DEF IInv, Position, PositionOf
<1>2. Place(s)'
  <2>1. stage[Node(s)] = "scrape" => round[s] \in 1 .. Rounds
    BY <1>1 DEF Place
  <2>2. QED
    BY <1>1, <2>1 DEF Place
<1>3. ASSUME NEW n \in 1 .. Rounds
      PROVE  (OnlyOpen(s, n) /\ Justified(s, n))'
  <2>1. OnlyOpen(s, n) /\ Justified(s, n)
    BY <1>1
  <2>2. /\ ScrapeOpen(s, n)' <=> ScrapeOpen(s, n)
        /\ ScrapeOpen(s, n + 1)' <=> ScrapeOpen(s, n + 1)
        /\ RepairOpen(s, n)' <=> RepairOpen(s, n)
    BY DEF ScrapeOpen, RepairOpen
  <2>3. RepairOpen(s, n) => job'[Scrape(s, n)] = job[Scrape(s, n)]
    <3>1. CASE Scrape(s, n) = Scrape(s, round[s]) /\ stage[Node(s)] = "scrape"
      <4>1. n = round[s]
        BY <3>1 DEF Scrape
      <4>2. QED
        BY <1>1, <3>1, <4>1 DEF RepairOpen
    <3>2. QED
      BY <3>1
  <2>4. QED
    BY <2>1, <2>2, <2>3 DEF OnlyOpen, Justified
<1>4. QED
  BY <1>2, <1>3 DEF PositionOf

LEMMA NodePosition ==
  ASSUME IInv, NEW s \in Sources, NodeMove(s)
  PROVE  PositionOf(s)'
<1> USE TaskFacts
<1>1. WebTypeOK /\ Node(s) \in Tasks
  BY DEF IInv, BaseInv
<1>2. /\ \A w : Goto(Node(s), w) => pc'[Node(s)] = w /\ \A t \in Tasks : t # Node(s) => pc'[t] = pc[t]
      /\ \A x, h : End(Node(s), x, h) =>
            /\ pc'[Node(s)] = "idle" /\ state'[Node(s)] = x
            /\ \A t \in Tasks : t # Node(s) => state'[t] = state[t] /\ pc'[t] = pc[t]
  BY <1>1 DEF Goto, End, WebTypeOK
<1>3. state[Node(s)] # "none" /\ (pc[Node(s)] # "idle" => state[Node(s)] = "running")
  BY <1>1, OwnFacts
<1>4. CASE StartNode(s)
  <2>1. round[s] = 0 /\ round[s] + 1 = 1
    BY <1>4 DEF StartNode, IInv, Position, PositionOf, Place
  <2>2. Register(Node(s), Scrape(s, round[s] + 1))
    BY <1>4, <2>1 DEF StartNode
  <2>3. QED
    BY <1>4, <2>2, RegisterPosition DEF StartNode, scrapeVars
<1>5. CASE CompleteScrape(s)
  <2> DEFINE child == Scrape(s, round[s])
  <2>1. UNCHANGED <<stage, round, job>> /\ pc[Node(s)] = "run" /\ stage[Node(s)] = "scrape"
    BY <1>5 DEF CompleteScrape, scrapeVars
  <2>2. CASE EndedWell(child) /\ job[child] = "repairing" /\ Register(Node(s), Repair(s, round[s]))
    BY <2>1, <2>2, RepairPosition DEF EndedWell
  <2>3. CASE Goto(Node(s), "business") /\ UNCHANGED state
    BY <1>2, <1>3, <2>1, <2>3, RestPosition
  <2>4. CASE EndedWell(child) /\ job[child] = "succeeded" /\ Goto(Node(s), "finish") /\ UNCHANGED state
    BY <1>2, <1>3, <2>1, <2>4, RestPosition DEF EndedWell
  <2>5. CASE End(Node(s), "failed", "idle")
    BY <1>2, <2>1, <2>5, RestPosition
  <2>6. QED
    BY <1>5, <2>2, <2>3, <2>4, <2>5 DEF CompleteScrape
<1>6. CASE CompleteRepair(s)
  <2>1. CASE EndedWell(Repair(s, round[s]))
    BY <1>6, <2>1, RegisterPosition DEF CompleteRepair, EndedWell, scrapeVars
  <2>2. CASE ~EndedWell(Repair(s, round[s]))
    <3>1. pc[Node(s)] = "run" /\ Goto(Node(s), "business") /\ UNCHANGED <<state, stage, round, job>>
      BY <1>6, <2>2 DEF CompleteRepair, scrapeVars
    <3>2. QED
      BY <1>2, <1>3, <3>1, RestPosition
  <2>3. QED
    BY <2>1, <2>2
<1>7. CASE PatchNode(s)
  BY <1>7, PatchPosition
<1>8. CASE BlockNode(s)
  <2>1. /\ pc[Node(s)] \in {"active", "business"} /\ End(Node(s), "blocked", "notify")
        /\ UNCHANGED <<stage, round, job>>
    BY <1>8 DEF BlockNode, scrapeVars
  <2>2. QED
    BY <1>2, <2>1, RestPosition
<1>9. CASE FinishNode(s)
  <2>1. UNCHANGED <<stage, round>> /\ pc[Node(s)] = "finish"
    BY <1>9 DEF FinishNode
  <2>2. stage[Node(s)] = "scrape" /\ state[Scrape(s, round[s])] = "succeeded"
    BY <2>1 DEF IInv, Position, PositionOf, Place
  <2>3. \A t \in Scrapes : job'[t] = job[t] \/ t = Scrape(s, round[s])
    BY <1>1, <1>9 DEF FinishNode, WebTypeOK
  <2>4. End(Node(s), "succeeded", "idle") \/ End(Node(s), "failed", "idle")
    BY <1>9 DEF FinishNode
  <2>5. QED
    BY <1>2, <2>1, <2>2, <2>3, <2>4, RestPosition
<1>10. QED
  BY <1>4, <1>5, <1>6, <1>7, <1>8, <1>9 DEF NodeMove

-----------------------------------------------------------------------------
(* The invariant, and what follows from it                                  *)

LEMMA InitInv == Init => IInv
<1> SUFFICES ASSUME Init PROVE IInv
  OBVIOUS
<1>1. BaseInv
  BY InitBase
<1>2. ASSUME NEW s \in Sources
      PROVE  PositionOf(s)
  <2>1. Place(s)
    BY TaskFacts DEF Init, Place
  <2>2. ASSUME NEW n \in 1 .. Rounds
        PROVE  OnlyOpen(s, n) /\ Justified(s, n)
    <3>1. /\ state[Scrape(s, n)] = "none" /\ state[Repair(s, n)] = "none"
          /\ state[Exec(s, n)] = "none"
      BY TaskFacts DEF Init
    <3>2. ~RepairOpen(s, n) /\ ~ScrapeOpen(s, n + 1)
      BY TaskFacts DEF Init, RepairOpen, ScrapeOpen
    <3>3. QED
      BY <3>1, <3>2 DEF OnlyOpen, Justified
  <2>3. QED
    BY <2>1, <2>2 DEF PositionOf
<1>3. QED
  BY <1>1, <1>2 DEF IInv, Position

\* Who changes what is lost.
LEMMA LossCases ==
  ASSUME [Next]_vars
  PROVE  \/ UNCHANGED lossVars
         \/ \E s \in Sources, n \in 1 .. Rounds : RepairRaises(s, n)
         \/ \E t \in Tasks : TakeBack(t)
<1>1. ASSUME NEW s \in Sources, NodeStep(s)
      PROVE  UNCHANGED lossVars
  BY <1>1 DEF NodeStep, StartNode, CompleteScrape, CompleteRepair, PatchNode, BlockNode,
              FinishNode, Notify, Look, SkipBlocked
<1>2. ASSUME NEW s \in Sources, NEW n \in 1 .. Rounds, ChildStep(s, n), ~RepairRaises(s, n)
      PROVE  UNCHANGED lossVars
  BY <1>2 DEF ChildStep, Attempt, ScrapeRaises, EndExec, StartRepair, PatchRepair, CompleteExec,
              BlockRepair
<1>3. ASSUME NEW t \in Tasks, Claim(t) \/ Callback(t)
      PROVE  UNCHANGED lossVars
  BY <1>3 DEF Claim, Callback, Read, Check, Wake
<1>4. ASSUME Command
      PROVE  UNCHANGED lossVars
  BY <1>4 DEF Command, Retry, Cancel, Skip, SkipOther
<1>5. QED
  BY <1>1, <1>2, <1>3, <1>4 DEF Next, vars

\* What is lost stays lost, and only a lost repair has a task taken back.
LEMMA LossFacts ==
  ASSUME [Next]_vars
  PROVE  /\ NoneLost' => NoneLost
         /\ NoneLost' /\ failing = {} => failing' = {}
<1>1. ASSUME NEW s \in Sources, NEW n \in 1 .. Rounds, RepairRaises(s, n)
      PROVE  ~NoneLost'
  BY <1>1 DEF RepairRaises, NoneLost
<1>2. ASSUME NEW t \in Tasks, TakeBack(t)
      PROVE  lost' = lost /\ failing # {}
  BY <1>2 DEF TakeBack
<1>3. QED
  BY <1>1, <1>2, LossCases DEF lossVars, NoneLost

LEMMA StepInv ==
  ASSUME IInv, failing = {}, [Next]_vars
  PROVE  IInv'
<1>1. ASSUME NEW u \in Sources, NodeMove(u)
      PROVE  IInv'
  <2>1. ASSUME NEW s \in Sources
        PROVE  PositionOf(s)'
    BY <1>1, NodePosition, OtherPosition
  <2>2. QED
    BY <1>1, <2>1, NodeBase DEF IInv, Position
<1>2. ASSUME NEW u \in Sources, NEW n \in 1 .. Rounds, Attempt(u, n) \/ ChildMove(u, n)
      PROVE  IInv'
  <2>1. ASSUME NEW s \in Sources
        PROVE  PositionOf(s)'
    BY <1>2, AttemptPosition, ChildPosition
  <2>2. BaseInv'
    BY <1>2, AttemptBase, ChildBase
  <2>3. QED
    BY <2>1, <2>2 DEF IInv, Position
<1>3. ASSUME NEW t \in Tasks, Claim(t)
      PROVE  IInv'
  BY <1>3, ClaimBase, ClaimPosition DEF IInv, Position
<1>4. CASE QuietStep
  <2>1. WebTypeOK' /\ Quiet /\ UNCHANGED <<pc, stage, round, tries, job>>
    BY <1>4, QuietStepFacts
  <2>2. BaseInv'
    BY <2>1, QuietBase DEF IInv
  <2>3. ASSUME NEW s \in Sources
        PROVE  PositionOf(s)'
    BY <2>1, QuietPosition
  <2>4. QED
    BY <2>2, <2>3 DEF IInv, Position
<1>5. CASE UNCHANGED vars
  <2>1. WebTypeOK' /\ Quiet /\ UNCHANGED <<pc, stage, round, tries, job>>
    BY <1>5 DEF vars, nodeVars, scrapeVars, eventVars, Quiet, IInv, BaseInv, WebTypeOK
  <2>2. BaseInv'
    BY <2>1, QuietBase DEF IInv
  <2>3. ASSUME NEW s \in Sources
        PROVE  PositionOf(s)'
    BY <2>1, QuietPosition
  <2>4. QED
    BY <2>2, <2>3 DEF IInv, Position
<1>6. ASSUME NEW t \in Tasks, TakeBack(t)
      PROVE  FALSE
  BY <1>6 DEF TakeBack
<1>7. QED
  BY <1>1, <1>2, <1>3, <1>4, <1>5, <1>6, NextCases

LossInv == NoneLost => IInv /\ failing = {}

LEMMA AlwaysInv == Spec => []LossInv
<1>1. Init => LossInv
  BY InitInv DEF Init, LossInv
<1>2. LossInv /\ [Next]_vars => LossInv'
  BY StepInv, LossFacts DEF LossInv
<1>3. QED
  BY <1>1, <1>2, PTL DEF Spec

LEMMA LossTypes == Spec => []LossTypeOK
<1>1. Init => LossTypeOK
  BY DEF Init, LossTypeOK
<1>2. LossTypeOK /\ [Next]_vars => LossTypeOK'
  <2> SUFFICES ASSUME LossTypeOK, [Next]_vars
               PROVE  LossTypeOK'
    OBVIOUS
  <2>1. ASSUME NEW s \in Sources, NEW n \in 1 .. Rounds, RepairRaises(s, n)
        PROVE  LossTypeOK'
    BY <2>1, TaskFacts DEF RepairRaises, LossTypeOK
  <2>2. ASSUME NEW t \in Tasks, TakeBack(t)
        PROVE  LossTypeOK'
    BY <2>2 DEF TakeBack, LossTypeOK
  <2>3. ASSUME UNCHANGED lossVars
        PROVE  LossTypeOK'
    BY <2>3 DEF lossVars, LossTypeOK
  <2>4. QED
    BY <2>1, <2>2, <2>3, LossCases
<1>3. QED
  BY <1>1, <1>2, PTL DEF Spec

\* Every variable of the sources keeps its type: no source goes beyond its
\* rounds, and no job beyond its attempts, as long as no repair has raised
\* (run_source, and the run of the node).
THEOREM WebTypeCorrect == Spec => [](LossTypeOK /\ (NoneLost => WebTypeOK))
<1>1. LossInv => (NoneLost => WebTypeOK)
  BY DEF LossInv, IInv, BaseInv
<1>2. QED
  BY <1>1, AlwaysInv, LossTypes, PTL

LEMMA InvOrders == IInv => RoundsInOrder
<1> SUFFICES ASSUME IInv, NEW s \in Sources, NEW n \in 1 .. Rounds
             PROVE  /\ state[Repair(s, n)] # "none" =>
                          state[Scrape(s, n)] = "succeeded" /\ job[Scrape(s, n)] = "repairing"
                    /\ state[Exec(s, n)] # "none" => state[Repair(s, n)] # "none"
                    /\ n < Rounds /\ state[Scrape(s, n + 1)] # "none" =>
                          state[Repair(s, n)] = "succeeded" /\ state[Exec(s, n)] = "succeeded"
  BY DEF RoundsInOrder
<1>1. \A m \in 1 .. Rounds : OnlyOpen(s, m) /\ Justified(s, m)
  BY DEF IInv, Position, PositionOf
<1>2. n < Rounds => n + 1 \in 1 .. Rounds
  BY SourceAssumption
<1>3. QED
  BY <1>1, <1>2 DEF OnlyOpen, Justified

\* A round begins only with the end of the one before, for any interleaving of
\* wake-ups, until a repair raises (_complete_scrape_stage,
\* _complete_repair_stage).
THEOREM RoundsAreInOrder == Spec => []RoundsInOrder
<1>1. LossInv => RoundsInOrder
  BY InvOrders DEF LossInv, RoundsInOrder
<1>2. QED
  BY <1>1, AlwaysInv, PTL

LEMMA InvExcludes == IInv => NoScrapeDuringRepair
<1> SUFFICES ASSUME IInv, NEW s \in Sources, NEW m \in 1 .. Rounds, NEW n \in 1 .. Rounds,
                    AtWork(Scrape(s, m)), AtWork(Repair(s, n)) \/ AtWork(Exec(s, n))
             PROVE  FALSE
  BY DEF NoScrapeDuringRepair
<1>1. \A i \in 1 .. Rounds : OnlyOpen(s, i) /\ Justified(s, i)
  BY DEF IInv, Position, PositionOf
<1>2. round[s] \in 0 .. Rounds
  BY DEF IInv, BaseInv, WebTypeOK
<1>3. ScrapeOpen(s, m) /\ state[Scrape(s, m)] # "succeeded"
  BY <1>1 DEF AtWork, Active, OnlyOpen
<1>4. RepairOpen(s, n) /\ (state[Repair(s, n)] # "succeeded" \/ state[Exec(s, n)] # "succeeded")
  BY <1>1 DEF AtWork, Active, OnlyOpen
<1>5. ~RepairOpen(s, m)
  BY <1>1, <1>3 DEF Justified
<1>6. n < m
  BY <1>2, <1>4, <1>5 DEF RepairOpen
<1>7. n < Rounds /\ ScrapeOpen(s, n + 1)
  BY <1>2, <1>3, <1>6, SourceAssumption DEF ScrapeOpen
<1>8. QED
  BY <1>1, <1>4, <1>7 DEF Justified

\* No extractor is run while a repair of it is at work, until a repair raises.
THEOREM RepairsExcludeScrapes == Spec => []NoScrapeDuringRepair
<1>1. LossInv => NoScrapeDuringRepair
  BY InvExcludes DEF LossInv, NoScrapeDuringRepair
<1>2. QED
  BY <1>1, AlwaysInv, PTL

LEMMA InvLeavesNothing == IInv => NothingLeftBehind
<1> SUFFICES ASSUME IInv, NEW s \in Sources, state[Node(s)] = "succeeded",
                    NEW t \in Tasks \ Nodes, t[1] = s, AtWork(t)
             PROVE  FALSE
  BY DEF NothingLeftBehind
<1>1. \A n \in 1 .. Rounds : OnlyOpen(s, n) /\ Justified(s, n)
  BY DEF IInv, Position, PositionOf
<1>2. /\ stage[Node(s)] = "scrape" /\ round[s] \in 1 .. Rounds /\ pc[Node(s)] # "patch"
      /\ state[Scrape(s, round[s])] = "succeeded"
  BY TaskFacts, SourceAssumption
     DEF IInv, BaseInv, RunInv, WebTypeOK, Position, PositionOf, Place
<1>3. PICK n \in 1 .. Rounds : t \in {Scrape(s, n), Repair(s, n), Exec(s, n)}
  <2>1. PICK u \in Sources, n \in 1 .. Rounds : t \in {Node(u), Scrape(u, n), Repair(u, n), Exec(u, n)}
    BY TaskNames
  <2>2. t # Node(u)
    BY TaskFacts
  <2>3. u = s
    BY <2>1, <2>2 DEF Scrape, Repair, Exec
  <2>4. QED
    BY <2>1, <2>2, <2>3
<1>4. \A i \in 1 .. Rounds : RepairOpen(s, i) =>
         /\ state[Scrape(s, i)] = "succeeded"
         /\ state[Repair(s, i)] = "succeeded" /\ state[Exec(s, i)] = "succeeded"
  <2> SUFFICES ASSUME NEW i \in 1 .. Rounds, RepairOpen(s, i)
               PROVE  /\ state[Scrape(s, i)] = "succeeded"
                      /\ state[Repair(s, i)] = "succeeded" /\ state[Exec(s, i)] = "succeeded"
    OBVIOUS
  <2>1. i < round[s] /\ ScrapeOpen(s, i + 1)
    BY <1>2 DEF RepairOpen, ScrapeOpen
  <2>2. QED
    BY <1>1, <1>2, <2>1, SourceAssumption DEF Justified
<1>5. CASE t = Scrape(s, n)
  <2>1. n <= round[s]
    BY <1>1, <1>2, <1>5 DEF AtWork, Active, OnlyOpen, ScrapeOpen
  <2>2. n = round[s] \/ RepairOpen(s, n)
    BY <1>2, <2>1 DEF RepairOpen
  <2>3. QED
    BY <1>2, <1>4, <1>5, <2>2 DEF AtWork, Active
<1>6. CASE t \in {Repair(s, n), Exec(s, n)}
  <2>1. RepairOpen(s, n)
    BY <1>1, <1>6 DEF AtWork, Active, OnlyOpen
  <2>2. QED
    BY <1>4, <1>6, <2>1 DEF AtWork, Active
<1>7. QED
  BY <1>3, <1>5, <1>6

\* A source that has succeeded has no task left that is queued or running,
\* until a repair raises.
THEOREM NoneLeftBehind == Spec => []NothingLeftBehind
<1>1. LossInv => NothingLeftBehind
  BY InvLeavesNothing DEF LossInv, NothingLeftBehind
<1>2. QED
  BY <1>1, AlwaysInv, PTL

\* A source that succeeds does so with the items of its last scrape, until a
\* repair raises (_complete_scrape_stage, _persist_web_source_checkpoint).
THEOREM SuccessHasItems == Spec => SucceedsWithItems
<1> DEFINE WithItems ==
      \A s \in Sources :
          NoneLost /\ state[Node(s)] # "succeeded" /\ state'[Node(s)] = "succeeded" =>
              /\ job[Scrape(s, round[s])] = "succeeded"
              /\ \A n \in (round[s] + 1) .. Rounds : state[Scrape(s, n)] = "none"
<1>1. LossInv /\ [Next]_vars => WithItems
  <2> SUFFICES ASSUME IInv, failing = {}, [Next]_vars, NEW s \in Sources,
                      state[Node(s)] # "succeeded", state'[Node(s)] = "succeeded"
               PROVE  /\ job[Scrape(s, round[s])] = "succeeded"
                      /\ \A n \in (round[s] + 1) .. Rounds : state[Scrape(s, n)] = "none"
    BY DEF LossInv
  <2> USE TaskFacts
  <2>1. pc[Node(s)] = "finish"
    <3>1. ASSUME NEW u \in Sources, NodeMove(u)
          PROVE  pc[Node(s)] = "finish"
      <4>1. u = s
        <5>1. u # s => Node(u) # Node(s)
          BY NamesDiffer
        <5>2. \A n : Scrape(u, n) # Node(s) /\ Repair(u, n) # Node(s)
          BY DEF Scrape, Repair, Node
        <5>3. QED
          BY <3>1, <5>1, <5>2
             DEF NodeMove, StartNode, CompleteScrape, CompleteRepair, PatchNode, BlockNode, FinishNode,
                 Register, End, IInv, BaseInv, WebTypeOK
      <4>2. \A n : Scrape(s, n) # Node(s) /\ Repair(s, n) # Node(s)
        BY DEF Scrape, Repair, Node
      <4>3. QED
        BY <3>1, <4>1, <4>2
           DEF NodeMove, StartNode, CompleteScrape, CompleteRepair, PatchNode, BlockNode, FinishNode,
               Register, End, IInv, BaseInv, WebTypeOK
    <3>2. ASSUME NEW u \in Sources, NEW n \in 1 .. Rounds, Attempt(u, n)
          PROVE  FALSE
      BY <3>2 DEF Attempt, End, IInv, BaseInv, WebTypeOK
    <3>3. ASSUME NEW u \in Sources, NEW n \in 1 .. Rounds, ChildMove(u, n)
          PROVE  FALSE
      BY <3>3 DEF ChildMove, ScrapeRaises, EndExec, StartRepair, PatchRepair, CompleteExec,
                  BlockRepair, RepairRaises, Register, End, IInv, BaseInv, WebTypeOK
    <3>4. ASSUME NEW t \in Tasks, Claim(t)
          PROVE  FALSE
      BY <3>4 DEF Claim, IInv, BaseInv, WebTypeOK
    <3>5. ~QuietStep
      BY QuietStepFacts DEF Quiet
    <3>6. ~UNCHANGED vars
      BY DEF vars
    <3>7. \A t \in Tasks : ~TakeBack(t)
      BY DEF TakeBack
    <3>8. QED
      BY <3>1, <3>2, <3>3, <3>4, <3>5, <3>6, <3>7, NextCases
  <2>2. /\ stage[Node(s)] = "scrape" /\ job[Scrape(s, round[s])] = "succeeded"
        /\ round[s] \in 0 .. Rounds
    BY <2>1 DEF IInv, BaseInv, WebTypeOK, Position, PositionOf, Place
  <2>3. \A n \in (round[s] + 1) .. Rounds : n \in 1 .. Rounds /\ ~ScrapeOpen(s, n)
    BY <2>2, SourceAssumption DEF ScrapeOpen
  <2>4. QED
    BY <2>2, <2>3 DEF IInv, Position, PositionOf, OnlyOpen
<1>2. QED
  BY <1>1, AlwaysInv, PTL DEF Spec, SucceedsWithItems

-----------------------------------------------------------------------------
(* A blocked source is heard                                                *)

\* A child that has not run.
Unstarted == {"queued", "cancelled", "skipped"}

NextChild(s) ==
    IF stage[Node(s)] = "scrape" THEN Repair(s, round[s]) ELSE Scrape(s, round[s] + 1)

\* Between the registration of a child and the end of the node's run nobody
\* claims the child, if no other thread drains.
Placed(s) ==
    /\ pc[Node(s)] = "patch" => state[NextChild(s)] \in Unstarted
    /\ pc[Node(s)] = "active" => stage[Node(s)] # "prepare" /\ state[Awaited(s)] \in Unstarted

Heard(s) ==
    /\ s \in waiting =>
          /\ state[Node(s)] = "blocked" /\ stage[Node(s)] # "prepare"
          /\ \/ state[Awaited(s)] \in Active \cup {"cancelled", "skipped"}
             \/ cb[Awaited(s)] \in {"read", "check", "wake"}
    /\ state[Node(s)] = "blocked" /\ s \notin waiting => cb[Node(s)] \in {"notify", "look", "skip"}

HeardInv == \A s \in Sources : Placed(s) /\ Heard(s)

\* The children that Placed and Heard speak of are tasks.
LEMMA AwaitedFacts ==
  ASSUME IInv, NEW s \in Sources
  PROVE  /\ stage[Node(s)] # "prepare" => Awaited(s) \in Scrapes \cup Repairs
         /\ pc[Node(s)] = "patch" => NextChild(s) \in Scrapes \cup Repairs
         /\ stage[Node(s)] # "prepare" => Parent(Awaited(s)) = Node(s)
         /\ pc[Node(s)] = "patch" => Parent(NextChild(s)) = Node(s)
<1>1. round[s] \in 0 .. Rounds /\ Place(s)
  BY DEF IInv, BaseInv, WebTypeOK, Position, PositionOf
<1>2. stage[Node(s)] # "prepare" => round[s] \in 1 .. Rounds
  BY <1>1, SourceAssumption DEF Place
<1>3. pc[Node(s)] = "patch" /\ stage[Node(s)] # "scrape" => round[s] + 1 \in 1 .. Rounds
  BY <1>1, SourceAssumption DEF Place
<1>4. QED
  BY <1>1, <1>2, <1>3, TaskFacts, ParentFacts DEF Awaited, NextChild, Place

\* What a command or a handler does to a source it does not mean.
Calm(s) ==
    /\ UNCHANGED <<pc, stage, round>>
    /\ s \in waiting' => s \in waiting /\ state'[Node(s)] = state[Node(s)]
    /\ state'[Node(s)] = "blocked" => state[Node(s)] = "blocked" /\ (s \in waiting' <=> s \in waiting)
    /\ \A t \in Scrapes \cup Repairs :
          /\ state[t] \in Unstarted => state'[t] \in Unstarted
          /\ state[t] \in Active \cup {"cancelled", "skipped"} =>
                state'[t] \in Active \cup {"cancelled", "skipped"}

LEMMA CalmPlaced ==
  ASSUME IInv, NEW s \in Sources, Placed(s), Calm(s)
  PROVE  Placed(s)'
<1>1. Awaited(s)' = Awaited(s) /\ NextChild(s)' = NextChild(s)
  BY DEF Calm, Awaited, NextChild
<1>2. QED
  BY <1>1, AwaitedFacts DEF Calm, Placed

\* Callbacks and handlers apart, nothing is heard less.
LEMMA CalmHeard ==
  ASSUME IInv, NEW s \in Sources, Placed(s), Heard(s), Calm(s), UNCHANGED cb
  PROVE  Placed(s)' /\ Heard(s)'
<1>1. Awaited(s)' = Awaited(s)
  BY DEF Calm, Awaited
<1>2. QED
  BY <1>1, AwaitedFacts, CalmPlaced DEF Calm, Heard

LEMMA SkipIsCalm ==
  ASSUME WebTypeOK, NEW s \in Sources, NEW t \in Tasks, SkipTask(t), UNCHANGED <<pc, stage, round>>
  PROVE  Calm(s)
<1> USE TaskFacts
<1>1. CASE state[t] \in {"succeeded", "skipped", "running"}
  BY <1>1 DEF SkipTask, Calm
<1>2. CASE state[t] \notin {"succeeded", "skipped", "running"}
  BY <1>2 DEF SkipTask, Released, Calm, WebTypeOK, Unstarted, Active
<1>3. QED
  BY <1>1, <1>2

LEMMA RetryIsCalm ==
  ASSUME WebTypeOK, NEW s \in Sources, NEW t \in Tasks, RetryTask(t), UNCHANGED <<pc, stage, round>>
  PROVE  Calm(s)
<1> USE TaskFacts
<1>1. CASE state[t] \notin Stopped
  BY <1>1 DEF RetryTask, Calm
<1>2. CASE state[t] \in Stopped
  <2>1. state' = [state EXCEPT ![t] = "queued"]
    BY <1>2 DEF RetryTask
  <2>2. waiting' = IF t \in Nodes THEN waiting \ {t[1]} ELSE waiting
    BY <1>2 DEF RetryTask
  <2>3. CASE t = Node(s)
    <3>1. s \notin waiting' /\ state'[Node(s)] = "queued"
      BY <2>1, <2>2, <2>3 DEF WebTypeOK, Node
    <3>2. QED
      BY <2>1, <2>3, <3>1 DEF Calm, WebTypeOK, Unstarted, Active
  <2>4. CASE t # Node(s)
    <3>1. t \in Nodes => t[1] # s
      BY <2>4 DEF Node, Nodes
    <3>2. s \in waiting' <=> s \in waiting
      BY <2>2, <3>1
    <3>3. QED
      BY <2>1, <2>4, <3>2 DEF Calm, WebTypeOK, Unstarted, Active
  <2>5. QED
    BY <2>3, <2>4
<1>3. QED
  BY <1>1, <1>2

\* When a callback of the child that is waited for looks at its group, the
\* others have ended: the scrape is alone in its round, and the repairs of the
\* rounds before have succeeded.
LEMMA GroupFacts ==
  ASSUME IInv, NEW s \in Sources, pc[Node(s)] # "patch", stage[Node(s)] # "prepare",
         NEW u \in GroupOf(Awaited(s)), state[u] \in Active
  PROVE  u = Awaited(s)
<1> USE TaskFacts
<1>1. /\ round[s] \in 1 .. Rounds /\ stage[Node(s)] \in {"scrape", "repair"}
      /\ \A n \in 1 .. Rounds : OnlyOpen(s, n) /\ Justified(s, n)
  BY SourceAssumption DEF IInv, BaseInv, WebTypeOK, Position, PositionOf, Place
<1>2. Awaited(s)[1] = s /\ Awaited(s)[2] # "exec"
  BY DEF Awaited, Scrape, Repair
<1>3. CASE seen[Awaited(s)] = "scrape"
  <2>1. u = Scrape(s, round[s])
    BY <1>2, <1>3 DEF GroupOf, Scrape, Scrapes
  <2>2. stage[Node(s)] # "repair"
    <3>1. stage[Node(s)] = "repair" => state[Scrape(s, round[s])] = "succeeded"
      BY <1>1 DEF Justified, RepairOpen
    <3>2. QED
      BY <2>1, <3>1 DEF Active
  <2>3. QED
    BY <2>1, <2>2 DEF Awaited
<1>4. CASE seen[Awaited(s)] # "scrape"
  <2>1. PICK n \in 1 .. Rounds : u = Repair(s, n)
    BY <1>2, <1>4 DEF GroupOf, Repair, Repairs
  <2>2. RepairOpen(s, n)
    BY <1>1, <2>1 DEF OnlyOpen, Active
  <2>3. n = round[s] /\ stage[Node(s)] = "repair"
    <3>1. ASSUME n < round[s] PROVE FALSE
      <4>1. n < Rounds /\ ScrapeOpen(s, n + 1)
        BY <1>1, <3>1, SourceAssumption DEF ScrapeOpen
      <4>2. QED
        BY <1>1, <2>1, <4>1 DEF Justified, Active
    <3>2. QED
      BY <2>2, <3>1 DEF RepairOpen
  <2>4. QED
    BY <2>1, <2>3 DEF Awaited
<1>5. QED
  BY <1>3, <1>4

LEMMA CallbackHeard ==
  ASSUME IInv, NEW s \in Sources, Placed(s), Heard(s), NEW t \in Tasks, Callback(t)
  PROVE  Placed(s)' /\ Heard(s)'
<1> USE TaskFacts
<1>1. WebTypeOK /\ RunInv
  BY DEF IInv, BaseInv
<1>2. CASE t \in Scrapes \cup Repairs /\ Read(t)
  <2>1. UNCHANGED <<state, pc, stage, round, waiting>>
    BY <1>2 DEF Read, nodeVars
  <2>2. Calm(s) /\ Awaited(s)' = Awaited(s)
    BY <2>1 DEF Calm, Awaited
  <2>3. t # Node(s) /\ cb' = [cb EXCEPT ![t] = IF stage[Parent(t)] = "prepare" THEN "idle" ELSE "check"]
    BY <1>2 DEF Read, Event
  <2>4. stage[Node(s)] # "prepare" /\ t = Awaited(s) => cb'[t] = "check"
    BY <1>1, <2>3, AwaitedFacts DEF WebTypeOK
  <2>5. cb'[Node(s)] = cb[Node(s)] /\ \A u \in Tasks \ {t} : cb'[u] = cb[u]
    BY <1>1, <2>3 DEF WebTypeOK
  <2>6. QED
    BY <2>1, <2>2, <2>4, <2>5, AwaitedFacts, CalmPlaced DEF Heard
<1>3. CASE Check(t)
  <2>1. UNCHANGED <<state, pc, stage, round, waiting>> /\ cb[t] = "check"
    BY <1>3 DEF Check, nodeVars
  <2>2. Calm(s) /\ Awaited(s)' = Awaited(s)
    BY <2>1 DEF Calm, Awaited
  <2>3. cb' = [cb EXCEPT ![t] = IF \E u \in GroupOf(t) : state[u] \in Active THEN "idle" ELSE "wake"]
    BY <1>3 DEF Check, Event
  <2>4. \A u \in Tasks \ {t} : cb'[u] = cb[u]
    BY <1>1, <2>3 DEF WebTypeOK
  <2>5. ASSUME s \in waiting, t = Awaited(s)
        PROVE  cb'[t] = "wake" \/ state[t] \in Active
    <3>1. pc[Node(s)] # "patch" /\ stage[Node(s)] # "prepare"
      BY <1>1, <2>5 DEF Heard, RunInv
    <3>2. ASSUME NEW u \in GroupOf(t), state[u] \in Active
          PROVE  state[t] \in Active
      BY <2>5, <3>1, <3>2, GroupFacts
    <3>3. QED
      BY <1>1, <2>3, <3>2 DEF WebTypeOK
  <2>6. state[Node(s)] = "blocked" /\ s \notin waiting => t # Node(s)
    BY <2>1 DEF Heard
  <2>7. QED
    BY <2>1, <2>2, <2>4, <2>5, <2>6, AwaitedFacts, CalmPlaced DEF Heard
<1>4. CASE Wake(t)
  <2>1. UNCHANGED <<pc, stage, round>> /\ RetryTask(Parent(t)) /\ cb[t] = "wake"
        /\ cb' = [cb EXCEPT ![t] = "idle"]
    BY <1>4 DEF Wake, Event
  <2>2. Calm(s)
    BY <1>1, <2>1, ParentFacts, RetryIsCalm
  <2>3. Awaited(s)' = Awaited(s)
    BY <2>1 DEF Awaited
  <2>4. \A u \in Tasks \ {t} : cb'[u] = cb[u]
    BY <1>1, <2>1 DEF WebTypeOK
  <2>5. ~(s \in waiting' /\ t = Awaited(s))
    <3> SUFFICES ASSUME s \in waiting', t = Awaited(s) PROVE FALSE
      OBVIOUS
    <3>1. state[Node(s)] = "blocked" /\ Parent(t) = Node(s) /\ state'[Node(s)] = state[Node(s)]
      BY <2>2, AwaitedFacts DEF Calm, Heard
    <3>2. QED
      BY <1>1, <2>1, <3>1 DEF RetryTask, Stopped, WebTypeOK
  <2>6. state[Node(s)] = "blocked" /\ s \notin waiting => t # Node(s)
    BY <2>1 DEF Heard
  <2>7. QED
    BY <2>2, <2>3, <2>4, <2>5, <2>6, AwaitedFacts, CalmPlaced DEF Heard, Calm
<1>5. QED
  BY <1>2, <1>3, <1>4 DEF Callback

LEMMA QuietHeard ==
  ASSUME IInv, NEW s \in Sources, Placed(s), Heard(s), QuietStep
  PROVE  Placed(s)' /\ Heard(s)'
<1> USE TaskFacts
<1>1. WebTypeOK
  BY DEF IInv, BaseInv
<1>2. ASSUME NEW u \in Sources, Notify(u) \/ Look(u)
      PROVE  Placed(s)' /\ Heard(s)'
  <2>1. UNCHANGED <<state, pc, stage, round, waiting>>
    BY <1>2 DEF Notify, Look, nodeVars
  <2>2. Calm(s) /\ Awaited(s)' = Awaited(s)
    BY <2>1 DEF Calm, Awaited
  <2>3. \A t \in Tasks \ {Node(u)} : cb'[t] = cb[t]
    BY <1>1, <1>2 DEF Notify, Look, Event, WebTypeOK
  <2>4. state[Node(s)] = "blocked" /\ s \notin waiting => cb'[Node(s)] \in {"notify", "look", "skip"}
    <3>1. CASE u = s
      BY <1>1, <1>2, <3>1 DEF Notify, Look, Event, WebTypeOK
    <3>2. CASE u # s
      BY <2>3, <3>2, NamesDiffer DEF Heard
    <3>3. QED
      BY <3>1, <3>2
  <2>5. QED
    BY <2>1, <2>2, <2>3, <2>4, AwaitedFacts, CalmPlaced DEF Heard
<1>3. ASSUME NEW u \in Sources, SkipBlocked(u)
      PROVE  Placed(s)' /\ Heard(s)'
  <2>1. Calm(s)
    BY <1>1, <1>3, SkipIsCalm DEF SkipBlocked
  <2>2. Awaited(s)' = Awaited(s)
    BY <2>1 DEF Calm, Awaited
  <2>3. \A t \in Tasks \ {Node(u)} : cb'[t] = cb[t]
    BY <1>1, <1>3 DEF SkipBlocked, Event, WebTypeOK
  <2>4. u = s => state'[Node(s)] # "blocked"
    BY <1>1, <1>3 DEF SkipBlocked, SkipTask, Released, WebTypeOK
  <2>5. u # s => Node(u) # Node(s)
    BY NamesDiffer
  <2>6. QED
    BY <2>1, <2>2, <2>3, <2>4, <2>5, AwaitedFacts, CalmPlaced DEF Calm, Heard
<1>4. ASSUME NEW t \in Tasks, Retry(t)
      PROVE  Placed(s)' /\ Heard(s)'
  BY <1>1, <1>4, RetryIsCalm, CalmHeard DEF Retry, eventVars
<1>5. ASSUME NEW t \in Tasks, Cancel(t)
      PROVE  Placed(s)' /\ Heard(s)'
  <2>1. Calm(s)
    BY <1>1, <1>5 DEF Cancel, Calm, nodeVars, WebTypeOK, Unstarted, Active, Heard
  <2>2. QED
    BY <1>5, <2>1, CalmHeard DEF Cancel, eventVars
<1>6. ASSUME NEW t \in Tasks, Skip(t)
      PROVE  Placed(s)' /\ Heard(s)'
  BY <1>1, <1>6, SkipIsCalm, CalmHeard DEF Skip, eventVars
<1>7. ASSUME SkipOther
      PROVE  Placed(s)' /\ Heard(s)'
  <2>1. Calm(s)
    BY <1>1, <1>7 DEF SkipOther, Released, Calm, WebTypeOK, Unstarted, Active
  <2>2. QED
    BY <1>7, <2>1, CalmHeard DEF SkipOther, eventVars
<1>8. QED
  BY <1>2, <1>3, <1>4, <1>5, <1>6, <1>7, CallbackHeard DEF QuietStep, Command

LEMMA ClaimHeard ==
  ASSUME IInv, ~OtherDrains, NEW s \in Sources, Placed(s), Heard(s), NEW t \in Tasks, Claim(t)
  PROVE  Placed(s)' /\ Heard(s)'
<1> USE TaskFacts
<1>1. WebTypeOK /\ RunInv
  BY DEF IInv, BaseInv
<1>2. /\ UNCHANGED <<stage, round, waiting, cb>> /\ Awaited(s)' = Awaited(s)
      /\ NextChild(s)' = NextChild(s)
  BY DEF Claim, eventVars, Awaited, NextChild
<1>3. /\ state[t] = "queued" /\ state'[t] = "running" /\ pc'[t] = "run"
      /\ \A u \in Tasks \ {t} : state'[u] = state[u] /\ pc'[u] = pc[u]
  BY <1>1 DEF Claim, WebTypeOK
<1>4. ASSUME pc[Node(s)] # "idle", t \notin Nodes
      PROVE  Parent(t) # Node(s)
  BY <1>4 DEF Claim
<1>5. Placed(s)'
  <2>1. CASE t = Node(s)
    BY <1>3, <2>1 DEF Placed
  <2>2. CASE t # Node(s)
    BY <1>2, <1>3, <1>4, <2>2, AwaitedFacts DEF Placed
  <2>3. QED
    BY <2>1, <2>2
<1>6. Heard(s)'
  BY <1>2, <1>3, AwaitedFacts DEF Heard, Active
<1>7. QED
  BY <1>5, <1>6

\* A run of another task: it moves its own task only, from running, and sends
\* the task's event when it ends; a repair registers its agent's run besides.
Elsewhere(s) ==
    /\ pc'[Node(s)] = pc[Node(s)] /\ state'[Node(s)] = state[Node(s)]
    /\ stage'[Node(s)] = stage[Node(s)] /\ round'[s] = round[s]
    /\ s \in waiting' <=> s \in waiting
    /\ cb'[Node(s)] = cb[Node(s)]
    /\ \A n \in 1 .. Rounds : \A t \in {Scrape(s, n), Repair(s, n)} :
          \/ state'[t] = state[t] /\ cb'[t] = cb[t]
          \/ state[t] = "running" /\ cb'[t] = "read"

LEMMA ElsewhereHeard ==
  ASSUME IInv, NEW s \in Sources, Placed(s), Heard(s), Elsewhere(s)
  PROVE  Placed(s)' /\ Heard(s)'
<1>1. Awaited(s)' = Awaited(s) /\ NextChild(s)' = NextChild(s)
  BY DEF Elsewhere, Awaited, NextChild
<1>2. round[s] \in 0 .. Rounds /\ Place(s)
  BY DEF IInv, BaseInv, WebTypeOK, Position, PositionOf
<1>3. stage[Node(s)] # "prepare" =>
         \E n \in 1 .. Rounds : Awaited(s) \in {Scrape(s, n), Repair(s, n)}
  <2>1. stage[Node(s)] # "prepare" => round[s] \in 1 .. Rounds
    BY <1>2, SourceAssumption DEF Place
  <2>2. QED
    BY <2>1 DEF Awaited
<1>4. pc[Node(s)] = "patch" =>
         \E n \in 1 .. Rounds : NextChild(s) \in {Scrape(s, n), Repair(s, n)}
  <2>1. stage[Node(s)] = "scrape" => round[s] \in 1 .. Rounds
    BY <1>2, SourceAssumption DEF Place
  <2>2. pc[Node(s)] = "patch" /\ stage[Node(s)] # "scrape" => round[s] + 1 \in 1 .. Rounds
    BY <1>2, SourceAssumption DEF Place
  <2>3. QED
    BY <2>1, <2>2 DEF NextChild
<1>5. pc[Node(s)] = "active" => stage[Node(s)] # "prepare"
  BY DEF Placed
<1>6. Placed(s)'
  BY <1>1, <1>3, <1>4, <1>5 DEF Placed, Elsewhere, Unstarted
<1>7. Heard(s)'
  BY <1>1, <1>3 DEF Heard, Elsewhere
<1>8. QED
  BY <1>6, <1>7

LEMMA RunHeard ==
  ASSUME IInv, NEW s \in Sources, Placed(s), Heard(s), NEW u \in Sources, NEW n \in 1 .. Rounds,
         Attempt(u, n) \/ ChildMove(u, n)
  PROVE  Placed(s)' /\ Heard(s)'
<1> USE TaskFacts
<1>1. WebTypeOK /\ RunInv
  BY DEF IInv, BaseInv
<1>2. ASSUME NEW t \in Scrapes \cup Repairs \cup Execs, NEW x, NEW h, End(t, x, h), pc[t] # "idle",
             h = "read" \/ t \in Execs
      PROVE  /\ \A v \in Nodes : pc'[v] = pc[v] /\ state'[v] = state[v] /\ cb'[v] = cb[v]
             /\ \A v \in Scrapes \cup Repairs :
                   \/ state'[v] = state[v] /\ cb'[v] = cb[v]
                   \/ state[v] = "running" /\ cb'[v] = "read"
  BY <1>1, <1>2 DEF End, WebTypeOK, RunInv
<1>3. ASSUME UNCHANGED <<round, waiting>>,
             \A v \in Nodes : pc'[v] = pc[v] /\ state'[v] = state[v] /\ cb'[v] = cb[v] /\ stage'[v] = stage[v],
             \A v \in Scrapes \cup Repairs :
                   \/ state'[v] = state[v] /\ cb'[v] = cb[v]
                   \/ state[v] = "running" /\ cb'[v] = "read"
      PROVE  Placed(s)' /\ Heard(s)'
  <2>1. Elsewhere(s)
    BY <1>3 DEF Elsewhere
  <2>2. QED
    BY <2>1, ElsewhereHeard
<1>4. CASE Attempt(u, n)
  <2>1. UNCHANGED <<stage, round, waiting>> /\ pc[Scrape(u, n)] = "run"
    BY <1>4 DEF Attempt
  <2>2. CASE UNCHANGED <<state, pc, cb>>
    BY <1>3, <2>1, <2>2
  <2>3. CASE End(Scrape(u, n), "succeeded", "read")
    BY <1>2, <1>3, <2>1, <2>3
  <2>4. QED
    BY <1>4, <2>2, <2>3 DEF Attempt
<1>5. CASE ScrapeRaises(u, n)
  BY <1>2, <1>3, <1>5 DEF ScrapeRaises
<1>6. CASE EndExec(u, n)
  BY <1>2, <1>3, <1>6 DEF EndExec
<1>7. CASE StartRepair(u, n)
  BY <1>1, <1>3, <1>7 DEF StartRepair, Register, Goto, eventVars, WebTypeOK
<1>8. CASE PatchRepair(u, n)
  BY <1>1, <1>3, <1>8 DEF PatchRepair, Goto, eventVars, WebTypeOK
<1>9. CASE CompleteExec(u, n)
  <2>1. UNCHANGED <<stage, round, waiting>> /\ pc[Repair(u, n)] = "run"
    BY <1>9 DEF CompleteExec
  <2>2. CASE End(Repair(u, n), "succeeded", "read")
    BY <1>2, <1>3, <2>1, <2>2
  <2>3. CASE Goto(Repair(u, n), "business") /\ UNCHANGED <<state, cb>>
    BY <1>1, <1>3, <2>1, <2>3 DEF Goto, WebTypeOK
  <2>4. QED
    BY <1>9, <2>2, <2>3 DEF CompleteExec
<1>10. CASE BlockRepair(u, n)
  BY <1>2, <1>3, <1>10 DEF BlockRepair
<1>11. CASE RepairRaises(u, n)
  BY <1>1, <1>3, <1>11 DEF RepairRaises, Goto, eventVars, WebTypeOK
<1>12. QED
  BY <1>4, <1>5, <1>6, <1>7, <1>8, <1>9, <1>10, <1>11 DEF ChildMove

LEMMA OtherNodeHeard ==
  ASSUME IInv, NEW s \in Sources, Placed(s), Heard(s), NEW u \in Sources, u # s, NodeMove(u)
  PROVE  Placed(s)' /\ Heard(s)'
<1> USE TaskFacts
<1>1. WebTypeOK /\ Node(u) # Node(s)
  BY NamesDiffer DEF IInv, BaseInv
<1>2. \A m, n : Scrape(u, m) # Scrape(s, n) /\ Scrape(u, m) # Repair(s, n) /\ Scrape(u, m) # Node(s)
                /\ Repair(u, m) # Scrape(s, n) /\ Repair(u, m) # Repair(s, n) /\ Repair(u, m) # Node(s)
  BY DEF Scrape, Repair, Node
<1>3. \A n : Node(u) # Scrape(s, n) /\ Node(u) # Repair(s, n)
  BY DEF Scrape, Repair, Node
<1>4. Elsewhere(s)
  <2>1. CASE StartNode(u)
    BY <1>1, <1>2, <1>3, <2>1 DEF StartNode, Register, Goto, eventVars, WebTypeOK, Elsewhere
  <2>2. CASE CompleteScrape(u)
    BY <1>1, <1>2, <1>3, <2>2 DEF CompleteScrape, Register, Goto, End, eventVars, WebTypeOK, Elsewhere
  <2>3. CASE CompleteRepair(u)
    BY <1>1, <1>2, <1>3, <2>3 DEF CompleteRepair, Register, Goto, eventVars, WebTypeOK, Elsewhere
  <2>4. CASE PatchNode(u)
    BY <1>1, <1>2, <1>3, <2>4 DEF PatchNode, Goto, eventVars, WebTypeOK, Elsewhere
  <2>5. CASE BlockNode(u)
    BY <1>1, <1>2, <1>3, <2>5 DEF BlockNode, End, WebTypeOK, Elsewhere
  <2>6. CASE FinishNode(u)
    BY <1>1, <1>2, <1>3, <2>6 DEF FinishNode, End, WebTypeOK, Elsewhere
  <2>7. QED
    BY <2>1, <2>2, <2>3, <2>4, <2>5, <2>6 DEF NodeMove
<1>5. QED
  BY <1>4, ElsewhereHeard

LEMMA NodeHeard ==
  ASSUME IInv, NEW s \in Sources, Placed(s), Heard(s), NodeMove(s)
  PROVE  Placed(s)' /\ Heard(s)'
<1> USE TaskFacts
<1>1. WebTypeOK /\ RunInv
  BY DEF IInv, BaseInv
<1>2. pc[Node(s)] # "idle" /\ state[Node(s)] = "running" /\ s \notin waiting
  BY <1>1 DEF RunInv, Heard, NodeMove, StartNode, CompleteScrape, CompleteRepair, PatchNode, BlockNode,
              FinishNode
<1>3. ASSUME NEW c \in Scrapes \cup Repairs, Register(Node(s), c), c = NextChild(s),
             UNCHANGED <<stage, round, waiting>>
      PROVE  Placed(s)' /\ Heard(s)'
  <2>1. pc'[Node(s)] = "patch" /\ state'[c] = "queued" /\ state'[Node(s)] = "running"
    BY <1>1, <1>2, <1>3 DEF Register, Goto, WebTypeOK
  <2>2. NextChild(s)' = c
    BY <1>3 DEF NextChild
  <2>3. QED
    BY <1>2, <1>3, <2>1, <2>2 DEF Placed, Heard, Unstarted
<1>4. ASSUME pc'[Node(s)] \notin {"patch", "active"}, state'[Node(s)] # "blocked", s \notin waiting'
      PROVE  Placed(s)' /\ Heard(s)'
  BY <1>4 DEF Placed, Heard
<1>5. CASE StartNode(s)
  <2>1. round[s] = 0 /\ Scrape(s, 1) = NextChild(s)
    BY <1>5 DEF StartNode, IInv, Position, PositionOf, Place, NextChild
  <2>2. Scrape(s, 1) \in Scrapes
    BY SourceAssumption
  <2>3. QED
    BY <1>3, <1>5, <2>1, <2>2 DEF StartNode
<1>6. CASE CompleteScrape(s)
  <2>1. UNCHANGED <<stage, round, waiting>> /\ stage[Node(s)] = "scrape" /\ pc[Node(s)] = "run"
    BY <1>6 DEF CompleteScrape
  <2>2. CASE Register(Node(s), Repair(s, round[s]))
    <3>1. Repair(s, round[s]) = NextChild(s) /\ Repair(s, round[s]) \in Repairs
      BY <2>1, PlaceFacts DEF NextChild
    <3>2. QED
      BY <1>3, <2>1, <2>2, <3>1
  <2>3. CASE (Goto(Node(s), "business") \/ Goto(Node(s), "finish")) /\ UNCHANGED <<state, cb>>
    BY <1>1, <1>2, <1>4, <2>1, <2>3 DEF Goto, WebTypeOK
  <2>4. CASE End(Node(s), "failed", "idle")
    BY <1>1, <1>2, <1>4, <2>1, <2>4 DEF End, WebTypeOK
  <2>5. QED
    BY <1>6, <2>2, <2>3, <2>4 DEF CompleteScrape
<1>7. CASE CompleteRepair(s)
  <2>1. UNCHANGED <<stage, round, waiting>> /\ stage[Node(s)] = "repair" /\ pc[Node(s)] = "run"
    BY <1>7 DEF CompleteRepair
  <2>2. CASE Register(Node(s), Scrape(s, round[s] + 1))
    <3>1. Scrape(s, round[s] + 1) = NextChild(s) /\ Scrape(s, round[s] + 1) \in Scrapes
      BY <2>1, PlaceFacts, SourceAssumption DEF NextChild
    <3>2. QED
      BY <1>3, <2>1, <2>2, <3>1
  <2>3. CASE Goto(Node(s), "business") /\ UNCHANGED state
    BY <1>1, <1>2, <1>4, <2>1, <2>3 DEF Goto, WebTypeOK
  <2>4. QED
    BY <1>7, <2>2, <2>3 DEF CompleteRepair
<1>8. CASE PatchNode(s)
  <2>1. UNCHANGED <<state, waiting>> /\ pc'[Node(s)] = "active"
        /\ stage'[Node(s)] = IF stage[Node(s)] = "scrape" THEN "repair" ELSE "scrape"
    BY <1>1, <1>8 DEF PatchNode, Goto, WebTypeOK
  <2>2. round'[s] = IF stage[Node(s)] = "scrape" THEN round[s] ELSE round[s] + 1
    BY <1>1, <1>8 DEF PatchNode, WebTypeOK
  <2>3. Awaited(s)' = NextChild(s)
    BY <2>1, <2>2 DEF Awaited, NextChild
  <2>4. state[NextChild(s)] \in Unstarted
    BY <1>8 DEF PatchNode, Placed
  <2>5. QED
    BY <1>2, <2>1, <2>3, <2>4 DEF Placed, Heard
<1>9. CASE BlockNode(s)
  <2>1. /\ state'[Node(s)] = "blocked" /\ cb'[Node(s)] = "notify" /\ pc'[Node(s)] = "idle"
        /\ \A t \in Tasks \ {Node(s)} : state'[t] = state[t]
        /\ UNCHANGED <<stage, round>>
    BY <1>1, <1>9 DEF BlockNode, End, WebTypeOK
  <2>2. Awaited(s)' = Awaited(s)
    BY <2>1 DEF Awaited
  <2>3. CASE pc[Node(s)] = "active"
    <3>1. s \in waiting'
      BY <1>9, <2>3 DEF BlockNode
    <3>2. Awaited(s) \in Tasks \ {Node(s)} /\ state[Awaited(s)] \in Unstarted /\ stage[Node(s)] # "prepare"
      BY <2>3, AwaitedFacts DEF Placed
    <3>3. QED
      BY <2>1, <2>2, <3>1, <3>2 DEF Placed, Heard, Unstarted, Active
  <2>4. CASE pc[Node(s)] # "active"
    <3>1. s \notin waiting'
      BY <1>9, <2>4 DEF BlockNode
    <3>2. QED
      BY <2>1, <3>1 DEF Placed, Heard
  <2>5. QED
    BY <2>3, <2>4
<1>10. CASE FinishNode(s)
  BY <1>1, <1>2, <1>4, <1>10 DEF FinishNode, End, WebTypeOK
<1>11. QED
  BY <1>5, <1>6, <1>7, <1>8, <1>9, <1>10 DEF NodeMove

LEMMA HeardStep ==
  ASSUME IInv, failing = {}, HeardInv, ~OtherDrains, [Next]_vars
  PROVE  HeardInv'
<1> SUFFICES ASSUME NEW s \in Sources
             PROVE  Placed(s)' /\ Heard(s)'
  BY DEF HeardInv
<1>1. Placed(s) /\ Heard(s)
  BY DEF HeardInv
<1>2. ASSUME NEW u \in Sources, NodeMove(u)
      PROVE  Placed(s)' /\ Heard(s)'
  BY <1>1, <1>2, NodeHeard, OtherNodeHeard
<1>3. CASE UNCHANGED vars
  <2>1. Calm(s) /\ UNCHANGED cb
    BY <1>3 DEF vars, nodeVars, eventVars, Calm
  <2>2. QED
    BY <1>1, <2>1, CalmHeard
<1>4. \A t \in Tasks : ~TakeBack(t)
  BY DEF TakeBack
<1>5. QED
  BY <1>1, <1>2, <1>3, <1>4, NextCases, RunHeard, ClaimHeard, QuietHeard

\* A blocked source is not forgotten, whatever is retried, cancelled or skipped:
\* it waits for a child that is still to end or was stopped by hand, or whose
\* callback is on its way, or else its handler is about to skip it, as long as no
\* repair has raised.  The premise
\* is needed: a child that another thread claims before its source has blocked
\* may find nobody to wake.
THEOREM BlockedSourceIsHeard ==
  ASSUME ~OtherDrains
  PROVE  Spec => []SourceIsHeard
<1> DEFINE Inv == NoneLost => HeardInv
<1>1. Init => Inv
  BY TaskFacts DEF Init, HeardInv, Placed, Heard
<1>2. LossInv /\ Inv /\ [Next]_vars => Inv'
  BY HeardStep, LossFacts DEF LossInv
<1>3. Inv => SourceIsHeard
  BY DEF HeardInv, Heard, SourceIsHeard
<1>4. QED
  BY <1>1, <1>2, <1>3, AlwaysInv, PTL DEF Spec
=============================================================================
