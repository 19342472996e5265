------------------------ MODULE ExtractorRepairProofs ------------------------
(***************************************************************************)
(* Proofs about the repairs of an extractor, for behaviours of any length, *)
(* any commands, and promotions by the repair node, the user or both.      *)
(*                                                                         *)
(* As long as no promotion has crossed another one or an agent at its      *)
(* draft, a promotion copies what an agent has called fixed: a record that *)
(* says so is of a draft that is so, unless an agent works on it, and a    *)
(* repair that is created meanwhile has the name of a later second.        *)
(***************************************************************************)
EXTENDS ExtractorRepairProps, TLAPS

RepairTypeOK ==
    /\ clock \in Repairs
    /\ live \in {"none"} \cup Code
    /\ enabled \in BOOLEAN
    /\ versions \in [Repairs -> {"none"} \cup Code]
    /\ record \in [Repairs -> Records]
    /\ workDir \in [Repairs -> {"none"} \cup Code]
    /\ answer \in [Repairs -> {"none"} \cup Answers]
    /\ job \in [RepairTasks -> Jobs]
    /\ promoting \in [Publishers -> Steps]
    /\ subject \in [Publishers -> RepairTasks]
    /\ crossed \in BOOLEAN
    /\ opsLeft \in Nat

\* An agent takes more than a second, so what it leaves is of an earlier one.
AnswersAreOld == \A r \in Repairs : answer[r] # "none" => r < clock

\* What the record and result.json call fixed is in the work directory, if it
\* is there and no agent is at it.
DraftIsFixed ==
    ~crossed => \A r \in Repairs : answer[r] = "fixed" /\ record[r] = "succeeded" =>
        AgentAt(r) \/ workDir[r] \in {"none", "fixed"}

OnePromotes ==
    ~crossed => \A p, q \in Publishers : promoting[p] # "idle" /\ promoting[q] # "idle" => p = q

\* The draft of a promotion stays as it was judged, or goes away; what is about
\* to be removed has been archived; and what is filled is what was begun.
PromotionSound(p) ==
    /\ promoting[p] # "idle" =>
          /\ subject[p][1] < clock /\ workDir[subject[p][1]] \in {"none", "fixed"}
          /\ ~AgentAt(subject[p][1])
    /\ promoting[p] = "clear" /\ live \notin {"none", "partial"} =>
          \E s \in Repairs : versions[s] = live
    /\ promoting[p] = "fill" => live \in {"none", "partial"}

PromotionInv == ~crossed => \A p \in Publishers : PromotionSound(p)

Judged == AnswersAreOld /\ DraftIsFixed
Promoted == OnePromotes /\ PromotionInv
RepairInv == RepairTypeOK /\ Judged /\ Promoted

LEMMA Names ==
    /\ clock \in Repairs => clock \in Nat
    /\ \A r \in Repairs : r \in Nat /\ <<r, "auto">> \in RepairTasks /\ <<r, "user">> \in RepairTasks
    /\ \A t \in RepairTasks : t[1] \in Repairs /\ t[1] \in Nat
BY RepairAssumption DEF Repairs, RepairTasks

-----------------------------------------------------------------------------
(* Type correctness                                                         *)

LEMMA TaskTypeStep ==
    ASSUME RepairTypeOK, NEW t \in RepairTasks,
           StartAgent(t) \/ EditDraft(t) \/ EndAgent(t) \/ Finalize(t)
    PROVE  RepairTypeOK'
<1>0. t[1] \in Repairs
    BY Names
<1>1. CASE StartAgent(t)
    BY <1>1 DEF StartAgent, fileVars, promoteVars, RepairTypeOK, Jobs
<1>2. CASE EndAgent(t)
  <2>1. job' \in [RepairTasks -> Jobs]
    BY <1>2 DEF EndAgent, RepairTypeOK, Jobs
  <2>2. /\ answer' \in [Repairs -> {"none"} \cup Answers]
        /\ record' \in [Repairs -> Records]
    BY <1>0, <1>2 DEF EndAgent, StatusOf, RepairTypeOK, Records
  <2>3. workDir' \in [Repairs -> {"none"} \cup Code]
    BY <1>0, <1>2 DEF EndAgent, RepairTypeOK, Code
  <2> QED  BY <1>2, <2>1, <2>2, <2>3 DEF EndAgent, promoteVars, RepairTypeOK
<1>3. CASE Finalize(t)
  <2>1. job' \in [RepairTasks -> Jobs]
    BY <1>3 DEF Finalize, RepairTypeOK, Jobs
  <2>2. promoting' \in [Publishers -> Steps] /\ subject' \in [Publishers -> RepairTasks]
    BY <1>3 DEF Finalize, BeginPromotion, promoteVars, RepairTypeOK, Steps
  <2>3. crossed' \in BOOLEAN
    <3>1. CASE MayPromote(t[1])
      <4>1. crossed' = (crossed \/ AgentAt(t[1]) \/ \E q \in Publishers : promoting[q] # "idle")
        BY <1>3, <3>1, Zenon DEF Finalize, BeginPromotion
      <4> QED  BY <4>1, Zenon
    <3>2. CASE ~MayPromote(t[1])
      <4>1. crossed' = crossed
        BY <1>3, <3>2 DEF Finalize, promoteVars
      <4> QED  BY <4>1 DEF RepairTypeOK
    <3> QED  BY <3>1, <3>2
  <2> QED  BY <1>3, <2>1, <2>2, <2>3 DEF Finalize, fileVars, RepairTypeOK
<1>4. CASE EditDraft(t)
    BY <1>4 DEF EditDraft, promoteVars, RepairTypeOK, Code
<1> QED  BY <1>1, <1>2, <1>3, <1>4

LEMMA CreateTypes ==
    ASSUME RepairTypeOK, Create
    PROVE  /\ record' \in [Repairs -> Records]
           /\ workDir' \in [Repairs -> {"none"} \cup Code]
BY DEF Create, Drafts, RepairTypeOK, Records, Code

LEMMA PromotionTypeStep ==
    ASSUME RepairTypeOK, NEW p \in Publishers,
           Archive(p) \/ Clear(p) \/ Copy(p) \/ Fill(p) \/ Save(p)
    PROVE  RepairTypeOK'
<1>0. subject[p] \in RepairTasks /\ subject[p][1] \in Repairs
    BY Names DEF RepairTypeOK
<1>1. CASE Archive(p)
    BY <1>1 DEF Archive, MoveTo, GiveUp, RepairTypeOK, Steps
<1>2. CASE Clear(p)
    BY <1>2 DEF Clear, MoveTo, GiveUp, RepairTypeOK, Steps, Code
<1>3. CASE Copy(p)
    BY <1>3 DEF Copy, MoveTo, GiveUp, RepairTypeOK, Steps, Code
<1>5. CASE Fill(p)
  <2>1. /\ promoting' \in [Publishers -> Steps]
        /\ UNCHANGED <<clock, job, subject, crossed, opsLeft>>
    BY <1>5 DEF Fill, MoveTo, GiveUp, RepairTypeOK, Steps
  <2>2. live' \in {"none"} \cup Code /\ enabled' \in BOOLEAN
    BY <1>0, <1>5 DEF Fill, Enabling, RepairTypeOK
  <2> QED  BY <1>5, <2>1, <2>2 DEF Fill, RepairTypeOK
<1>4. CASE Save(p)
  <2>1. job' \in [RepairTasks -> Jobs]
    BY <1>0, <1>4 DEF Save, RepairTypeOK, Jobs
  <2>2. record' \in [Repairs -> Records] /\ promoting' \in [Publishers -> Steps]
    BY <1>0, <1>4 DEF Save, RepairTypeOK, Records, Steps
  <2> QED  BY <1>4, <2>1, <2>2 DEF Save, fileVars, RepairTypeOK
<1> QED  BY <1>1, <1>2, <1>3, <1>4, <1>5

LEMMA RequeueTypes ==
    ASSUME RepairTypeOK, NEW t \in RepairTasks, Requeue(t)
    PROVE  /\ job' \in [RepairTasks -> Jobs] /\ crossed' \in BOOLEAN
           /\ UNCHANGED <<promoting, subject>>
BY DEF Requeue, RepairTypeOK, Jobs

LEMMA RepairCommandTypeStep ==
    ASSUME RepairTypeOK, NEW r \in Repairs, RetryRepair(r) \/ DeleteRepair(r) \/ Promote(r)
    PROVE  RepairTypeOK'
<1>1. CASE RetryRepair(r)
  <2>1. <<r, "user">> \in RepairTasks /\ Requeue(<<r, "user">>)
    BY <1>1, Names DEF RetryRepair
  <2> QED  BY <1>1, <2>1, RequeueTypes DEF RetryRepair, SpendOp, fileVars, RepairTypeOK, Records
<1>2. CASE DeleteRepair(r)
    BY <1>2 DEF DeleteRepair, SpendOp, promoteVars, RepairTypeOK, Records
<1>3. CASE Promote(r)
    BY <1>3, Names DEF Promote, BeginPromotion, fileVars, RepairTypeOK, Steps
<1> QED  BY <1>1, <1>2, <1>3

LEMMA RepairTypeStep ==
    ASSUME RepairTypeOK, [RepairNext]_repairVars
    PROVE  RepairTypeOK'
<1>1. CASE Tick
    BY <1>1, RepairAssumption DEF Tick, fileVars, promoteVars, RepairTypeOK, Repairs
<1>2. CASE Scrape
  <2>1. job' \in [RepairTasks -> Jobs]
    BY <1>2 DEF Scrape, RepairTypeOK, Jobs
  <2>2. Create /\ UNCHANGED <<clock, live, enabled, versions, answer, promoteVars, opsLeft>>
    BY <1>2 DEF Scrape
  <2> QED  BY <2>1, <2>2, CreateTypes DEF promoteVars, RepairTypeOK
<1>3. CASE CreateByUser
  <2>1. /\ job' \in [RepairTasks -> Jobs] /\ crossed' \in BOOLEAN
        /\ UNCHANGED <<promoting, subject>>
    <3>1. <<clock, "user">> \in RepairTasks
        BY Names DEF RepairTypeOK
    <3> QED  BY <1>3, <3>1, RequeueTypes DEF CreateByUser, promoteVars, RepairTypeOK
  <2> QED  BY <1>3, <2>1, CreateTypes DEF CreateByUser, SpendOp, RepairTypeOK
<1>4. CASE SetEnabled
    BY <1>4 DEF SetEnabled, SpendOp, promoteVars, RepairTypeOK
<1>5. CASE RemoveExtractor
    BY <1>5 DEF RemoveExtractor, SpendOp, promoteVars, RepairTypeOK
<1>6. CASE Restart
    BY <1>6 DEF Restart, SpendOp, fileVars, RepairTypeOK, Records, Jobs, Steps
<1>7. CASE UNCHANGED repairVars
    BY <1>7 DEF repairVars, fileVars, promoteVars, RepairTypeOK
<1> QED
    BY <1>1, <1>2, <1>3, <1>4, <1>5, <1>6, <1>7, TaskTypeStep, PromotionTypeStep,
       RepairCommandTypeStep DEF RepairNext

LEMMA RepairTypeInit == RepairInit => RepairTypeOK
<1> SUFFICES ASSUME RepairInit PROVE RepairTypeOK
    OBVIOUS
<1>1. 1 \in Repairs /\ <<1, "user">> \in RepairTasks
    BY RepairAssumption DEF Repairs, RepairTasks
<1> QED
    BY <1>1, RepairAssumption DEF RepairInit, RepairTypeOK, Code, Records, Jobs, Steps

\* The files, the records and the promotions keep their types through every
\* repair, command and restart.
THEOREM RepairTypeCorrect == RepairSpec => []RepairTypeOK
<1>1. RepairTypeOK /\ [RepairNext]_repairVars => RepairTypeOK'
    BY RepairTypeStep
<1> QED  BY <1>1, RepairTypeInit, PTL DEF RepairSpec

-----------------------------------------------------------------------------
(* A draft is judged and promoted                                           *)

\* A creation takes the directory and the record of the present second: no
\* answer is of that second, and no promotion.  An agent that works goes on.
LEMMA CreateStep ==
    ASSUME RepairInv, Create, UNCHANGED <<clock, live, versions, answer, promoting, subject>>,
           crossed => crossed',
           \A t \in RepairTasks : job'[t] \in {"agent", "again"} <=> job[t] \in {"agent", "again"}
    PROVE  Judged' /\ Promoted'
<1>1. /\ record' = [record EXCEPT ![clock] = "queued"]
      /\ \A r \in Repairs : r # clock => workDir'[r] = workDir[r]
      /\ clock \in Repairs /\ clock \in Nat
    BY Names DEF Create, RepairInv, RepairTypeOK
<1>2. AnswersAreOld' /\ OnePromotes'
    BY DEF RepairInv, Judged, Promoted, AnswersAreOld, OnePromotes
<1>3. \A r : AgentAt(r)' <=> AgentAt(r)
    BY DEF AgentAt
<1>4. DraftIsFixed'
  <2> SUFFICES ASSUME ~crossed, NEW r \in Repairs, answer[r] = "fixed", record'[r] = "succeeded"
               PROVE  AgentAt(r) \/ workDir'[r] \in {"none", "fixed"}
    BY <1>3 DEF DraftIsFixed
  <2>1. r # clock /\ record[r] = "succeeded"
    BY <1>1 DEF RepairInv, RepairTypeOK
  <2> QED  BY <1>1, <2>1 DEF RepairInv, Judged, DraftIsFixed
<1>5. PromotionInv'
  <2> SUFFICES ASSUME ~crossed, NEW p \in Publishers PROVE PromotionSound(p)'
    BY DEF PromotionInv
  <2>1. PromotionSound(p) /\ subject[p][1] \in Repairs /\ subject[p][1] \in Nat
    BY Names DEF RepairInv, RepairTypeOK, Promoted, PromotionInv
  <2>2. promoting[p] # "idle" => workDir'[subject[p][1]] = workDir[subject[p][1]]
    BY <1>1, <2>1 DEF PromotionSound
  <2> QED  BY <1>3, <2>1, <2>2 DEF PromotionSound
<1> QED  BY <1>2, <1>4, <1>5 DEF Judged, Promoted

\* A promotion that begins crosses what is under way, or finds what was judged.
LEMMA BeginStep ==
    ASSUME RepairInv, NEW p, NEW t \in RepairTasks, MayPromote(t[1]), BeginPromotion(p, t),
           UNCHANGED <<clock, fileVars, record>>,
           \A q \in RepairTasks : job'[q] \in {"agent", "again"} <=> job[q] \in {"agent", "again"}
    PROVE  Judged' /\ Promoted'
<1>1. t[1] \in Repairs /\ t[1] < clock
    BY Names DEF RepairInv, Judged, AnswersAreOld, MayPromote
<1>2. \A r : AgentAt(r)' <=> AgentAt(r)
    BY DEF AgentAt
<1>3. Judged'
    BY <1>2 DEF RepairInv, Judged, AnswersAreOld, DraftIsFixed, BeginPromotion, fileVars
<1>4. ASSUME ~crossed'
      PROVE  /\ ~crossed /\ ~AgentAt(t[1]) /\ workDir[t[1]] \in {"none", "fixed"}
             /\ \A q \in Publishers \ {p} : promoting'[q] = "idle"
             /\ \A q \in Publishers \cap {p} : promoting'[q] = "archive" /\ subject'[q] = t
  <2>1. ~crossed /\ ~AgentAt(t[1]) /\ \A q \in Publishers : promoting[q] = "idle"
    BY <1>4 DEF BeginPromotion
  <2>2. workDir[t[1]] \in {"none", "fixed"}
    BY <1>1, <2>1 DEF RepairInv, Judged, DraftIsFixed, MayPromote
  <2> QED  BY <2>1, <2>2 DEF BeginPromotion, RepairInv, RepairTypeOK
<1>5. Promoted'
    BY <1>1, <1>2, <1>4 DEF Promoted, OnePromotes, PromotionInv, PromotionSound, fileVars
<1> QED  BY <1>3, <1>5

\* An agent works on a draft, or begins to: nobody promotes it.
LEMMA EditStep ==
    ASSUME RepairInv, NEW t \in RepairTasks, EditDraft(t) \/ StartAgent(t)
    PROVE  Judged' /\ Promoted'
<1> DEFINE r == t[1]
<1>1. /\ r \in Repairs
      /\ UNCHANGED <<clock, live, versions, answer, record, promoting, subject>>
      /\ \A q \in Repairs \ {r} : workDir'[q] = workDir[q]
      /\ crossed => crossed'
    BY Names DEF EditDraft, StartAgent, fileVars, promoteVars, RepairInv, RepairTypeOK
<1>2. /\ \A q : AgentAt(q) => AgentAt(q)'
      /\ \A q : q # r => (AgentAt(q)' => AgentAt(q))
    BY DEF AgentAt, EditDraft, StartAgent, RepairInv, RepairTypeOK
<1>3. CASE job'[t] \notin {"agent", "again"}
  <2>1. /\ workDir' = workDir
        /\ \A q : AgentAt(q)' <=> AgentAt(q)
    BY <1>3 DEF EditDraft, StartAgent, AgentAt, fileVars, RepairInv, RepairTypeOK
  <2> QED
    BY <1>1, <2>1 DEF RepairInv, Judged, Promoted, AnswersAreOld, DraftIsFixed, OnePromotes,
                      PromotionInv, PromotionSound
<1>4. CASE job'[t] \in {"agent", "again"}
  <2>1. AgentAt(r)'
    BY <1>4 DEF AgentAt
  <2>2. Judged'
    BY <1>1, <1>2, <2>1 DEF RepairInv, Judged, AnswersAreOld, DraftIsFixed
  <2>3. ASSUME ~crossed', NEW p \in Publishers, promoting[p] # "idle" PROVE subject[p][1] # r
    <3>1. CASE EditDraft(t)
        <4>1. AgentAt(r)
            BY <3>1 DEF EditDraft, AgentAt
        <4> QED  BY <1>1, <2>3, <4>1 DEF RepairInv, Promoted, PromotionInv, PromotionSound
    <3>2. CASE StartAgent(t)
        BY <2>3, <3>2 DEF StartAgent, PromotersOf
    <3> QED  BY <3>1, <3>2
  <2>4. \A p \in Publishers : subject[p][1] \in Repairs
    BY Names DEF RepairInv, RepairTypeOK
  <2>5. Promoted'
    BY <1>1, <1>2, <2>3, <2>4 DEF RepairInv, Promoted, OnePromotes, PromotionInv, PromotionSound
  <2> QED  BY <2>2, <2>5
<1> QED  BY <1>3, <1>4

LEMMA AgentStep ==
    ASSUME RepairInv, NEW t \in RepairTasks, EndAgent(t)
    PROVE  Judged' /\ Promoted'
<1> DEFINE r == t[1]
<1>1. /\ r \in Repairs /\ clock > r /\ AgentAt(r)
      /\ UNCHANGED <<clock, live, versions, promoting, subject, crossed>>
    BY Names DEF EndAgent, AgentAt, promoteVars
<1>2. /\ \A q \in Repairs \ {r} : /\ answer'[q] = answer[q]
                                  /\ record'[q] = record[q] /\ workDir'[q] = workDir[q]
      /\ record'[r] = "succeeded" => workDir'[r] = "fixed"
    BY <1>1 DEF EndAgent, StatusOf, RepairInv, RepairTypeOK
<1>3. AnswersAreOld'
  <2> SUFFICES ASSUME NEW q \in Repairs, answer'[q] # "none" PROVE q < clock
    BY <1>1 DEF AnswersAreOld
  <2>1. CASE q = r
    BY <1>1, <2>1, Names DEF RepairInv, RepairTypeOK
  <2>2. CASE q # r
    BY <1>2, <2>2 DEF RepairInv, Judged, AnswersAreOld
  <2> QED  BY <2>1, <2>2
<1>4. /\ \A q : AgentAt(q)' => AgentAt(q)
      /\ \A q : q # r => (AgentAt(q) => AgentAt(q)')
    BY DEF EndAgent, AgentAt, RepairInv, RepairTypeOK
<1>5. DraftIsFixed'
  <2> SUFFICES ASSUME ~crossed, NEW q \in Repairs, answer'[q] = "fixed", record'[q] = "succeeded"
               PROVE  AgentAt(q)' \/ workDir'[q] \in {"none", "fixed"}
    BY <1>1 DEF DraftIsFixed
  <2>1. CASE q = r
    BY <1>2, <2>1
  <2>2. CASE q # r
    BY <1>2, <1>4, <2>2 DEF RepairInv, Judged, DraftIsFixed
  <2> QED  BY <2>1, <2>2
<1>6. OnePromotes'
    BY <1>1 DEF RepairInv, Promoted, OnePromotes
<1>7. PromotionInv'
  <2> SUFFICES ASSUME ~crossed, NEW p \in Publishers PROVE PromotionSound(p)'
    BY <1>1 DEF PromotionInv
  <2>1. PromotionSound(p) /\ subject[p][1] \in Repairs
    BY Names DEF RepairInv, RepairTypeOK, Promoted, PromotionInv
  <2>2. promoting[p] # "idle" => subject[p][1] # r
    BY <1>1, <2>1 DEF PromotionSound
  <2> QED  BY <1>1, <1>2, <1>4, <2>1, <2>2 DEF PromotionSound
<1> QED  BY <1>3, <1>5, <1>6, <1>7 DEF Judged, Promoted

\* A promotion goes on: archive, clear, copy, fill, save.
LEMMA PromotionStep ==
    ASSUME RepairInv, NEW p \in Publishers,
           Archive(p) \/ Clear(p) \/ Copy(p) \/ Fill(p) \/ Save(p)
    PROVE  Judged' /\ Promoted'
<1> DEFINE r == subject[p][1]
<1>0. /\ r \in Repairs /\ promoting[p] # "idle"
      /\ UNCHANGED <<clock, subject, workDir, answer, crossed>>
    BY Names DEF Archive, Clear, Copy, Fill, Save, MoveTo, GiveUp, fileVars, RepairInv, RepairTypeOK
<1>1. \A q : AgentAt(q)' <=> AgentAt(q)
  <2>1. \A t \in RepairTasks :
          job'[t] \in {"agent", "again"} <=> job[t] \in {"agent", "again"}
    BY DEF Archive, Clear, Copy, Fill, Save, MoveTo, GiveUp, RepairInv, RepairTypeOK
  <2> QED  BY <2>1 DEF AgentAt
<1>2. AnswersAreOld'
    BY <1>0 DEF RepairInv, Judged, AnswersAreOld
<1>3. ASSUME ~crossed
      PROVE  /\ PromotionSound(p) /\ r < clock /\ workDir[r] \in {"none", "fixed"} /\ ~AgentAt(r)
             /\ \A q \in Publishers : q # p => promoting[q] = "idle" /\ promoting'[q] = "idle"
  <2>1. \A q \in Publishers : q # p => promoting[q] = "idle" /\ promoting'[q] = promoting[q]
    BY <1>0, <1>3 DEF Archive, Clear, Copy, Fill, Save, MoveTo, GiveUp, RepairInv, RepairTypeOK,
                      Promoted, OnePromotes
  <2> QED  BY <1>0, <1>3, <2>1 DEF RepairInv, Promoted, PromotionInv, PromotionSound
<1>4. OnePromotes'
    BY <1>0, <1>3 DEF OnePromotes
<1>5. DraftIsFixed'
  <2>1. \A q \in Repairs : q # r => record'[q] = record[q]
    BY <1>0 DEF Archive, Clear, Copy, Fill, Save, RepairInv, RepairTypeOK
  <2> QED  BY <1>0, <1>1, <1>3, <2>1 DEF RepairInv, Judged, DraftIsFixed
<1>6. PromotionInv'
  <2> SUFFICES ASSUME ~crossed, NEW q \in Publishers PROVE PromotionSound(q)'
    BY <1>0 DEF PromotionInv
  <2>1. CASE q # p
    BY <1>3, <2>1 DEF PromotionSound
  <2>2. CASE q = p
    <3>1. /\ promoting'[p] = "clear" /\ live' \notin {"none", "partial"} =>
               \E s \in Repairs : versions'[s] = live'
          /\ promoting'[p] = "fill" => live' = "partial"
        <4>1. CASE Archive(p)
            BY <4>1 DEF Archive, MoveTo, GiveUp, RepairInv, RepairTypeOK
        <4>2. CASE Clear(p) \/ Copy(p) \/ Fill(p) \/ Save(p)
            BY <4>2 DEF Clear, Copy, Fill, Save, MoveTo, GiveUp, RepairInv, RepairTypeOK
        <4> QED  BY <4>1, <4>2
    <3> QED  BY <1>0, <1>1, <1>3, <2>2, <3>1 DEF PromotionSound
  <2> QED  BY <2>1, <2>2
<1> QED  BY <1>2, <1>4, <1>5, <1>6 DEF Judged, Promoted

LEMMA DraftStep ==
    ASSUME RepairInv, [RepairNext]_repairVars
    PROVE  Judged' /\ Promoted'
<1> USE DEF RepairInv, Judged, Promoted
<1>1. CASE Tick
  <2>1. clock \in Nat /\ clock' = clock + 1
    BY <1>1, Names DEF Tick, RepairTypeOK
  <2>2. ASSUME NEW r \in Repairs, r < clock PROVE r < clock'
    <3>1. r \in Nat
        BY Names
    <3> QED  BY <2>1, <2>2, <3>1
  <2>3. \A p \in Publishers : subject[p][1] \in Repairs
    BY Names DEF RepairTypeOK
  <2> QED
    BY <1>1, <2>2, <2>3 DEF Tick, fileVars, promoteVars, AnswersAreOld, DraftIsFixed, OnePromotes,
                       PromotionInv, PromotionSound, AgentAt
<1>2. CASE Scrape
  <2>1. \A t \in RepairTasks : job'[t] \in {"agent", "again"} <=> job[t] \in {"agent", "again"}
    BY <1>2 DEF Scrape, RepairTypeOK
  <2> QED  BY <1>2, <2>1, CreateStep DEF Scrape, promoteVars
<1>3. CASE CreateByUser
  <2>1. /\ \A t \in RepairTasks : job'[t] \in {"agent", "again"} <=> job[t] \in {"agent", "again"}
        /\ crossed => crossed'
        /\ UNCHANGED <<promoting, subject>>
    BY <1>3 DEF CreateByUser, Requeue, promoteVars, RepairTypeOK
  <2> QED  BY <1>3, <2>1, CreateStep DEF CreateByUser
<1>4. ASSUME NEW t \in RepairTasks, Finalize(t) PROVE Judged' /\ Promoted'
  <2>0. \A q \in RepairTasks : job'[q] \in {"agent", "again"} <=> job[q] \in {"agent", "again"}
    BY <1>4 DEF Finalize, RepairTypeOK
  <2>1. CASE MayPromote(t[1])
    BY <1>4, <2>0, <2>1, BeginStep DEF Finalize
  <2>2. CASE ~MayPromote(t[1])
    BY <1>4, <2>0, <2>2 DEF Finalize, fileVars, promoteVars, AnswersAreOld, DraftIsFixed,
                      OnePromotes, PromotionInv, PromotionSound, AgentAt
  <2> QED  BY <2>1, <2>2
<1>5. ASSUME NEW r \in Repairs, Promote(r) PROVE Judged' /\ Promoted'
  <2>1. <<r, "user">> \in RepairTasks /\ <<r, "user">>[1] = r
    BY Names
  <2> QED  BY <1>5, <2>1, BeginStep DEF Promote
<1>6. ASSUME NEW r \in Repairs, RetryRepair(r) PROVE Judged' /\ Promoted'
  <2>1. \A q \in Repairs : record'[q] = "succeeded" => record[q] = "succeeded"
    BY <1>6 DEF RetryRepair, RepairTypeOK
  <2>2. /\ \A t \in RepairTasks : job'[t] \in {"agent", "again"} <=> job[t] \in {"agent", "again"}
        /\ crossed => crossed'
        /\ UNCHANGED <<promoting, subject>>
    BY <1>6 DEF RetryRepair, Requeue, RepairTypeOK
  <2> QED
    BY <1>6, <2>1, <2>2 DEF RetryRepair, fileVars, AnswersAreOld, DraftIsFixed, OnePromotes,
                      PromotionInv, PromotionSound, AgentAt
<1>7. ASSUME NEW r \in Repairs, DeleteRepair(r) PROVE Judged' /\ Promoted'
  <2>1. /\ \A q \in Repairs : /\ record'[q] = "succeeded" => record[q] = "succeeded"
                              /\ workDir'[q] \in {"none", workDir[q]}
                              /\ answer'[q] \in {"none", answer[q]}
        /\ UNCHANGED <<clock, live, versions, job, promoteVars>>
    BY <1>7 DEF DeleteRepair, RepairTypeOK
  <2>2. \A q : AgentAt(q)' <=> AgentAt(q)
    BY <2>1 DEF AgentAt
  <2>3. AnswersAreOld' /\ DraftIsFixed'
    BY <2>1, <2>2 DEF AnswersAreOld, DraftIsFixed, promoteVars
  <2>4. \A p \in Publishers : subject[p][1] \in Repairs
    BY Names DEF RepairTypeOK
  <2>5. OnePromotes' /\ PromotionInv'
    BY <2>1, <2>2, <2>4 DEF OnePromotes, PromotionInv, PromotionSound, promoteVars
  <2> QED  BY <2>3, <2>5
<1>8. CASE SetEnabled
    BY <1>8 DEF SetEnabled, promoteVars, AnswersAreOld, DraftIsFixed, OnePromotes, PromotionInv,
                PromotionSound, AgentAt
<1>9. CASE RemoveExtractor
    BY <1>9 DEF RemoveExtractor, promoteVars, AnswersAreOld, DraftIsFixed, OnePromotes,
                PromotionInv, PromotionSound, AgentAt
<1>10. CASE Restart
    BY <1>10 DEF Restart, fileVars, AnswersAreOld, DraftIsFixed, OnePromotes, PromotionInv,
                 PromotionSound
<1>11. CASE UNCHANGED repairVars
    BY <1>11 DEF repairVars, fileVars, promoteVars, AnswersAreOld, DraftIsFixed, OnePromotes,
                 PromotionInv, PromotionSound, AgentAt
<1> QED
    BY <1>1, <1>2, <1>3, <1>4, <1>5, <1>6, <1>7, <1>8, <1>9, <1>10, <1>11, EditStep, AgentStep,
       PromotionStep DEF RepairNext

LEMMA RepairInvInit == RepairInit => RepairInv
<1> SUFFICES ASSUME RepairInit PROVE Judged /\ Promoted
    BY RepairTypeInit DEF RepairInv
<1> QED
    BY DEF RepairInit, Judged, Promoted, AnswersAreOld, DraftIsFixed, OnePromotes, PromotionInv,
           PromotionSound

LEMMA RepairInvStep == RepairInv /\ [RepairNext]_repairVars => RepairInv'
BY RepairTypeStep, DraftStep DEF RepairInv

\* Which steps change the live extractor.
LEMMA LiveChanges ==
    ASSUME [RepairNext]_repairVars, live' # live
    PROVE  \/ opsLeft' # opsLeft /\ live' = "none"
           \/ \E p \in Publishers : Clear(p) \/ Copy(p) \/ Fill(p)
<1>1. CASE RemoveExtractor
    BY <1>1 DEF RemoveExtractor, SpendOp
<1> QED
    BY <1>1 DEF RepairNext, repairVars, fileVars, Tick, Scrape, StartAgent, EditDraft, EndAgent,
                Finalize, Promote, RetryRepair, DeleteRepair, Archive, Save, CreateByUser,
                SetEnabled, Restart

\* Whatever is put in the place of an extractor is code that an agent has called
\* fixed and that nobody has touched since, in spite of retries, deletions,
\* restarts, and repairs of one second that share a directory, as long as no
\* promotion has crossed another one or an agent at its draft.
THEOREM OnlyFixedDraftsGoLive == RepairSpec => LiveIsAccepted
<1>1. RepairInv /\ [RepairNext]_repairVars =>
        [live' # live /\ ~crossed => live' \in {"none", "partial", "fixed"}]_repairVars
  <2> SUFFICES ASSUME RepairInv, [RepairNext]_repairVars, live' # live, ~crossed
               PROVE  live' \in {"none", "partial", "fixed"}
    OBVIOUS
  <2>1. ASSUME NEW p \in Publishers, Fill(p) PROVE live' \in {"none", "partial", "fixed"}
    BY <2>1 DEF Fill, RepairInv, Promoted, PromotionInv, PromotionSound
  <2>2. ASSUME NEW p \in Publishers, Clear(p) \/ Copy(p)
        PROVE  live' \in {"none", "partial", "fixed"}
    BY <2>2 DEF Clear, Copy
  <2> QED  BY <2>1, <2>2, LiveChanges
<1> QED  BY <1>1, RepairInvInit, RepairInvStep, PTL DEF RepairSpec, LiveIsAccepted

\* No extractor is lost to a promotion, wherever it is interrupted: before the
\* first file is removed its content is among the versions, and it is still there
\* when the removal comes, as long as promotions have not crossed.
THEOREM ReplacedExtractorsAreKept == RepairSpec => ReplacedIsKept
<1>1. RepairInv /\ [RepairNext]_repairVars =>
        [live \notin {"none", "partial"} /\ live' # live /\ ~crossed =>
            \/ \E s \in Repairs : versions'[s] = live
            \/ opsLeft' # opsLeft]_repairVars
  <2> SUFFICES ASSUME RepairInv, [RepairNext]_repairVars, live \notin {"none", "partial"},
                      live' # live, ~crossed
               PROVE  (\E s \in Repairs : versions'[s] = live) \/ opsLeft' # opsLeft
    OBVIOUS
  <2>1. ASSUME NEW p \in Publishers, Clear(p) PROVE \E s \in Repairs : versions'[s] = live
    BY <2>1 DEF Clear, RepairInv, Promoted, PromotionInv, PromotionSound
  <2>2. ASSUME NEW p \in Publishers, Copy(p) PROVE FALSE
    BY <2>2 DEF Copy
  <2>3. ASSUME NEW p \in Publishers, Fill(p) PROVE FALSE
    BY <2>3 DEF Fill, RepairInv, Promoted, PromotionInv, PromotionSound
  <2> QED  BY <2>1, <2>2, <2>3, LiveChanges
<1> QED  BY <1>1, RepairInvInit, RepairInvStep, PTL DEF RepairSpec, ReplacedIsKept
=============================================================================
