------------------------- MODULE PipelineRunProofs -------------------------
(***************************************************************************)
(* Proofs about a run of the pipeline, for any ingest tasks, any number of *)
(* registrations of one task, and any commands.                            *)
(***************************************************************************)
EXTENDS PipelineRunProps, TLAPS

-----------------------------------------------------------------------------
(* Type correctness                                                         *)

PCs == {"idle", "register", "read", "load", "stage", "replace", "exec", "succeed",
        "list", "check", "done"}
ObjectStates == {"absent", "queued", "running"} \cup Success \cup Stopped
PatchKeys == {"none", "checkpoints", "task_ids", "combined_ingest_path"}
Ids == Tasks \cup {"start"}
Records == [checkpoints : SUBSET Ids, keys : SUBSET PatchKeys]

PipelineTypeOK ==
    /\ gen \in [Tasks -> 0 .. Generations]
    /\ state \in [Objects -> ObjectStates]
    /\ parked \subseteq Tasks
    /\ deps \in [Tasks -> SUBSET Tasks]
    /\ pc \in [Threads -> PCs]
    /\ held \in [Threads -> SUBSET Ids]
    /\ copy \in [Threads -> Records]
    /\ patch \in [Threads -> PatchKeys]
    /\ record \in Records
    /\ tmp \in Records
    /\ combined \subseteq Ingest
    /\ toCancel \subseteq Tasks
    /\ ops \in Nat

\* The thread of an object asks the rules only for tasks that have a followup,
\* and for an ingest task it has listed ingest tasks.
RuleInv ==
    \A o \in Objects :
        /\ pc[o] = "list" => o[1] \in Ingest
        /\ pc[o] \in {"check", "register"} =>
              /\ o[1] # "report"
              /\ o[1] \in Ingest => held[o] \subseteq Ingest

TypeInv == PipelineTypeOK /\ RuleInv

LEMMA ObjectFacts ==
    /\ \A o \in Objects : o[1] \in Tasks /\ o \in Threads /\ o # Starter
    /\ \A t \in Tasks, n \in 1 .. Generations : <<t, n>> \in Objects
    /\ Starter \in Threads /\ Starter[1] = "start"
    /\ \A th \in Threads : th[1] \in Ids
    /\ Ingest \subseteq Tasks /\ Chain \subseteq Tasks
BY DEF Objects, Threads, Starter, Ids, Tasks

LEMMA CurrentObject ==
    ASSUME PipelineTypeOK, NEW t \in Tasks, gen[t] # 0
    PROVE  Current(t) \in Objects
<1>1. gen[t] \in 1 .. Generations
    BY PipelineAssumption DEF PipelineTypeOK
<1> QED  BY <1>1, ObjectFacts DEF Current

LEMMA FollowupType ==
    ASSUME NEW t \in Tasks
    PROVE  FollowupOf(t) \in Chain
BY DEF FollowupOf, Chain

\* A step of a file handle or of a task's end.
LEMMA EndType ==
    ASSUME TypeInv, NEW o \in Objects,
           NEW outcome \in {"succeeded", "failed", "blocked", "parked"},
           End(o, outcome), UNCHANGED held
    PROVE  /\ state' \in [Objects -> ObjectStates]
           /\ parked' \subseteq Tasks
           /\ pc' \in [Threads -> PCs]
           /\ RuleInv'
<1>1. o[1] \in Tasks /\ o \in Threads
    BY ObjectFacts
<1>2. /\ Notified(o, outcome) \in {"idle", "list", "check"}
      /\ Notified(o, outcome) = "list" => o[1] \in Ingest
      /\ Notified(o, outcome) = "check" => o[1] # "report" /\ o[1] \notin Ingest
    BY DEF Notified
<1>3. state' \in [Objects -> ObjectStates] /\ parked' \subseteq Tasks
    BY <1>1 DEF End, TypeInv, PipelineTypeOK, ObjectStates, Success, Stopped
<1>4. pc' = [pc EXCEPT ![o] = Notified(o, outcome)]
    BY DEF End, Goto
<1>5. pc' \in [Threads -> PCs]
    BY <1>1, <1>2, <1>4 DEF TypeInv, PipelineTypeOK, PCs
<1>6. RuleInv'
    BY <1>2, <1>4, ObjectFacts DEF TypeInv, RuleInv, PipelineTypeOK
<1> QED  BY <1>3, <1>5, <1>6

LEMMA FileTypeStep ==
    ASSUME TypeInv, NEW th \in Threads, FileStep(th)
    PROVE  TypeInv'
<1> USE DEF TypeInv
<1>1. CASE LoadRecord(th)
  <2>1. th[1] \in Ids
    BY ObjectFacts
  <2>2. copy' \in [Threads -> Records]
    BY <1>1, <2>1 DEF LoadRecord, PipelineTypeOK, Records
  <2>3. PipelineTypeOK'
    BY <1>1, <2>2 DEF LoadRecord, Goto, PipelineTypeOK, PCs, queueVars
  <2>4. RuleInv'
    BY <1>1, ObjectFacts DEF LoadRecord, Goto, PipelineTypeOK, RuleInv
  <2> QED  BY <2>3, <2>4
<1>2. CASE StageRecord(th)
  <2>1. NoRecord \in Records
    BY DEF NoRecord, Records, PatchKeys
  <2>2. PipelineTypeOK'
    BY <1>2, <2>1 DEF StageRecord, Goto, PipelineTypeOK, PCs, queueVars
  <2>3. RuleInv'
    BY <1>2, ObjectFacts DEF StageRecord, Goto, PipelineTypeOK, RuleInv
  <2> QED  BY <2>2, <2>3
<1>3. CASE ReplaceRecord(th)
  <2>1. NoRecord \in Records
    BY DEF NoRecord, Records, PatchKeys
  <2>2. PipelineTypeOK'
    BY <1>3, <2>1 DEF ReplaceRecord, Goto, PipelineTypeOK, PCs, PatchKeys, queueVars
  <2>3. RuleInv'
    BY <1>3, ObjectFacts DEF ReplaceRecord, Goto, PipelineTypeOK, RuleInv
  <2> QED  BY <2>2, <2>3
<1>4. CASE LoseReplace(th)
  <2>0. UNCHANGED <<gen, deps, held, copy, record, tmp, combined, toCancel, ops>>
        /\ patch' \in [Threads -> PatchKeys]
    BY <1>4 DEF LoseReplace, PipelineTypeOK, PatchKeys
  <2>1. CASE th = Starter
    <3>1. PipelineTypeOK'
        BY <1>4, <2>0, <2>1 DEF LoseReplace, Goto, PipelineTypeOK, PCs
    <3>2. RuleInv'
        BY <1>4, <2>0, <2>1, ObjectFacts DEF LoseReplace, Goto, PipelineTypeOK, RuleInv
    <3> QED  BY <3>1, <3>2
  <2>2. CASE th # Starter
    <3>1. th \in Objects /\ End(th, "failed")
        BY <1>4, <2>2 DEF LoseReplace, Threads
    <3>2. PipelineTypeOK' /\ RuleInv'
        BY <2>0, <3>1, EndType DEF PipelineTypeOK
    <3> QED  BY <3>2
  <2> QED  BY <2>1, <2>2
<1> QED  BY <1>1, <1>2, <1>3, <1>4 DEF FileStep

LEMMA RunTypeStep ==
    ASSUME TypeInv, NEW o \in Objects, RunStep(o)
    PROVE  TypeInv'
<1> USE DEF TypeInv
<1>0. o[1] \in Tasks /\ o \in Threads /\ o # Starter
    BY ObjectFacts
<1>1. CASE Claim(o)
  <2>1. PipelineTypeOK'
    BY <1>0, <1>1 DEF Claim, Goto, PipelineTypeOK, PCs, ObjectStates, fileVars
  <2>2. RuleInv'
    BY <1>1, ObjectFacts DEF Claim, Goto, PipelineTypeOK, RuleInv
  <2> QED  BY <2>1, <2>2
<1>2. CASE Execute(o)
  <2>1. PipelineTypeOK'
    BY <1>0, <1>2 DEF Execute, Goto, PipelineTypeOK, PCs, fileVars, queueVars
  <2>2. RuleInv'
    BY <1>2, ObjectFacts DEF Execute, Goto, PipelineTypeOK, RuleInv
  <2> QED  BY <2>1, <2>2
<1>3. CASE Fail(o)
  <2>1. PICK outcome \in {"succeeded", "failed", "blocked", "parked"} : End(o, outcome)
    BY <1>3, PipelineAssumption DEF Fail
  <2>2. UNCHANGED <<gen, deps, held, fileVars, combined, toCancel, ops>>
    BY <1>3 DEF Fail
  <2> QED  BY <2>1, <2>2, EndType DEF PipelineTypeOK, fileVars
<1>4. CASE ReadCheckpoints(o)
  <2>1. record.checkpoints \subseteq Ids
    BY DEF PipelineTypeOK, Records
  <2>2. PipelineTypeOK'
    BY <1>0, <1>4, <2>1 DEF ReadCheckpoints, Goto, PipelineTypeOK, PCs, PatchKeys, queueVars
  <2>3. RuleInv'
    BY <1>4, ObjectFacts DEF ReadCheckpoints, Goto, PipelineTypeOK, RuleInv
  <2> QED  BY <2>2, <2>3
<1>5. CASE Succeed(o)
  <2>1. End(o, "succeeded") /\ UNCHANGED <<gen, deps, held, fileVars, combined, toCancel, ops>>
    BY <1>5 DEF Succeed
  <2> QED  BY <2>1, EndType DEF PipelineTypeOK, fileVars
<1>6. CASE ListIngest(o)
  <2>1. /\ held' = [held EXCEPT ![o] = {t \in Ingest : gen[t] > 0}]
        /\ pc[o] = "list" /\ pc' = [pc EXCEPT ![o] = "check"]
        /\ UNCHANGED <<queueVars, fileVars, combined, toCancel, ops>>
    BY <1>6 DEF ListIngest, Goto
  <2>2. {t \in Ingest : gen[t] > 0} \subseteq Ingest /\ Ingest \subseteq Ids
    BY ObjectFacts DEF Ids
  <2>3. o[1] \in Ingest /\ o[1] # "report"
    BY <2>1, PipelineAssumption DEF RuleInv, Chain
  <2>4. PipelineTypeOK'
    BY <1>0, <2>1, <2>2 DEF PipelineTypeOK, PCs, queueVars, fileVars
  <2>5. RuleInv'
    BY <2>1, <2>2, <2>3, ObjectFacts DEF PipelineTypeOK, RuleInv
  <2> QED  BY <2>4, <2>5
<1>7. CASE CheckFollowup(o)
  <2>1. PICK wanted \in BOOLEAN :
          /\ pc[o] = "check"
          /\ pc' = [pc EXCEPT ![o] = IF wanted THEN "register" ELSE "idle"]
          /\ held' = [held EXCEPT ![o] = IF wanted THEN @ ELSE {}]
          /\ UNCHANGED <<queueVars, fileVars, combined, toCancel, ops>>
    BY <1>7 DEF CheckFollowup, Goto
  <2>2. PipelineTypeOK'
    BY <1>0, <2>1 DEF PipelineTypeOK, PCs, queueVars, fileVars
  <2>3. RuleInv'
    BY <2>1, ObjectFacts DEF PipelineTypeOK, RuleInv
  <2> QED  BY <2>2, <2>3
<1>8. CASE RegisterFollowup(o)
  <2> DEFINE next == FollowupOf(o[1])
  <2>1. next \in Tasks
    BY <1>0, FollowupType, ObjectFacts
  <2>2. DependsOn(o) \in SUBSET Tasks
    BY <1>0, <1>8, ObjectFacts DEF RegisterFollowup, DependsOn, RuleInv
  <2>3. gen[next] + 1 \in 1 .. Generations
    BY <1>8, <2>1, PipelineAssumption DEF RegisterFollowup, PipelineTypeOK
  <2>4. gen' \in [Tasks -> 0 .. Generations] /\ deps' \in [Tasks -> SUBSET Tasks]
    BY <1>8, <2>1, <2>2, <2>3, PipelineAssumption DEF RegisterFollowup, PipelineTypeOK
  <2>5. state' \in [Objects -> ObjectStates]
    BY <1>8 DEF RegisterFollowup, PipelineTypeOK, ObjectStates
  <2>6. PipelineTypeOK'
    BY <1>0, <1>8, <2>4, <2>5 DEF RegisterFollowup, Goto, PipelineTypeOK, PCs, fileVars
  <2>7. RuleInv'
    BY <1>8, ObjectFacts DEF RegisterFollowup, Goto, PipelineTypeOK, RuleInv
  <2> QED  BY <2>6, <2>7
<1> QED  BY <1>1, <1>2, <1>3, <1>4, <1>5, <1>6, <1>7, <1>8 DEF RunStep

LEMMA TypeStep ==
    ASSUME TypeInv, [Next]_vars
    PROVE  TypeInv'
<1> USE DEF TypeInv
<1>1. ASSUME NEW t \in Ingest, RegisterIngest(t) PROVE TypeInv'
  <2>1. t \in Tasks /\ 1 \in 0 .. Generations
    BY ObjectFacts, PipelineAssumption
  <2>2. PipelineTypeOK'
    BY <1>1, <2>1 DEF RegisterIngest, Goto, PipelineTypeOK, PCs, ObjectStates, PatchKeys
  <2>3. RuleInv'
    BY <1>1, ObjectFacts DEF RegisterIngest, Goto, PipelineTypeOK, RuleInv
  <2> QED  BY <2>2, <2>3
<1>2. ASSUME UNCHANGED <<gen, deps, pc, held, fileVars, combined>>,
             state' \in [Objects -> ObjectStates], parked' \subseteq Tasks,
             toCancel' \subseteq Tasks, ops' \in Nat
      PROVE  TypeInv'
    BY <1>2 DEF PipelineTypeOK, RuleInv, fileVars
<1>3. ASSUME NEW t \in Tasks, QueueStep(t) PROVE TypeInv'
  <2>1. CASE Sweep(t)
    BY <1>2, <2>1 DEF Sweep, PipelineTypeOK, ObjectStates, Stopped
  <2>2. CASE Unpark(t)
    BY <1>2, <2>2 DEF Unpark, PipelineTypeOK, ObjectStates
  <2>3. CASE CancelNext(t)
    BY <1>2, <2>3 DEF CancelNext, PipelineTypeOK, ObjectStates, Stopped
  <2> QED  BY <1>3, <2>1, <2>2, <2>3 DEF QueueStep
<1>4. ASSUME NEW t \in Tasks, Retry(t) \/ Cancel(t) PROVE TypeInv'
    BY <1>2, <1>4 DEF Retry, Cancel, Command, PipelineTypeOK, ObjectStates, Stopped
<1>5. ASSUME NEW t \in Tasks, Skip(t) PROVE TypeInv'
  <2>1. state' \in [Objects -> ObjectStates] /\ parked' \subseteq Tasks
    BY <1>5 DEF Skip, PipelineTypeOK, ObjectStates, Success
  <2> QED  BY <1>2, <1>5, <2>1 DEF Skip, Command, PipelineTypeOK
<1>6. CASE CancelRun
    BY <1>2, <1>6 DEF CancelRun, Command, PipelineTypeOK, queueVars
<1>7. CASE UNCHANGED vars
    BY <1>2, <1>7 DEF vars, queueVars, PipelineTypeOK
<1> QED
    BY <1>1, <1>3, <1>4, <1>5, <1>6, <1>7, FileTypeStep, RunTypeStep DEF Next, UserStep

LEMMA TypeInit == Init => TypeInv
<1> SUFFICES ASSUME Init PROVE PipelineTypeOK /\ RuleInv
    BY DEF TypeInv
<1>1. NoRecord \in Records /\ [checkpoints |-> {}, keys |-> {}] \in Records
    BY DEF NoRecord, Records, PatchKeys
<1>2. PipelineTypeOK
    BY <1>1, PipelineAssumption DEF Init, PipelineTypeOK, ObjectStates, PCs, PatchKeys
<1>3. RuleInv
    BY ObjectFacts DEF Init, RuleInv
<1> QED  BY <1>2, <1>3

\* The queue's objects, the threads and the files of a run keep their types: a
\* followup is registered for a task of the chain only, behind tasks of the
\* run, and the record never holds anything but checkpoints and known keys,
\* whatever temporary file is moved into its place.
THEOREM PipelineTypeCorrect == Spec => []PipelineTypeOK
<1>1. TypeInv /\ [Next]_vars => TypeInv'
    BY TypeStep
<1>2. TypeInv => PipelineTypeOK
    BY DEF TypeInv
<1> QED  BY <1>1, <1>2, TypeInit, PTL DEF Spec

-----------------------------------------------------------------------------
(* A running stage keeps its inputs                                         *)

Busy == {"exec", "read", "load", "stage", "replace", "succeed"}

\* A thread is at work for a running object only.
BusyRuns == \A o \in Objects : pc[o] \in Busy => state[o] = "running"

\* An object comes to be when its number is reached.
NoneAhead == \A o \in Objects : o[2] > gen[o[1]] => state[o] = "absent"

\* The dependencies of a running first object are in the queue, and those that
\* were never registered again have succeeded.
InputsHeld ==
    \A t \in Tasks : gen[t] = 1 /\ state[<<t, 1>>] = "running" =>
        \A d \in deps[t] : gen[d] > 0 /\ (gen[d] = 1 => state[<<d, 1>>] \in Success)

Live == BusyRuns /\ NoneAhead /\ InputsHeld

\* A step that registers nothing and lets no object begin.
LEMMA QuietStep ==
    ASSUME TypeInv, Live, UNCHANGED <<gen, deps>>,
           \A o \in Objects :
              /\ state[o] \in Success => state'[o] \in Success
              /\ state'[o] = "running" => state[o] = "running"
              /\ state[o] = "absent" => state'[o] = "absent"
              /\ pc'[o] \in Busy => state'[o] = "running"
    PROVE  Live'
<1>1. BusyRuns' /\ NoneAhead'
    BY DEF Live, BusyRuns, NoneAhead
<1>2. InputsHeld'
  <2> SUFFICES ASSUME NEW t \in Tasks, gen[t] = 1, state'[<<t, 1>>] = "running",
                      NEW d \in deps[t]
               PROVE  gen[d] > 0 /\ (gen[d] = 1 => state'[<<d, 1>>] \in Success)
    BY DEF InputsHeld
  <2>1. d \in Tasks /\ <<t, 1>> \in Objects /\ <<d, 1>> \in Objects
    BY ObjectFacts, PipelineAssumption DEF TypeInv, PipelineTypeOK
  <2>2. gen[d] > 0 /\ (gen[d] = 1 => state[<<d, 1>>] \in Success)
    BY <2>1 DEF Live, InputsHeld
  <2> QED  BY <2>1, <2>2
<1> QED  BY <1>1, <1>2 DEF Live

\* A step that changes nothing but the threads and the states of objects that
\* wait or rest.
LEMMA CommandStep ==
    ASSUME TypeInv, Live, UNCHANGED <<gen, deps, pc>>,
           \A o \in Objects : state'[o] # state[o] =>
              /\ state[o] \in {"queued"} \cup Stopped
              /\ state'[o] # "running"
    PROVE  Live'
<1>1. \A o \in Objects :
        /\ state[o] \in Success => state'[o] \in Success
        /\ state'[o] = "running" => state[o] = "running"
        /\ state[o] = "absent" => state'[o] = "absent"
    BY DEF Success, Stopped
<1>2. \A o \in Objects : pc'[o] \in Busy => state'[o] = "running"
    BY DEF Live, BusyRuns, Stopped
<1> QED  BY <1>1, <1>2, QuietStep

\* A thread goes on, and no object changes its state.
LEMMA ThreadStep ==
    ASSUME TypeInv, Live, UNCHANGED <<gen, deps, state>>, NEW th \in Threads,
           NEW where, Goto(th, where), where \in Busy => pc[th] \in Busy
    PROVE  Live'
<1>1. \A o \in Objects : pc'[o] \in Busy => state'[o] = "running"
    BY ObjectFacts DEF Live, BusyRuns, Goto, TypeInv, PipelineTypeOK
<1> QED  BY <1>1, QuietStep

LEMMA EndStep ==
    ASSUME TypeInv, Live, NEW o \in Objects, pc[o] \in Busy,
           NEW outcome \in {"succeeded", "failed", "blocked", "parked"},
           End(o, outcome), UNCHANGED <<gen, deps>>
    PROVE  Live'
<1>1. state[o] = "running" /\ o \in Threads
    BY ObjectFacts DEF Live, BusyRuns
<1>2. state' = [state EXCEPT ![o] = IF outcome = "parked" THEN "blocked" ELSE outcome]
      /\ pc' = [pc EXCEPT ![o] = Notified(o, outcome)]
    BY DEF End, Goto
<1>3. Notified(o, outcome) \notin Busy
    BY DEF Notified, Busy
<1>4. \A p \in Objects :
        /\ state[p] \in Success => state'[p] \in Success
        /\ state'[p] = "running" => state[p] = "running"
        /\ state[p] = "absent" => state'[p] = "absent"
    BY <1>1, <1>2 DEF Success, TypeInv, PipelineTypeOK
<1>5. \A p \in Objects : pc'[p] \in Busy => state'[p] = "running"
    BY <1>1, <1>2, <1>3, ObjectFacts DEF Live, BusyRuns, TypeInv, PipelineTypeOK
<1> QED  BY <1>4, <1>5, QuietStep

\* The claim is the only way to run, and it wants every input.
LEMMA ClaimStep ==
    ASSUME TypeInv, Live, NEW o \in Objects, Claim(o)
    PROVE  Live'
<1> DEFINE t == o[1]
<1>0. t \in Tasks /\ o \in Threads /\ o = <<t, gen[t]>> /\ o # Starter
    BY ObjectFacts DEF Claim, Current
<1>1. /\ state[o] = "queued" /\ state' = [state EXCEPT ![o] = "running"]
      /\ pc' = [pc EXCEPT ![o] = "exec"]
      /\ UNCHANGED <<gen, deps>>
      /\ \A d \in deps[t] : StateOf(d) \in Success
    BY DEF Claim, Goto
<1>2. BusyRuns'
    BY <1>0, <1>1, ObjectFacts DEF Live, BusyRuns, TypeInv, PipelineTypeOK
<1>3. NoneAhead'
    BY <1>1 DEF Live, NoneAhead, TypeInv, PipelineTypeOK
<1>4. InputsHeld'
  <2> SUFFICES ASSUME NEW u \in Tasks, gen[u] = 1, state'[<<u, 1>>] = "running",
                      NEW d \in deps[u]
               PROVE  gen[d] > 0 /\ (gen[d] = 1 => state'[<<d, 1>>] \in Success)
    BY <1>1 DEF InputsHeld
  <2>1. d \in Tasks /\ <<u, 1>> \in Objects /\ <<d, 1>> \in Objects /\ gen[d] \in Nat
    BY ObjectFacts, PipelineAssumption DEF TypeInv, PipelineTypeOK
  <2>2. gen[d] > 0 /\ (gen[d] = 1 => state[<<d, 1>>] \in Success)
    <3>1. CASE u = t
      <4>1. StateOf(d) \in Success
        BY <1>1, <3>1
      <4> QED  BY <2>1, <4>1 DEF StateOf, Current, Success
    <3>2. CASE u # t
      <4>1. state[<<u, 1>>] = "running"
        BY <1>0, <1>1, <2>1, <3>2 DEF TypeInv, PipelineTypeOK
      <4> QED  BY <4>1 DEF Live, InputsHeld
    <3> QED  BY <3>1, <3>2
  <2>3. state[<<d, 1>>] \in Success => state'[<<d, 1>>] \in Success
    BY <1>1, <2>1 DEF Success, TypeInv, PipelineTypeOK
  <2> QED  BY <2>2, <2>3
<1> QED  BY <1>2, <1>3, <1>4 DEF Live

\* A new object waits; the old one of its task is no task's input any more.
LEMMA NewObjectStep ==
    ASSUME TypeInv, Live, NEW t \in Tasks, NEW th \in Threads, NEW where, NEW needs,
           gen[t] < Generations,
           gen' = [gen EXCEPT ![t] = @ + 1],
           state' = [state EXCEPT ![<<t, gen[t] + 1>>] = "queued"],
           deps' = [deps EXCEPT ![t] = needs],
           Goto(th, where), th # Starter => where \notin Busy
    PROVE  Live'
<1> DEFINE new == <<t, gen[t] + 1>>
<1>0. gen[t] \in Nat /\ gen[t] + 1 \in 1 .. Generations
    BY PipelineAssumption DEF TypeInv, PipelineTypeOK
<1>1. new \in Objects /\ new[1] = t /\ new[2] = gen[t] + 1
    BY <1>0, ObjectFacts
<1>2. state[new] = "absent" /\ pc[new] \notin Busy
    BY <1>0, <1>1 DEF Live, NoneAhead, BusyRuns
<1>3. BusyRuns'
    BY <1>1, <1>2, ObjectFacts DEF Live, BusyRuns, Goto, TypeInv, PipelineTypeOK
<1>4. NoneAhead'
  <2> SUFFICES ASSUME NEW o \in Objects, o[2] > gen'[o[1]] PROVE state'[o] = "absent"
    BY DEF NoneAhead
  <2>1. o[1] \in Tasks /\ gen[o[1]] \in Nat /\ o[2] \in Nat
    BY PipelineAssumption DEF Objects, TypeInv, PipelineTypeOK
  <2>2. o[2] > gen[o[1]] /\ o # new
    BY <1>0, <1>1, <2>1 DEF TypeInv, PipelineTypeOK
  <2> QED  BY <2>2 DEF Live, NoneAhead, TypeInv, PipelineTypeOK
<1>5. InputsHeld'
  <2> SUFFICES ASSUME NEW u \in Tasks, gen'[u] = 1, state'[<<u, 1>>] = "running",
                      NEW d \in deps'[u]
               PROVE  gen'[d] > 0 /\ (gen'[d] = 1 => state'[<<d, 1>>] \in Success)
    BY DEF InputsHeld
  <2>1. <<u, 1>> \in Objects /\ u # t
    BY <1>0, <1>1, ObjectFacts, PipelineAssumption DEF TypeInv, PipelineTypeOK
  <2>2. gen[u] = 1 /\ state[<<u, 1>>] = "running" /\ d \in deps[u] /\ d \in Tasks
    BY <2>1 DEF TypeInv, PipelineTypeOK
  <2>3. gen[d] > 0 /\ (gen[d] = 1 => state[<<d, 1>>] \in Success)
    BY <2>2 DEF Live, InputsHeld
  <2>4. gen'[d] = (IF d = t THEN gen[d] + 1 ELSE gen[d]) /\ gen[d] \in Nat
    BY <2>2, PipelineAssumption DEF TypeInv, PipelineTypeOK
  <2>5. gen'[d] = 1 => d # t /\ gen[d] = 1
    BY <2>3, <2>4
  <2>6. d # t => state'[<<d, 1>>] = state[<<d, 1>>]
    BY <2>2 DEF TypeInv, PipelineTypeOK
  <2> QED  BY <2>3, <2>4, <2>5, <2>6
<1> QED  BY <1>3, <1>4, <1>5 DEF Live

LEMMA FileLiveStep ==
    ASSUME TypeInv, Live, NEW th \in Threads, FileStep(th)
    PROVE  Live'
<1>1. CASE LoadRecord(th) \/ StageRecord(th)
    BY <1>1, ThreadStep DEF LoadRecord, StageRecord, queueVars, Busy
<1>2. CASE ReplaceRecord(th)
  <2>1. PICK where : Goto(th, where)
    BY <1>2 DEF ReplaceRecord
  <2> QED  BY <1>2, <2>1, ThreadStep DEF ReplaceRecord, queueVars, Busy
<1>3. CASE LoseReplace(th)
  <2>1. CASE th = Starter
    BY <1>3, <2>1, ThreadStep DEF LoseReplace, Busy
  <2>2. CASE th # Starter
    <3>1. th \in Objects
        BY <2>2 DEF Threads
    <3> QED  BY <1>3, <2>2, <3>1, EndStep DEF LoseReplace, Busy
  <2> QED  BY <2>1, <2>2
<1> QED  BY <1>1, <1>2, <1>3 DEF FileStep

LEMMA RunLiveStep ==
    ASSUME TypeInv, Live, NEW o \in Objects, RunStep(o)
    PROVE  Live'
<1>0. o \in Threads /\ o # Starter /\ o[1] \in Tasks
    BY ObjectFacts
<1>1. CASE Claim(o)
    BY <1>1, ClaimStep
<1>2. CASE Execute(o)
    BY <1>0, <1>2, ThreadStep DEF Execute, queueVars, Busy
<1>3. CASE Fail(o)
  <2>1. PICK outcome \in {"succeeded", "failed", "blocked", "parked"} : End(o, outcome)
    BY <1>3, PipelineAssumption DEF Fail
  <2> QED  BY <1>3, <2>1, EndStep DEF Fail, Busy
<1>4. CASE ReadCheckpoints(o)
    BY <1>0, <1>4, ThreadStep DEF ReadCheckpoints, queueVars, Busy
<1>5. CASE Succeed(o)
    BY <1>5, EndStep DEF Succeed, Busy
<1>6. CASE ListIngest(o)
    BY <1>0, <1>6, ThreadStep DEF ListIngest, queueVars, Busy
<1>7. CASE CheckFollowup(o)
  <2>1. PICK where \in {"register", "idle"} : Goto(o, where)
    BY <1>7 DEF CheckFollowup
  <2> QED  BY <1>0, <1>7, <2>1, ThreadStep DEF CheckFollowup, queueVars, Busy
<1>8. CASE RegisterFollowup(o)
  <2>1. FollowupOf(o[1]) \in Tasks
    BY <1>0, FollowupType, ObjectFacts
  <2> QED  BY <1>0, <1>8, <2>1, NewObjectStep DEF RegisterFollowup, Busy
<1> QED  BY <1>1, <1>2, <1>3, <1>4, <1>5, <1>6, <1>7, <1>8 DEF RunStep

LEMMA RegisterLiveStep ==
    ASSUME TypeInv, Live, NEW t \in Ingest, RegisterIngest(t)
    PROVE  Live'
<1>0. t \in Tasks /\ Starter \in Threads
    BY ObjectFacts
<1>1. /\ gen' = [gen EXCEPT ![t] = @ + 1]
      /\ state' = [state EXCEPT ![<<t, gen[t] + 1>>] = "queued"]
      /\ gen[t] < Generations
    BY <1>0, PipelineAssumption DEF RegisterIngest, TypeInv, PipelineTypeOK
<1>2. deps' = [deps EXCEPT ![t] = deps[t]]
    BY DEF RegisterIngest, TypeInv, PipelineTypeOK
<1>3. PICK where : Goto(Starter, where)
    BY DEF RegisterIngest
<1> QED  BY <1>0, <1>1, <1>2, <1>3, NewObjectStep

LEMMA CurrentWaits ==
    ASSUME TypeInv, NEW t \in Tasks, StateOf(t) # "absent"
    PROVE  Current(t) \in Objects /\ StateOf(t) = state[Current(t)]
BY CurrentObject DEF TypeInv, StateOf

LEMMA QueueLiveStep ==
    ASSUME TypeInv, Live, NEW t \in Tasks,
           QueueStep(t) \/ Retry(t) \/ Cancel(t) \/ Skip(t)
    PROVE  Live'
<1>1. CASE Sweep(t)
    BY <1>1, CurrentWaits, CommandStep DEF Sweep, TypeInv, PipelineTypeOK
<1>2. CASE Unpark(t)
    BY <1>2, CurrentWaits, CommandStep DEF Unpark, Stopped, TypeInv, PipelineTypeOK
<1>3. CASE CancelNext(t)
    BY <1>3, CurrentWaits, CommandStep DEF CancelNext, TypeInv, PipelineTypeOK
<1>4. CASE Retry(t)
    BY <1>4, CurrentWaits, CommandStep DEF Retry, Stopped, TypeInv, PipelineTypeOK
<1>5. CASE Cancel(t)
    BY <1>5, CurrentWaits, CommandStep DEF Cancel, TypeInv, PipelineTypeOK
<1>6. CASE Skip(t)
  <2>1. StateOf(t) # "absent" /\ StateOf(t) \in {"queued"} \cup Stopped
    BY <1>6 DEF Skip, Stopped
  <2>2. state[Current(t)] \in {"queued"} \cup Stopped
    BY <2>1, CurrentWaits
  <2>3. PICK R \in SUBSET {u \in Tasks : StateOf(u) = "blocked"} :
            state' = [o \in Objects |->
                        IF o = Current(t) THEN "skipped"
                        ELSE IF o[1] \in R /\ o = Current(o[1]) THEN "queued"
                        ELSE state[o]]
    BY <1>6 DEF Skip
  <2>4. \A u \in R : state[Current(u)] \in Stopped
    BY CurrentWaits DEF Stopped
  <2>5. \A o \in Objects : state'[o] # state[o] =>
            state[o] \in {"queued"} \cup Stopped /\ state'[o] # "running"
    BY <2>2, <2>3, <2>4
  <2> QED  BY <1>6, <2>5, CommandStep DEF Skip
<1> QED  BY <1>1, <1>2, <1>3, <1>4, <1>5, <1>6 DEF QueueStep

LEMMA LiveStep ==
    ASSUME TypeInv, Live, [Next]_vars
    PROVE  Live'
<1>1. CASE CancelRun \/ UNCHANGED vars
    BY <1>1, CommandStep DEF CancelRun, vars, queueVars
<1> QED
    BY <1>1, RegisterLiveStep, FileLiveStep, RunLiveStep, QueueLiveStep DEF Next, UserStep

\* A stage whose task was registered once works behind the tasks it depends on
\* as its claim found them: they are still in the queue, and each of them that
\* was registered once keeps its success while the stage is at work.  Neither
\* an override, a cancel of the run, a sweep, nor a second registration of
\* combine by another rule takes the input of a running stage back.
THEOREM RunningStageKeepsInputs == Spec => []InputsStay
<1>1. Init => Live
    BY DEF Init, Live, BusyRuns, NoneAhead, InputsHeld, Busy, Starter, Objects, Threads
<1>2. TypeInv /\ Live /\ [Next]_vars => TypeInv' /\ Live'
    BY TypeStep, LiveStep
<1>3. TypeInv /\ Live => InputsStay
  <2> SUFFICES ASSUME TypeInv, Live, NEW t \in Chain, gen[t] = 1, StateOf(t) = "running",
                      NEW d \in deps[t], gen[d] = 1
               PROVE  StateOf(d) \in Success
    BY DEF InputsStay
  <2> QED  BY ObjectFacts DEF Live, InputsHeld, StateOf, Current
<1> QED  BY <1>1, <1>2, <1>3, TypeInit, PTL DEF Spec
-----------------------------------------------------------------------------
(* No end is missed                                                         *)

\* Ingest tasks wait for nothing.
IngestFree == \A t \in Ingest : deps[t] = {}

\* A step after which every thread that asked still asks, and every task that
\* has ended had ended before or has a thread that asks.
LEMMA DueFrame ==
    ASSUME FollowupDue,
           \A t \in Tasks : gen'[t] = 0 => gen[t] = 0,
           \A t \in Tasks : Asking(t) => Asking(t)',
           \A t \in Ingest : EndedByRun(t)' => EndedByRun(t) \/ Asking(t)',
           \A t \in Chain \ {"report"} :
              StateOf(t)' = "succeeded" => StateOf(t) = "succeeded" \/ Asking(t)'
    PROVE  FollowupDue'
<1>1. ASSUME \A t \in Ingest : EndedByRun(t)', gen'["combine"] = 0
      PROVE  \E t \in Ingest : Asking(t)'
  <2>1. gen["combine"] = 0
    BY <1>1 DEF Tasks, Chain
  <2>2. CASE \A t \in Ingest : EndedByRun(t)
    BY <2>1, <2>2, ObjectFacts DEF FollowupDue
  <2>3. CASE \E t \in Ingest : ~EndedByRun(t)
    BY <1>1, <2>3
  <2> QED  BY <2>2, <2>3
<1>2. ASSUME NEW t \in Chain \ {"report"}, StateOf(t)' = "succeeded",
             Enabled(FollowupOf(t)), gen'[FollowupOf(t)] = 0
      PROVE  Asking(t)'
  <2>1. t \in Tasks /\ FollowupOf(t) \in Tasks
    BY ObjectFacts, FollowupType
  <2>2. StateOf(t) = "succeeded" => Asking(t)
    BY <1>2, <2>1 DEF FollowupDue
  <2> QED  BY <1>2, <2>1, <2>2
<1>3. \A t \in Chain : Enabled(FollowupOf(t))' <=> Enabled(FollowupOf(t))
    BY DEF Enabled, FollowupOf
<1> QED  BY <1>1, <1>2, <1>3 DEF FollowupDue

\* What a task's state and its end follow from.
LEMMA SameState ==
    ASSUME NEW t \in Tasks, gen'[t] = gen[t], state'[Current(t)] = state[Current(t)],
           t \in parked' <=> t \in parked
    PROVE  StateOf(t)' = StateOf(t) /\ (EndedByRun(t)' <=> EndedByRun(t))
BY DEF StateOf, Current, EndedByRun, Ended

\* A command, a sweep or a claim: the threads that ask go on asking, and the
\* tasks that change are not such as have ended by their own run.
LEMMA DueQuietStep ==
    ASSUME TypeInv, FollowupDue, UNCHANGED gen,
           \A o \in Objects : pc[o] \in {"list", "check", "register"} => pc'[o] = pc[o],
           \A t \in Tasks :
              \/ gen[t] = 0
              \/ gen[t] # 0 /\ state'[Current(t)] \in {"queued", "running", "skipped", "cancelled"}
              \/ gen[t] # 0 /\ t \in Chain /\ state'[Current(t)] = "blocked"
              \/ state'[Current(t)] = state[Current(t)] /\ (t \in parked' <=> t \in parked)
    PROVE  FollowupDue'
<1>1. \A t \in Tasks : Asking(t) => Asking(t)'
    BY DEF Asking
<1>2. ASSUME NEW t \in Tasks, gen[t] # 0 PROVE StateOf(t)' = state'[Current(t)]
    BY <1>2 DEF StateOf, Current
<1>0. ASSUME NEW t \in Tasks, gen[t] = 0
      PROVE  StateOf(t)' = "absent" /\ ~EndedByRun(t)'
    BY <1>0 DEF StateOf, EndedByRun, Ended
<1>3. ASSUME NEW t \in Ingest, EndedByRun(t)' PROVE EndedByRun(t)
  <2>1. t \in Tasks /\ t \notin Chain /\ gen[t] # 0
    BY <1>0, <1>3, ObjectFacts, PipelineAssumption
  <2>2. StateOf(t)' \notin {"queued", "running", "skipped", "cancelled"}
    BY <1>3 DEF EndedByRun, Ended
  <2>3. state'[Current(t)] = state[Current(t)] /\ (t \in parked' <=> t \in parked)
    BY <1>2, <2>1, <2>2
  <2> QED  BY <1>3, <2>1, <2>3, SameState
<1>4. ASSUME NEW t \in Chain, StateOf(t)' = "succeeded" PROVE StateOf(t) = "succeeded"
  <2>1. t \in Tasks /\ gen[t] # 0
    BY <1>0, <1>4, ObjectFacts
  <2>2. state'[Current(t)] = state[Current(t)] /\ (t \in parked' <=> t \in parked)
    BY <1>2, <1>4, <2>1
  <2> QED  BY <1>4, <2>1, <2>2, SameState
<1> QED  BY <1>1, <1>3, <1>4, DueFrame

\* A thread goes on with the record, or to ask, and nothing else changes.
LEMMA DueThreadStep ==
    ASSUME TypeInv, FollowupDue, UNCHANGED queueVars, NEW th \in Threads, NEW where,
           Goto(th, where),
           pc[th] \in {"list", "check", "register"} =>
              th = Starter \/ where \in {"list", "check", "register"}
    PROVE  FollowupDue'
<1>1. \A o \in Objects : o # th => pc'[o] = pc[o]
    BY ObjectFacts DEF Goto, TypeInv, PipelineTypeOK
<1>2. pc'[th] = where
    BY DEF Goto, TypeInv, PipelineTypeOK
<1>3. \A t \in Tasks : Asking(t) => Asking(t)'
    BY <1>1, <1>2, ObjectFacts DEF Asking
<1>4. \A t \in Tasks : StateOf(t)' = StateOf(t) /\ (EndedByRun(t)' <=> EndedByRun(t))
    BY SameState DEF queueVars
<1> QED  BY <1>3, <1>4, ObjectFacts, DueFrame DEF queueVars

\* The end of a task is followed by a look at the rules that wait for it.
LEMMA DueEndStep ==
    ASSUME TypeInv, FollowupDue, UNCHANGED gen, NEW o \in Objects,
           pc[o] \notin {"list", "check", "register"},
           NEW outcome \in {"succeeded", "failed", "blocked", "parked"}, End(o, outcome)
    PROVE  FollowupDue'
<1>0. o[1] \in Tasks /\ o \in Threads
    BY ObjectFacts
<1>1. /\ state' = [state EXCEPT ![o] = IF outcome = "parked" THEN "blocked" ELSE outcome]
      /\ parked' = IF outcome = "parked" THEN parked \cup {o[1]} ELSE parked \ {o[1]}
      /\ pc' = [pc EXCEPT ![o] = Notified(o, outcome)]
    BY DEF End, Goto
<1>2. \A p \in Objects : pc[p] \in {"list", "check", "register"} => pc'[p] = pc[p]
    BY <1>1, ObjectFacts DEF TypeInv, PipelineTypeOK
<1>3. \A t \in Tasks : Asking(t) => Asking(t)'
    BY <1>2 DEF Asking
<1>4. pc'[o] = Notified(o, outcome)
    BY <1>0, <1>1 DEF TypeInv, PipelineTypeOK
<1>5. \A t \in Tasks : t # o[1] =>
          StateOf(t)' = StateOf(t) /\ (EndedByRun(t)' <=> EndedByRun(t))
  <2> SUFFICES ASSUME NEW t \in Tasks, t # o[1]
               PROVE  StateOf(t)' = StateOf(t) /\ (EndedByRun(t)' <=> EndedByRun(t))
    OBVIOUS
  <2>1. state'[Current(t)] = state[Current(t)]
    <3>1. Current(t) # o
        BY DEF Current
    <3>2. CASE Current(t) \in Objects
        BY <1>1, <3>1, <3>2 DEF TypeInv, PipelineTypeOK
    <3>3. CASE Current(t) \notin Objects
        BY <1>1, <3>1 DEF TypeInv, PipelineTypeOK
    <3> QED  BY <3>2, <3>3
  <2>2. t \in parked' <=> t \in parked
    BY <1>1
  <2> QED  BY <2>1, <2>2, SameState
<1>6. ASSUME o[1] \in Ingest, EndedByRun(o[1])' PROVE EndedByRun(o[1]) \/ Asking(o[1])'
  <2>1. CASE outcome # "parked"
    <3>1. o[1] # "report"
        BY <1>6, PipelineAssumption DEF Chain
    <3>2. pc'[o] = "list"
        BY <1>4, <1>6, <2>1, <3>1 DEF Notified
    <3> QED  BY <3>2 DEF Asking
  <2>2. CASE outcome = "parked"
    <3>1. o[1] \in parked'
        BY <1>1, <2>2
    <3>2. StateOf(o[1])' # "blocked"
        BY <1>6, <3>1 DEF EndedByRun, Ended
    <3>3. gen[o[1]] # 0 /\ Current(o[1]) # o
      <4>1. gen[o[1]] # 0
        BY <1>6 DEF EndedByRun, Ended, StateOf
      <4>2. state'[o] = "blocked"
        BY <1>1, <2>2 DEF TypeInv, PipelineTypeOK
      <4> QED  BY <3>2, <4>1, <4>2 DEF StateOf, Current
    <3>4. Current(o[1]) \in Objects
        BY <1>0, <3>3, CurrentObject DEF TypeInv
    <3>5. StateOf(o[1])' = StateOf(o[1])
        BY <1>1, <3>3, <3>4 DEF StateOf, Current, TypeInv, PipelineTypeOK
    <3> QED  BY <1>6, <3>2, <3>5 DEF EndedByRun, Ended
  <2> QED  BY <2>1, <2>2
<1>7. ASSUME o[1] \in Chain \ {"report"}, StateOf(o[1])' = "succeeded"
      PROVE  StateOf(o[1]) = "succeeded" \/ Asking(o[1])'
  <2>1. CASE outcome = "succeeded"
    <3>1. o[1] \notin Ingest
        BY <1>7, PipelineAssumption
    <3>2. pc'[o] = "check"
        BY <1>4, <1>7, <2>1, <3>1 DEF Notified
    <3> QED  BY <3>2 DEF Asking
  <2>2. CASE outcome # "succeeded"
    <3>1. gen[o[1]] # 0
        BY <1>7 DEF StateOf
    <3>2. Current(o[1]) \in Objects
        BY <1>0, <3>1, CurrentObject DEF TypeInv
    <3>3. state'[Current(o[1])] = "succeeded" /\ state'[o] # "succeeded"
        BY <1>1, <1>7, <2>2, <3>1 DEF StateOf, Current, TypeInv, PipelineTypeOK
    <3>4. state[Current(o[1])] = "succeeded"
        BY <1>1, <3>2, <3>3 DEF TypeInv, PipelineTypeOK
    <3> QED  BY <3>1, <3>4 DEF StateOf
  <2> QED  BY <2>1, <2>2
<1>8. \A t \in Ingest : EndedByRun(t)' => EndedByRun(t) \/ Asking(t)'
    BY <1>5, <1>6, ObjectFacts
<1>9. \A t \in Chain \ {"report"} :
          StateOf(t)' = "succeeded" => StateOf(t) = "succeeded" \/ Asking(t)'
    BY <1>5, <1>7, ObjectFacts
<1> QED  BY <1>3, <1>8, <1>9, DueFrame

\* A rule that wants nothing has seen the followup in the queue, or a task that
\* has not ended.
LEMMA DueCheckStep ==
    ASSUME TypeInv, FollowupDue, NEW o \in Objects, CheckFollowup(o)
    PROVE  FollowupDue'
<1> DEFINE next == FollowupOf(o[1])
           Wanted == /\ Enabled(next)
                     /\ o[1] \in Ingest => \A t \in held[o] : Ended(t)
                     /\ gen[next] = 0
<1>0. o \in Threads
    BY ObjectFacts
<1>1. /\ pc[o] = "check" /\ UNCHANGED queueVars
      /\ pc' = [pc EXCEPT ![o] = IF Wanted THEN "register" ELSE "idle"]
    BY DEF CheckFollowup, Goto
<1>2. CASE Wanted
  <2>1. Goto(o, "register")
    BY <1>1, <1>2 DEF Goto
  <2> QED  BY <1>0, <1>1, <2>1, DueThreadStep
<1>3. CASE ~Wanted
  <2>1. \A t \in Tasks : StateOf(t)' = StateOf(t) /\ (EndedByRun(t)' <=> EndedByRun(t))
    BY <1>1, SameState DEF queueVars
  <2>2. \A t \in Tasks : t # o[1] => (Asking(t) => Asking(t)')
    BY <1>1, ObjectFacts DEF Asking, TypeInv, PipelineTypeOK
  <2>3. ASSUME \A t \in Ingest : EndedByRun(t), gen["combine"] = 0
        PROVE  \E t \in Ingest : Asking(t)'
    <3>1. o[1] \notin Ingest
      <4> SUFFICES ASSUME o[1] \in Ingest PROVE FALSE
        OBVIOUS
      <4>1. next = "combine" /\ Enabled(next)
        BY DEF FollowupOf, Enabled
      <4>2. \A t \in held[o] : Ended(t)
        BY <1>1, <2>3 DEF TypeInv, RuleInv, EndedByRun
      <4> QED  BY <1>3, <2>3, <4>1, <4>2
    <3>2. PICK t \in Ingest : Asking(t)
        BY <2>3 DEF FollowupDue
    <3> QED  BY <2>2, <3>1, <3>2, ObjectFacts
  <2>4. ASSUME NEW t \in Chain \ {"report"}, StateOf(t) = "succeeded",
               Enabled(FollowupOf(t)), gen[FollowupOf(t)] = 0
        PROVE  Asking(t)'
    <3>1. Asking(t) /\ t \in Tasks /\ t \notin Ingest
        BY <2>4, ObjectFacts, PipelineAssumption DEF FollowupDue
    <3>2. t # o[1]
        BY <1>3, <2>4, <3>1
    <3> QED  BY <2>2, <3>1, <3>2
  <2>5. \A t \in Chain : Enabled(FollowupOf(t))' <=> Enabled(FollowupOf(t))
    BY DEF Enabled, FollowupOf
  <2> QED  BY <1>1, <2>1, <2>3, <2>4, <2>5, ObjectFacts DEF FollowupDue, queueVars
<1> QED  BY <1>2, <1>3

\* The registration is what the rule was asked for.
LEMMA DueRegisterStep ==
    ASSUME TypeInv, FollowupDue, NEW o \in Objects, RegisterFollowup(o)
    PROVE  FollowupDue'
<1> DEFINE next == FollowupOf(o[1])
<1>0. o[1] \in Tasks /\ o \in Threads /\ next \in Chain /\ next \in Tasks
    BY ObjectFacts, FollowupType
<1>1. /\ pc[o] = "register" /\ UNCHANGED parked
      /\ pc' = [pc EXCEPT ![o] = "idle"]
      /\ gen' = [gen EXCEPT ![next] = @ + 1]
      /\ state' = [state EXCEPT ![<<next, gen[next] + 1>>] = "queued"]
      /\ gen[next] < Generations
    BY DEF RegisterFollowup, Goto
<1>2. o[1] # "report"
    BY <1>1 DEF TypeInv, RuleInv
<1>3. gen[next] \in Nat /\ gen[next] + 1 \in 1 .. Generations
    BY <1>0, <1>1, PipelineAssumption DEF TypeInv, PipelineTypeOK
<1>4. gen'[next] = gen[next] + 1 /\ gen'[next] # 0
    BY <1>0, <1>1, <1>3 DEF TypeInv, PipelineTypeOK
<1>5. \A t \in Tasks : t # next => gen'[t] = gen[t]
    BY <1>1 DEF TypeInv, PipelineTypeOK
<1>6. \A t \in Tasks : t # next =>
          StateOf(t)' = StateOf(t) /\ (EndedByRun(t)' <=> EndedByRun(t))
  <2> SUFFICES ASSUME NEW t \in Tasks, t # next
               PROVE  StateOf(t)' = StateOf(t) /\ (EndedByRun(t)' <=> EndedByRun(t))
    OBVIOUS
  <2>1. Current(t) # <<next, gen[next] + 1>>
    BY DEF Current
  <2>2. state'[Current(t)] = state[Current(t)]
    <3>1. CASE Current(t) \in Objects
        BY <1>1, <2>1, <3>1 DEF TypeInv, PipelineTypeOK
    <3>2. CASE Current(t) \notin Objects
      <4>1. gen[t] = 0
        BY <3>2, CurrentObject DEF TypeInv
      <4> QED  BY <1>1, <2>1 DEF TypeInv, PipelineTypeOK
    <3> QED  BY <3>1, <3>2
  <2> QED  BY <1>1, <1>5, <2>2, SameState
<1>7. StateOf(next)' = "queued"
  <2>1. <<next, gen[next] + 1>> \in Objects
    BY <1>0, <1>3, ObjectFacts
  <2>2. state'[<<next, gen[next] + 1>>] = "queued"
    BY <1>1, <2>1 DEF TypeInv, PipelineTypeOK
  <2> QED  BY <1>4, <2>2 DEF StateOf, Current
<1>8. \A t \in Tasks : t # o[1] => (Asking(t) => Asking(t)')
    BY <1>1, ObjectFacts DEF Asking, TypeInv, PipelineTypeOK
<1>9. ASSUME \A t \in Ingest : EndedByRun(t)', gen'["combine"] = 0
      PROVE  \E t \in Ingest : Asking(t)'
  <2>1. next # "combine" /\ gen["combine"] = 0
    BY <1>4, <1>5, <1>9 DEF Tasks, Chain
  <2>2. o[1] \notin Ingest
    BY <2>1 DEF FollowupOf
  <2>3. \A t \in Ingest : t \in Tasks /\ t # next
    BY <1>0, ObjectFacts, PipelineAssumption
  <2>4. PICK t \in Ingest : Asking(t)
    BY <1>6, <1>9, <2>1, <2>3 DEF FollowupDue
  <2> QED  BY <1>8, <2>2, <2>3, <2>4
<1>10. ASSUME NEW t \in Chain \ {"report"}, StateOf(t)' = "succeeded",
              Enabled(FollowupOf(t)), gen'[FollowupOf(t)] = 0
       PROVE  Asking(t)'
  <2>1. t \in Tasks /\ t # next /\ FollowupOf(t) \in Tasks
    BY <1>7, <1>10, ObjectFacts, FollowupType
  <2>2. FollowupOf(t) # next
    BY <1>4, <1>10
  <2>3. t # o[1]
    BY <2>2
  <2>4. StateOf(t) = "succeeded" /\ gen[FollowupOf(t)] = 0
    BY <1>5, <1>6, <1>10, <2>1, <2>2
  <2> QED  BY <1>8, <1>10, <2>1, <2>3, <2>4 DEF FollowupDue
<1>11. \A t \in Chain : Enabled(FollowupOf(t))' <=> Enabled(FollowupOf(t))
    BY DEF Enabled, FollowupOf
<1> QED  BY <1>9, <1>10, <1>11 DEF FollowupDue

LEMMA DueRunStep ==
    ASSUME TypeInv, FollowupDue, NEW o \in Objects, RunStep(o)
    PROVE  FollowupDue'
<1>0. o \in Threads /\ o # Starter /\ o[1] \in Tasks
    BY ObjectFacts
<1>1. CASE Claim(o)
  <2>1. /\ gen[o[1]] # 0 /\ o = Current(o[1])
        /\ state' = [state EXCEPT ![o] = "running"] /\ pc' = [pc EXCEPT ![o] = "exec"]
        /\ pc[o] = "idle" /\ UNCHANGED <<gen, parked>>
    <3>1. o = <<o[1], gen[o[1]]>>
        BY <1>1 DEF Claim, Current
    <3>2. gen[o[1]] \in 1 .. Generations
        BY <3>1 DEF Objects
    <3>3. gen[o[1]] # 0
        BY <3>2, PipelineAssumption
    <3> QED  BY <1>1, <3>3 DEF Claim, Goto
  <2>2. \A t \in Tasks : t # o[1] => state'[Current(t)] = state[Current(t)]
    <3> SUFFICES ASSUME NEW t \in Tasks, t # o[1]
                 PROVE  state'[Current(t)] = state[Current(t)]
        OBVIOUS
    <3>1. Current(t) # o
        BY DEF Current
    <3> QED  BY <2>1, <3>1 DEF TypeInv, PipelineTypeOK
  <2>3. state'[o] = "running"
    BY <2>1 DEF TypeInv, PipelineTypeOK
  <2>4. \A p \in Objects : pc[p] \in {"list", "check", "register"} => pc'[p] = pc[p]
    BY <2>1, ObjectFacts DEF TypeInv, PipelineTypeOK
  <2> QED  BY <2>1, <2>2, <2>3, <2>4, DueQuietStep
<1>2. CASE Execute(o)
    BY <1>0, <1>2, DueThreadStep DEF Execute
<1>3. CASE Fail(o)
  <2>1. PICK outcome \in {"succeeded", "failed", "blocked", "parked"} : End(o, outcome)
    BY <1>3, PipelineAssumption DEF Fail
  <2> QED  BY <1>3, <2>1, DueEndStep DEF Fail
<1>4. CASE ReadCheckpoints(o)
    BY <1>0, <1>4, DueThreadStep DEF ReadCheckpoints
<1>5. CASE Succeed(o)
    BY <1>5, DueEndStep DEF Succeed
<1>6. CASE ListIngest(o)
    BY <1>0, <1>6, DueThreadStep DEF ListIngest
<1>7. CASE CheckFollowup(o)
    BY <1>7, DueCheckStep
<1>8. CASE RegisterFollowup(o)
    BY <1>8, DueRegisterStep
<1> QED  BY <1>1, <1>2, <1>3, <1>4, <1>5, <1>6, <1>7, <1>8 DEF RunStep

LEMMA DueFileStep ==
    ASSUME TypeInv, FollowupDue, NEW th \in Threads, FileStep(th)
    PROVE  FollowupDue'
<1>1. CASE LoadRecord(th) \/ StageRecord(th)
    BY <1>1, DueThreadStep DEF LoadRecord, StageRecord
<1>2. CASE ReplaceRecord(th)
  <2>1. PICK where : Goto(th, where)
    BY <1>2 DEF ReplaceRecord
  <2> QED  BY <1>2, <2>1, DueThreadStep DEF ReplaceRecord
<1>3. CASE LoseReplace(th)
  <2>1. CASE th = Starter
    BY <1>3, <2>1, DueThreadStep DEF LoseReplace, queueVars
  <2>2. CASE th # Starter
    <3>1. th \in Objects
        BY <2>2 DEF Threads
    <3> QED  BY <1>3, <2>2, <3>1, DueEndStep DEF LoseReplace
  <2> QED  BY <2>1, <2>2
<1> QED  BY <1>1, <1>2, <1>3 DEF FileStep

LEMMA DueIngestStep ==
    ASSUME TypeInv, FollowupDue, NEW t \in Ingest, RegisterIngest(t)
    PROVE  FollowupDue'
<1>0. t \in Tasks /\ t \notin Chain /\ Starter \in Threads /\ <<t, 1>> \in Objects
    BY ObjectFacts, PipelineAssumption
<1>1. /\ gen[t] = 0 /\ UNCHANGED parked
      /\ gen' = [gen EXCEPT ![t] = 1]
      /\ state' = [state EXCEPT ![<<t, 1>>] = "queued"]
    BY DEF RegisterIngest
<1>2. \A o \in Objects : pc'[o] = pc[o]
    BY ObjectFacts DEF RegisterIngest, Goto, TypeInv, PipelineTypeOK
<1>3. \A u \in Tasks : Asking(u) => Asking(u)'
    BY <1>2 DEF Asking
<1>4. StateOf(t)' = "queued"
    BY <1>0, <1>1 DEF StateOf, Current, TypeInv, PipelineTypeOK
<1>5. \A u \in Tasks : u # t =>
          StateOf(u)' = StateOf(u) /\ (EndedByRun(u)' <=> EndedByRun(u))
  <2> SUFFICES ASSUME NEW u \in Tasks, u # t
               PROVE  StateOf(u)' = StateOf(u) /\ (EndedByRun(u)' <=> EndedByRun(u))
    OBVIOUS
  <2>1. Current(u) # <<t, 1>>
    BY DEF Current
  <2> QED  BY <1>1, <2>1, SameState DEF TypeInv, PipelineTypeOK
<1>6. \A u \in Ingest : EndedByRun(u)' => EndedByRun(u)
    BY <1>4, <1>5, ObjectFacts DEF EndedByRun, Ended
<1>7. \A u \in Chain : StateOf(u)' = StateOf(u)
    BY <1>0, <1>5, ObjectFacts
<1>8. \A u \in Tasks : gen'[u] = 0 => gen[u] = 0
    BY <1>1 DEF TypeInv, PipelineTypeOK
<1> QED  BY <1>3, <1>6, <1>7, <1>8, DueFrame

LEMMA DueQueueStep ==
    ASSUME TypeInv, IngestFree, FollowupDue, NEW t \in Tasks,
           QueueStep(t) \/ Retry(t) \/ Cancel(t) \/ Skip(t)
    PROVE  FollowupDue'
<1>1. ASSUME UNCHANGED <<gen, pc>>, StateOf(t) # "absent",
             NEW s, s \in {"queued", "cancelled"} \/ (t \in Chain /\ s = "blocked"),
             state' = [state EXCEPT ![Current(t)] = s],
             parked' = parked \/ parked' = parked \ {t}
      PROVE  FollowupDue'
  <2>1. gen[t] # 0 /\ Current(t) \in Objects
    BY <1>1, CurrentWaits DEF StateOf
  <2>2. state'[Current(t)] = s
    BY <1>1, <2>1 DEF TypeInv, PipelineTypeOK
  <2>3. \A u \in Tasks : u # t =>
            state'[Current(u)] = state[Current(u)] /\ (u \in parked' <=> u \in parked)
    <3> SUFFICES ASSUME NEW u \in Tasks, u # t
                 PROVE  state'[Current(u)] = state[Current(u)] /\ (u \in parked' <=> u \in parked)
        OBVIOUS
    <3>1. Current(u) # Current(t)
        BY DEF Current
    <3> QED  BY <1>1, <3>1 DEF TypeInv, PipelineTypeOK
  <2> QED  BY <1>1, <2>1, <2>2, <2>3, DueQuietStep
<1>2. CASE Sweep(t)
  <2>1. t \in Chain
    BY <1>2 DEF Sweep, IngestFree, Tasks
  <2> QED  BY <1>1, <1>2, <2>1 DEF Sweep
<1>3. CASE Unpark(t)
    BY <1>1, <1>3 DEF Unpark
<1>4. CASE CancelNext(t)
  <2>1. CASE StateOf(t) = "queued"
    BY <1>1, <1>4, <2>1 DEF CancelNext
  <2>2. CASE StateOf(t) # "queued"
    BY <1>4, <2>2, DueQuietStep DEF CancelNext
  <2> QED  BY <2>1, <2>2
<1>5. CASE Retry(t)
    BY <1>1, <1>5 DEF Retry, Stopped
<1>6. CASE Cancel(t)
    BY <1>1, <1>6 DEF Cancel
<1>7. CASE Skip(t)
  <2>1. StateOf(t) # "absent" /\ UNCHANGED <<gen, pc>>
    BY <1>7 DEF Skip, Stopped
  <2>2. gen[t] # 0 /\ Current(t) \in Objects
    BY <2>1, CurrentWaits DEF StateOf
  <2>3. PICK R \in SUBSET {u \in Tasks : StateOf(u) = "blocked"} :
            /\ state' = [o \in Objects |->
                          IF o = Current(t) THEN "skipped"
                          ELSE IF o[1] \in R /\ o = Current(o[1]) THEN "queued"
                          ELSE state[o]]
            /\ parked' = parked \ (R \cup {t})
    BY <1>7 DEF Skip
  <2>4. ASSUME NEW u \in Tasks
        PROVE  \/ gen[u] = 0
               \/ gen[u] # 0 /\ state'[Current(u)] \in {"queued", "skipped"}
               \/ state'[Current(u)] = state[Current(u)] /\ (u \in parked' <=> u \in parked)
    <3>1. CASE u = t
        BY <2>2, <2>3, <3>1
    <3>2. CASE u # t /\ u \in R
      <4>1. StateOf(u) # "absent"
        BY <3>2
      <4>2. gen[u] # 0 /\ Current(u) \in Objects
        BY <4>1, CurrentWaits DEF StateOf
      <4>3. Current(u) # Current(t) /\ Current(u)[1] = u
        BY <3>2 DEF Current
      <4> QED  BY <2>3, <3>2, <4>2, <4>3
    <3>3. CASE u # t /\ u \notin R
      <4>1. Current(u) # Current(t) /\ Current(u)[1] = u
        BY <3>3 DEF Current
      <4>2. CASE Current(u) \in Objects
        BY <2>3, <3>3, <4>1, <4>2
      <4>3. CASE Current(u) \notin Objects
        <5>1. gen[u] = 0
            BY <4>3, CurrentObject DEF TypeInv
        <5> QED  BY <5>1
      <4> QED  BY <4>2, <4>3
    <3> QED  BY <3>1, <3>2, <3>3
  <2> QED  BY <2>1, <2>4, DueQuietStep
<1> QED  BY <1>2, <1>3, <1>4, <1>5, <1>6, <1>7 DEF QueueStep

LEMMA IngestFreeStep ==
    ASSUME TypeInv, IngestFree, [Next]_vars
    PROVE  IngestFree'
<1>1. ASSUME NEW t \in Ingest, RegisterIngest(t) PROVE IngestFree'
    BY <1>1 DEF RegisterIngest, IngestFree
<1>2. ASSUME NEW th \in Threads, FileStep(th) PROVE IngestFree'
    BY <1>2 DEF FileStep, LoadRecord, StageRecord, ReplaceRecord, LoseReplace, queueVars, IngestFree
<1>3. ASSUME NEW o \in Objects, RunStep(o) PROVE IngestFree'
  <2>1. CASE RegisterFollowup(o)
    <3>1. FollowupOf(o[1]) \notin Ingest
        BY ObjectFacts, FollowupType, PipelineAssumption
    <3> QED  BY <2>1, <3>1, ObjectFacts DEF RegisterFollowup, IngestFree, TypeInv, PipelineTypeOK
  <2>2. CASE ~RegisterFollowup(o)
    BY <1>3, <2>2 DEF RunStep, Claim, Execute, Fail, ReadCheckpoints, Succeed, ListIngest,
                      CheckFollowup, queueVars, IngestFree
  <2> QED  BY <2>1, <2>2
<1>4. ASSUME NEW t \in Tasks, QueueStep(t) \/ Retry(t) \/ Cancel(t) \/ Skip(t) PROVE IngestFree'
    BY <1>4 DEF QueueStep, Sweep, Unpark, CancelNext, Retry, Cancel, Skip, IngestFree
<1>5. CASE CancelRun \/ UNCHANGED vars
    BY <1>5 DEF CancelRun, vars, queueVars, IngestFree
<1> QED  BY <1>1, <1>2, <1>3, <1>4, <1>5 DEF Next, UserStep

\* What follows an end is in the queue or about to be, for any number of ingest
\* tasks that end together, any followups that are enabled, any number of
\* registrations of one task, and whatever is retried, cancelled or skipped
\* (FollowupDue).
THEOREM NoEndIsMissed == Spec => []FollowupDue
<1>1. Init => IngestFree /\ FollowupDue
  <2> SUFFICES ASSUME Init PROVE IngestFree /\ FollowupDue
    OBVIOUS
  <2>1. \A t \in Tasks : StateOf(t) = "absent"
    BY DEF Init, StateOf
  <2>2. \A t \in Tasks : ~EndedByRun(t)
    BY <2>1 DEF EndedByRun, Ended
  <2> QED  BY <2>1, <2>2, ObjectFacts, PipelineAssumption DEF Init, IngestFree, FollowupDue
<1>2. TypeInv /\ IngestFree /\ FollowupDue /\ [Next]_vars
      => TypeInv' /\ IngestFree' /\ FollowupDue'
  <2> SUFFICES ASSUME TypeInv, IngestFree, FollowupDue, [Next]_vars
               PROVE  TypeInv' /\ IngestFree' /\ FollowupDue'
    OBVIOUS
  <2>1. CASE CancelRun \/ UNCHANGED vars
    <3>1. UNCHANGED <<gen, state, parked, pc>>
        BY <2>1 DEF CancelRun, vars, queueVars
    <3>2. FollowupDue'
        BY <3>1, DueQuietStep DEF Current
    <3> QED  BY <3>2, TypeStep, IngestFreeStep
  <2> QED  BY <2>1, TypeStep, IngestFreeStep, DueIngestStep, DueFileStep, DueRunStep,
              DueQueueStep DEF Next, UserStep
<1> QED  BY <1>1, <1>2, TypeInit, PTL DEF Spec
=============================================================================
