--------------------------- MODULE QueueStoreProofs ---------------------------
(***************************************************************************)
(* Proofs about what the queue keeps beside its scheduling, for any tasks, *)
(* groups, dependencies, limits and restarts.                              *)
(*                                                                         *)
(* The image is current after every step, except where a replaced run has  *)
(* written last, so a restart finds the tasks and results as the queue had *)
(* them; the indexes are what the tasks name, so  *)
(* the readers of an index and of the tasks agree; and the count of the    *)
(* running tasks of a key, less the task itself, is that of the others.    *)
(***************************************************************************)
EXTENDS QueueStore, FiniteSetTheorems, TLAPS

Tasks == TaskEvents \cup {NoTask}
Results == SUBSET ResultKeys
Details == {"blocked_details", "dependency_details"}

StoreTypeOK ==
    /\ task \in [StoreTasks -> Tasks]
    /\ result \in [StoreTasks -> Results]
    /\ transient \subseteq StoreTasks
    /\ groupIndex \in [StoreGroups -> SUBSET StoreTasks]
    /\ depIndex \in [StoreTasks -> SUBSET StoreTasks]
    /\ image \in [StoreTasks -> [task : Tasks, result : Results]]
    /\ telling \subseteq StoreTasks
    /\ restarts \in Nat
    /\ replaced \in [StoreTasks -> Tasks]
    /\ extra \subseteq StoreTasks
    /\ foreign \subseteq StoreTasks

\* The indexes name the tasks that name the group or the dependency.
Indexed ==
    /\ groupIndex = [g \in StoreGroups |-> {t \in StoreTasks : task[t].group = g}]
    /\ depIndex = [d \in StoreTasks |-> {t \in StoreTasks : d \in task[t].deps}]

\* A blocked task says why, unless a replaced run has overwritten its result;
\* and so does a blocked row of the image, for the next restart.
BlockedSaysWhy ==
    \A t \in StoreTasks \ foreign : task[t].state = "blocked" => result[t] \cap Details # {}

RowSaysWhy ==
    \A t \in StoreTasks : image[t].task.state = "blocked" =>
        result[t] \cap Details # {} \/ (t \in foreign /\ task[t].state = "blocked")

\* A run without a state of its own is a run of a task that is known.
StrayKnown == \A t \in extra : task[t].state # "absent"

StoreInv ==
    StoreTypeOK /\ ImageIsCurrent /\ Indexed /\ BlockedSaysWhy /\ RowSaysWhy /\ StrayKnown

-----------------------------------------------------------------------------
(* Tasks and results                                                        *)

States == {"absent", "running"} \cup Unstarted \cup Passed \cup Dead

LEMMA TaskFields ==
    ASSUME NEW k \in Tasks
    PROVE  /\ k.state \in States
           /\ k.group \in StoreGroups \cup {""}
           /\ k.deps \subseteq StoreTasks
           /\ k.later \in BOOLEAN
           /\ k = NoTask <=> k.state = "absent"
           /\ k.group = "" => k = NoTask
           /\ k = NoTask => k.group = "" /\ k.deps = {} /\ k.later = FALSE
<1>0. /\ NoTask.state = "absent" /\ NoTask.group = ""
      /\ NoTask.deps = {} /\ NoTask.later = FALSE
    BY DEF NoTask
<1>1. CASE k = NoTask
    BY <1>0, <1>1 DEF States
<1>2. CASE k \in TaskEvents
  <2>1. k.state # "absent" /\ k.state \in States
    BY <1>2 DEF TaskEvents, States, Unstarted, Passed, Dead
  <2>2. k # NoTask
    BY <1>0, <2>1
  <2>3. k.group \in StoreGroups /\ k.deps \subseteq StoreTasks /\ k.later \in BOOLEAN
    BY <1>2 DEF TaskEvents
  <2>4. k.group # ""
    BY <2>3, StoreAssumption
  <2> QED  BY <2>1, <2>2, <2>3, <2>4
<1> QED  BY <1>1, <1>2 DEF Tasks

\* A task that goes to another state keeps its group and its dependencies.
Moved(t) ==
    /\ \A u \in StoreTasks \ {t} : task'[u] = task[u]
    /\ task'[t].group = task[t].group /\ task'[t].deps = task[t].deps

LEMMA QueueMoves ==
    ASSUME StoreTypeOK, NEW t \in StoreTasks, task[t].state # "absent",
           NEW s \in States \ {"absent"}, NEW l \in BOOLEAN,
           \/ task' = [task EXCEPT ![t].state = s, ![t].later = l]
           \/ task' = [task EXCEPT ![t].state = s] /\ l = task[t].later
           \/ task' = [task EXCEPT ![t].later = l] /\ s = task[t].state
    PROVE  /\ task' \in [StoreTasks -> Tasks]
           /\ Moved(t) /\ task'[t].state = s /\ task'[t].later = l
<1>1. task[t] \in TaskEvents
    BY TaskFields DEF StoreTypeOK, Tasks
<1>2. /\ DOMAIN task' = StoreTasks
      /\ task' = [u \in StoreTasks |-> task'[u]]
      /\ \A u \in StoreTasks \ {t} : task'[u] = task[u]
    BY DEF StoreTypeOK
<1>3. \/ task'[t] = [task[t] EXCEPT !.state = s, !.later = l]
      \/ task'[t] = [task[t] EXCEPT !.state = s] /\ l = task[t].later
      \/ task'[t] = [task[t] EXCEPT !.later = l] /\ s = task[t].state
    BY DEF StoreTypeOK
<1>4. /\ task'[t] \in TaskEvents
      /\ task'[t].state = s /\ task'[t].later = l
      /\ task'[t].group = task[t].group /\ task'[t].deps = task[t].deps
  <2>1. CASE task'[t] = [task[t] EXCEPT !.state = s, !.later = l]
    BY <1>1, <2>1 DEF TaskEvents, States
  <2>2. CASE task'[t] = [task[t] EXCEPT !.state = s] /\ l = task[t].later
    BY <1>1, <2>2 DEF TaskEvents, States
  <2>3. CASE task'[t] = [task[t] EXCEPT !.later = l] /\ s = task[t].state
    BY <1>1, <2>3 DEF TaskEvents, States
  <2> QED  BY <1>3, <2>1, <2>2, <2>3
<1>5. task' \in [StoreTasks -> Tasks]
    BY <1>2, <1>4 DEF StoreTypeOK, Tasks
<1> QED  BY <1>2, <1>4, <1>5 DEF Moved

-----------------------------------------------------------------------------
(* The image and the indexes                                                *)

LEMMA PersistStep ==
    ASSUME StoreInv, NEW S \in SUBSET StoreTasks, Persist(S),
           task' \in [StoreTasks -> Tasks], result' \in [StoreTasks -> Results],
           \A u \in StoreTasks \ S : task'[u] = task[u] /\ result'[u] = result[u]
    PROVE  /\ ImageIsCurrent' /\ image' \in [StoreTasks -> [task : Tasks, result : Results]]
           /\ foreign' \subseteq foreign /\ foreign' \subseteq StoreTasks
           /\ \A u \in StoreTasks \ S : u \in foreign' <=> u \in foreign
           /\ BlockedSaysWhy' => RowSaysWhy'
<1>1. ASSUME NEW t \in S
      PROVE  /\ image'[t] \in [task : Tasks, result : Results]
             /\ image'[t].task = task'[t] /\ image'[t].result = result'[t]
  <2>1. t \in StoreTasks /\ image'[t] = [task |-> task'[t], result |-> result'[t]]
    BY DEF Persist
  <2>2. task'[t] \in Tasks /\ result'[t] \in Results
    BY <2>1
  <2> QED  BY <2>1, <2>2
<1>2. ASSUME NEW t \in StoreTasks \ S
      PROVE  /\ image'[t] = image[t] /\ image[t] \in [task : Tasks, result : Results]
             /\ task'[t] = task[t] /\ result'[t] = result[t]
    BY DEF Persist, StoreInv, StoreTypeOK
<1>3. /\ foreign' \subseteq foreign /\ foreign' \subseteq StoreTasks
      /\ \A u \in StoreTasks \ S : u \in foreign' <=> u \in foreign
    BY DEF Persist, StoreInv, StoreTypeOK
<1>4. ImageIsCurrent'
  <2> SUFFICES ASSUME NEW t \in StoreTasks
               PROVE  image'[t].result = result'[t] /\ (t \notin foreign' => image'[t].task = task'[t])
    BY DEF ImageIsCurrent
  <2>1. CASE t \in S
    BY <1>1, <2>1
  <2>2. CASE t \notin S
    BY <1>2, <1>3, <2>2 DEF StoreInv, ImageIsCurrent
  <2> QED  BY <2>1, <2>2
<1>5. image' \in [StoreTasks -> [task : Tasks, result : Results]]
  <2>1. image' = [t \in StoreTasks |->
                    IF t \in S THEN [task |-> task'[t], result |-> result'[t]] ELSE image[t]]
    BY DEF Persist
  <2>2. \A t \in StoreTasks : image'[t] \in [task : Tasks, result : Results]
    BY <1>1, <1>2
  <2> QED  BY <2>1, <2>2
<1>6. ASSUME BlockedSaysWhy', NEW t \in StoreTasks, image'[t].task.state = "blocked"
      PROVE  result'[t] \cap Details # {} \/ (t \in foreign' /\ task'[t].state = "blocked")
  <2>1. CASE t \in S
    BY <1>1, <1>6, <2>1 DEF BlockedSaysWhy
  <2>2. CASE t \notin S
    BY <1>2, <1>3, <1>6, <2>2 DEF StoreInv, RowSaysWhy
  <2> QED  BY <2>1, <2>2
<1> QED  BY <1>3, <1>4, <1>5, <1>6 DEF RowSaysWhy

LEMMA IndexStep ==
    ASSUME Indexed, UNCHANGED <<groupIndex, depIndex>>,
           \A t \in StoreTasks : task'[t].group = task[t].group /\ task'[t].deps = task[t].deps
    PROVE  Indexed'
BY DEF Indexed

\* One task goes to another state, and the store is told.
LEMMA MoveStep ==
    ASSUME StoreInv, NEW t \in StoreTasks, task[t].state # "absent",
           NEW s \in States \ {"absent"}, NEW l \in BOOLEAN,
           \/ task' = [task EXCEPT ![t].state = s, ![t].later = l]
           \/ task' = [task EXCEPT ![t].state = s] /\ l = task[t].later,
           NEW keys \in Results, result' = [result EXCEPT ![t] = keys],
           s = "blocked" => keys \cap Details # {},
           Persist({t}), UNCHANGED <<groupIndex, depIndex, restarts, replaced>>,
           transient' \subseteq StoreTasks, telling' \subseteq StoreTasks, extra' \subseteq extra
    PROVE  StoreInv'
<1>1. /\ task' \in [StoreTasks -> Tasks]
      /\ Moved(t) /\ task'[t].state = s
    BY QueueMoves DEF StoreInv
<1>2. /\ result' \in [StoreTasks -> Results]
      /\ \A u \in StoreTasks \ {t} : result'[u] = result[u]
      /\ result'[t] = keys
    BY DEF StoreInv, StoreTypeOK
<1>3. /\ ImageIsCurrent' /\ image' \in [StoreTasks -> [task : Tasks, result : Results]]
      /\ foreign' \subseteq StoreTasks /\ (BlockedSaysWhy' => RowSaysWhy')
      /\ \A u \in StoreTasks \ {t} : u \in foreign' <=> u \in foreign
    BY <1>1, <1>2, PersistStep DEF Moved
<1>4. Indexed'
    BY <1>1, IndexStep DEF StoreInv, Moved
<1>5. StoreTypeOK'
    BY <1>1, <1>2, <1>3 DEF StoreInv, StoreTypeOK
<1>6. BlockedSaysWhy'
    BY <1>1, <1>2, <1>3 DEF StoreInv, BlockedSaysWhy, Moved
<1>7. StrayKnown'
    BY <1>1 DEF StoreInv, StoreTypeOK, StrayKnown, Moved
<1> QED  BY <1>3, <1>4, <1>5, <1>6, <1>7 DEF StoreInv

\* The result of one task changes.
LEMMA ResultStep ==
    ASSUME StoreInv, NEW t \in StoreTasks, UNCHANGED task,
           NEW keys \in Results, result' = [result EXCEPT ![t] = keys],
           task[t].state = "blocked" /\ t \notin foreign => keys \cap Details # {},
           Persist({t}), UNCHANGED <<groupIndex, depIndex, restarts, replaced>>,
           transient' \subseteq StoreTasks, telling' \subseteq StoreTasks, extra' \subseteq extra
    PROVE  StoreInv'
<1>1. /\ result' \in [StoreTasks -> Results]
      /\ \A u \in StoreTasks \ {t} : result'[u] = result[u]
      /\ result'[t] = keys
    BY DEF StoreInv, StoreTypeOK
<1>2. /\ ImageIsCurrent' /\ image' \in [StoreTasks -> [task : Tasks, result : Results]]
      /\ foreign' \subseteq StoreTasks /\ (BlockedSaysWhy' => RowSaysWhy')
      /\ \A u \in StoreTasks \ {t} : u \in foreign' <=> u \in foreign
    BY <1>1, PersistStep DEF StoreInv, StoreTypeOK
<1>3. Indexed'
    BY IndexStep DEF StoreInv
<1>4. StoreTypeOK'
    BY <1>1, <1>2 DEF StoreInv, StoreTypeOK
<1>5. BlockedSaysWhy'
  <2>1. t \in foreign /\ task[t].state = "blocked" => t \in foreign'
    BY DEF Persist
  <2> QED  BY <1>1, <1>2, <2>1 DEF StoreInv, BlockedSaysWhy
<1>6. StrayKnown'
    BY DEF StoreInv, StrayKnown
<1> QED  BY <1>2, <1>3, <1>4, <1>5, <1>6 DEF StoreInv

-----------------------------------------------------------------------------
(* The steps                                                                *)

LEMMA RegisterStep ==
    ASSUME StoreInv, NEW t \in StoreTasks, NEW g \in StoreGroups, NEW needs \in StoreDeps[t],
           StoreRegister(t, g, needs)
    PROVE  StoreInv'
<1> DEFINE new == [state |-> "queued", group |-> g, deps |-> needs, later |-> FALSE]
<1>0. needs \in SUBSET StoreTasks
    BY StoreAssumption
<1>1. new \in Tasks /\ new.state = "queued" /\ new.group = g /\ new.deps = needs
    BY <1>0 DEF Tasks, TaskEvents, Unstarted
<1>2. /\ task' = [task EXCEPT ![t] = new]
      /\ groupIndex' = Reindexed(groupIndex, t, {g})
      /\ depIndex' = Reindexed(depIndex, t, needs)
      /\ UNCHANGED <<result, transient, telling, restarts>>
      /\ Persist({t})
      /\ replaced' = replaced \/ replaced' = [replaced EXCEPT ![t] = task[t]]
      /\ extra' = extra \/ extra' = extra \cup {t}
    BY DEF StoreRegister, runVars
<1> HIDE DEF new
<1>3. /\ task' \in [StoreTasks -> Tasks] /\ task'[t] = new
      /\ \A u \in StoreTasks \ {t} : task'[u] = task[u]
    BY <1>1, <1>2 DEF StoreInv, StoreTypeOK
<1>4. /\ ImageIsCurrent' /\ image' \in [StoreTasks -> [task : Tasks, result : Results]]
      /\ foreign' \subseteq StoreTasks /\ (BlockedSaysWhy' => RowSaysWhy')
      /\ \A u \in StoreTasks \ {t} : u \in foreign' <=> u \in foreign
    BY <1>2, <1>3, PersistStep DEF StoreInv, StoreTypeOK
<1>5. groupIndex' = [h \in StoreGroups |-> {u \in StoreTasks : task'[u].group = h}]
  <2>1. groupIndex' = [h \in StoreGroups |->
            IF h \in {g} THEN groupIndex[h] \cup {t} ELSE groupIndex[h] \ {t}]
    BY <1>2 DEF Reindexed, StoreInv, StoreTypeOK
  <2>2. \A h \in StoreGroups : groupIndex[h] = {u \in StoreTasks : task[u].group = h}
    BY DEF StoreInv, Indexed
  <2>3. ASSUME NEW h \in StoreGroups
        PROVE  groupIndex'[h] = {u \in StoreTasks : task'[u].group = h}
    BY <1>1, <1>3, <2>1, <2>2
  <2> QED  BY <2>1, <2>3
<1>6. depIndex' = [d \in StoreTasks |-> {u \in StoreTasks : d \in task'[u].deps}]
  <2>1. depIndex' = [d \in StoreTasks |->
            IF d \in needs THEN depIndex[d] \cup {t} ELSE depIndex[d] \ {t}]
    BY <1>2 DEF Reindexed, StoreInv, StoreTypeOK
  <2>2. \A d \in StoreTasks : depIndex[d] = {u \in StoreTasks : d \in task[u].deps}
    BY DEF StoreInv, Indexed
  <2>3. ASSUME NEW d \in StoreTasks
        PROVE  depIndex'[d] = {u \in StoreTasks : d \in task'[u].deps}
    BY <1>1, <1>3, <2>1, <2>2
  <2> QED  BY <2>1, <2>3
<1>7. StoreTypeOK'
  <2>1. groupIndex' \in [StoreGroups -> SUBSET StoreTasks]
    BY <1>5
  <2>2. depIndex' \in [StoreTasks -> SUBSET StoreTasks]
    BY <1>6
  <2>3. replaced' \in [StoreTasks -> Tasks] /\ extra' \subseteq StoreTasks
    BY <1>2 DEF StoreInv, StoreTypeOK
  <2> QED  BY <1>2, <1>3, <1>4, <2>1, <2>2, <2>3 DEF StoreInv, StoreTypeOK
<1>8. BlockedSaysWhy'
    BY <1>1, <1>2, <1>3, <1>4 DEF StoreInv, BlockedSaysWhy
<1>9. StrayKnown'
    BY <1>1, <1>2, <1>3 DEF StoreInv, StoreTypeOK, StrayKnown
<1> QED  BY <1>4, <1>5, <1>6, <1>7, <1>8, <1>9 DEF StoreInv, Indexed

\* What the end of a run leaves.
LEMMA EndFacts ==
    ASSUME StoreInv, NEW t \in StoreTasks, NEW end \in Ends(t)
    PROVE  /\ end.state \in States \ {"absent"} /\ end.later \in BOOLEAN
           /\ end.keys \in Results
           /\ end.state = "blocked" => end.keys \cap Details # {}
           /\ RecordEnd(t, end) =>
                 /\ result' = [result EXCEPT ![t] = end.keys]
                 /\ transient' \subseteq StoreTasks /\ telling' \subseteq StoreTasks
                 /\ UNCHANGED <<groupIndex, depIndex, restarts>>
<1>1. PICK s \in {"succeeded", "blocked", "failed", "queued"}, later \in BOOLEAN, keys \in Results :
         /\ end = [state |-> s, later |-> later, keys |-> keys]
         /\ s = "blocked" => keys = {"blocked_details"}
    BY DEF Ends, End, Results, ResultKeys
<1>2. end.state = s /\ end.later = later /\ end.keys = keys
    BY <1>1
<1>3. transient \subseteq StoreTasks /\ telling \subseteq StoreTasks
    BY DEF StoreInv, StoreTypeOK
<1> QED  BY <1>1, <1>2, <1>3 DEF RecordEnd, States, Unstarted, Passed, Dead, Details

\* A replaced run leaves the tasks alone, and its own row.
LEMMA ReplacedStep ==
    ASSUME StoreInv, NEW t \in StoreTasks, StoreReplacedEnds(t)
    PROVE  StoreInv'
<1>1. PICK end \in Ends(t) :
        /\ replaced[t] # NoTask
        /\ replaced' = [replaced EXCEPT ![t] = NoTask]
        /\ RecordEnd(t, end)
        /\ image' = [image EXCEPT ![t] =
                        [task |-> [replaced[t] EXCEPT !.state = end.state, !.later = end.later],
                         result |-> end.keys]]
        /\ foreign' = foreign \cup {t}
        /\ UNCHANGED <<task, extra>>
    BY DEF StoreReplacedEnds
<1> DEFINE row == [replaced[t] EXCEPT !.state = end.state, !.later = end.later]
<1>2. row \in TaskEvents /\ row.state = end.state
  <2>1. replaced[t] \in TaskEvents
    BY <1>1 DEF StoreInv, StoreTypeOK, Tasks
  <2>2. end.state \in {"running"} \cup Unstarted \cup Passed \cup Dead /\ end.later \in BOOLEAN
    BY EndFacts DEF States
  <2> QED  BY <2>1, <2>2 DEF TaskEvents
<1>3. image' = [image EXCEPT ![t] = [task |-> row, result |-> end.keys]]
    BY <1>1
<1> HIDE DEF row
<1>4. /\ image'[t] = [task |-> row, result |-> end.keys]
      /\ \A u \in StoreTasks \ {t} : image'[u] = image[u]
      /\ result' = [result EXCEPT ![t] = end.keys]
      /\ result'[t] = end.keys /\ \A u \in StoreTasks \ {t} : result'[u] = result[u]
    BY <1>1, <1>3, EndFacts DEF StoreInv, StoreTypeOK
<1>5. StoreTypeOK'
  <2>1. image' \in [StoreTasks -> [task : Tasks, result : Results]]
    BY <1>2, <1>3, EndFacts DEF StoreInv, StoreTypeOK, Tasks
  <2>2. replaced' \in [StoreTasks -> Tasks]
    BY <1>1 DEF StoreInv, StoreTypeOK, Tasks
  <2> QED  BY <1>1, <1>4, <2>1, <2>2, EndFacts DEF StoreInv, StoreTypeOK
<1>6. ImageIsCurrent'
    BY <1>1, <1>4 DEF StoreInv, ImageIsCurrent
<1>7. Indexed' /\ StrayKnown'
    BY <1>1, EndFacts, IndexStep DEF StoreInv, StrayKnown
<1>8. BlockedSaysWhy'
    BY <1>1, <1>4 DEF StoreInv, BlockedSaysWhy
<1>9. RowSaysWhy'
  <2>1. image'[t].task.state = "blocked" => result'[t] \cap Details # {}
    BY <1>2, <1>4, EndFacts
  <2> QED  BY <1>1, <1>4, <2>1 DEF StoreInv, RowSaysWhy
<1> QED  BY <1>5, <1>6, <1>7, <1>8, <1>9 DEF StoreInv

LEMMA RunSteps ==
    ASSUME StoreInv, NEW t \in StoreTasks,
           StoreStart(t) \/ StoreEnd(t) \/ StoreDispatch(t)
    PROVE  StoreInv'
<1> USE DEF States, Unstarted, Passed, Dead, Results, ResultKeys, Details
<1>0. result[t] \in Results /\ transient \subseteq StoreTasks /\ telling \subseteq StoreTasks
    BY DEF StoreInv, StoreTypeOK
<1>1. CASE StoreStart(t)
  <2>1. result' = [result EXCEPT ![t] = result[t]]
    BY <1>1 DEF StoreStart, StoreInv, StoreTypeOK
  <2>2. task[t].state # "absent"
    BY <1>1 DEF StoreStart, IsReady
  <2>3. PICK s \in {"running"}, l \in {FALSE} :
            task' = [task EXCEPT ![t].state = s, ![t].later = l]
    BY <1>1 DEF StoreStart
  <2> QED  BY <1>0, <1>1, <2>1, <2>2, <2>3, MoveStep DEF StoreStart, runVars
<1>2. CASE StoreEnd(t)
  <2>1. PICK end \in Ends(t) :
        /\ task[t].state = "running" \/ t \in extra
        /\ task' = [task EXCEPT ![t].state = end.state, ![t].later = end.later]
        /\ RecordEnd(t, end)
        /\ extra' \subseteq extra
        /\ UNCHANGED replaced
        /\ Persist({t})
    BY <1>2 DEF StoreEnd
  <2>2. task[t].state # "absent"
    BY <2>1 DEF StoreInv, StrayKnown
  <2>3. PICK s \in States \ {"absent"}, l \in BOOLEAN, keys \in Results :
            /\ s = end.state /\ l = end.later /\ keys = end.keys
            /\ s = "blocked" => keys \cap Details # {}
    BY EndFacts
  <2>4. /\ task' = [task EXCEPT ![t].state = s, ![t].later = l]
        /\ result' = [result EXCEPT ![t] = keys]
    BY <2>1, <2>3, EndFacts
  <2>5. /\ UNCHANGED <<groupIndex, depIndex, restarts, replaced>>
        /\ transient' \subseteq StoreTasks /\ telling' \subseteq StoreTasks
    BY <2>1, EndFacts
  <2> QED  BY <2>1, <2>2, <2>3, <2>4, <2>5, MoveStep
<1>4. CASE StoreDispatch(t)
  <2>1. CASE UNCHANGED <<result, image, foreign>>
    BY <1>0, <1>4, <2>1 DEF StoreDispatch, StoreInv, StoreTypeOK, ImageIsCurrent, Indexed,
                            BlockedSaysWhy, RowSaysWhy, StrayKnown, runVars
  <2>2. CASE result' = [result EXCEPT ![t] = @ \cup {"patch"}] /\ Persist({t})
    <3>1. task[t].state = "blocked" /\ t \notin foreign => (result[t] \cup {"patch"}) \cap Details # {}
        BY DEF StoreInv, BlockedSaysWhy
    <3>2. result' = [result EXCEPT ![t] = result[t] \cup {"patch"}]
        BY <2>2
    <3> QED  BY <1>0, <1>4, <2>2, <3>1, <3>2, ResultStep DEF StoreDispatch, runVars
  <2> QED  BY <1>4, <2>1, <2>2 DEF StoreDispatch
<1> QED  BY <1>1, <1>2, <1>4

LEMMA CommandSteps ==
    ASSUME StoreInv, NEW t \in StoreTasks,
           StoreMark(t) \/ StoreCancel(t) \/ StoreRetry(t)
    PROVE  StoreInv'
<1> USE DEF States, Unstarted, Passed, Dead, Results, ResultKeys, Details
<1>0. /\ result[t] \in Results /\ transient \subseteq StoreTasks /\ telling \subseteq StoreTasks
      /\ task[t].later \in BOOLEAN
    BY TaskFields DEF StoreInv, StoreTypeOK
<1>1. CASE StoreMark(t)
  <2>1. PICK s \in {"blocked", "waiting"}, keys \in Results :
            /\ task' = [task EXCEPT ![t].state = s]
            /\ result' = [result EXCEPT ![t] = keys]
            /\ s = "blocked" => keys = {"blocked_details", "dependency_details"}
    BY <1>0, <1>1 DEF StoreMark
  <2> QED  BY <1>0, <1>1, <2>1, MoveStep DEF StoreMark, runVars
<1>2. CASE StoreCancel(t)
  <2>1. CASE task[t].state \in Unstarted /\ Set(t, "cancelled", {"cancel_reason"})
    <3>1. PICK s \in {"cancelled"}, l \in {FALSE}, keys \in Results :
            /\ task' = [task EXCEPT ![t].state = s, ![t].later = l]
            /\ result' = [result EXCEPT ![t] = keys]
        BY <2>1 DEF Set
    <3> QED  BY <1>0, <1>2, <2>1, <3>1, MoveStep DEF StoreCancel, runVars
  <2>2. CASE /\ task[t].state = "running"
             /\ result' = [result EXCEPT ![t] = {"error", "cancel_reason"}]
             /\ UNCHANGED task
    <3>1. PICK keys \in Results : result' = [result EXCEPT ![t] = keys]
        BY <2>2
    <3> QED  BY <1>0, <1>2, <2>2, <3>1, ResultStep DEF StoreCancel, runVars
  <2> QED  BY <1>2, <2>1, <2>2 DEF StoreCancel
<1>3. CASE StoreRetry(t)
  <2>1. PICK s \in {"queued"}, l \in {FALSE}, keys \in Results :
            /\ task' = [task EXCEPT ![t].state = s, ![t].later = l]
            /\ result' = [result EXCEPT ![t] = keys]
    BY <1>3 DEF StoreRetry, Set
  <2> QED  BY <1>0, <1>3, <2>1, MoveStep DEF StoreRetry, runVars
<1> QED  BY <1>1, <1>2, <1>3

\* The time of the next attempt passes for a task, or for the row of a task.
LEMMA ClockFacts ==
    ASSUME NEW k \in Tasks
    PROVE  /\ [k EXCEPT !.later = FALSE] \in Tasks
           /\ [k EXCEPT !.later = FALSE].state = k.state
           /\ [k EXCEPT !.later = FALSE].group = k.group
           /\ [k EXCEPT !.later = FALSE].deps = k.deps
<1>1. CASE k = NoTask
  <2> DEFINE Shape == [state : {"absent"}, group : {""}, deps : {{}}, later : BOOLEAN]
  <2>1. k \in Shape /\ k.later = FALSE
    BY <1>1 DEF NoTask
  <2>2. \A r \in Shape : r.later = FALSE => [r EXCEPT !.later = FALSE] = r
    OBVIOUS
  <2>3. [k EXCEPT !.later = FALSE] = k
    BY <2>1, <2>2
  <2> QED  BY <2>3
<1>2. CASE k \in TaskEvents
  <2>1. [k EXCEPT !.later = FALSE] \in TaskEvents
    BY <1>2 DEF TaskEvents
  <2> QED  BY <1>2, <2>1 DEF TaskEvents, Tasks
<1> QED  BY <1>1, <1>2 DEF Tasks

LEMMA ClockStep ==
    ASSUME StoreInv, NEW t \in StoreTasks, StoreClock(t)
    PROVE  StoreInv'
<1>1. /\ task' = [task EXCEPT ![t].later = FALSE]
      /\ image' = [image EXCEPT ![t].task.later = FALSE]
      /\ UNCHANGED <<result, transient, groupIndex, depIndex, telling, restarts, replaced, extra, foreign>>
    BY DEF StoreClock, runVars
<1> DEFINE old == task[t]
           row == image[t].task
<1>2. /\ old \in Tasks /\ row \in Tasks /\ image[t].result \in Results
      /\ image[t] = [task |-> row, result |-> image[t].result]
    BY DEF StoreInv, StoreTypeOK
<1>3. /\ task'[t] = [task[t] EXCEPT !.later = FALSE]
      /\ \A u \in StoreTasks \ {t} : task'[u] = task[u] /\ image'[u] = image[u]
      /\ image'[t] = [image[t] EXCEPT !.task.later = FALSE]
      /\ task' = [u \in StoreTasks |-> task'[u]] /\ image' = [u \in StoreTasks |-> image'[u]]
    BY <1>1 DEF StoreInv, StoreTypeOK
<1>4. image'[t] = [task |-> [row EXCEPT !.later = FALSE], result |-> image[t].result]
    BY <1>2, <1>3
<1>5. PICK new \in Tasks, newRow \in Tasks :
        /\ new = [old EXCEPT !.later = FALSE] /\ newRow = [row EXCEPT !.later = FALSE]
        /\ new.state = old.state /\ new.group = old.group /\ new.deps = old.deps
        /\ newRow.state = row.state
    BY <1>2, ClockFacts
<1>6. /\ task'[t] = new /\ image'[t] = [task |-> newRow, result |-> image[t].result]
      /\ row = old => newRow = new
    BY <1>3, <1>4, <1>5
<1> HIDE DEF old, row
<1>7. \A u \in StoreTasks :
        /\ task'[u].state = task[u].state /\ task'[u].group = task[u].group
        /\ task'[u].deps = task[u].deps /\ image'[u].task.state = image[u].task.state
    BY <1>3, <1>5, <1>6 DEF old, row
<1>9. StoreTypeOK'
  <2>1. task' \in [StoreTasks -> Tasks]
    BY <1>3, <1>6 DEF StoreInv, StoreTypeOK
  <2>2. image' \in [StoreTasks -> [task : Tasks, result : Results]]
    <3>1. image'[t] \in [task : Tasks, result : Results]
        BY <1>2, <1>6
    <3>2. \A u \in StoreTasks : image'[u] \in [task : Tasks, result : Results]
        BY <1>3, <3>1 DEF StoreInv, StoreTypeOK
    <3> QED  BY <1>3, <3>2
  <2> QED  BY <1>1, <2>1, <2>2 DEF StoreInv, StoreTypeOK
<1>10. ImageIsCurrent'
  <2>1. image'[t].result = result'[t] /\ (t \notin foreign' => image'[t].task = task'[t])
    <3>1. image'[t].task = newRow /\ image'[t].result = image[t].result
        BY <1>6
    <3>2. image[t].result = result[t] /\ (t \notin foreign => row = old)
        BY DEF StoreInv, ImageIsCurrent, old, row
    <3> QED  BY <1>1, <1>6, <3>1, <3>2
  <2> QED  BY <1>1, <1>3, <2>1 DEF StoreInv, ImageIsCurrent
<1>8. Indexed' /\ BlockedSaysWhy' /\ RowSaysWhy' /\ StrayKnown'
  <2>1. Indexed'
    BY <1>1, <1>7, IndexStep DEF StoreInv
  <2>2. extra \subseteq StoreTasks
    BY DEF StoreInv, StoreTypeOK
  <2> QED  BY <1>1, <1>7, <2>1, <2>2 DEF StoreInv, BlockedSaysWhy, RowSaysWhy, StrayKnown
<1> QED  BY <1>8, <1>9, <1>10 DEF StoreInv

LEMMA SkipStep ==
    ASSUME StoreInv, NEW t \in StoreTasks, StoreSkip(t)
    PROVE  StoreInv'
<1>1. PICK R \in SUBSET {u \in StoreTasks : task[u].state = "blocked"} :
        /\ t \notin R
        /\ task' = [u \in StoreTasks |->
                      IF u = t THEN [task[u] EXCEPT !.state = "skipped", !.later = FALSE]
                      ELSE IF u \in R THEN [task[u] EXCEPT !.state = "queued", !.later = FALSE]
                      ELSE task[u]]
        /\ result' = [u \in StoreTasks |->
                        IF u = t THEN {"skip_reason"} ELSE IF u \in R THEN {} ELSE result[u]]
        /\ Persist(R \cup {t})
    BY DEF StoreSkip, Freed
<1>2. /\ task[t].state # "absent"
      /\ UNCHANGED <<transient, groupIndex, depIndex, telling, restarts, replaced, extra>>
    BY DEF StoreSkip, Unstarted, Dead, runVars
<1>3. ASSUME NEW u \in R \cup {t}
      PROVE  /\ task'[u] \in Tasks /\ task'[u].state \in {"skipped", "queued"}
             /\ task'[u].group = task[u].group /\ task'[u].deps = task[u].deps
  <2>1. u \in StoreTasks /\ task[u].state # "absent" /\ task[u] \in TaskEvents
    BY <1>1, <1>2, TaskFields DEF StoreInv, StoreTypeOK, Tasks
  <2>2. CASE u = t
    BY <1>1, <2>1, <2>2 DEF Tasks, TaskEvents, Passed
  <2>3. CASE u # t
    BY <1>1, <2>1, <2>3 DEF Tasks, TaskEvents, Unstarted
  <2> QED  BY <2>2, <2>3
<1>4. \A u \in StoreTasks \ (R \cup {t}) : task'[u] = task[u] /\ result'[u] = result[u]
    BY <1>1
<1>5. task' \in [StoreTasks -> Tasks]
  <2>1. task' = [u \in StoreTasks |-> task'[u]]
    BY <1>1
  <2>2. \A u \in StoreTasks : task'[u] \in Tasks
    BY <1>3, <1>4 DEF StoreInv, StoreTypeOK
  <2> QED  BY <2>1, <2>2
<1>6. result' \in [StoreTasks -> Results]
    BY <1>1 DEF StoreInv, StoreTypeOK, Results, ResultKeys
<1>7. /\ ImageIsCurrent' /\ image' \in [StoreTasks -> [task : Tasks, result : Results]]
      /\ foreign' \subseteq StoreTasks /\ (BlockedSaysWhy' => RowSaysWhy')
      /\ \A u \in StoreTasks \ (R \cup {t}) : u \in foreign' <=> u \in foreign
  <2> DEFINE S == R \cup {t}
  <2>1. S \in SUBSET StoreTasks /\ Persist(S)
    BY <1>1
  <2>2. \A u \in StoreTasks \ S : task'[u] = task[u] /\ result'[u] = result[u]
    BY <1>4
  <2> HIDE DEF S
  <2>3. /\ ImageIsCurrent' /\ image' \in [StoreTasks -> [task : Tasks, result : Results]]
        /\ foreign' \subseteq StoreTasks /\ (BlockedSaysWhy' => RowSaysWhy')
        /\ \A u \in StoreTasks \ S : u \in foreign' <=> u \in foreign
    BY <1>5, <1>6, <2>1, <2>2, PersistStep
  <2> QED  BY <2>3 DEF S
<1>8. Indexed'
    BY <1>2, <1>3, <1>4, IndexStep DEF StoreInv
<1>9. BlockedSaysWhy'
    BY <1>3, <1>4, <1>7 DEF StoreInv, BlockedSaysWhy
<1>10. StrayKnown'
    BY <1>2, <1>3, <1>4 DEF StoreInv, StoreTypeOK, StrayKnown
<1> QED  BY <1>2, <1>5, <1>6, <1>7, <1>8, <1>9, <1>10 DEF StoreInv, StoreTypeOK

\* A restart finds every task as the image has it, a running one apart.
LEMMA RestartStep ==
    ASSUME StoreInv, StoreRestart
    PROVE  StoreInv'
<1>1. /\ task' = [t \in StoreTasks |-> Restored(t).task]
      /\ result' = [t \in StoreTasks |-> Restored(t).result]
      /\ transient' = {} /\ telling' = {} /\ restarts' \in Nat /\ extra' = {}
      /\ replaced' = [t \in StoreTasks |-> NoTask]
      /\ groupIndex' = [g \in StoreGroups |-> {t \in StoreTasks : image[t].task.group = g}]
      /\ depIndex' = [d \in StoreTasks |-> {t \in StoreTasks : d \in image[t].task.deps}]
      /\ Persist(StoreTasks)
    BY DEF StoreRestart, StoreInv, StoreTypeOK
<1>2. ASSUME NEW t \in StoreTasks
      PROVE  image[t].task \in Tasks /\ image[t].result \in Results /\ image[t].result = result[t]
    BY DEF StoreInv, ImageIsCurrent, StoreTypeOK
<1>3. ASSUME NEW t \in StoreTasks
      PROVE  /\ task'[t] \in Tasks
             /\ task'[t].group = image[t].task.group /\ task'[t].deps = image[t].task.deps
             /\ task'[t].state = "blocked" => image[t].task.state = "blocked"
             /\ result'[t] \in Results
             /\ image[t].task.state = "blocked" => result'[t] = result[t]
  <2> DEFINE row == image[t].task
             now == IF row.state # "running" THEN row.state
                    ELSE IF t \in Unrecoverable THEN "failed" ELSE "queued"
  <2>1. task'[t] = IF row = NoTask THEN NoTask ELSE [row EXCEPT !.state = now]
    BY <1>1 DEF Restored
  <2>2. result'[t] = IF row.state # "running" THEN result[t]
                     ELSE result[t] \cup {"restored_from"}
                            \cup (IF t \in Unrecoverable THEN {"error"} ELSE {})
    BY <1>1, <1>2 DEF Restored
  <2>3. result'[t] \in Results /\ (row.state = "blocked" => result'[t] = result[t])
    BY <1>2, <2>2 DEF Results, ResultKeys
  <2>4. CASE row = NoTask
    BY <1>2, <2>1, <2>3, <2>4
  <2>5. CASE row # NoTask
    <3>1. row \in TaskEvents
        BY <1>2, <2>5 DEF Tasks
    <3>2. now \in {"running"} \cup Unstarted \cup Passed \cup Dead
          /\ (now = "blocked" => row.state = "blocked")
        BY <3>1 DEF TaskEvents, Unstarted, Dead
    <3> HIDE DEF now, row
    <3>3. task'[t] = [row EXCEPT !.state = now]
        BY <2>1, <2>5
    <3>4. /\ task'[t] \in TaskEvents /\ task'[t].state = now
          /\ task'[t].group = row.group /\ task'[t].deps = row.deps
        BY <3>1, <3>2, <3>3 DEF TaskEvents
    <3> QED  BY <2>3, <3>2, <3>4 DEF Tasks, row
  <2> QED  BY <2>4, <2>5
<1>4. task' \in [StoreTasks -> Tasks]
  <2>1. task' = [t \in StoreTasks |-> task'[t]]
    BY <1>1
  <2> QED  BY <1>3, <2>1
<1>5. result' \in [StoreTasks -> Results]
  <2>1. result' = [t \in StoreTasks |-> result'[t]]
    BY <1>1
  <2> QED  BY <1>3, <2>1
<1>6. /\ ImageIsCurrent' /\ image' \in [StoreTasks -> [task : Tasks, result : Results]]
      /\ foreign' \subseteq StoreTasks /\ (BlockedSaysWhy' => RowSaysWhy')
    BY <1>1, <1>4, <1>5, PersistStep
<1>7. Indexed'
    BY <1>1, <1>3 DEF Indexed
<1>8. BlockedSaysWhy'
  <2> SUFFICES ASSUME NEW t \in StoreTasks \ foreign', task'[t].state = "blocked"
               PROVE  result'[t] \cap Details # {}
    BY DEF BlockedSaysWhy
  <2>1. image[t].task.state = "blocked" /\ result'[t] = result[t]
    BY <1>3
  <2>2. ~(t \in foreign /\ task[t].state = "blocked")
    BY <1>1 DEF Persist
  <2> QED  BY <2>1, <2>2 DEF StoreInv, RowSaysWhy
<1>9. groupIndex' \in [StoreGroups -> SUBSET StoreTasks] /\ depIndex' \in [StoreTasks -> SUBSET StoreTasks]
    BY <1>1
<1>10. StrayKnown' /\ replaced' \in [StoreTasks -> Tasks]
    BY <1>1 DEF StrayKnown, Tasks
<1> QED  BY <1>1, <1>4, <1>5, <1>6, <1>7, <1>8, <1>9, <1>10 DEF StoreInv, StoreTypeOK

LEMMA StoreStep ==
    ASSUME StoreInv, [StoreNext]_storeVars
    PROVE  StoreInv'
<1>1. ASSUME NEW g \in StoreGroups, StoreCollect(g) PROVE StoreInv'
    BY <1>1 DEF StoreCollect, StoreInv, StoreTypeOK, ImageIsCurrent, Indexed, BlockedSaysWhy,
                RowSaysWhy, StrayKnown, runVars
<1>2. CASE UNCHANGED storeVars
    BY <1>2 DEF storeVars, StoreInv, StoreTypeOK, ImageIsCurrent, Indexed, BlockedSaysWhy,
                RowSaysWhy, StrayKnown, runVars
<1> QED
    BY <1>1, <1>2, RegisterStep, RunSteps, ReplacedStep, CommandSteps, ClockStep, SkipStep, RestartStep
    DEF StoreNext

LEMMA StoreInitially == StoreInit => StoreInv
<1> SUFFICES ASSUME StoreInit PROVE StoreInv
    OBVIOUS
<1>1. NoTask \in Tasks /\ {} \in Results
    BY DEF Tasks, Results
<1>2. NoTask.state = "absent" /\ NoTask.group = "" /\ NoTask.deps = {}
    BY DEF NoTask
<1>3. StoreTypeOK /\ ImageIsCurrent
    BY <1>1 DEF StoreInit, StoreTypeOK, ImageIsCurrent
<1>4. Indexed /\ BlockedSaysWhy /\ RowSaysWhy /\ StrayKnown
    BY <1>2, StoreAssumption DEF StoreInit, Indexed, BlockedSaysWhy, RowSaysWhy, StrayKnown
<1> QED  BY <1>3, <1>4 DEF StoreInv

\* The tables of the queue keep their types through every command and restart.
THEOREM StoreTypeCorrect == StoreSpec => []StoreTypeOK
<1>1. StoreInv /\ [StoreNext]_storeVars => StoreInv'
    BY StoreStep
<1> QED  BY <1>1, StoreInitially, PTL DEF StoreSpec, StoreInv

\* Whatever the queue records is in the image at once: a container built from
\* it at any moment finds every task in the state, with the dependencies and
\* with the result the queue has for it, unless a run whose id was registered
\* again has written the row last (register, _execute_running_task).
THEOREM ImageStaysCurrent == StoreSpec => []ImageIsCurrent
<1>1. StoreInv /\ [StoreNext]_storeVars => StoreInv'
    BY StoreStep
<1>2. StoreInv => ImageIsCurrent
    BY DEF StoreInv
<1> QED  BY <1>1, <1>2, StoreInitially, PTL DEF StoreSpec

-----------------------------------------------------------------------------
(* The readers                                                              *)

\* The running tasks of a key, less the task itself when it runs, are the
\* others that run.
LEMMA RunningOthers ==
    ASSUME StoreTypeOK, NEW t \in StoreKeyed
    PROVE  Cardinality({u \in StoreKeyed : task[u].state = "running"})
             - (IF task[t].state = "running" THEN 1 ELSE 0)
           = Cardinality({u \in StoreKeyed \ {t} : task[u].state = "running"})
<1> DEFINE running == {u \in StoreKeyed : task[u].state = "running"}
           others == {u \in StoreKeyed \ {t} : task[u].state = "running"}
<1>1. IsFiniteSet(running)
    BY StoreAssumption, FS_Subset
<1>2. CASE task[t].state = "running"
  <2>1. t \in running /\ others = running \ {t}
    BY <1>2
  <2>2. Cardinality(others) = Cardinality(running) - 1
    BY <1>1, <2>1, FS_RemoveElement
  <2> QED  BY <1>2, <2>2
<1>3. CASE task[t].state # "running"
  <2>1. others = running
    BY <1>3
  <2>2. Cardinality(running) \in Nat
    BY <1>1, FS_CardinalityType
  <2> QED  BY <1>3, <2>1, <2>2
<1> QED  BY <1>2, <1>3

\* inspect_tasks and the scheduler give the same reason.
LEMMA SameReason ==
    ASSUME StoreTypeOK, NEW t \in StoreTasks
    PROVE  InspectedWaiting(t) = WaitingKind(t)
BY RunningOthers DEF InspectedWaiting, WaitingKind, InspectedSlotsTaken, SlotsTaken

\* Who asks by group, by dependency or by task gets one answer: the indexes
\* hold what the tasks name after any re-registration, command or restart, a
\* task that inspect_tasks calls ready is one the scheduler takes, for the same
\* reasons, and a blocked task is listed under one of the reasons.
THEOREM ReadersStayInAgreement == StoreSpec => []ReadersAgree
<1>1. StoreInv /\ [StoreNext]_storeVars => StoreInv'
    BY StoreStep
<1>2. StoreInv => ReadersAgree
  <2> SUFFICES ASSUME StoreInv PROVE ReadersAgree
    OBVIOUS
  <2>1. ASSUME NEW g \in StoreGroups
        PROVE  Members(g) = {t \in StoreTasks : task[t].group = g}
    <3>1. \A t \in StoreTasks : task[t].group = g => task[t] # NoTask
        BY TaskFields, StoreAssumption DEF StoreInv, StoreTypeOK
    <3> QED  BY <3>1 DEF Members, StoreInv, Indexed
  <2>2. \A d \in StoreTasks : depIndex[d] = {t \in StoreTasks : d \in task[t].deps}
    BY DEF StoreInv, Indexed
  <2>3. ASSUME NEW t \in StoreKnown
        PROVE  /\ InspectedWaiting(t) = WaitingKind(t)
               /\ ~DeadDependency(t) => (InspectedReady(t) <=> IsReady(t))
               /\ task[t].state = "blocked" /\ t \notin foreign =>
                     t \in BlockedGroup("dependency") \cup BlockedGroup("business")
    <3>1. t \in StoreTasks /\ InspectedWaiting(t) = WaitingKind(t)
        BY SameReason DEF StoreKnown, StoreInv
    <3>2. ~DeadDependency(t) => (InspectedReady(t) <=> IsReady(t))
        BY <3>1 DEF InspectedReady, IsReady
    <3>3. task[t].state = "blocked" /\ t \notin foreign =>
              t \in BlockedGroup("dependency") \cup BlockedGroup("business")
        BY <3>1 DEF StoreInv, BlockedSaysWhy, Details, BlockedGroup
    <3> QED  BY <3>1, <3>2, <3>3
  <2> QED  BY <2>1, <2>2, <2>3 DEF ReadersAgree
<1> QED  BY <1>1, <1>2, StoreInitially, PTL DEF StoreSpec
=============================================================================
