-------------------------- MODULE NodeRuntimeProofs --------------------------
(***************************************************************************)
(* Proofs about the nodes: the type invariant for both kinds, and for      *)
(* classify that no stage is left with a partial group and that results    *)
(* are kept, for report that polish tasks end before their texts are used, *)
(* and that a node with one child per group is woken by it.                *)
(***************************************************************************)
EXTENDS NodeRuntimeProps, TLAPS

\* A run that registers, or has registered, has a stage after its own.
StageLeft == pc \in {"register", "patch", "block"} => at < LastStage

RunInv == NodeTypeOK /\ StageLeft

LEMMA InitRun == Init => RunInv
  BY GroupAssumption, EnvironmentAssumption
     DEF Init, RunInv, NodeTypeOK, StageLeft, States, Active, PCs, CallbackPCs

\* What every step keeps for the type invariant.
LEMMA StepRun ==
  ASSUME RunInv, [Next]_vars
  PROVE  RunInv'
<1> USE GroupAssumption, EnvironmentAssumption
    DEF RunInv, NodeTypeOK, StageLeft, PCs, CallbackPCs
<1>1. CASE Begin
  BY <1>1 DEF Begin, callbackVars, States, Active
<1>2. CASE Prepare
  BY <1>2 DEF Prepare, Goto, callbackVars
<1>3. CASE pc = "decide" /\ at > 0 /\ Collect
  <2>1. CASE Goto("again") /\ UNCHANGED stored
    BY <1>3, <2>1 DEF Collect, Goto, callbackVars
  <2>2. CASE Goto(NextStep) /\ stored' = stored \ Group(at)
    BY <1>3, <2>2 DEF Collect, Goto, NextStep, callbackVars
  <2>3. CASE parent' = "failed" /\ pc' = "idle" /\ UNCHANGED <<at, stage, told, stored>>
    BY <1>3, <2>3 DEF Collect, callbackVars, States, Stopped
  <2>4. QED
    BY <1>3, <2>1, <2>2, <2>3 DEF Collect
<1>4. CASE pc = "decide" /\ at > 0 /\ Apply
  BY <1>4 DEF Apply, Goto, NextStep, callbackVars
<1>5. CASE Register
  <2>1. \A k \in Kids : kid'[k] \in States \cup {"none"}
    BY <1>5 DEF Register, RegisterGroup, RegisterOne, States, Active
  <2>2. kid' \in [Kids -> States \cup {"none"}]
    BY <1>5, <2>1 DEF Register, RegisterGroup, RegisterOne
  <2>3. pc' \in {"register", "patch"}
    BY <1>5 DEF Register, RegisterGroup, RegisterOne, Goto
  <2>4. QED
    BY <1>5, <2>2, <2>3 DEF Register, RegisterGroup, RegisterOne, Goto, callbackVars
<1>6. CASE Patch
  BY <1>6 DEF Patch, callbackVars
<1>7. CASE Block
  BY <1>7 DEF Block, callbackVars, States, Stopped
<1>8. CASE Finish
  BY <1>8 DEF Finish, callbackVars, States
<1>9. CASE Fail
  BY <1>9 DEF Fail, callbackVars, States, Stopped
<1>10. ASSUME NEW k \in Kids, KidStep(k)
       PROVE  RunInv'
  <2>1. CASE Claim(k)
    BY <2>1 DEF Claim, parentVars, callbackVars, States, Active
  <2>2. CASE End(k)
    BY <2>2 DEF End, parentVars, States, Stopped, Ends
  <2>3. CASE Read(k)
    BY <2>3 DEF Read, parentVars
  <2>4. CASE Check(k)
    BY <2>4 DEF Check, GroupVerdict, LenientVerdict, parentVars
  <2>5. CASE Peek(k)
    BY <2>5 DEF Peek, parentVars
  <2>6. CASE Preserve(k)
    BY <2>6 DEF Preserve
  <2>7. CASE Wake(k)
    BY <2>7 DEF Wake, States, Active
  <2>8. QED
    BY <1>10, <2>1, <2>2, <2>3, <2>4, <2>5, <2>6, <2>7 DEF KidStep
<1>11. CASE budget > 0 /\ RetryNode
  BY <1>11 DEF RetryNode, Spend, callbackVars, States, Active
<1>12. CASE budget > 0 /\ CancelNode
  BY <1>12 DEF CancelNode, Spend, callbackVars, States, Stopped
<1>13. CASE budget > 0 /\ (SkipNode \/ SkipOther)
  BY <1>13 DEF SkipNode, SkipOther, Spend, ReleaseBlocked, callbackVars, States, Active
<1>14. ASSUME NEW k \in Kids, budget > 0, RetryKid(k) \/ CancelKid(k)
       PROVE  RunInv'
  BY <1>14 DEF RetryKid, CancelKid, Spend, parentVars, callbackVars, States, Active, Stopped
<1>15. ASSUME NEW k \in Kids, budget > 0, SkipKid(k)
       PROVE  RunInv'
  BY <1>15 DEF SkipKid, Spend, ReleaseBlocked, callbackVars, States, Active
<1>16. CASE UNCHANGED vars
  BY <1>16 DEF vars, parentVars, callbackVars
<1>17. QED
  BY <1>1, <1>2, <1>3, <1>4, <1>5, <1>6, <1>7, <1>8, <1>9, <1>10, <1>11, <1>12,
     <1>13, <1>14, <1>15, <1>16 DEF Next, NodeStep, TakeResults, Command

\* Every variable of a node keeps its type, whatever its groups are and
\* however often it is woken (all actions of the node runtimes).
THEOREM NodeTypeCorrect == Spec => []NodeTypeOK
<1>1. Spec => []RunInv
  BY InitRun, StepRun, PTL DEF Spec
<1>2. RunInv => NodeTypeOK
  BY DEF RunInv
<1>3. QED
  BY <1>1, <1>2, PTL

-----------------------------------------------------------------------------
(* classify: no stage is left with a partial group                          *)

Passed(k) == kid[k] = "succeeded"

\* The stages behind the node, its run, its result and every callback that has
\* read a stage have whole groups; a run past collect_group_results holds
\* the whole group of its stage, and one that finishes is at the last stage.
WholeInv ==
    /\ RunInv
    /\ \A k \in Kids :
          StageOf[k] < stage \/ StageOf[k] < at \/ StageOf[k] < told => Passed(k)
    /\ \A k, x \in Kids : StageOf[k] < seen[x] => Passed(k)
    /\ pc \in {"register", "patch", "block", "finish"} =>
          \A k \in Kids : StageOf[k] = at => Passed(k)
    /\ pc = "finish" => at = LastStage
    /\ parent = "succeeded" => \A k \in Kids : Passed(k)

\* A child that has succeeded keeps its state.
LEMMA PassedStays ==
  ASSUME RunInv, [Next]_vars, NEW k \in Kids, Passed(k)
  PROVE  Passed(k)'
<1> USE DEF RunInv, NodeTypeOK, Passed
<1>1. CASE Begin \/ Prepare \/ Collect \/ Apply \/ Patch \/ Block \/ Finish \/ Fail
  BY <1>1 DEF Begin, Prepare, Collect, Apply, Patch, Block, Finish, Fail
<1>2. CASE Register
  <2>1. k \notin Missing
    BY DEF Missing
  <2>2. ASSUME NEW x \in Missing, RegisterOne(x)
        PROVE  kid'[k] = "succeeded"
    BY <2>1, <2>2 DEF RegisterOne
  <2>3. CASE RegisterGroup
    BY <2>1, <2>3 DEF RegisterGroup
  <2>4. QED
    BY <1>2, <2>2, <2>3 DEF Register
<1>3. ASSUME NEW x \in Kids, KidStep(x)
      PROVE  kid'[k] = "succeeded"
  BY <1>3 DEF KidStep, Claim, End, Read, Check, Peek, Preserve, Wake
<1>4. CASE RetryNode \/ CancelNode \/ SkipNode \/ SkipOther
  BY <1>4 DEF RetryNode, CancelNode, SkipNode, SkipOther, ReleaseBlocked
<1>5. ASSUME NEW x \in Kids, RetryKid(x) \/ CancelKid(x)
      PROVE  kid'[k] = "succeeded"
  BY <1>5 DEF RetryKid, CancelKid, Stopped
<1>6. ASSUME NEW x \in Kids, SkipKid(x)
      PROVE  kid'[k] = "succeeded"
  BY <1>6 DEF SkipKid, ReleaseBlocked, Stopped
<1>7. CASE UNCHANGED vars
  BY <1>7 DEF vars
<1>8. QED
  BY <1>1, <1>2, <1>3, <1>4, <1>5, <1>6, <1>7 DEF Next, NodeStep, TakeResults, Command

LEMMA InitWhole == Init => WholeInv
  BY InitRun, GroupAssumption DEF Init, WholeInv

LEMMA StepWhole ==
  ASSUME ~Lenient, WholeInv, [Next]_vars
  PROVE  WholeInv'
<1>0. RunInv' /\ \A k \in Kids : Passed(k) => Passed(k)'
  BY StepRun, PassedStays DEF WholeInv
<1> USE <1>0, GroupAssumption, EnvironmentAssumption DEF WholeInv, RunInv, NodeTypeOK
<1>1. CASE Begin
  BY <1>1 DEF Begin, callbackVars
<1>2. CASE Prepare
  BY <1>2 DEF Prepare, Goto, callbackVars
<1>3. CASE pc = "decide" /\ at > 0 /\ Collect
  <2>1. CASE Goto("again") /\ UNCHANGED stored
    BY <1>3, <2>1 DEF Collect, Goto, callbackVars
  <2>2. CASE Goto(NextStep) /\ \A k \in Group(at) : Complete(k)
    BY <1>3, <2>2 DEF Collect, Goto, NextStep, Group, Complete, Passed, callbackVars
  <2>3. CASE parent' = "failed" /\ pc' = "idle" /\ UNCHANGED <<at, stage, told, stored>>
    BY <1>3, <2>3 DEF Collect, callbackVars
  <2>4. QED
    BY <1>3, <2>1, <2>2, <2>3 DEF Collect
<1>4. CASE pc = "decide" /\ at > 0 /\ Apply
  BY <1>4 DEF Apply
<1>5. CASE Register
  BY <1>5 DEF Register, RegisterGroup, RegisterOne, Goto, callbackVars
<1>6. CASE Patch
  BY <1>6 DEF Patch, callbackVars
<1>7. CASE Block
  BY <1>7 DEF Block, callbackVars
<1>8. CASE Finish
  <2>1. \A k \in Kids : Passed(k)
    BY <1>8 DEF Finish
  <2>2. QED
    BY <1>8, <2>1 DEF Finish, callbackVars
<1>9. CASE Fail
  BY <1>9 DEF Fail, callbackVars
<1>10. ASSUME NEW k \in Kids, KidStep(k)
       PROVE  WholeInv'
  <2>1. CASE Claim(k)
    BY <2>1 DEF Claim, parentVars, callbackVars
  <2>2. CASE End(k)
    BY <2>2 DEF End, parentVars
  <2>3. CASE Read(k)
    BY <2>3 DEF Read, parentVars
  <2>4. CASE Check(k)
    BY <2>4 DEF Check, GroupVerdict, LenientVerdict, parentVars
  <2>5. CASE Peek(k)
    BY <2>5 DEF Peek, parentVars
  <2>6. CASE Preserve(k)
    BY <2>6 DEF Preserve
  <2>7. CASE Wake(k)
    BY <2>7 DEF Wake
  <2>8. QED
    BY <1>10, <2>1, <2>2, <2>3, <2>4, <2>5, <2>6, <2>7 DEF KidStep
<1>11. CASE RetryNode \/ CancelNode \/ SkipNode \/ SkipOther
  BY <1>11 DEF RetryNode, CancelNode, SkipNode, SkipOther, ReleaseBlocked, callbackVars
<1>12. ASSUME NEW k \in Kids, RetryKid(k) \/ CancelKid(k) \/ SkipKid(k)
       PROVE  WholeInv'
  BY <1>12 DEF RetryKid, CancelKid, SkipKid, ReleaseBlocked, parentVars, callbackVars
<1>13. CASE UNCHANGED vars
  BY <1>13 DEF vars, parentVars, callbackVars
<1>14. QED
  BY <1>1, <1>2, <1>3, <1>4, <1>5, <1>6, <1>7, <1>8, <1>9, <1>10, <1>11, <1>12,
     <1>13 DEF Next, NodeStep, TakeResults, Command

\* A classify node has the results of the whole group of every stage it has
\* passed, for any groups, any number of late callbacks and any commands.
THEOREM GroupsAreWhole ==
  ASSUME ~Lenient
  PROVE  Spec => []WholeGroups
<1>1. Spec => []WholeInv
  <2>1. WholeInv /\ [Next]_vars => WholeInv'
    BY StepWhole
  <2>2. QED
    BY InitWhole, <2>1, PTL DEF Spec
<1>2. WholeInv => WholeGroups
  BY DEF WholeInv, WholeGroups, Passed
<1>3. QED
  BY <1>1, <1>2, PTL

-----------------------------------------------------------------------------
(* classify: the results of a waiting stage are kept                        *)

\* A run is under way as long as the node is running, and works on the stage of
\* the payload; the results of its stage are gone once it has taken them, those
\* of the stages before are gone for good, and no other.
KeptInv ==
    /\ RunInv
    /\ \A k \in Kids : kid[k] # "blocked" /\ cb[k] \notin {"peek", "preserve"}
    /\ pc # "idle" => parent = "running" /\ stage = IF pc = "block" THEN at + 1 ELSE at
    /\ \A k \in Kids : Passed(k) /\ k \notin stored =>
          \/ StageOf[k] < stage
          \/ StageOf[k] = stage /\ pc \in {"register", "patch", "finish"}
          \/ parent = "succeeded"

LEMMA StepKept ==
  ASSUME ~Lenient, ~MayFail, "blocked" \notin Outcomes, KeptInv, [Next]_vars
  PROVE  KeptInv'
<1>0. RunInv'
  BY StepRun DEF KeptInv
<1> USE <1>0, GroupAssumption, EnvironmentAssumption
    DEF KeptInv, RunInv, NodeTypeOK, Passed
<1>1. CASE Begin
  BY <1>1 DEF Begin, callbackVars
<1>2. CASE Prepare
  BY <1>2 DEF Prepare, Goto, callbackVars
<1>3. CASE pc = "decide" /\ at > 0 /\ Collect
  <2>1. CASE Goto("again") /\ UNCHANGED stored
    BY <1>3, <2>1 DEF Collect, Goto, callbackVars
  <2>2. CASE Goto(NextStep) /\ stored' = stored \ Group(at)
    <3>1. /\ pc = "decide" /\ pc' \in {"register", "finish"}
          /\ UNCHANGED <<parent, at, stage, kid, cb>>
      BY <1>3, <2>2 DEF Collect, Goto, NextStep, callbackVars
    <3>2. \A k \in Kids : k \notin stored' => k \notin stored \/ StageOf[k] = at
      BY <2>2 DEF Group
    <3>3. QED
      BY <3>1, <3>2
  <2>3. CASE parent' = "failed" /\ pc' = "idle" /\ UNCHANGED <<at, stage, told, stored>>
    BY <1>3, <2>3 DEF Collect, callbackVars
  <2>4. QED
    BY <1>3, <2>1, <2>2, <2>3 DEF Collect
<1>4. ~Apply /\ ~Fail
  BY DEF Apply, Fail
<1>5. CASE Register
  <2>1. \A k \in Kids : kid'[k] = kid[k] \/ kid'[k] = "queued"
    BY <1>5 DEF Register, RegisterGroup
  <2>2. pc = "register" /\ pc' = "patch" /\ UNCHANGED <<parent, at, stage, stored, cb>>
    BY <1>5 DEF Register, RegisterGroup, Goto, callbackVars
  <2>3. QED
    BY <2>1, <2>2
<1>6. CASE Patch
  BY <1>6 DEF Patch, callbackVars
<1>7. CASE Block
  BY <1>7 DEF Block, callbackVars
<1>8. CASE Finish
  BY <1>8 DEF Finish, callbackVars
<1>9. ASSUME NEW k \in Kids, KidStep(k)
      PROVE  KeptInv'
  <2>1. CASE Claim(k)
    BY <2>1 DEF Claim, parentVars, callbackVars
  <2>2. CASE End(k)
    <3>1. \A x \in Kids : x # k => kid'[x] = kid[x] /\ cb'[x] = cb[x]
      BY <2>2 DEF End
    <3>2. /\ kid'[k] # "blocked" /\ cb'[k] = "read"
          /\ kid'[k] = "succeeded" => k \in stored'
          /\ stored \subseteq stored'
          /\ UNCHANGED <<parent, pc, at, stage>>
      BY <2>2 DEF End, Ends, parentVars
    <3>3. QED
      BY <3>1, <3>2
  <2>3. CASE Read(k)
    BY <2>3 DEF Read, parentVars
  <2>4. CASE Check(k)
    <3>1. GroupVerdict(seen[k]) \in {"idle", "retry"}
      BY DEF GroupVerdict, Some, Group
    <3>2. cb'[k] \in {"idle", "retry"} /\ \A x \in Kids : x # k => cb'[x] = cb[x]
      BY <2>4, <3>1 DEF Check
    <3>3. UNCHANGED <<parentVars, kid, stored>>
      BY <2>4 DEF Check
    <3>4. QED
      BY <3>2, <3>3 DEF parentVars
  <2>5. ~Peek(k) /\ ~Preserve(k)
    BY DEF Peek, Preserve
  <2>6. CASE Wake(k)
    BY <2>6 DEF Wake, Stopped
  <2>7. QED
    BY <1>9, <2>1, <2>2, <2>3, <2>4, <2>5, <2>6 DEF KidStep
<1>10. CASE RetryNode \/ CancelNode \/ SkipNode \/ SkipOther
  BY <1>10 DEF RetryNode, CancelNode, SkipNode, SkipOther, ReleaseBlocked, Stopped, callbackVars
<1>11. ASSUME NEW k \in Kids, RetryKid(k) \/ CancelKid(k) \/ SkipKid(k)
       PROVE  KeptInv'
  BY <1>11 DEF RetryKid, CancelKid, SkipKid, ReleaseBlocked, parentVars, callbackVars
<1>12. CASE UNCHANGED vars
  BY <1>12 DEF vars, parentVars, callbackVars
<1>13. QED
  BY <1>1, <1>2, <1>3, <1>4, <1>5, <1>6, <1>7, <1>8, <1>9, <1>10, <1>11, <1>12
     DEF Next, NodeStep, TakeResults, Command

\* While a classify node waits for a stage, the results of the children of that
\* stage are there for it, unless a run fails after it has taken them; no
\* child of classify raises TaskBlocked (ResultsKept).
THEOREM WaitingResultsAreKept ==
  ASSUME ~Lenient, ~MayFail, "blocked" \notin Outcomes
  PROVE  Spec => []ResultsKept
<1>1. Init => KeptInv
  BY InitRun DEF Init, KeptInv, Passed
<1>2. KeptInv /\ [Next]_vars => KeptInv'
  BY StepKept
<1>3. KeptInv => ResultsKept
  BY DEF KeptInv, RunInv, NodeTypeOK, ResultsKept, Group, Passed
<1>4. QED
  BY <1>1, <1>2, <1>3, PTL DEF Spec

-----------------------------------------------------------------------------
(* report: the polish tasks have ended when their results are applied       *)

IsEnded(k) == kid[k] \notin Active \cup {"none"}

\* Nobody but the callbacks starts a child again or wakes the node.
LeftAlone == UserOps \subseteq {"cancel", "cancel_node"} /\ ~OtherSkips

\* A callback that wakes the node has seen the group of a stage ended, and
\* knows no later stage than the node; the node leaves the first stage, and is
\* woken in it, only with the first group ended.
PolishInv ==
    /\ RunInv
    /\ pc # "idle" => parent = "running" /\ stage = IF pc = "block" THEN at + 1 ELSE at
    /\ told <= stage
    /\ \A k \in Kids : cb[k] \notin {"peek", "preserve"}
    /\ \A k \in Kids : cb[k] \in {"check", "retry"} => seen[k] \in 1 .. stage
    /\ \A k, x \in Kids : cb[k] = "retry" /\ StageOf[x] = seen[k] => IsEnded(x)
    /\ \A x \in Kids : StageOf[x] <= stage \/ (pc = "patch" /\ StageOf[x] = at + 1)
          => kid[x] # "none"
    /\ (stage >= 2 \/ (stage = 1 /\ (parent = "queued" \/ pc \notin {"idle", "block"})))
          => \A x \in Kids : StageOf[x] = 1 => IsEnded(x)

\* Children are registered once, and an ended child stays ended.
LEMMA KidMoves ==
  ASSUME RunInv, LeftAlone, [Next]_vars, NEW k \in Kids
  PROVE  (kid[k] # "none" => kid'[k] # "none") /\ (IsEnded(k) => kid'[k] = kid[k])
<1> USE DEF RunInv, NodeTypeOK, Active, LeftAlone, IsEnded
<1>1. CASE Begin \/ Prepare \/ Collect \/ Apply \/ Patch \/ Block \/ Finish \/ Fail
  BY <1>1 DEF Begin, Prepare, Collect, Apply, Patch, Block, Finish, Fail
<1>2. CASE Register
  <2>1. ASSUME NEW x \in Missing, RegisterOne(x)
        PROVE  kid'[k] = kid[k] \/ (kid[k] = "none" /\ kid'[k] = "queued")
    BY <2>1 DEF RegisterOne, Missing
  <2>2. CASE RegisterGroup
    BY <2>2 DEF RegisterGroup, Missing
  <2>3. QED
    BY <1>2, <2>1, <2>2 DEF Register
<1>3. ASSUME NEW x \in Kids, KidStep(x)
      PROVE  (kid[k] # "none" => kid'[k] # "none") /\ (IsEnded(k) => kid'[k] = kid[k])
  BY <1>3, EnvironmentAssumption
     DEF KidStep, Claim, End, Read, Check, Peek, Preserve, Wake, Ends
<1>4. ~RetryNode /\ ~SkipNode /\ ~SkipOther /\ \A x \in Kids : ~RetryKid(x) /\ ~SkipKid(x)
  BY DEF RetryNode, SkipNode, SkipOther, RetryKid, SkipKid, Spend
<1>5. CASE CancelNode \/ UNCHANGED vars
  BY <1>5 DEF CancelNode, vars
<1>6. ASSUME NEW x \in Kids, CancelKid(x)
      PROVE  (kid[k] # "none" => kid'[k] # "none") /\ (IsEnded(k) => kid'[k] = kid[k])
  BY <1>6 DEF CancelKid
<1>7. QED
  BY <1>1, <1>2, <1>3, <1>4, <1>5, <1>6 DEF Next, NodeStep, TakeResults, Command

LEMMA StepPolish ==
  ASSUME Lenient, LeftAlone, PolishInv, [Next]_vars
  PROVE  PolishInv'
<1>0. /\ RunInv'
      /\ \A k \in Kids : (kid[k] # "none" => kid'[k] # "none") /\ (IsEnded(k) => IsEnded(k)')
  BY StepRun, KidMoves DEF PolishInv, IsEnded
<1>a. RunInv
  BY DEF PolishInv
<1> USE <1>0, GroupAssumption, EnvironmentAssumption DEF PolishInv, RunInv, NodeTypeOK
<1>1. CASE Begin
  BY <1>1 DEF Begin, callbackVars
<1>2. CASE Prepare
  BY <1>2 DEF Prepare, Goto, callbackVars
<1>3. ~Collect
  BY DEF Collect
<1>4. CASE pc = "decide" /\ at > 0 /\ Apply
  BY <1>4 DEF Apply, Goto, NextStep, callbackVars
<1>5. CASE Register
  <2>1. /\ pc = "register" /\ pc' \in {"register", "patch"}
        /\ UNCHANGED <<parent, at, stage, told, cb, seen>>
    BY <1>5 DEF Register, RegisterGroup, RegisterOne, Goto, callbackVars
  <2>2. pc' = "patch" => \A x \in Kids : StageOf[x] = at + 1 => kid'[x] # "none"
    <3>1. ASSUME NEW x \in Missing, RegisterOne(x), pc' = "patch", NEW y \in Kids,
                 StageOf[y] = at + 1
          PROVE  kid'[y] # "none"
      <4>1. Missing = {x} /\ kid' = [kid EXCEPT ![x] = "queued"]
        BY <3>1 DEF RegisterOne, Goto
      <4>2. y = x \/ kid[y] # "none"
        BY <3>1, <4>1 DEF Missing, Group
      <4>3. QED
        BY <4>1, <4>2
    <3>2. ASSUME RegisterGroup, NEW y \in Kids, StageOf[y] = at + 1
          PROVE  kid'[y] # "none"
      BY <3>2 DEF RegisterGroup, Missing, Group
    <3>3. QED
      BY <1>5, <3>1, <3>2 DEF Register
  <2>3. QED
    BY <2>1, <2>2
<1>6. CASE Patch
  BY <1>6 DEF Patch, callbackVars
<1>7. CASE Block
  BY <1>7 DEF Block, callbackVars
<1>8. CASE Finish
  BY <1>8 DEF Finish, callbackVars
<1>9. CASE Fail
  BY <1>9 DEF Fail, callbackVars
<1>10. ASSUME NEW k \in Kids, KidStep(k)
       PROVE  PolishInv'
  <2>1. CASE Claim(k)
    BY <2>1 DEF Claim, parentVars, callbackVars
  <2>2. CASE End(k)
    BY <2>2 DEF End, parentVars
  <2>3. CASE Read(k)
    BY <2>3 DEF Read, parentVars
  <2>4. CASE Check(k)
    <3>1. UNCHANGED <<parentVars, kid, seen>> /\ \A x \in Kids : x # k => cb'[x] = cb[x]
      BY <2>4 DEF Check
    <3>2. /\ cb[k] = "check" /\ cb'[k] \in {"idle", "retry"}
          /\ cb'[k] = "retry" => ~Some(seen[k], Active)
      BY <2>4 DEF Check, LenientVerdict
    <3>3. cb'[k] = "retry" => \A x \in Kids : StageOf[x] = seen[k] => IsEnded(x)'
      <4>1. seen[k] \in 1 .. stage
        BY <3>2
      <4>2. \A x \in Kids : StageOf[x] = seen[k] => kid[x] # "none"
        BY <4>1
      <4>3. QED
        BY <3>2, <4>2 DEF Some, Group, IsEnded
    <3>4. QED
      BY <3>1, <3>2, <3>3 DEF parentVars
  <2>5. ~Peek(k) /\ ~Preserve(k)
    BY DEF Peek, Preserve
  <2>6. CASE Wake(k)
    <3>1. seen[k] \in 1 .. stage
      BY <2>6 DEF Wake
    <3>2. stage = 1 => \A x \in Kids : StageOf[x] = 1 => IsEnded(x)
      BY <2>6, <3>1 DEF Wake
    <3>3. /\ UNCHANGED <<pc, at, stage, kid, seen>> /\ told' = 0
          /\ parent' = parent \/ parent # "running"
          /\ \A x \in Kids : cb'[x] = IF x = k THEN "idle" ELSE cb[x]
      BY <2>6 DEF Wake, Stopped
    <3>4. QED
      BY <3>1, <3>2, <3>3
  <2>7. QED
    BY <1>10, <2>1, <2>2, <2>3, <2>4, <2>5, <2>6 DEF KidStep
<1>11. ~RetryNode /\ ~SkipNode /\ ~SkipOther /\ \A x \in Kids : ~RetryKid(x) /\ ~SkipKid(x)
  BY DEF RetryNode, SkipNode, SkipOther, RetryKid, SkipKid, Spend, LeftAlone
<1>12. CASE CancelNode \/ \E k \in Kids : CancelKid(k)
  BY <1>12 DEF CancelNode, CancelKid, parentVars, callbackVars
<1>13. CASE UNCHANGED vars
  BY <1>13 DEF vars, parentVars, callbackVars
<1>14. QED
  BY <1>1, <1>2, <1>3, <1>4, <1>5, <1>6, <1>7, <1>8, <1>9, <1>10, <1>11, <1>12,
     <1>13 DEF Next, NodeStep, TakeResults, Command

\* The report node applies the polished texts only in a run that finds every
\* polish task ended, whatever stale callbacks wake it, unless somebody retries
\* or skips tasks (PolishEndsFirst).
THEOREM ReportPolishEndsFirst ==
  ASSUME Lenient, LeftAlone
  PROVE  Spec => PolishEndsFirst
<1>1. Init => PolishInv
  BY InitRun, GroupAssumption DEF Init, PolishInv, RunInv, NodeTypeOK
<1>2. PolishInv /\ [Next]_vars => PolishInv'
  BY StepPolish
<1>3. PolishInv => (GoesOn(1) => \A k \in Group(1) : kid[k] \notin Active)
  <2> SUFFICES ASSUME PolishInv, GoesOn(1), NEW k \in Group(1)
               PROVE  kid[k] \notin Active
    OBVIOUS
  <2>1. pc = "decide" /\ stage = 1
    BY DEF PolishInv, GoesOn
  <2>2. k \in Kids /\ StageOf[k] = 1
    BY DEF Group
  <2>3. QED
    BY <2>1, <2>2 DEF PolishInv, IsEnded
<1>4. QED
  BY <1>1, <1>2, <1>3, PTL DEF Spec, PolishEndsFirst

-----------------------------------------------------------------------------
(* The wake-up of a node by its children                                    *)

\* What the theorem is about: a classify node with one child per group, whose
\* thread waits while others drain, and nobody who retries the node or skips.
OnePerGroup ==
    /\ ~Lenient
    /\ \A s \in 1 .. LastStage : \E k \in Kids : Group(s) = {k}
    /\ ~OtherDrains /\ ~OtherSkips
    /\ UserOps \cap {"retry_node", "skip", "skip_node"} = {}

\* The children up to stage n have succeeded, and no other is registered.
PassedTo(n) == \A k \in Kids : kid[k] = IF StageOf[k] <= n THEN "succeeded" ELSE "none"

\* Where the node's run is, and which children it may have by then.
AtWork ==
    /\ pc # "again"
    /\ pc # "idle" => parent = "running" /\ stage = IF pc = "block" THEN at + 1 ELSE at
    /\ parent # "blocked" => \A k \in Kids : cb[k] = "idle"
    /\ parent # "blocked" /\ pc \notin {"patch", "block"} => PassedTo(stage)
    /\ pc \in {"patch", "block"} =>
          \A k \in Kids :
             IF StageOf[k] = at + 1 THEN kid[k] \in {"queued", "cancelled"}
             ELSE kid[k] = IF StageOf[k] <= at THEN "succeeded" ELSE "none"

\* What the child that the node waits for, and its callback, may be doing.
Awaited(k) ==
    /\ kid[k] \notin {"none", "skipped"}
    /\ kid[k] = "running" => cb[k] = "idle"
    /\ kid[k] = "succeeded" => cb[k] \in {"read", "check", "retry"}
    /\ cb[k] = "retry" => kid[k] = "succeeded"
    /\ cb[k] \in {"check", "preserve"} => seen[k] = stage

AtRest ==
    parent = "blocked" =>
        /\ stage > 0
        /\ told \in {0, stage}
        /\ \A k \in Kids :
              IF StageOf[k] = stage THEN Awaited(k)
              ELSE /\ cb[k] = "idle"
                   /\ kid[k] = IF StageOf[k] < stage THEN "succeeded" ELSE "none"

ResumeInv == RunInv /\ AtWork /\ AtRest

LEMMA GroupOf ==
    ASSUME OnePerGroup, NEW k \in Kids
    PROVE  StageOf[k] \in 1 .. LastStage /\ Group(StageOf[k]) = {k}
<1>1. StageOf[k] \in 1 .. LastStage
  BY GroupAssumption
<1>2. PICK x \in Kids : Group(StageOf[k]) = {x}
  BY <1>1 DEF OnePerGroup
<1>3. k \in Group(StageOf[k])
  BY DEF Group
<1> QED  BY <1>1, <1>2, <1>3

LEMMA InitResume == Init => ResumeInv
<1> SUFFICES ASSUME Init PROVE ResumeInv
  OBVIOUS
<1>1. AtWork /\ AtRest
  BY GroupAssumption DEF Init, AtWork, AtRest, PassedTo
<1> QED  BY <1>1, InitRun DEF ResumeInv

\* The run of the node: it finds the group of its stage complete, so that it
\* never blocks again on the same one, and registers a group nobody has begun.
LEMMA NodeStepResumes ==
    ASSUME OnePerGroup, ResumeInv, NodeStep
    PROVE  AtWork' /\ AtRest'
<1> USE GroupAssumption
<1>0. /\ \A k \in Kids : StageOf[k] \in 1 .. LastStage
      /\ at \in 0 .. LastStage /\ stage \in 0 .. LastStage /\ ~Lenient
  BY DEF ResumeInv, RunInv, NodeTypeOK, OnePerGroup
<1>1. CASE Begin
  BY <1>0, <1>1 DEF Begin, ResumeInv, AtWork, AtRest, PassedTo, callbackVars
<1>2. CASE Prepare
  BY <1>0, <1>2 DEF Prepare, Goto, ResumeInv, AtWork, AtRest, PassedTo, callbackVars
<1>3. CASE pc = "decide" /\ at > 0 /\ Collect
  <2>1. parent = "running" /\ stage = at /\ PassedTo(at) /\ pc = "decide" /\ at > 0
    BY <1>3 DEF Collect, ResumeInv, AtWork
  <2>2. \A k \in Group(at) : ~Unfinished(k)
    BY <1>0, <2>1 DEF Group, Unfinished, PassedTo, Active
  <2>3. /\ UNCHANGED <<kid, cb, seen, stage, told, at>>
        /\ \/ parent' = parent /\ pc' \in {"register", "finish"}
           \/ parent' = "failed" /\ pc' = "idle"
    BY <1>3, <2>2 DEF Collect, Goto, NextStep, callbackVars
  <2> QED  BY <2>1, <2>3 DEF ResumeInv, AtWork, AtRest, PassedTo
<1>4. CASE pc = "decide" /\ at > 0 /\ Apply
  BY <1>0, <1>4 DEF Apply
<1>5. CASE Register
  <2>1. parent = "running" /\ stage = at /\ PassedTo(at) /\ pc = "register" /\ RegisterGroup
        /\ UNCHANGED <<stored, cb, seen, budget>>
    BY <1>0, <1>5 DEF Register, ResumeInv, AtWork, callbackVars
  <2>2. \A k \in Kids : k \in Missing <=> StageOf[k] = at + 1
    BY <1>0, <2>1 DEF Missing, Group, PassedTo
  <2> QED  BY <1>0, <2>1, <2>2 DEF RegisterGroup, Goto, ResumeInv, AtWork, AtRest, PassedTo
<1>6. CASE Patch
  BY <1>0, <1>6 DEF Patch, ResumeInv, AtWork, AtRest, PassedTo, callbackVars
<1>7. CASE Block
  <2>1. pc = "block" /\ parent = "running" /\ stage = at + 1
    BY <1>7 DEF Block, ResumeInv, AtWork
  <2>2. ASSUME NEW k \in Kids
        PROVE  /\ cb[k] = "idle"
               /\ IF StageOf[k] = at + 1 THEN kid[k] \in {"queued", "cancelled"}
                  ELSE kid[k] = IF StageOf[k] <= at THEN "succeeded" ELSE "none"
    BY <2>1 DEF ResumeInv, AtWork
  <2> QED  BY <1>0, <1>7, <2>1, <2>2 DEF Block, AtWork, AtRest, Awaited, callbackVars
<1>8. CASE Finish
  BY <1>0, <1>8 DEF Finish, ResumeInv, AtWork, AtRest, PassedTo, callbackVars
<1>9. CASE Fail
  BY <1>0, <1>9 DEF Fail, ResumeInv, AtWork, AtRest, PassedTo, callbackVars
<1> QED  BY <1>1, <1>2, <1>3, <1>4, <1>5, <1>6, <1>7, <1>8, <1>9 DEF NodeStep, TakeResults

\* A child that runs, or whose callback does, is the one the node waits for.
LEMMA MovingIsAwaited ==
    ASSUME OnePerGroup, ResumeInv, NEW k \in Kids,
           cb[k] # "idle" \/ kid[k] \in {"running", "failed", "blocked"}
                          \/ (kid[k] = "queued" /\ pc = "idle")
    PROVE  /\ parent = "blocked" /\ pc = "idle" /\ StageOf[k] = stage /\ Awaited(k)
           /\ stage > 0 /\ told \in {0, stage} /\ Group(stage) = {k}
           /\ \A x \in Kids \ {k} : StageOf[x] # stage
<1>1. parent = "blocked"
  BY GroupAssumption DEF ResumeInv, AtWork, PassedTo
<1>2. pc = "idle"
  BY <1>1 DEF ResumeInv, AtWork
<1>3. StageOf[k] = stage /\ Awaited(k) /\ stage > 0 /\ told \in {0, stage}
  BY <1>1 DEF ResumeInv, AtRest
<1>4. Group(stage) = {k}
  BY <1>3, GroupOf
<1> QED  BY <1>1, <1>2, <1>3, <1>4 DEF Group

\* The step of one child or callback that leaves the node blocked.
LEMMA AwaitedStep ==
    ASSUME ResumeInv, NEW k \in Kids, parent = "blocked", pc = "idle", StageOf[k] = stage,
           UNCHANGED <<parent, pc, at, stage, told>>,
           \A x \in Kids \ {k} : StageOf[x] # stage,
           \A x \in Kids \ {k} : kid'[x] = kid[x] /\ cb'[x] = cb[x],
           Awaited(k)'
    PROVE  AtWork' /\ AtRest'
<1>1. AtWork'
  BY DEF ResumeInv, AtWork
<1>2. ASSUME NEW x \in Kids \ {k}
      PROVE  cb'[x] = "idle" /\ kid'[x] = IF StageOf[x] < stage THEN "succeeded" ELSE "none"
  BY <1>2 DEF ResumeInv, AtRest
<1>3. AtRest'
  BY <1>2 DEF ResumeInv, AtRest
<1> QED  BY <1>1, <1>3

LEMMA KidStepResumes ==
    ASSUME OnePerGroup, ResumeInv, NEW k \in Kids, KidStep(k)
    PROVE  AtWork' /\ AtRest'
<1>0. /\ kid \in [Kids -> States \cup {"none"}] /\ cb \in [Kids -> CallbackPCs]
      /\ seen \in [Kids -> 0 .. LastStage] /\ stage \in 0 .. LastStage /\ ~Lenient /\ ~OtherDrains
  BY DEF ResumeInv, RunInv, NodeTypeOK, OnePerGroup
<1>1. /\ parent = "blocked" /\ pc = "idle" /\ StageOf[k] = stage /\ Awaited(k)
      /\ stage > 0 /\ told \in {0, stage} /\ Group(stage) = {k}
      /\ \A x \in Kids \ {k} : StageOf[x] # stage
  BY <1>0, MovingIsAwaited DEF KidStep, Claim, End, Read, Check, Peek, Preserve, Wake
<1>2. CASE Claim(k)
  BY <1>0, <1>1, <1>2, AwaitedStep DEF Claim, Awaited, parentVars, callbackVars
<1>3. CASE End(k)
  BY <1>0, <1>1, <1>3, AwaitedStep, EnvironmentAssumption DEF End, Awaited, parentVars, Ends
<1>4. CASE Read(k)
  BY <1>0, <1>1, <1>4, AwaitedStep DEF Read, Awaited, parentVars
<1>5. CASE Check(k)
  <2>1. cb' = [cb EXCEPT ![k] = GroupVerdict(seen[k])] /\ cb[k] = "check"
        /\ UNCHANGED <<parentVars, kid, seen>>
    BY <1>0, <1>5 DEF Check
  <2>2. seen[k] = stage /\ GroupVerdict(seen[k]) \in {"idle", "peek", "retry"}
        /\ (GroupVerdict(seen[k]) = "retry" <=> kid[k] \notin Active \cup Stopped)
        /\ (kid[k] \in Active => GroupVerdict(seen[k]) = "idle")
    BY <1>0, <1>1, <2>1 DEF Awaited, GroupVerdict, Some, Active, Stopped
  <2>3. kid[k] \notin Active \cup Stopped <=> kid[k] = "succeeded"
    BY <1>0, <1>1 DEF Awaited, States, Active, Stopped
  <2>4. cb'[k] = GroupVerdict(seen[k]) /\ \A x \in Kids \ {k} : cb'[x] = cb[x]
    BY <1>0, <2>1
  <2>5. Awaited(k)'
    <3>1. kid[k] \notin {"none", "skipped"}
      BY <1>1 DEF Awaited
    <3> QED  BY <2>1, <2>2, <2>3, <2>4, <3>1 DEF Awaited, Active
  <2> QED  BY <1>1, <2>1, <2>4, <2>5, AwaitedStep DEF parentVars
<1>6. CASE Peek(k)
  BY <1>0, <1>1, <1>6, AwaitedStep DEF Peek, Awaited, parentVars
<1>7. CASE Preserve(k)
  BY <1>0, <1>1, <1>7, AwaitedStep DEF Preserve, Awaited
<1>8. CASE Wake(k)
  <2>1. kid[k] = "succeeded"
    BY <1>1, <1>8 DEF Wake, Awaited
  <2>2. /\ parent' = "queued" /\ cb' = [cb EXCEPT ![k] = "idle"]
        /\ UNCHANGED <<pc, at, stage, kid, seen>>
    BY <1>1, <1>8 DEF Wake, Stopped
  <2>3. ASSUME NEW x \in Kids
        PROVE  cb'[x] = "idle" /\ kid[x] = IF StageOf[x] <= stage THEN "succeeded" ELSE "none"
    <3>1. CASE x = k
      BY <1>0, <1>1, <2>1, <2>2, <3>1
    <3>2. CASE x # k
      <4>1. cb[x] = "idle" /\ kid[x] = IF StageOf[x] < stage THEN "succeeded" ELSE "none"
        BY <1>1, <3>2 DEF ResumeInv, AtRest
      <4>2. StageOf[x] < stage <=> StageOf[x] <= stage
        BY <1>0, <1>1, <3>2, GroupAssumption
      <4> QED  BY <1>0, <2>2, <3>2, <4>1, <4>2
    <3> QED  BY <3>1, <3>2
  <2> QED  BY <1>1, <2>2, <2>3 DEF AtWork, AtRest, PassedTo
<1> QED  BY <1>2, <1>3, <1>4, <1>5, <1>6, <1>7, <1>8 DEF KidStep

\* Children may be retried and cancelled, and a node that waits for its run
\* cancelled.
LEMMA CommandResumes ==
    ASSUME OnePerGroup, ResumeInv, Command
    PROVE  AtWork' /\ AtRest'
<1>0. /\ kid \in [Kids -> States \cup {"none"}] /\ cb \in [Kids -> CallbackPCs]
      /\ at \in 0 .. LastStage /\ stage \in 0 .. LastStage
  BY DEF ResumeInv, RunInv, NodeTypeOK
<1>1. CASE CancelNode
  BY <1>1 DEF CancelNode, ResumeInv, AtWork, AtRest, PassedTo, callbackVars
<1>2. ASSUME NEW k \in Kids, RetryKid(k) PROVE AtWork' /\ AtRest'
  <2>0. kid[k] \in Stopped /\ kid' = [kid EXCEPT ![k] = "queued"] /\ UNCHANGED <<parentVars, callbackVars>>
    BY <1>2 DEF RetryKid
  <2>1. CASE parent = "blocked"
    <3>1. pc = "idle" /\ StageOf[k] = stage /\ Awaited(k)
      BY <2>0, <2>1 DEF ResumeInv, AtWork, AtRest, Stopped
    <3>2. \A x \in Kids \ {k} : StageOf[x] # stage
      BY <3>1, GroupOf DEF Group
    <3> QED  BY <1>0, <2>0, <2>1, <3>1, <3>2, AwaitedStep DEF Awaited, parentVars, callbackVars, Stopped
  <2>2. CASE parent # "blocked"
    BY <1>0, <2>0, <2>2, GroupAssumption
       DEF ResumeInv, AtWork, AtRest, PassedTo, parentVars, callbackVars, Stopped
  <2> QED  BY <2>1, <2>2
<1>3. ASSUME NEW k \in Kids, CancelKid(k) PROVE AtWork' /\ AtRest'
  <2>0. kid[k] = "queued" /\ kid' = [kid EXCEPT ![k] = "cancelled"] /\ UNCHANGED <<parentVars, callbackVars>>
    BY <1>3 DEF CancelKid
  <2>1. CASE parent = "blocked"
    <3>1. pc = "idle" /\ StageOf[k] = stage /\ Awaited(k)
      BY <2>0, <2>1 DEF ResumeInv, AtWork, AtRest
    <3>2. \A x \in Kids \ {k} : StageOf[x] # stage
      BY <3>1, GroupOf DEF Group
    <3> QED  BY <1>0, <2>0, <2>1, <3>1, <3>2, AwaitedStep DEF Awaited, parentVars, callbackVars
  <2>2. CASE parent # "blocked"
    BY <1>0, <2>0, <2>2, GroupAssumption
       DEF ResumeInv, AtWork, AtRest, PassedTo, parentVars, callbackVars
  <2> QED  BY <2>1, <2>2
<1>4. ~(RetryNode \/ SkipNode \/ SkipOther \/ \E k \in Kids : SkipKid(k))
  BY DEF OnePerGroup, RetryNode, SkipNode, SkipOther, SkipKid, Spend
<1> QED  BY <1>1, <1>2, <1>3, <1>4 DEF Command

\* A node that is blocked on a group that is done has a callback on its way
\* that will wake it (_handle_child_group_completion).
THEOREM WakeUpIsDue ==
    ASSUME OnePerGroup
    PROVE  Spec => []WakeUpDue
<1>1. ResumeInv /\ [Next]_vars => ResumeInv'
  <2> SUFFICES ASSUME ResumeInv, [Next]_vars PROVE ResumeInv'
    OBVIOUS
  <2>1. RunInv'
    BY StepRun DEF ResumeInv
  <2>2. AtWork' /\ AtRest'
    <3>1. CASE UNCHANGED vars
      BY <3>1 DEF vars, parentVars, callbackVars, ResumeInv, AtWork, AtRest, PassedTo, Awaited
    <3> QED  BY <3>1, NodeStepResumes, CommandResumes, KidStepResumes DEF Next
  <2> QED  BY <2>1, <2>2 DEF ResumeInv
<1>2. ResumeInv => WakeUpDue
  <2> SUFFICES ASSUME ResumeInv, parent = "blocked", GroupDone
               PROVE  \E k \in Group(stage) : cb[k] \in {"read", "check", "retry"}
    BY DEF WakeUpDue
  <2>1. stage \in 1 .. LastStage
    BY DEF ResumeInv, AtRest, RunInv, NodeTypeOK
  <2>2. PICK k \in Kids : Group(stage) = {k}
    BY <2>1 DEF OnePerGroup
  <2>3. k \in Group(stage) /\ StageOf[k] = stage
    BY <2>2 DEF Group
  <2>4. Awaited(k) /\ kid[k] = "succeeded"
    BY <2>3 DEF ResumeInv, AtRest, GroupDone, OnePerGroup
  <2> QED  BY <2>3, <2>4 DEF Awaited
<1> QED  BY InitResume, <1>1, <1>2, PTL DEF Spec
=============================================================================
