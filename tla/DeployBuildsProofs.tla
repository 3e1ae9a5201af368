------------------------- MODULE DeployBuildsProofs -------------------------
(***************************************************************************)
(* Proofs about the build queue, for any number of Build and Rollback      *)
(* calls and of panel restarts.                                            *)
(***************************************************************************)
EXTENDS DeployBuilds, TLAPS

\* Every step keeps every variable of DeployBuilds in its type.
THEOREM TypeCorrect == Spec => []TypeOK
<1>1. Init => TypeOK
  BY MaxCrashesAssumption
     DEF Init, TypeOK, ProjectStatus, RowStatus, NoRow, Pcs, Pipeline, Ended
<1>2. TypeOK /\ [Next]_vars => TypeOK'
  <2> SUFFICES ASSUME TypeOK, [Next]_vars PROVE TypeOK'
    OBVIOUS
  <2>1. ASSUME NEW c \in Calls, BuildStep(c) PROVE TypeOK'
    <3> USE DEF TypeOK, ProjectStatus, RowStatus, NoRow, Pcs, Pipeline, Ended
    <3>1. CASE BuildCall(c)
      BY <3>1 DEF BuildCall, Goto
    <3>2. CASE Dequeue(c)
      BY <3>2 DEF Dequeue, Goto
    <3>3. CASE QueueTimeout(c)
      BY <3>3 DEF QueueTimeout, Goto
    <3>4. CASE ReadProject(c)
      BY <3>4 DEF ReadProject, Goto, Release
    <3>5. CASE CreateRow(c)
      <4>1. [num |-> num[c], status |-> "building"] \in [num : Nat, status : RowStatus \cup {"none"}]
        OBVIOUS
      <4>2. row' \in [Calls -> [num : Nat, status : RowStatus \cup {"none"}]]
        BY <3>5, <4>1 DEF CreateRow
      <4> QED BY <3>5, <4>2 DEF CreateRow, Goto, Release
    <3>6. CASE MarkBuilding(c)
      BY <3>6 DEF MarkBuilding, Goto, UpdateProject
    <3>7. CASE OpenLog(c)
      BY <3>7 DEF OpenLog, Goto, Release
    <3>8. CASE BuildFails(c)
      BY <3>8 DEF BuildFails, SaveRow, Goto
    <3>9. CASE BuildSucceeds(c)
      BY <3>9 DEF BuildSucceeds, SaveRow, Goto
    <3>10. CASE MarkError(c)
      BY <3>10 DEF MarkError, UpdateProject, Goto
    <3>11. CASE Deploy(c)
      BY <3>11 DEF Deploy, UpdateProject, Goto
    <3>12. CASE Close(c)
      BY <3>12 DEF Close, Release, Goto
    <3> QED BY <2>1, <3>1, <3>2, <3>3, <3>4, <3>5, <3>6, <3>7, <3>8, <3>9, <3>10,
               <3>11, <3>12 DEF BuildStep
  <2>2. ASSUME NEW r \in Rollbacks, RollbackStep(r) PROVE TypeOK'
    <3> USE DEF TypeOK, ProjectStatus, RowStatus, NoRow, Pcs, Pipeline, Ended
    <3>1. CASE RollbackCheck(r)
      BY <3>1 DEF RollbackCheck
    <3>2. CASE RollbackMark(r)
      BY <3>2 DEF RollbackMark
    <3>3. CASE RollbackCurrent(r)
      BY <3>3 DEF RollbackCurrent, UpdateProject
    <3>4. CASE RollbackRun(r)
      BY <3>4 DEF RollbackRun, UpdateProject
    <3> QED BY <2>2, <3>1, <3>2, <3>3, <3>4 DEF RollbackStep
  <2>3. CASE StartProject \/ StopProject
    BY <2>3 DEF StartProject, StopProject,
       TypeOK, ProjectStatus, RowStatus, NoRow, Pcs, Pipeline, Ended
  <2>4. CASE DeleteCall \/ DeleteRows \/ DeleteProject
    <3> USE DEF TypeOK, ProjectStatus, RowStatus, Pcs, Pipeline, Ended
    <3>1. CASE DeleteCall \/ DeleteProject
      BY <3>1 DEF DeleteCall, DeleteProject
    <3>2. CASE DeleteRows
      <4>1. NoRow \in [num : Nat, status : RowStatus \cup {"none"}]
        BY DEF NoRow
      <4> QED BY <3>2, <4>1 DEF DeleteRows
    <3> QED BY <2>4, <3>1, <3>2
  <2>5. CASE Crash
    BY <2>5, MaxCrashesAssumption DEF Crash,
       TypeOK, ProjectStatus, RowStatus, NoRow, Pcs, Pipeline, Ended
  <2>6. CASE UNCHANGED vars
    BY <2>6 DEF vars,
       TypeOK, ProjectStatus, RowStatus, NoRow, Pcs, Pipeline, Ended
  <2> QED BY <2>1, <2>2, <2>3, <2>4, <2>5, <2>6 DEF Next
<1> QED BY <1>1, <1>2, PTL DEF Spec

-----------------------------------------------------------------------------
(* The lock. OnePipeline alone is not inductive: a free semaphore must mean *)
(* that nobody holds the lock.                                              *)

LockInv == TypeOK /\ OnePipeline /\ LockMatchesHolder

\* The steps outside Build leave the semaphore and the calls where they are.
LEMMA OtherStepsKeepLock ==
  ASSUME StartProject \/ StopProject \/ DeleteCall \/ DeleteRows \/ DeleteProject
         \/ (\E r \in Rollbacks : RollbackStep(r)) \/ UNCHANGED vars
  PROVE  UNCHANGED <<sem, pc>>
  BY DEF StartProject, StopProject, DeleteCall, DeleteRows, DeleteProject, RollbackStep,
         RollbackCheck, RollbackMark, RollbackCurrent, RollbackRun, vars

\* What a step of Build does to the lock: it takes it when it is free, it gives it
\* back when it holds it, or it neither enters nor leaves the pipeline.
LEMMA BuildStepOnLock ==
  ASSUME TypeOK, NEW c \in Calls, BuildStep(c)
  PROVE  /\ \E l \in Pcs : pc' = [pc EXCEPT ![c] = l]
         /\ \/ sem = "free" /\ ~Holding(c) /\ sem' = "taken" /\ Holding(c)'
            \/ Holding(c) /\ sem' = "free" /\ ~Holding(c)'
            \/ sem' = sem /\ (Holding(c) <=> Holding(c)')
<1> USE DEF TypeOK, Holding, Pcs, Pipeline, Ended, Goto, Release
<1>1. CASE BuildCall(c)
  BY <1>1 DEF BuildCall
<1>2. CASE Dequeue(c)
  BY <1>2 DEF Dequeue
<1>3. CASE QueueTimeout(c)
  BY <1>3 DEF QueueTimeout
<1>4. CASE ReadProject(c)
  BY <1>4 DEF ReadProject
<1>5. CASE CreateRow(c)
  BY <1>5 DEF CreateRow
<1>6. CASE MarkBuilding(c)
  BY <1>6 DEF MarkBuilding
<1>7. CASE OpenLog(c)
  BY <1>7 DEF OpenLog
<1>8. CASE BuildFails(c) \/ BuildSucceeds(c)
  BY <1>8 DEF BuildFails, BuildSucceeds
<1>9. CASE MarkError(c) \/ Deploy(c)
  BY <1>9 DEF MarkError, Deploy
<1>10. CASE Close(c)
  BY <1>10 DEF Close
<1> QED BY <1>1, <1>2, <1>3, <1>4, <1>5, <1>6, <1>7, <1>8, <1>9, <1>10 DEF BuildStep

\* The lock's invariant holds throughout.
LEMMA LockInvariant == Spec => []LockInv
<1>1. Init => OnePipeline /\ LockMatchesHolder
  BY DEF Init, OnePipeline, LockMatchesHolder, Holding, Pipeline
<1>2. TypeOK /\ TypeOK' /\ OnePipeline /\ LockMatchesHolder /\ [Next]_vars
        => OnePipeline' /\ LockMatchesHolder'
  <2> SUFFICES ASSUME TypeOK, TypeOK', OnePipeline, LockMatchesHolder, [Next]_vars
               PROVE  OnePipeline' /\ LockMatchesHolder'
    OBVIOUS
  <2>1. ASSUME NEW c \in Calls, BuildStep(c) PROVE OnePipeline' /\ LockMatchesHolder'
    <3>1. PICK l \in Pcs : pc' = [pc EXCEPT ![c] = l]
      BY <2>1, BuildStepOnLock
    <3>2. \A d \in Calls \ {c} : Holding(d)' <=> Holding(d)
      BY <3>1 DEF Holding, TypeOK
    <3>3. CASE sem = "free" /\ ~Holding(c) /\ sem' = "taken" /\ Holding(c)'
      <4>1. \A d \in Calls : ~Holding(d)
        BY <3>3 DEF LockMatchesHolder
      <4> QED BY <3>2, <3>3, <4>1 DEF OnePipeline, LockMatchesHolder
    <3>4. CASE Holding(c) /\ sem' = "free" /\ ~Holding(c)'
      <4>1. \A d \in Calls \ {c} : ~Holding(d)
        BY <3>4 DEF OnePipeline
      <4> QED BY <3>2, <3>4, <4>1 DEF OnePipeline, LockMatchesHolder
    <3>5. CASE sem' = sem /\ (Holding(c) <=> Holding(c)')
      <4>1. \A d \in Calls : Holding(d)' <=> Holding(d)
        BY <3>2, <3>5
      <4> QED BY <3>5, <4>1 DEF OnePipeline, LockMatchesHolder
    <3> QED BY <2>1, <3>3, <3>4, <3>5, BuildStepOnLock
  <2>2. CASE Crash
    <3>1. \A d \in Calls : ~Holding(d)'
      BY <2>2 DEF Crash, Holding, Pipeline, TypeOK
    <3>2. sem' = "free"
      BY <2>2 DEF Crash
    <3> QED BY <3>1, <3>2 DEF OnePipeline, LockMatchesHolder
  <2>3. CASE StartProject \/ StopProject \/ DeleteCall \/ DeleteRows \/ DeleteProject
             \/ (\E r \in Rollbacks : RollbackStep(r)) \/ UNCHANGED vars
    <3>1. UNCHANGED <<sem, pc>>
      BY <2>3, OtherStepsKeepLock
    <3> QED BY <3>1 DEF OnePipeline, LockMatchesHolder, Holding
  <2> QED BY <2>1, <2>2, <2>3 DEF Next
<1> QED BY <1>1, <1>2, TypeCorrect, PTL DEF Spec, LockInv

\* Mutual exclusion of the pipelines of a project (service.go, Build and
\* releaseBuildLock), for any number of calls and through restarts of the panel.
THEOREM MutualExclusion == Spec => []OnePipeline
  BY LockInvariant, PTL DEF LockInv

\* The token of the semaphore is in the channel exactly while a pipeline runs.
THEOREM LockIsNeverLeaked == Spec => []LockMatchesHolder
  BY LockInvariant, PTL DEF LockInv

-----------------------------------------------------------------------------
(* Rows and statuses left at "building".                                    *)

\* A deployment row says "building" only while its pipeline is between CreateRow and
\* the save of its result, or was cut off there (service.go, Build and runBuild).
THEOREM RowsAreSettled == Spec => []RowSettled
<1>1. Init => RowSettled
  BY DEF Init, RowSettled, NoRow
<1>2. TypeOK /\ RowSettled /\ [Next]_vars => RowSettled'
  <2> SUFFICES ASSUME TypeOK, RowSettled, [Next]_vars,
                      NEW d \in Calls, row'[d].status = "building"
               PROVE  pc'[d] \in {"created", "marked", "building", "nolog", "lost"}
    BY DEF RowSettled
  <2> USE DEF RowSettled
  <2>1. ASSUME NEW c \in Calls, BuildStep(c)
        PROVE  pc'[d] \in {"created", "marked", "building", "nolog", "lost"}
    <3>1. CASE c # d
      <4>1. row'[d] = row[d] /\ pc'[d] = pc[d]
        BY <2>1, <3>1
        DEF TypeOK, BuildStep, BuildCall, Dequeue, QueueTimeout, ReadProject, CreateRow,
            MarkBuilding, OpenLog, BuildFails, BuildSucceeds, MarkError, Deploy, Close,
            SaveRow, Goto
      <4> QED BY <4>1
    <3>2. CASE c = d
      <4>1. CASE CreateRow(c)
        BY <3>2, <4>1 DEF CreateRow, Goto, TypeOK
      <4>2. CASE BuildFails(c) \/ BuildSucceeds(c)
        BY <3>2, <4>2 DEF BuildFails, BuildSucceeds, SaveRow, Goto, TypeOK
      <4>3. CASE BuildCall(c) \/ Dequeue(c) \/ QueueTimeout(c) \/ ReadProject(c)
        BY <3>2, <4>3 DEF BuildCall, Dequeue, QueueTimeout, ReadProject, Goto, TypeOK
      <4>4. CASE MarkBuilding(c) \/ OpenLog(c)
        BY <3>2, <4>4 DEF MarkBuilding, OpenLog, Goto, TypeOK
      <4>5. CASE MarkError(c) \/ Deploy(c) \/ Close(c)
        BY <3>2, <4>5 DEF MarkError, Deploy, Close, Goto, TypeOK
      <4> QED BY <2>1, <4>1, <4>2, <4>3, <4>4, <4>5 DEF BuildStep
    <3> QED BY <3>1, <3>2
  <2>2. ASSUME NEW r \in Rollbacks, RollbackStep(r)
        PROVE  pc'[d] \in {"created", "marked", "building", "nolog", "lost"}
    <3>1. CASE RollbackMark(r)
      BY <3>1 DEF RollbackMark, TypeOK
    <3>2. CASE RollbackCheck(r) \/ RollbackCurrent(r) \/ RollbackRun(r)
      BY <3>2 DEF RollbackCheck, RollbackCurrent, RollbackRun
    <3> QED BY <2>2, <3>1, <3>2 DEF RollbackStep
  <2>3. CASE StartProject \/ StopProject \/ DeleteCall \/ DeleteProject
    BY <2>3 DEF StartProject, StopProject, DeleteCall, DeleteProject
  <2>4. CASE DeleteRows
    BY <2>4 DEF DeleteRows, NoRow
  <2>5. CASE Crash
    BY <2>5 DEF Crash, Pipeline, TypeOK
  <2>6. CASE UNCHANGED vars
    BY <2>6 DEF vars
  <2> QED BY <2>1, <2>2, <2>3, <2>4, <2>5, <2>6 DEF Next
<1> QED BY <1>1, <1>2, TypeCorrect, PTL DEF Spec

\* The project's status is "building" only while a pipeline runs, or after one that
\* was cut off, whatever StartProject, StopProject and Rollback wrote in between.
THEOREM NoPhantoms == Spec => []NoPhantomBuilding
<1>1. Init => NoPhantomBuilding
  BY DEF Init, NoPhantomBuilding
<1>2. TypeOK /\ NoPhantomBuilding /\ [Next]_vars => NoPhantomBuilding'
  <2> DEFINE Witnesses == {"marked", "building", "failing", "deploying", "nolog", "lost"}
  <2> SUFFICES ASSUME TypeOK, NoPhantomBuilding, [Next]_vars,
                      project'.exists, project'.status = "building"
               PROVE  \E c \in Calls : pc'[c] \in Witnesses
    BY DEF NoPhantomBuilding
  <2>1. ASSUME NEW c \in Calls, BuildStep(c) PROVE \E d \in Calls : pc'[d] \in Witnesses
    <3>1. CASE MarkBuilding(c)
      BY <3>1 DEF MarkBuilding, Goto, TypeOK
    <3>2. CASE MarkError(c)
      BY <3>2 DEF MarkError, UpdateProject, TypeOK
    <3>3. CASE Deploy(c)
      BY <3>3 DEF Deploy, UpdateProject, TypeOK
    <3>4. CASE BuildCall(c) \/ Dequeue(c) \/ QueueTimeout(c) \/ ReadProject(c)
               \/ CreateRow(c) \/ OpenLog(c) \/ BuildFails(c) \/ BuildSucceeds(c) \/ Close(c)
      <4>1. project' = project
        BY <3>4 DEF BuildCall, Dequeue, QueueTimeout, ReadProject, CreateRow, OpenLog,
                    BuildFails, BuildSucceeds, Close
      <4>2. PICK d \in Calls : pc[d] \in Witnesses
        BY <4>1 DEF NoPhantomBuilding
      <4>3. CASE d # c
        <5>1. pc'[d] = pc[d]
          BY <3>4, <4>3 DEF BuildCall, Dequeue, QueueTimeout, ReadProject, CreateRow,
                            OpenLog, BuildFails, BuildSucceeds, Close, Goto, TypeOK
        <5> QED BY <4>2, <5>1
      <4>4. CASE d = c
        <5>1. pc'[c] \in Witnesses
          BY <3>4, <4>2, <4>4 DEF BuildCall, Dequeue, QueueTimeout, ReadProject, CreateRow,
                                  OpenLog, BuildFails, BuildSucceeds, Close, Goto, TypeOK
        <5> QED BY <5>1
      <4> QED BY <4>3, <4>4
    <3> QED BY <2>1, <3>1, <3>2, <3>3, <3>4 DEF BuildStep
  <2>2. ASSUME NEW r \in Rollbacks, RollbackStep(r)
        PROVE  \E d \in Calls : pc'[d] \in Witnesses
    <3>1. pc' = pc
      BY <2>2 DEF RollbackStep, RollbackCheck, RollbackMark, RollbackCurrent, RollbackRun
    <3>2. project.exists /\ project.status = "building"
      BY <2>2 DEF RollbackStep, RollbackCheck, RollbackMark, RollbackCurrent, RollbackRun,
                  UpdateProject, TypeOK
    <3> QED BY <3>1, <3>2 DEF NoPhantomBuilding
  <2>3. CASE StartProject \/ StopProject
    BY <2>3 DEF StartProject, StopProject, TypeOK
  <2>4. CASE DeleteCall \/ DeleteRows \/ DeleteProject
    BY <2>4 DEF DeleteCall, DeleteRows, DeleteProject, TypeOK, NoPhantomBuilding
  <2>5. CASE Crash
    <3>1. PICK d \in Calls : pc[d] \in Witnesses
      BY <2>5 DEF Crash, NoPhantomBuilding
    <3>2. pc'[d] \in Witnesses
      BY <2>5, <3>1 DEF Crash, Pipeline
    <3> QED BY <3>2
  <2>6. CASE UNCHANGED vars
    BY <2>6 DEF vars, NoPhantomBuilding
  <2> QED BY <2>1, <2>2, <2>3, <2>4, <2>5, <2>6 DEF Next
<1> QED BY <1>1, <1>2, TypeCorrect, PTL DEF Spec

-----------------------------------------------------------------------------
(* Rollbacks.                                                               *)

\* A call that has not reached CreateRow has no deployment row. RolledBackStays needs
\* it: the row that CreateRow writes was not there before.
NoRowYet == \A c \in Calls : pc[c] \in {"idle", "queued", "locked", "read"} => row[c] = NoRow

\* A build that has not come to its row has none.
LEMMA RowsComeLater == Spec => []NoRowYet
<1>1. Init => NoRowYet
  BY DEF Init, NoRowYet
<1>2. TypeOK /\ NoRowYet /\ [Next]_vars => NoRowYet'
  <2> SUFFICES ASSUME TypeOK, NoRowYet, [Next]_vars, NEW d \in Calls,
                      pc'[d] \in {"idle", "queued", "locked", "read"}
               PROVE  row'[d] = NoRow
    BY DEF NoRowYet
  <2>1. ASSUME NEW c \in Calls, BuildStep(c) PROVE row'[d] = NoRow
    <3>1. CASE c # d
      <4>1. row'[d] = row[d] /\ pc'[d] = pc[d]
        BY <2>1, <3>1
        DEF TypeOK, BuildStep, BuildCall, Dequeue, QueueTimeout, ReadProject, CreateRow,
            MarkBuilding, OpenLog, BuildFails, BuildSucceeds, MarkError, Deploy, Close,
            SaveRow, Goto
      <4> QED BY <4>1 DEF NoRowYet
    <3>2. CASE c = d
      <4>1. CASE BuildCall(c) \/ Dequeue(c) \/ ReadProject(c)
        BY <3>2, <4>1 DEF BuildCall, Dequeue, ReadProject, NoRowYet
      <4>2. CASE QueueTimeout(c) \/ CreateRow(c) \/ MarkBuilding(c) \/ OpenLog(c) \/ BuildFails(c)
                 \/ BuildSucceeds(c) \/ MarkError(c) \/ Deploy(c) \/ Close(c)
        BY <3>2, <4>2 DEF QueueTimeout, CreateRow, MarkBuilding, OpenLog, BuildFails,
                          BuildSucceeds, MarkError, Deploy, Close, Goto, TypeOK
      <4> QED BY <2>1, <4>1, <4>2 DEF BuildStep
    <3> QED BY <3>1, <3>2
  <2>2. ASSUME NEW r \in Rollbacks, RollbackStep(r) PROVE row'[d] = NoRow
    <3>1. CASE RollbackMark(r)
      BY <3>1 DEF RollbackMark, NoRowYet, Newer, NoRow
    <3>2. CASE RollbackCheck(r) \/ RollbackCurrent(r) \/ RollbackRun(r)
      BY <3>2 DEF RollbackCheck, RollbackCurrent, RollbackRun, NoRowYet
    <3> QED BY <2>2, <3>1, <3>2 DEF RollbackStep
  <2>3. CASE StartProject \/ StopProject \/ DeleteCall \/ DeleteProject
    BY <2>3 DEF StartProject, StopProject, DeleteCall, DeleteProject, NoRowYet
  <2>4. CASE DeleteRows
    BY <2>4 DEF DeleteRows
  <2>5. CASE Crash
    BY <2>5 DEF Crash, Pipeline, NoRowYet
  <2>6. CASE UNCHANGED vars
    BY <2>6 DEF vars, NoRowYet
  <2> QED BY <2>1, <2>2, <2>3, <2>4, <2>5, <2>6 DEF Next
<1> QED BY <1>1, <1>2, TypeCorrect, PTL DEF Spec

\* The only step that overwrites the mark of a rollback is the save of a build that was
\* running when Rollback, which takes no lock, made it (service.go, runBuild).
THEOREM RollbackMarksStay == Spec => RolledBackStays
<1> DEFINE Kept == \A c \in Calls :
                     /\ row[c].status = "rolled_back"
                     /\ row'[c].status \notin {"rolled_back", "none"}
                     => pc[c] = "building"
<1>1. TypeOK /\ NoRowYet /\ [Next]_vars => [Kept]_vars
  <2> SUFFICES ASSUME TypeOK, NoRowYet, [Next]_vars, NEW d \in Calls,
                      row[d].status = "rolled_back",
                      row'[d].status \notin {"rolled_back", "none"}
               PROVE  pc[d] = "building"
    OBVIOUS
  <2>1. ASSUME NEW c \in Calls, BuildStep(c) PROVE pc[d] = "building"
    <3>1. CASE CreateRow(c)
      BY <3>1 DEF CreateRow, NoRowYet, NoRow, TypeOK
    <3>2. CASE BuildFails(c) \/ BuildSucceeds(c)
      BY <3>2 DEF BuildFails, BuildSucceeds, SaveRow, TypeOK
    <3>3. CASE \/ BuildCall(c) \/ Dequeue(c) \/ QueueTimeout(c) \/ ReadProject(c)
               \/ MarkBuilding(c) \/ OpenLog(c) \/ MarkError(c) \/ Deploy(c) \/ Close(c)
      BY <3>3 DEF BuildCall, Dequeue, QueueTimeout, ReadProject, MarkBuilding, OpenLog,
                  MarkError, Deploy, Close
    <3> QED BY <2>1, <3>1, <3>2, <3>3 DEF BuildStep
  <2>2. ASSUME NEW r \in Rollbacks, RollbackStep(r) PROVE pc[d] = "building"
    <3>1. CASE RollbackMark(r)
      BY <3>1 DEF RollbackMark, TypeOK
    <3>2. CASE RollbackCheck(r) \/ RollbackCurrent(r) \/ RollbackRun(r)
      BY <3>2 DEF RollbackCheck, RollbackCurrent, RollbackRun
    <3> QED BY <2>2, <3>1, <3>2 DEF RollbackStep
  <2>3. CASE StartProject \/ StopProject \/ DeleteCall \/ DeleteProject \/ Crash
    BY <2>3 DEF StartProject, StopProject, DeleteCall, DeleteProject, Crash
  <2>4. CASE DeleteRows
    BY <2>4 DEF DeleteRows, NoRow
  <2>5. CASE UNCHANGED vars
    BY <2>5 DEF vars
  <2> QED BY <2>1, <2>2, <2>3, <2>4, <2>5 DEF Next
<1> QED BY <1>1, TypeCorrect, RowsComeLater, PTL DEF Spec, RolledBackStays

-----------------------------------------------------------------------------
(* Build numbers.                                                           *)

\* The steps of a pipeline, and of a call that has ended, that follow MarkBuilding.
Numbered == {"marked", "building", "failing", "deploying", "closing", "done", "nolog"}

NoRollback == \A r \in Rollbacks : rb[r].pc = "idle"

\* What NumbersDistinct needs to be inductive: which calls have a row, and that the number
\* a call has read stays the next one until the call writes it to the project's row. A
\* deleted project is not updated any more, and no call reads it any more.
NumInv ==
  NoRollback =>
    /\ \A c \in Calls : row[c].status # "none" =>
         row[c].num = num[c] /\ pc[c] \in {"created", "lost"} \cup Numbered
    /\ \A c \in Calls : pc[c] \in {"read", "created"} =>
         /\ num[c] = project.current + 1
         /\ \A d \in Calls : pc[d] \in Numbered => num[d] <= project.current
    /\ \A c \in Calls : pc[c] \in Numbered /\ project.exists => num[c] <= project.current
    /\ \A c, d \in Calls : c # d /\ {pc[c], pc[d]} \subseteq Numbered => num[c] # num[d]

\* What a step of a Build call does to the numbers: the call moves alone, its row gets the
\* number it has read, and only MarkBuilding writes the project's number.
LEMMA BuildStepOnNumbers ==
  ASSUME TypeOK, NEW c \in Calls, BuildStep(c)
  PROVE  /\ \A d \in Calls \ {c} : pc'[d] = pc[d] /\ row'[d] = row[d] /\ num'[d] = num[d]
         /\ project'.exists = project.exists /\ rb' = rb
         /\ row' = row \/ (row'[c].num = num[c] /\ pc'[c] \in {"created"} \cup Numbered)
         /\ \/ /\ pc[c] = "locked" /\ pc'[c] = "read" /\ project' = project /\ row' = row
               /\ project.exists /\ num'[c] = project.current + 1
            \/ /\ pc[c] = "read" /\ pc'[c] = "created" /\ project' = project /\ num' = num
            \/ /\ pc[c] = "created" /\ pc'[c] = "marked" /\ num' = num /\ row' = row
               /\ project'.current = IF project.exists THEN num[c] ELSE project.current
            \/ /\ pc'[c] \notin {"read", "created"} /\ num' = num
               /\ project'.current = project.current
               /\ IF pc'[c] \in Numbered THEN pc[c] \in Numbered
                                         ELSE row' = row /\ pc[c] \in {"idle", "queued", "locked", "read"}
<1> USE DEF TypeOK, Numbered, Goto
<1>1. CASE BuildCall(c) \/ Dequeue(c) \/ QueueTimeout(c) \/ ReadProject(c)
  BY <1>1 DEF BuildCall, Dequeue, QueueTimeout, ReadProject
<1>2. CASE CreateRow(c)
  BY <1>2 DEF CreateRow
<1>3. CASE MarkBuilding(c) \/ OpenLog(c)
  BY <1>3 DEF MarkBuilding, OpenLog, UpdateProject
<1>4. CASE BuildFails(c) \/ BuildSucceeds(c)
  BY <1>4 DEF BuildFails, BuildSucceeds, SaveRow
<1>5. CASE MarkError(c) \/ Deploy(c) \/ Close(c)
  BY <1>5 DEF MarkError, Deploy, Close, UpdateProject
<1> QED
  BY <1>1, <1>2, <1>3, <1>4, <1>5 DEF BuildStep

\* The invariant of build numbers holds throughout.
LEMMA NumbersHold == Spec => []NumInv
<1>1. Init => NumInv
  BY DEF Init, NumInv, NoRow, Numbered
<1>2. TypeOK /\ OnePipeline /\ NoRowYet /\ NumInv /\ [Next]_vars => NumInv'
  <2> SUFFICES ASSUME TypeOK, OnePipeline, NoRowYet, NumInv, [Next]_vars, NoRollback'
               PROVE  NumInv'
    BY DEF NumInv
  <2>1. ASSUME NEW c \in Calls, BuildStep(c) PROVE NumInv'
    <3>1. NoRollback
      BY <2>1, BuildStepOnNumbers DEF NoRollback
    <3> DEFINE Others == Calls \ {c}
    <3>0. /\ project.current \in Nat /\ \A d \in Calls : num[d] \in Nat
          /\ \A d \in Others : pc'[d] = pc[d] /\ row'[d] = row[d] /\ num'[d] = num[d]
          /\ project'.exists = project.exists
      BY <2>1, BuildStepOnNumbers DEF TypeOK
    <3>2. CASE pc[c] = "locked" /\ pc'[c] = "read"
      <4>1. \A d \in Calls : pc[d] \notin {"created", "read"}
        BY <3>2 DEF OnePipeline, Holding, Pipeline
      <4> QED
        BY <2>1, <3>1, <3>2, <4>1, BuildStepOnNumbers DEF NumInv, Numbered, TypeOK
    <3>3. CASE pc[c] = "read" /\ pc'[c] = "created"
      <4>1. project' = project /\ num' = num
        BY <2>1, <3>3, BuildStepOnNumbers DEF Numbered
      <4>2. row'[c] = row[c] \/ row'[c].num = num[c]
        BY <2>1, BuildStepOnNumbers
      <4> QED
        BY <3>0, <3>1, <3>3, <4>1, <4>2 DEF NumInv, Numbered
    <3>4. CASE pc[c] = "created" /\ pc'[c] = "marked"
      <4>1. \A d \in Others : pc[d] \notin {"created", "read"}
        BY <3>4 DEF OnePipeline, Holding, Pipeline
      <4>2. /\ num' = num /\ row' = row
            /\ project'.current = IF project.exists THEN num[c] ELSE project.current
        BY <2>1, <3>4, BuildStepOnNumbers DEF Numbered
      <4>3. num[c] = project.current + 1 /\ \A d \in Calls : pc[d] \in Numbered => num[d] <= project.current
        BY <3>1, <3>4 DEF NumInv
      <4> QED
        BY <3>0, <3>1, <3>4, <4>1, <4>2, <4>3 DEF NumInv, Numbered
    <3>5. CASE pc'[c] \notin {"read", "created"} /\ pc[c] # "created"
      BY <2>1, <3>1, <3>5, BuildStepOnNumbers DEF NumInv, NoRowYet, NoRow, Numbered, TypeOK
    <3> QED
      BY <2>1, <3>2, <3>3, <3>4, <3>5, BuildStepOnNumbers DEF Numbered
  <2>2. ASSUME NEW r \in Rollbacks, RollbackStep(r) PROVE NumInv'
    BY <2>2 DEF RollbackStep, RollbackCheck, RollbackMark, RollbackCurrent, RollbackRun,
                NoRollback, TypeOK
  <2>3. CASE StartProject \/ StopProject \/ DeleteCall \/ DeleteProject \/ UNCHANGED vars
    <3>1. /\ UNCHANGED <<row, pc, num, rb>> /\ project'.current = project.current
          /\ project'.exists => project.exists
      BY <2>3 DEF StartProject, StopProject, DeleteCall, DeleteProject, vars, TypeOK
    <3> QED
      BY <3>1 DEF NumInv, NoRollback
  <2>4. CASE DeleteRows
    <3>1. UNCHANGED <<project, pc, num, rb>> /\ \A c \in Calls : row'[c].status = "none"
      BY <2>4 DEF DeleteRows, NoRow
    <3> QED
      BY <3>1 DEF NumInv, NoRollback
  <2>5. CASE Crash
    <3>1. NoRollback
      BY <2>5 DEF Crash, NoRollback, TypeOK
    <3>2. UNCHANGED <<project, row, num>>
      BY <2>5 DEF Crash
    <3>3. \A c \in Calls : /\ pc'[c] \notin {"read", "created"}
                           /\ pc'[c] \in Numbered => pc[c] = pc'[c]
                           /\ pc[c] \in {"created", "lost"} \cup Numbered
                                => pc'[c] \in {"created", "lost"} \cup Numbered
      BY <2>5 DEF Crash, Pipeline, Numbered, TypeOK
    <3> QED
      BY <3>1, <3>2, <3>3 DEF NumInv
  <2> QED
    BY <2>1, <2>2, <2>3, <2>4, <2>5 DEF Next
<1> QED BY <1>1, <1>2, TypeCorrect, MutualExclusion, RowsComeLater, PTL DEF Spec

\* Until a rollback moves the number back, no two builds that the panel has not cut off
\* have the same number (service.go, Build: the number is read and written under the lock).
THEOREM NumbersStayDistinct == Spec => []NumbersDistinct
<1>1. TypeOK /\ OnePipeline /\ NumInv => NumbersDistinct
  <2> SUFFICES ASSUME TypeOK, OnePipeline, NumInv, NoRollback,
                      NEW c \in Calls, NEW d \in Calls, c # d, pc[c] # "lost", pc[d] # "lost",
                      row[c].status # "none", row[d].status # "none"
               PROVE  row[c].num # row[d].num
    BY DEF NumbersDistinct, NoRollback
  <2>1. row[c].num = num[c] /\ row[d].num = num[d]
    BY DEF NumInv
  <2>2. {pc[c], pc[d]} \subseteq Numbered \/ (pc[c] = "created" /\ pc[d] \in Numbered)
        \/ (pc[d] = "created" /\ pc[c] \in Numbered)
    BY DEF NumInv, OnePipeline, Holding, Pipeline
  <2>3. project.current \in Nat /\ num[c] \in Nat /\ num[d] \in Nat
    BY DEF TypeOK
  <2> QED
    BY <2>1, <2>2, <2>3 DEF NumInv
<1> QED BY <1>1, TypeCorrect, MutualExclusion, NumbersHold, PTL

-----------------------------------------------------------------------------
(* Refinement.                                                              *)

\* The build queue implements SerialService: every step is a step of the service for
\* the call that makes it, an outage, or no step of the service at all.
THEOREM BuildsAreServedInTurn == Spec => ServesOneAtATime
<1> USE DEF stage, Pipeline
<1>1. Init => Service!Init
  BY DEF Init, Service!Init
<1>2. TypeOK /\ LockMatchesHolder /\ [Next]_vars => [Service!Next]_(Service!svars)
  <2> SUFFICES ASSUME TypeOK, LockMatchesHolder, [Next]_vars
               PROVE  Service!Next \/ UNCHANGED stage
    BY DEF Service!svars
  <2>1. ASSUME NEW c \in Calls, BuildStep(c) PROVE Service!Next \/ UNCHANGED stage
    <3>1. PICK l \in Pcs : pc' = [pc EXCEPT ![c] = l]
      BY <2>1, BuildStepOnLock
    <3>2. sem = "free" => Service!Free
      BY DEF LockMatchesHolder, Holding, Service!Free
    <3>3. CASE (BuildCall(c) /\ sem = "free") \/ Dequeue(c)
      <4>1. Service!Serve(c)
        BY <3>2, <3>3 DEF BuildCall, Dequeue, Goto, TypeOK, Service!Serve
      <4> QED BY <4>1 DEF Service!Next
    <3>4. CASE BuildCall(c) /\ sem # "free"
      <4>1. Service!Arrive(c)
        BY <3>4 DEF BuildCall, Goto, TypeOK, Service!Arrive
      <4> QED BY <4>1 DEF Service!Next
    <3>5. CASE pc[c] \in Pipeline \cup {"queued"} /\ l \in Ended
      <4>1. Service!Leave(c)
        BY <3>1, <3>5 DEF Ended, TypeOK, Service!Leave
      <4> QED BY <4>1 DEF Service!Next
    <3>6. CASE pc[c] \in Pipeline /\ l \in Pipeline
      BY <3>1, <3>6 DEF TypeOK
    <3>7. \/ BuildCall(c) \/ Dequeue(c)
          \/ pc[c] \in Pipeline \cup {"queued"} /\ pc'[c] \in Ended
          \/ pc[c] \in Pipeline /\ pc'[c] \in Pipeline
      BY <2>1 DEF BuildStep, QueueTimeout, ReadProject, CreateRow, MarkBuilding, OpenLog,
                  BuildFails, BuildSucceeds, MarkError, Deploy, Close, Goto, TypeOK, Ended
    <3>8. pc'[c] = l
      BY <3>1 DEF TypeOK
    <3> QED BY <3>3, <3>4, <3>5, <3>6, <3>7, <3>8
  <2>2. CASE Crash
    <3>1. Service!Outage
      BY <2>2 DEF Crash, TypeOK, Pcs, Ended, Service!Outage
    <3> QED BY <3>1 DEF Service!Next
  <2>3. CASE StartProject \/ StopProject \/ DeleteCall \/ DeleteRows \/ DeleteProject
             \/ (\E r \in Rollbacks : RollbackStep(r)) \/ UNCHANGED vars
    BY <2>3, OtherStepsKeepLock
  <2> QED BY <2>1, <2>2, <2>3 DEF Next
<1> QED BY <1>1, <1>2, TypeCorrect, LockInvariant, PTL
      DEF Spec, LockInv, ServesOneAtATime, Service!Spec
=============================================================================
