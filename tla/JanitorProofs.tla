--------------------------- MODULE JanitorProofs ---------------------------
(***************************************************************************)
(* Proofs about Janitor, for any apps, deploys, requests and files, and    *)
(* every set of operations and of environment events.                      *)
(***************************************************************************)
EXTENDS Janitor, AppOpsProofs

USE JanitorAssumption

(* What is old is over, so no worker is about to make it current.          *)
AgedAreFinished == aged \subseteq {d \in Deploys : Finished(d)}

(* A worker's row is there before the worker is.                           *)
RowBeforeWorker ==
  \A d \in Deploys : pc[d] \notin {"idle", "request", "acquired", "dead"} => row[d] # "none"

LogsHaveRows == \A d \in Deploys : d \in logs => row[d] # "none"

(* What the task means to delete cannot become what it must not delete.    *)
TaskInv ==
  /\ task.at = "rows" => \A a \in Apps : current[a] \in aged => current[a] \in task.ids
  /\ task.at = "containers" => /\ task.left \subseteq aged
                               /\ \A a \in Apps : current[a] \notin task.left
  /\ task.at = "oldLogs" => task.left \subseteq aged
  /\ task.at \in {"files", "unlink"} => \A d \in Deploys : d \in task.left => row[d] # "none"
  /\ task.at = "unlink" => task.file \notin Deploys

JanitorInv ==
  TypeOK /\ AgedAreFinished /\ RowBeforeWorker /\ LogsHaveRows /\ TaskInv /\ LogsAreKept

LEMMA JanitorInitInv == JanitorInit => JanitorInv
<1> SUFFICES ASSUME JanitorInit PROVE JanitorInv
  OBVIOUS
<1>1. TypeOK
  BY OpsInitInv DEF JanitorInit, OpsInv, LockInv
<1>2. AgedAreFinished /\ RowBeforeWorker /\ LogsAreKept
  BY DEF JanitorInit, OpsInit, Init, AgedAreFinished, RowBeforeWorker, LogsAreKept
<1>3. LogsHaveRows /\ TaskInv
  BY DEF JanitorInit, NoTask, LogsHaveRows, TaskInv
<1> QED
  BY <1>1, <1>2, <1>3 DEF JanitorInv

-----------------------------------------------------------------------------
(* What everyone else may do to what the tasks rely on.                    *)
Gentle ==
  /\ TypeOK' /\ RowBeforeWorker'
  /\ \A d \in Deploys :
       /\ cname'[d] = cname[d] \/ pc[d] = "load"
       /\ row'[d] = "none" => row[d] = "none"
       /\ crow'[d] = "none" => crow[d] = "none"
       /\ Finished(d) => Finished(d)'
  /\ \A a \in Apps : \/ current'[a] \in {current[a], None}
                     \/ \E d \in Deploys : current'[a] = d /\ pc[d] = "point"

LEMMA PipelineGentle ==
  ASSUME TypeOK, RowBeforeWorker, [Next]_vars
  PROVE  Gentle
<1>1. TypeOK'
  BY TypeStep
<1>2. \A a \in Apps : \/ current'[a] \in {current[a], None}
                      \/ \E d \in Deploys : current'[a] = d /\ pc[d] = "point"
  BY PipelineMovesEdges
<1> DEFINE Rest ==
      /\ RowBeforeWorker'
      /\ \A d \in Deploys :
           /\ cname'[d] = cname[d] \/ pc[d] = "load"
           /\ row'[d] = "none" => row[d] = "none"
           /\ crow'[d] = "none" => crow[d] = "none"
           /\ Finished(d) => Finished(d)'
<1> SUFFICES Rest
  BY <1>1, <1>2 DEF Gentle
<1> USE DEF TypeOK, Goto, procVars, workVars, dbVars, Finished, RowBeforeWorker
<1>3. ASSUME NEW d \in Deploys, Handler(d) PROVE Rest
  BY <1>3 DEF Handler, Arrive, TryAcquire, Reject, CreateRow, CreateRowFails
<1>4. ASSUME NEW d \in Deploys, Proceed(d) PROVE Rest
  <2>1. CASE Load(d) \/ ClearCurrent(d) \/ Prepare(d) \/ Pull(d) \/ RemoveOld(d)
    BY <2>1 DEF Load, ClearCurrent, Prepare, Pull, RemoveOld
  <2>2. CASE CreateContainer(d) \/ StartContainer(d) \/ CheckExists(d) \/ ComposeUp(d)
    BY <2>2 DEF CreateContainer, StartContainer, CheckExists, ComposeUp
  <2>3. CASE Wire(d) \/ RecordContainer(d) \/ SetCurrent(d) \/ Regenerate(d)
    BY <2>3 DEF Wire, RecordContainer, SetCurrent, Regenerate
  <2>4. CASE Finish(d)
    BY <2>4 DEF Finish, RetireOld
  <2> QED
    BY <1>4, <2>1, <2>2, <2>3, <2>4 DEF Proceed
<1>5. ASSUME NEW d \in Deploys, Fail(d) PROVE Rest
  <2>1. CASE FinishLost(d)
    BY <2>1 DEF FinishLost, RetireOld
  <2>2. CASE StepFails(d) \/ RemoveOldFails(d)
    BY <2>2 DEF StepFails, RemoveOldFails, Body
  <2>3. CASE ComposeUpFails(d)
    BY <2>3 DEF ComposeUpFails
  <2>4. CASE MarkFailed(d) \/ MarkFailedLost(d)
    BY <2>4 DEF MarkFailed, MarkFailedLost
  <2>5. CASE Recover(d) \/ RecoverLost(d)
    BY <2>5 DEF Recover, RecoverLost
  <2> QED
    BY <1>5, <2>1, <2>2, <2>3, <2>4, <2>5 DEF Fail
<1>6. ASSUME NEW d \in Deploys,
             Count(d) \/ Register(d) \/ Release(d) \/ Deregister(d) \/ Uncount(d)
             \/ Panic(d) \/ Expire(d)
      PROVE  Rest
  <2>1. CASE Count(d) \/ Register(d)
    BY <2>1 DEF Count, Register
  <2>2. CASE Release(d) \/ Deregister(d)
    BY <2>2 DEF Release, Deregister
  <2>3. CASE Uncount(d) \/ Expire(d)
    BY <2>3 DEF Uncount, Expire
  <2>4. CASE Panic(d)
    BY <2>4 DEF Panic, Body
  <2> QED
    BY <1>6, <2>1, <2>2, <2>3, <2>4
<1>7. CASE Shutdown
  <2>1. CASE Signal \/ HTTPClosed \/ Drained \/ DrainTimeout \/ MarkingDone
    BY <2>1 DEF Signal, HTTPClosed, Drained, DrainTimeout, MarkingDone
  <2>2. ASSUME NEW d \in Deploys, MarkStraggler(d) \/ MarkStragglerLost(d) PROVE Rest
    BY <2>2 DEF MarkStraggler, MarkStragglerLost
  <2> QED
    BY <1>7, <2>1, <2>2 DEF Shutdown
<1>8. CASE ProcessEnds \/ Boot \/ BootUnreconciled
  <2>1. CASE ProcessEnds
    BY <2>1 DEF ProcessEnds
  <2>2. CASE Boot \/ BootUnreconciled
    BY <2>2 DEF Boot, BootUnreconciled
  <2> QED
    BY <1>8, <2>1, <2>2
<1>9. CASE UNCHANGED vars
  BY <1>9 DEF vars
<1> QED
  BY <1>3, <1>4, <1>5, <1>6, <1>7, <1>8, <1>9 DEF Next, Worker

LEMMA OperatorGentle ==
  ASSUME TypeOK, RowBeforeWorker, OperatorPart
  PROVE  Gentle
<1> USE DEF TypeOK, procVars, workVars, dbVars, dockerVars
<1> DEFINE Rest ==
      /\ TypeOK' /\ UNCHANGED <<pc, row, cname>>
      /\ \A d \in Deploys : crow'[d] = "none" => crow[d] = "none"
      /\ \A a \in Apps : current'[a] \in {current[a], None}
<1>1. ASSUME NEW r \in Requests, Request(r) PROVE Rest
  <2>1. CASE Drive(r) \/ MarkDriven(r)
    BY <2>1 DEF Drive, MarkDriven
  <2>2. CASE ReadCurrent(r) \/ CompareApps(r) \/ QueryCurrent(r) \/ ReadHistory(r) \/ Leaves(r)
    BY <2>2 DEF ReadCurrent, CompareApps, QueryCurrent, ReadHistory, Leaves, vars
  <2>3. CASE RemoveOrphan(r) \/ ComposeDown(r) \/ RemoveCurrent(r)
    BY <2>3 DEF RemoveOrphan, ComposeDown, RemoveCurrent, Removed
  <2>4. CASE DeleteRow(r)
    BY <2>4 DEF DeleteRow
  <2>5. ASSUME NEW a \in Apps, ClearEdge(r, a) PROVE Rest
    BY <2>5 DEF ClearEdge
  <2>6. ASSUME NEW n \in Names, RemoveHistorical(r, n) PROVE Rest
    BY <2>6 DEF RemoveHistorical, Removed
  <2> QED
    BY <1>1, <2>1, <2>2, <2>3, <2>4, <2>5, <2>6 DEF Request
<1>2. ASSUME NEW r \in Requests, NewRequest(r) PROVE Rest
  BY <1>2 DEF NewRequest, ListContainers, ReadForDelete, ReadApp, CheckUntracked, vars
<1>3. ASSUME NEW a \in Apps, NEW n \in Names, CreateApp(a, n) \/ RenameApp(a, n) PROVE Rest
  BY <1>3 DEF CreateApp, RenameApp
<1>4. Rest
  BY <1>1, <1>2, <1>3 DEF OperatorPart
<1> QED
  BY <1>4 DEF Gentle, RowBeforeWorker, Finished

LEMMA MeanwhileInv == JanitorInv /\ Meanwhile => JanitorInv'
<1> SUFFICES ASSUME JanitorInv, Meanwhile PROVE JanitorInv'
  OBVIOUS
<1>1. Gentle
  <2>1. [OpsNext]_allVars
    BY DEF Meanwhile
  <2>2. PipelinePart \/ OperatorPart
    BY <2>1, TwoParts
  <2> QED
    BY <2>2, PipelineGentle, OperatorGentle DEF JanitorInv, PipelinePart
<1>2. AgedAreFinished'
  BY <1>1 DEF JanitorInv, Meanwhile, AgedAreFinished, Gentle
<1>3. LogsHaveRows' /\ LogsAreKept'
  <2>1. LogsHaveRows'
    BY <1>1 DEF JanitorInv, Meanwhile, LogsHaveRows, Gentle, RowBeforeWorker
  <2>2. LogsAreKept'
    BY <1>1 DEF JanitorInv, Meanwhile, LogsAreKept
  <2> QED
    BY <2>1, <2>2
<1>4. TaskInv'
  <2>1. CASE task' = NoTask
    BY <2>1 DEF TaskInv, NoTask
  <2>2. CASE task' = task
    <3>1. \A a \in Apps : current'[a] \in aged => current'[a] = current[a]
      BY <1>1, PipelineAssumption DEF JanitorInv, AgedAreFinished, Gentle, Finished
    <3>2. \A d \in Deploys : row[d] # "none" => row'[d] # "none"
      BY <1>1 DEF Gentle
    <3>3. aged' = aged
      BY DEF Meanwhile
    <3>5. TaskInv
      BY DEF JanitorInv
    <3>6. (task.at = "rows" => \A a \in Apps : current[a] \in aged => current[a] \in task.ids)'
      BY <2>2, <3>1, <3>3, <3>5 DEF TaskInv
    <3>7. (task.at = "containers" => /\ task.left \subseteq aged
                                     /\ \A a \in Apps : current[a] \notin task.left)'
      BY <2>2, <3>1, <3>3, <3>5 DEF TaskInv
    <3>8. (task.at = "oldLogs" => task.left \subseteq aged)'
      BY <2>2, <3>3, <3>5 DEF TaskInv
    <3>9. (task.at \in {"files", "unlink"} =>
             \A d \in Deploys : d \in task.left => row[d] # "none")'
      BY <2>2, <3>2, <3>5 DEF TaskInv
    <3>10. (task.at = "unlink" => task.file \notin Deploys)'
      BY <2>2, <3>5 DEF TaskInv
    <3> QED
      BY <3>6, <3>7, <3>8, <3>9, <3>10 DEF TaskInv
  <2> QED
    BY <2>1, <2>2 DEF Meanwhile
<1> QED
  BY <1>1, <1>2, <1>3, <1>4 DEF JanitorInv, Gentle

-----------------------------------------------------------------------------
(* The tasks themselves.                                                   *)
TaskStep ==
  PruneContainers \/ PruneOldLogs \/ PruneOrphanLogs \/ EndTask
  \/ \E d \in Deploys : SkipOne(d) \/ Age(d)

LEMMA TaskStepInv == JanitorInv /\ TaskStep => JanitorInv'
<1> SUFFICES ASSUME JanitorInv, TaskStep PROVE JanitorInv'
  OBVIOUS
<1>1. ASSUME UNCHANGED <<allVars, aged, logs>>, TaskInv' PROVE JanitorInv'
  BY <1>1 DEF allVars, vars, procVars, workVars, dbVars, dockerVars, JanitorInv, TypeOK, RowBeforeWorker,
              AgedAreFinished, Finished, LogsHaveRows, LogsAreKept
<1>2. CASE ReadCurrentIDs
  <2>1. TaskInv'
    <3>1. /\ task' = [at |-> "rows", ids |-> {current[a] : a \in Apps} \ {None}]
          /\ current' = current /\ aged' = aged
      BY <1>2 DEF ReadCurrentIDs, StartTask, Task, allVars, vars, dbVars
    <3>2. aged \subseteq Deploys
      BY DEF JanitorInv, AgedAreFinished
    <3>3. \A a \in Apps : current[a] \in aged => current[a] \in {current[b] : b \in Apps} \ {None}
      BY <3>2, PipelineAssumption
    <3> QED
      BY <3>1, <3>3 DEF TaskInv
  <2> QED
    BY <1>1, <1>2, <2>1 DEF ReadCurrentIDs
<1>3. CASE ReadOldContainers
  <2>1. TaskInv'
    BY <1>3 DEF ReadOldContainers, Task, TaskInv, JanitorInv, allVars, vars, dbVars
  <2> QED
    BY <1>1, <1>3, <2>1 DEF ReadOldContainers
<1>4. ASSUME NEW d \in Deploys, DeleteContainer(d) PROVE JanitorInv'
  <2>1. TypeOK'
    BY <1>4 DEF DeleteContainer, JanitorInv, TypeOK, procVars, workVars, dockerVars
  <2>2. TaskInv'
    BY <1>4 DEF DeleteContainer, Task, JanitorInv, TaskInv, TypeOK
  <2> QED
    BY <1>4, <2>1, <2>2 DEF DeleteContainer, JanitorInv, RowBeforeWorker, AgedAreFinished,
                            Finished, LogsHaveRows, LogsAreKept
<1>5. CASE ReadOldDeploys
  <2>1. TaskInv'
    BY <1>5 DEF ReadOldDeploys, StartTask, Task, TaskInv
  <2> QED
    BY <1>1, <1>5, <2>1 DEF ReadOldDeploys
<1>6. ASSUME NEW d \in Deploys, RemoveOldLog(d) PROVE JanitorInv'
  <2>1. TaskInv'
    BY <1>6 DEF RemoveOldLog, Task, JanitorInv, TaskInv
  <2>2. d \in aged
    BY <1>6 DEF RemoveOldLog, JanitorInv, TaskInv
  <2>3. LogsAreKept' /\ LogsHaveRows'
    BY <1>6, <2>2 DEF RemoveOldLog, JanitorInv, LogsAreKept, LogsHaveRows, allVars, vars, dbVars
  <2> QED
    BY <1>6, <2>1, <2>3 DEF RemoveOldLog, allVars, vars, procVars, workVars, dbVars, dockerVars, JanitorInv,
                            TypeOK, RowBeforeWorker, AgedAreFinished, Finished
<1>7. CASE ListLogs
  <2>1. TaskInv'
    BY <1>7 DEF ListLogs, StartTask, Task, TaskInv, JanitorInv, LogsHaveRows, allVars, vars, dbVars
  <2> QED
    BY <1>1, <1>7, <2>1 DEF ListLogs
<1>8. ASSUME NEW f \in Deploys \cup Strays, CheckFile(f) PROVE JanitorInv'
  <2>1. task.at = "files" /\ f \in task.left
    BY <1>8 DEF CheckFile
  <2>2. \A d \in Deploys : d \in task.left => row[d] # "none"
    BY <2>1 DEF JanitorInv, TaskInv
  <2>3. row' = row
    BY <1>8 DEF CheckFile, allVars, vars, dbVars
  <2>4. \/ task' = [at |-> "files", left |-> task.left \ {f}]
        \/ /\ task' = [at |-> "unlink", left |-> task.left \ {f}, file |-> f]
           /\ ~HasRow(f)
    BY <1>8 DEF CheckFile, Task
  <2>5. TaskInv'
    BY <2>1, <2>2, <2>3, <2>4 DEF TaskInv, HasRow
  <2> QED
    BY <1>1, <1>8, <2>5 DEF CheckFile
<1>9. CASE RemoveOrphanLog
  <2>1. TaskInv'
    BY <1>9 DEF RemoveOrphanLog, Task, JanitorInv, TaskInv, allVars, vars, dbVars
  <2>2. task.file \notin Deploys
    BY <1>9 DEF RemoveOrphanLog, Task, JanitorInv, TaskInv
  <2>3. LogsAreKept' /\ LogsHaveRows'
    BY <1>9, <2>2 DEF RemoveOrphanLog, JanitorInv, LogsAreKept, LogsHaveRows, allVars, vars, dbVars
  <2> QED
    BY <1>9, <2>1, <2>3 DEF RemoveOrphanLog, allVars, vars, procVars, workVars, dbVars, dockerVars,
                            JanitorInv, TypeOK, RowBeforeWorker, AgedAreFinished, Finished
<1>10. CASE SkipUnlink
  <2>1. TaskInv'
    BY <1>10 DEF SkipUnlink, Task, JanitorInv, TaskInv, allVars, vars, dbVars
  <2> QED
    BY <1>1, <1>10, <2>1 DEF SkipUnlink
<1>11. CASE EndTask
  <2>1. TaskInv'
    BY <1>11 DEF EndTask, Task, TaskInv, NoTask
  <2> QED
    BY <1>1, <1>11, <2>1 DEF EndTask
<1>12. ASSUME NEW d \in Deploys, SkipOne(d) PROVE JanitorInv'
  <2>1. TaskInv'
    BY <1>12 DEF SkipOne, Task, JanitorInv, TaskInv, allVars, vars, dbVars
  <2> QED
    BY <1>1, <1>12, <2>1 DEF SkipOne
<1>13. ASSUME NEW d \in Deploys, Age(d) PROVE JanitorInv'
  <2>1. TaskInv'
    BY <1>13 DEF Age, TaskInv, NoTask
  <2> QED
    BY <1>13, <2>1 DEF Age, allVars, vars, procVars, workVars, dbVars, dockerVars, JanitorInv, TypeOK,
                       RowBeforeWorker, AgedAreFinished, Finished, LogsHaveRows, LogsAreKept
<1> QED
  BY <1>2, <1>3, <1>4, <1>5, <1>6, <1>7, <1>8, <1>9, <1>10, <1>11, <1>12, <1>13
     DEF TaskStep, PruneContainers, PruneOldLogs, PruneOrphanLogs

LEMMA JanitorStep == JanitorInv /\ [JanitorNext]_everyVars => JanitorInv'
<1> SUFFICES ASSUME JanitorInv, [JanitorNext]_everyVars PROVE JanitorInv'
  OBVIOUS
<1>1. CASE UNCHANGED everyVars
  BY <1>1 DEF everyVars, janitorVars, allVars, vars, procVars, workVars, dbVars, dockerVars, JanitorInv,
              TypeOK, RowBeforeWorker, AgedAreFinished, Finished, LogsHaveRows, LogsAreKept,
              TaskInv
<1> QED
  BY <1>1, MeanwhileInv, TaskStepInv DEF JanitorNext, TaskStep

LEMMA JanitorInvariance == JanitorSpec => []JanitorInv
BY JanitorInitInv, JanitorStep, PTL DEF JanitorSpec

-----------------------------------------------------------------------------
(* No log is taken from a deploy that is not old, by either task.          *)
THEOREM LogsStay == JanitorSpec => []LogsAreKept
<1>1. JanitorInv => LogsAreKept
  BY DEF JanitorInv
<1> QED
  BY <1>1, JanitorInvariance, PTL

(* The pruning of container rows never hits an app's current one.          *)
THEOREM CurrentIsSpared == JanitorSpec => PruneSparesCurrent
<1> DEFINE Spared == \A d \in Deploys :
             crow[d] # "none" /\ crow'[d] = "none" => \A a \in Apps : current[a] # d
<1>1. JanitorInv /\ [JanitorNext]_everyVars => [Spared]_everyVars
  <2> SUFFICES ASSUME JanitorInv, JanitorNext, NEW d \in Deploys, crow[d] # "none",
                      crow'[d] = "none", NEW a \in Apps
               PROVE  current[a] # d
    OBVIOUS
  <2>1. CASE Meanwhile
    <3>1. [OpsNext]_allVars
      BY <2>1 DEF Meanwhile
    <3>2. Gentle
      BY <3>1, TwoParts, PipelineGentle, OperatorGentle DEF JanitorInv, PipelinePart
    <3> QED
      BY <3>2 DEF Gentle
  <2>2. ASSUME NEW e \in Deploys, DeleteContainer(e) PROVE current[a] # d
    <3>1. d = e
      BY <2>2 DEF DeleteContainer, JanitorInv, TypeOK
    <3> QED
      BY <2>2, <3>1 DEF DeleteContainer, JanitorInv, TaskInv
  <2>3. ASSUME ~Meanwhile, \A e \in Deploys : ~DeleteContainer(e) PROVE crow' = crow
    BY <2>3 DEF JanitorNext, PruneContainers, PruneOldLogs, PruneOrphanLogs, ReadCurrentIDs,
                ReadOldContainers, ReadOldDeploys, RemoveOldLog, ListLogs, RemoveOrphanLog,
                SkipUnlink, CheckFile, EndTask, SkipOne, Age, allVars, vars, dbVars
  <2> QED
    BY <2>1, <2>2, <2>3
<1> QED
  BY <1>1, JanitorInvariance, PTL DEF JanitorSpec, PruneSparesCurrent

-----------------------------------------------------------------------------
(* What the deploys and the operators rely on, with the janitor at work.   *)

TasksTypeOK ==
  /\ aged \in SUBSET Deploys
  /\ logs \in SUBSET (Deploys \cup Strays)
  /\ task \in TaskStates

HousekeepingInv == OpsInv /\ AdmissionInv /\ JanitorInv /\ TasksTypeOK

LEMMA OpsInvStep == OpsInv /\ [OpsNext]_allVars => OpsInv'
BY TwoParts, PipelinePartInv, OperatorPartInv

LEMMA TaskTypes ==
  /\ NoTask \in TaskStates
  /\ \A x \in SUBSET Deploys : /\ [at |-> "rows", ids |-> x] \in TaskStates
                               /\ [at |-> "containers", left |-> x] \in TaskStates
                               /\ [at |-> "oldLogs", left |-> x] \in TaskStates
  /\ \A x \in SUBSET (Deploys \cup Strays) :
       /\ [at |-> "files", left |-> x] \in TaskStates
       /\ \A f \in Deploys \cup Strays : [at |-> "unlink", left |-> x, file |-> f] \in TaskStates
BY DEF TaskStates

(* What a task carries fits the place it is at.                            *)
LEMMA TaskCarries ==
  ASSUME task \in TaskStates
  PROVE  /\ task.at \in {"containers", "oldLogs"} => task.left \in SUBSET Deploys
         /\ task.at \in {"files", "unlink"} => task.left \in SUBSET (Deploys \cup Strays)
BY DEF TaskStates, NoTask

(* Of the tasks' steps one is felt by deploys and operators: the DELETE of *)
(* a row that no worker and no edge leads to.                              *)
LEMMA DeleteIsHarmless ==
  ASSUME HousekeepingInv, NEW d \in Deploys, DeleteContainer(d)
  PROVE  OpsInv' /\ AdmissionInv' /\ UNCHANGED <<procVars, pc, row>>
<1> USE DEF HousekeepingInv, OpsInv, LockInv
<1>1. /\ UNCHANGED <<procVars, pc, workVars, appName, row, cname, dockerVars, opVars>>
      /\ crow' = [crow EXCEPT ![d] = "none"]
      /\ current' = [a \in Apps |-> IF current[a] = d THEN None ELSE current[a]]
  BY DEF DeleteContainer
<1>2. crow \in [Deploys -> {"none", "running", "exited"}] /\ current \in [Apps -> Deploys \cup {None}]
  BY DEF TypeOK
<1>3. TypeOK' /\ OpsTypeOK'
  BY <1>1, <1>2 DEF TypeOK, OpsTypeOK, opVars, procVars, workVars, dockerVars
<1>4. LockMatchesHolders' /\ DownIsQuiet'
  BY <1>1 DEF LockMatchesHolders, Holders, DownIsQuiet, procVars
<1>5. pc[d] \in {"done", "dead"}
  BY DEF DeleteContainer, JanitorInv, TaskInv, AgedAreFinished, Finished
<1>6. \A e \in Deploys : /\ Recorded(e)' => Recorded(e)
                         /\ Recorded(e) /\ e # d => Recorded(e)'
  BY <1>1, <1>2 DEF Recorded
<1>7. RecordedFirst'
  BY <1>1, <1>5, <1>6 DEF RecordedFirst, RowsHaveNames, WorkersKnowRows
<1>8. \A a \in Apps : current'[a] # None => current'[a] = current[a] /\ current[a] # d
  BY <1>1, PipelineAssumption
<1>9. EdgeInv'
  <2>1. \A e \in Deploys : AppOf[e] \in Apps
    BY PipelineAssumption
  <2>2. \A a \in Apps : current[a] = None => current'[a] = None
    BY <1>8
  <2> QED
    BY <1>1, <2>1, <2>2 DEF EdgeInv, EdgeStaysClear, NoneToRetire, workVars
<1>10. EdgeIsOwn'
  <2> SUFFICES ASSUME NEW a \in Apps, current'[a] # None
               PROVE  appName'[a] # None /\ AppOf[current'[a]] = a /\ Recorded(current[a])'
    BY DEF EdgeIsOwn
  <2>1. current'[a] = current[a] /\ current[a] # d /\ current[a] \in Deploys
    BY <1>2, <1>8
  <2> QED
    BY <1>1, <1>6, <2>1 DEF EdgeIsOwn, Recorded
<1>11. DrainSeesWorkers' /\ RowHistory'
  BY <1>1 DEF AdmissionInv, DrainSeesWorkers, RowHistory, procVars, workVars
<1> QED
  BY <1>1, <1>3, <1>4, <1>7, <1>9, <1>10, <1>11 DEF AdmissionInv

LEMMA TasksLeave ==
  ASSUME TaskStep, \A d \in Deploys : ~DeleteContainer(d)
  PROVE  UNCHANGED allVars
BY DEF TaskStep, PruneContainers, PruneOldLogs, PruneOrphanLogs, ReadCurrentIDs,
       ReadOldContainers, ReadOldDeploys, RemoveOldLog, ListLogs, RemoveOrphanLog,
       SkipUnlink, CheckFile, EndTask, SkipOne, Age

LEMMA TasksType ==
  ASSUME TypeOK, TasksTypeOK, TaskStep
  PROVE  TasksTypeOK'
<1> USE DEF TasksTypeOK, Task, StartTask
<1>1. CASE ReadCurrentIDs
  <2>1. {current[a] : a \in Apps} \ {None} \in SUBSET Deploys
    BY DEF TypeOK
  <2> QED
    BY <1>1, <2>1, TaskTypes DEF ReadCurrentIDs
<1>2. CASE ReadOldContainers
  <2>1. {d \in aged : crow[d] = "exited"} \ task.ids \in SUBSET Deploys
    OBVIOUS
  <2> QED
    BY <1>2, <2>1, TaskTypes DEF ReadOldContainers
<1>3. ASSUME NEW d \in Deploys, DeleteContainer(d) PROVE TasksTypeOK'
  BY <1>3, TaskTypes, TaskCarries DEF DeleteContainer
<1>4. CASE ReadOldDeploys
  <2>1. {d \in aged : row[d] \in {"success", "failed"}} \in SUBSET Deploys
    OBVIOUS
  <2> QED
    BY <1>4, <2>1, TaskTypes DEF ReadOldDeploys
<1>5. ASSUME NEW d \in Deploys, RemoveOldLog(d) PROVE TasksTypeOK'
  BY <1>5, TaskTypes, TaskCarries DEF RemoveOldLog
<1>6. CASE ListLogs
  BY <1>6, TaskTypes DEF ListLogs
<1>7. ASSUME NEW f \in Deploys \cup Strays, CheckFile(f) PROVE TasksTypeOK'
  <2>1. task.left \ {f} \in SUBSET (Deploys \cup Strays)
    BY <1>7, TaskCarries DEF CheckFile
  <2> QED
    BY <1>7, <2>1, TaskTypes DEF CheckFile
<1>8. CASE RemoveOrphanLog \/ SkipUnlink
  <2>1. task.left \in SUBSET (Deploys \cup Strays)
    BY <1>8, TaskCarries DEF RemoveOrphanLog, SkipUnlink
  <2> QED
    BY <1>8, <2>1, TaskTypes DEF RemoveOrphanLog, SkipUnlink
<1>9. CASE EndTask
  BY <1>9, TaskTypes DEF EndTask
<1>10. ASSUME NEW d \in Deploys, SkipOne(d) PROVE TasksTypeOK'
  <2>1. task.left \ {d} \in SUBSET Deploys /\ task.at \in {"containers", "oldLogs"}
    BY <1>10, TaskCarries DEF SkipOne
  <2>2. [at |-> task.at, left |-> task.left \ {d}] \in TaskStates
    BY <2>1, TaskTypes
  <2> QED
    BY <1>10, <2>2 DEF SkipOne
<1>11. ASSUME NEW d \in Deploys, Age(d) PROVE TasksTypeOK'
  BY <1>11 DEF Age
<1> HIDE DEF TasksTypeOK, Task, StartTask
<1> QED
  BY <1>1, <1>2, <1>3, <1>4, <1>5, <1>6, <1>7, <1>8, <1>9, <1>10, <1>11
     DEF TaskStep, PruneContainers, PruneOldLogs, PruneOrphanLogs

LEMMA HousekeepingInit == JanitorInit => HousekeepingInv
<1> SUFFICES ASSUME JanitorInit PROVE HousekeepingInv
  OBVIOUS
<1>1. OpsInv /\ AdmissionInv /\ JanitorInv
  BY OpsInitInv, OpsInitAdmission, JanitorInitInv DEF JanitorInit
<1>2. TasksTypeOK
  BY TaskTypes DEF JanitorInit, TasksTypeOK
<1> QED
  BY <1>1, <1>2 DEF HousekeepingInv

LEMMA HousekeepingStep ==
  HousekeepingInv /\ [JanitorNext]_everyVars =>
    HousekeepingInv' /\ [Contract!Next]_(Contract!vars)
<1> SUFFICES ASSUME HousekeepingInv, [JanitorNext]_everyVars
             PROVE  HousekeepingInv' /\ [Contract!Next]_(Contract!vars)
  OBVIOUS
<1>1. JanitorInv'
  BY JanitorStep DEF HousekeepingInv
<1>2. ASSUME [OpsNext]_allVars
      PROVE  OpsInv' /\ AdmissionInv' /\ [Contract!Next]_(Contract!vars)
  BY <1>2, OpsInvStep, AdmissionStep, OpsContractStep DEF HousekeepingInv
<1>3. CASE Meanwhile
  <2>1. TasksTypeOK'
    BY <1>3, TaskTypes DEF HousekeepingInv, TasksTypeOK, Meanwhile
  <2> QED
    BY <1>1, <1>2, <1>3, <2>1 DEF HousekeepingInv, Meanwhile
<1>4. CASE TaskStep
  <2>1. TasksTypeOK'
    BY <1>4, TasksType DEF HousekeepingInv, JanitorInv
  <2>2. CASE UNCHANGED allVars
    BY <1>1, <1>2, <2>1, <2>2 DEF HousekeepingInv
  <2>3. ASSUME NEW d \in Deploys, DeleteContainer(d)
        PROVE  OpsInv' /\ AdmissionInv' /\ UNCHANGED (Contract!vars)
    <3>1. OpsInv' /\ AdmissionInv' /\ UNCHANGED <<procVars, pc, row>>
      BY <2>3, DeleteIsHarmless
    <3> QED
      BY <3>1 DEF Contract!vars, Holders, procVars
  <2> QED
    BY <1>1, <1>4, <2>1, <2>2, <2>3, TasksLeave DEF HousekeepingInv
<1>5. CASE UNCHANGED everyVars
  <2>1. UNCHANGED allVars /\ TasksTypeOK'
    BY <1>5 DEF everyVars, janitorVars, HousekeepingInv, TasksTypeOK
  <2> QED
    BY <1>1, <1>2, <2>1 DEF HousekeepingInv
<1> QED
  BY <1>3, <1>4, <1>5 DEF JanitorNext, TaskStep

LEMMA Housekeeping == JanitorSpec => []HousekeepingInv
BY HousekeepingInit, HousekeepingStep, PTL DEF JanitorSpec

(* The tasks, the requests and the deploys keep their types together.      *)
THEOREM JanitorTypeCorrect == JanitorSpec => [](TypeOK /\ JanitorTypeOK)
<1>1. HousekeepingInv => TypeOK /\ JanitorTypeOK
  BY DEF HousekeepingInv, OpsInv, LockInv, TasksTypeOK, JanitorTypeOK
<1> QED
  BY <1>1, Housekeeping, PTL

(* The rows that cleanup.go deletes are never those that an edge leads to: *)
(* an edge still belongs to its app and leads to a row.                    *)
THEOREM EdgesOutliveJanitor == JanitorSpec => []EdgeIsOwn
<1>1. HousekeepingInv => EdgeIsOwn
  BY DEF HousekeepingInv, OpsInv
<1> QED
  BY <1>1, Housekeeping, PTL

(* With operators and the janitor at work the deploys still keep their     *)
(* contract: one at a time is admitted for an app, only it writes its      *)
(* outcome.                                                                *)
THEOREM JanitorRefinement == JanitorSpec => ContractSpec
<1>1. JanitorInit => Contract!Init
  BY DEF JanitorInit, OpsInit, Init, Contract!Init, Holders, HoldPCs, Body
<1> QED
  BY <1>1, HousekeepingStep, Housekeeping, PTL DEF JanitorSpec, ContractSpec, Contract!Spec
=============================================================================
