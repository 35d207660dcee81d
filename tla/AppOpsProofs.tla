---------------------------- MODULE AppOpsProofs ----------------------------
(***************************************************************************)
(* Proofs about AppOps, for any number of apps, deploys and concurrent     *)
(* requests, and every set of operations and of environment events.  They  *)
(* rest on the part of the pipeline's invariant that survives operations   *)
(* (LockInv); the part about containers does not: a stop, a deletion or an *)
(* orphan removal may hit the container that a worker has just made.       *)
(***************************************************************************)
EXTENDS AppOps, DeployPipelineProofs

(* A container row has a name, and a worker that is about to set the edge  *)
(* has inserted the row it will lead to.                                   *)
RowsHaveNames ==
  \A d \in Deploys : pc[d] \in Body \ {"load"} \/ Recorded(d) => cname[d] # None

WorkersKnowRows == \A d \in Deploys : pc[d] = "point" => Recorded(d)

RecordedFirst == RowsHaveNames /\ WorkersKnowRows

OpsInv ==
  /\ LockInv
  /\ OpsTypeOK
  /\ RecordedFirst
  /\ EdgeInv
  /\ EdgeIsOwn

USE PipelineAssumption, OpsAssumption DEF OpKinds, Body

-----------------------------------------------------------------------------
(* A step of AppOps is a step of the pipeline with the requests as they    *)
(* are (or, when the process ends, gone), or an operation that leaves the  *)
(* process, the lock and the workers alone.                                *)
PipelinePart ==
  /\ [Next]_vars
  /\ gone' = gone
  /\ req' = req \/ req' = [r \in Requests |-> Idle]

OperatorPart ==
  \/ \E r \in Requests : Request(r) \/ NewRequest(r)
  \/ \E a \in Apps, n \in Names : CreateApp(a, n) \/ RenameApp(a, n)

LEMMA TwoParts == [OpsNext]_allVars => PipelinePart \/ OperatorPart
BY DEF OpsNext, allVars, opVars, PipelinePart, OperatorPart, Next, ShutdownWithRequests

LEMMA IdleType == Idle \in RequestStates
BY DEF RequestStates

(* What a request carries is what the type says of the place it is at.     *)
LEMMA Carries ==
  ASSUME OpsTypeOK, NEW r \in Requests
  PROVE  /\ req[r].at = "load" => /\ req[r].app \in Apps /\ req[r].name \in Names
                                  /\ req[r].do \in {"start", "stop"}
         /\ req[r].at = "drive" => /\ req[r].row \in Deploys /\ req[r].name \in Names
                                   /\ req[r].do \in {"start", "stop"}
         /\ req[r].at = "mark" => req[r].row \in Deploys /\ req[r].do \in {"start", "stop"}
         /\ req[r].at = "clear" => /\ req[r].apps \subseteq Apps
                                   /\ \A a \in Apps :
                                        [req[r] EXCEPT !.apps = @ \ {a}] \in RequestStates
         /\ req[r].at = "down" => [req[r] EXCEPT !.at = "current"] \in RequestStates
         /\ req[r].at \in {"down", "current", "force", "history", "sweep"} => req[r].app \in Apps
         /\ req[r].at = "sweep" => /\ req[r].names \subseteq Names
                                   /\ \A n \in Names :
                                        [req[r] EXCEPT !.names = @ \ {n}] \in RequestStates
<1>1. req[r] \in RequestStates
  BY DEF OpsTypeOK
<1> QED
  BY <1>1 DEF RequestStates, Idle

LEMMA OpsInitInv == OpsInit => OpsInv
<1> SUFFICES ASSUME OpsInit PROVE OpsInv
  OBVIOUS
<1>1. LockInv
  BY InitInv DEF OpsInit, IInv, AdmissionInv
<1>2. OpsTypeOK
  BY IdleType DEF OpsInit, OpsTypeOK
<1>3. RecordedFirst /\ EdgeInv /\ EdgeIsOwn
  BY DEF OpsInit, Init, RecordedFirst, RowsHaveNames, WorkersKnowRows, Recorded,
         EdgeInv, EdgeStaysClear, NoneToRetire, EdgeIsOwn
<1> QED
  BY <1>1, <1>2, <1>3 DEF OpsInv

-----------------------------------------------------------------------------
(* The pipeline's part.                                                    *)

LEMMA PipelineKeepsNames ==
  TypeOK /\ [Next]_vars => appName' = appName
<1> SUFFICES ASSUME [Next]_vars PROVE appName' = appName
  OBVIOUS
<1> USE DEF procVars, workVars, dbVars
<1>1. ASSUME NEW d \in Deploys, Handler(d) PROVE appName' = appName
  BY <1>1 DEF Handler, Arrive, TryAcquire, Reject, CreateRow, CreateRowFails
<1>2. ASSUME NEW d \in Deploys, Proceed(d) PROVE appName' = appName
  BY <1>2 DEF Proceed, Load, ClearCurrent, Prepare, Pull, RemoveOld, CreateContainer,
              StartContainer, CheckExists, ComposeUp, Wire, RecordContainer, SetCurrent,
              Regenerate, Finish
<1>3. ASSUME NEW d \in Deploys, Fail(d) PROVE appName' = appName
  BY <1>3 DEF Fail, FinishLost, StepFails, RemoveOldFails, ComposeUpFails, MarkFailed,
              MarkFailedLost, Recover, RecoverLost
<1>4. ASSUME NEW d \in Deploys,
             Count(d) \/ Register(d) \/ Release(d) \/ Deregister(d) \/ Uncount(d)
             \/ Panic(d) \/ Expire(d)
      PROVE  appName' = appName
  BY <1>4 DEF Count, Register, Release, Deregister, Uncount, Panic, Expire
<1>5. CASE Shutdown
  BY <1>5 DEF Shutdown, Signal, HTTPClosed, Drained, DrainTimeout, MarkStraggler,
              MarkStragglerLost, MarkingDone
<1>6. CASE ProcessEnds \/ Boot \/ BootUnreconciled
  BY <1>6 DEF ProcessEnds, Boot, BootUnreconciled
<1>7. CASE UNCHANGED vars
  BY <1>7 DEF vars
<1> QED
  BY <1>1, <1>2, <1>3, <1>4, <1>5, <1>6, <1>7 DEF Next, Worker

(* Rows are recorded before they are pointed to, and stay.                 *)
LEMMA PipelineRecords ==
  TypeOK /\ RecordedFirst /\ EdgeInv /\ EdgeIsOwn /\ [Next]_vars =>
    /\ RecordedFirst'
    /\ \A d \in Deploys : Recorded(d) => Recorded(d)'
<1> SUFFICES ASSUME TypeOK, RecordedFirst, EdgeInv, EdgeIsOwn, [Next]_vars
             PROVE  RecordedFirst' /\ \A d \in Deploys : Recorded(d) => Recorded(d)'
  OBVIOUS
<1> USE DEF TypeOK, Goto, procVars, workVars, dbVars, Recorded, RecordedFirst, RowsHaveNames,
            WorkersKnowRows, EdgeInv, EdgeStaysClear, NoneToRetire, EdgeIsOwn
<1> DEFINE Goal == RecordedFirst' /\ \A d \in Deploys : Recorded(d) => Recorded(d)'
<1>1. ASSUME NEW d \in Deploys, Handler(d) PROVE Goal
  BY <1>1 DEF Handler, Arrive, TryAcquire, Reject, CreateRow, CreateRowFails
<1>2. ASSUME NEW d \in Deploys, Proceed(d) PROVE Goal
  <2>1. CASE Load(d) \/ ClearCurrent(d) \/ Prepare(d) \/ Pull(d) \/ RemoveOld(d)
    BY <2>1 DEF Load, ClearCurrent, Prepare, Pull, RemoveOld
  <2>2. CASE CreateContainer(d) \/ StartContainer(d) \/ CheckExists(d) \/ ComposeUp(d)
    BY <2>2 DEF CreateContainer, StartContainer, CheckExists, ComposeUp
  <2>3. CASE Wire(d) \/ RecordContainer(d) \/ SetCurrent(d) \/ Regenerate(d)
    BY <2>3 DEF Wire, RecordContainer, SetCurrent, Regenerate
  <2>4. CASE Finish(d)
    BY <2>4 DEF Finish, RetireOld
  <2> QED
    BY <1>2, <2>1, <2>2, <2>3, <2>4 DEF Proceed
<1>3. ASSUME NEW d \in Deploys, Fail(d) PROVE Goal
  <2>1. CASE FinishLost(d)
    BY <2>1 DEF FinishLost, RetireOld
  <2>2. CASE StepFails(d) \/ RemoveOldFails(d) \/ ComposeUpFails(d)
    BY <2>2 DEF StepFails, RemoveOldFails, ComposeUpFails
  <2>3. CASE MarkFailed(d) \/ MarkFailedLost(d) \/ Recover(d) \/ RecoverLost(d)
    BY <2>3 DEF MarkFailed, MarkFailedLost, Recover, RecoverLost
  <2> QED
    BY <1>3, <2>1, <2>2, <2>3 DEF Fail
<1>4. ASSUME NEW d \in Deploys,
             Count(d) \/ Register(d) \/ Release(d) \/ Deregister(d) \/ Uncount(d)
             \/ Panic(d) \/ Expire(d)
      PROVE  Goal
  BY <1>4 DEF Count, Register, Release, Deregister, Uncount, Panic, Expire
<1>5. CASE Shutdown
  BY <1>5 DEF Shutdown, Signal, HTTPClosed, Drained, DrainTimeout, MarkStraggler,
              MarkStragglerLost, MarkingDone
<1>6. CASE ProcessEnds \/ Boot \/ BootUnreconciled
  BY <1>6 DEF ProcessEnds, Boot, BootUnreconciled
<1>7. CASE UNCHANGED vars
  BY <1>7 DEF vars
<1> QED
  BY <1>1, <1>2, <1>3, <1>4, <1>5, <1>6, <1>7 DEF Next, Worker

(* The pipeline moves an edge only to clear it, or to point it at the row  *)
(* of the worker that moves it.                                            *)
LEMMA PipelineMovesEdges ==
  TypeOK /\ [Next]_vars =>
    \A a \in Apps : \/ current'[a] \in {current[a], None}
                    \/ \E d \in Deploys : /\ current'[a] = d /\ AppOf[d] = a
                                          /\ pc[d] = "point" /\ appName[a] # None
<1> SUFFICES ASSUME TypeOK, [Next]_vars, NEW a \in Apps
             PROVE  \/ current'[a] \in {current[a], None}
                    \/ \E d \in Deploys : /\ current'[a] = d /\ AppOf[d] = a
                                          /\ pc[d] = "point" /\ appName[a] # None
  OBVIOUS
<1> USE DEF TypeOK, Goto, procVars, workVars, dbVars
<1>1. ASSUME NEW d \in Deploys, Handler(d) PROVE current' = current
  BY <1>1 DEF Handler, Arrive, TryAcquire, Reject, CreateRow, CreateRowFails
<1>2. ASSUME NEW d \in Deploys, Proceed(d)
      PROVE  \/ current'[a] \in {current[a], None}
             \/ /\ current'[a] = d /\ AppOf[d] = a /\ pc[d] = "point" /\ appName[a] # None
  <2>1. CASE ClearCurrent(d)
    BY <2>1 DEF ClearCurrent
  <2>2. CASE SetCurrent(d)
    BY <2>2 DEF SetCurrent
  <2>3. CASE ~ClearCurrent(d) /\ ~SetCurrent(d)
    BY <1>2, <2>3 DEF Proceed, Load, Prepare, Pull, RemoveOld, CreateContainer, StartContainer,
              CheckExists, ComposeUp, Wire, RecordContainer, Regenerate, Finish
  <2> QED
    BY <2>1, <2>2, <2>3
<1>3. ASSUME NEW d \in Deploys, Fail(d) PROVE current' = current
  BY <1>3 DEF Fail, FinishLost, StepFails, RemoveOldFails, ComposeUpFails, MarkFailed,
              MarkFailedLost, Recover, RecoverLost
<1>4. ASSUME NEW d \in Deploys,
             Count(d) \/ Register(d) \/ Release(d) \/ Deregister(d) \/ Uncount(d)
             \/ Panic(d) \/ Expire(d)
      PROVE  current' = current
  BY <1>4 DEF Count, Register, Release, Deregister, Uncount, Panic, Expire
<1>5. CASE Shutdown
  BY <1>5 DEF Shutdown, Signal, HTTPClosed, Drained, DrainTimeout, MarkStraggler,
              MarkStragglerLost, MarkingDone
<1>6. CASE ProcessEnds \/ Boot \/ BootUnreconciled
  BY <1>6 DEF ProcessEnds, Boot, BootUnreconciled
<1>7. CASE UNCHANGED vars
  BY <1>7 DEF vars
<1> QED
  BY <1>1, <1>2, <1>3, <1>4, <1>5, <1>6, <1>7 DEF Next, Worker

LEMMA PipelinePartInv == OpsInv /\ PipelinePart => OpsInv'
<1> SUFFICES ASSUME OpsInv, PipelinePart PROVE OpsInv'
  OBVIOUS
<1> USE DEF OpsInv
<1>1. [Next]_vars /\ TypeOK
  BY DEF PipelinePart, LockInv
<1>2. LockInv'
  BY <1>1, TypeStep, LockStep, QuietStep DEF LockInv
<1>3. OpsTypeOK'
  BY IdleType DEF PipelinePart, OpsTypeOK
<1>4. appName' = appName
  BY <1>1, PipelineKeepsNames
<1>5. RecordedFirst' /\ \A d \in Deploys : Recorded(d) => Recorded(d)'
  BY <1>1, PipelineRecords
<1>6. EdgeInv'
  BY <1>1, EdgeStep
<1>7. EdgeIsOwn'
  <2> SUFFICES ASSUME NEW a \in Apps, current'[a] # None
               PROVE  appName'[a] # None /\ AppOf[current'[a]] = a /\ Recorded(current[a])'
    BY DEF EdgeIsOwn
  <2>0. current[a] \in Deploys \cup {None}
    BY <1>1 DEF TypeOK
  <2>1. CASE current'[a] = current[a]
    BY <2>0, <2>1, <1>4, <1>5 DEF EdgeIsOwn, Recorded
  <2>2. CASE current'[a] # current[a]
    <3>1. PICK d \in Deploys : /\ current'[a] = d /\ AppOf[d] = a
                               /\ pc[d] = "point" /\ appName[a] # None
      BY <2>2, <1>1, PipelineMovesEdges
    <3>2. Recorded(d)'
      BY <3>1, <1>5 DEF RecordedFirst, WorkersKnowRows
    <3> QED
      BY <3>1, <3>2, <1>4 DEF Recorded
  <2> QED
    BY <2>1, <2>2
<1> QED
  BY <1>2, <1>3, <1>5, <1>6, <1>7

-----------------------------------------------------------------------------
(* The operators' part.                                                    *)

LEMMA RequestType ==
  ASSUME LockInv, OpsTypeOK, RecordedFirst, EdgeIsOwn, NEW r \in Requests, Request(r)
  PROVE  TypeOK' /\ OpsTypeOK'
<1> USE DEF LockInv, TypeOK, procVars, workVars, dbVars, dockerVars
<1>1. CASE Drive(r)
  <2>1. [at |-> "mark", do |-> req[r].do, row |-> req[r].row] \in RequestStates
    BY <1>1, Carries DEF Drive, RequestStates
  <2> QED
    BY <1>1, <2>1, Carries DEF Drive, OpsTypeOK
<1>2. CASE MarkDriven(r)
  BY <1>2, IdleType, Carries DEF MarkDriven, OpsTypeOK
<1>3. CASE CompareApps(r)
  <2>1. [at |-> "clear", apps |-> {a \in Apps : current[a] # None
            /\ cname[current[a]] \notin req[r].names}] \in RequestStates
    BY DEF RequestStates
  <2> QED
    BY <1>3, <2>1 DEF CompareApps, OpsTypeOK, vars
<1>4. CASE RemoveOrphan(r)
  BY <1>4, IdleType DEF RemoveOrphan, Removed, Step, OpsTypeOK
<1>5. CASE ComposeDown(r)
  BY <1>5, Carries DEF ComposeDown, Removed, OpsTypeOK
<1>6. CASE RemoveCurrent(r)
  <2>1. [at |-> "history", app |-> req[r].app] \in RequestStates
    BY <1>6, Carries DEF RemoveCurrent, RequestStates
  <2> QED
    BY <1>6, <2>1, Carries DEF RemoveCurrent, Removed, OpsTypeOK
<1>7. CASE ReadHistory(r)
  <2> DEFINE names == {cname[d] : d \in {e \in Deploys : AppOf[e] = req[r].app /\ Recorded(e)}}
  <2>1. names \subseteq Names
    BY DEF RecordedFirst, RowsHaveNames
  <2>2. \E swept \in {{}, names} :
          req' = [req EXCEPT ![r] = [at |-> "sweep", app |-> req[r].app, names |-> swept]]
    BY <1>7 DEF ReadHistory
  <2> HIDE DEF names
  <2>3. PICK swept \in SUBSET Names :
          req' = [req EXCEPT ![r] = [at |-> "sweep", app |-> req[r].app, names |-> swept]]
    BY <2>1, <2>2
  <2>4. [at |-> "sweep", app |-> req[r].app, names |-> swept] \in RequestStates
    BY <1>7, Carries DEF ReadHistory, RequestStates
  <2> QED
    BY <1>7, <2>3, <2>4 DEF ReadHistory, OpsTypeOK, vars
<1>8. CASE DeleteRow(r)
  BY <1>8, IdleType, Carries DEF DeleteRow, OpsTypeOK
<1>9. CASE Leaves(r)
  BY <1>9, IdleType DEF Leaves, OpsTypeOK, vars
<1>10. ASSUME NEW a \in Apps, ClearEdge(r, a) PROVE TypeOK' /\ OpsTypeOK'
  BY <1>10, Carries DEF ClearEdge, OpsTypeOK
<1>11. ASSUME NEW n \in Names, RemoveHistorical(r, n) PROVE TypeOK' /\ OpsTypeOK'
  BY <1>11, Carries DEF RemoveHistorical, Removed, OpsTypeOK
<1>12. CASE ReadCurrent(r)
  <2> DEFINE a == req[r].app
             next == [at |-> "drive", do |-> req[r].do, row |-> current[a],
                      name |-> IF a \in ComposeApps THEN req[r].name ELSE cname[current[a]]]
  <2>1. a \in Apps /\ req[r].name \in Names /\ req[r].do \in {"start", "stop"}
    BY <1>12, Carries DEF ReadCurrent
  <2>2. current[a] \in Deploys /\ cname[current[a]] \in Names
    BY <1>12, <2>1 DEF ReadCurrent, EdgeIsOwn, RecordedFirst, RowsHaveNames
  <2>3. next \in RequestStates
    BY <2>1, <2>2 DEF RequestStates
  <2>4. req' = [req EXCEPT ![r] = next] /\ UNCHANGED <<vars, gone>>
    BY <1>12 DEF ReadCurrent
  <2> HIDE DEF next
  <2> QED
    BY <2>3, <2>4 DEF OpsTypeOK, vars
<1>13. CASE QueryCurrent(r)
  <2> DEFINE a == req[r].app
  <2>1. a \in Apps
    BY <1>13, Carries DEF QueryCurrent
  <2>2. [at |-> "history", app |-> a] \in RequestStates
    BY <2>1 DEF RequestStates
  <2>3. ASSUME current[a] # None
        PROVE  [at |-> "force", app |-> a, name |-> cname[current[a]]] \in RequestStates
    <3>1. cname[current[a]] \in Names
      BY <2>1, <2>3 DEF EdgeIsOwn, RecordedFirst, RowsHaveNames
    <3> QED
      BY <2>1, <3>1 DEF RequestStates
  <2> QED
    BY <1>13, <2>2, <2>3 DEF QueryCurrent, OpsTypeOK, vars
<1> QED
  BY <1>1, <1>2, <1>3, <1>4, <1>5, <1>6, <1>7, <1>8, <1>9, <1>10, <1>11, <1>12, <1>13
     DEF Request

LEMMA NewRequestType ==
  ASSUME LockInv, OpsTypeOK, NEW r \in Requests, NewRequest(r)
  PROVE  TypeOK' /\ OpsTypeOK'
<1> USE DEF LockInv, TypeOK, vars, procVars, workVars, dbVars, dockerVars, Start, Step, OpsTypeOK
<1>1. CASE ListContainers(r)
  <2>1. [at |-> "listed", names |-> {n \in Names : Present(n)}] \in RequestStates
    BY DEF RequestStates
  <2> QED
    BY <1>1, <2>1 DEF ListContainers
<1>2. ASSUME NEW a \in Apps, ReadForDelete(r, a) PROVE TypeOK' /\ OpsTypeOK'
  <2>1. [at |-> IF a \in ComposeApps THEN "down" ELSE "current", app |-> a,
         name |-> appName[a]] \in RequestStates
    BY <1>2 DEF ReadForDelete, RequestStates
  <2> QED
    BY <1>2, <2>1 DEF ReadForDelete
<1>3. ASSUME NEW a \in Apps, NEW do \in {"start", "stop"}, ReadApp(r, a, do)
      PROVE  TypeOK' /\ OpsTypeOK'
  <2>1. [at |-> "load", do |-> do, app |-> a, name |-> appName[a]] \in RequestStates
    BY <1>3 DEF ReadApp, RequestStates
  <2> QED
    BY <1>3, <2>1 DEF ReadApp
<1>4. ASSUME NEW n \in Names, CheckUntracked(r, n) PROVE TypeOK' /\ OpsTypeOK'
  <2>1. [at |-> "remove", name |-> n] \in RequestStates
    BY DEF RequestStates
  <2> QED
    BY <1>4, <2>1 DEF CheckUntracked
<1> HIDE DEF LockInv, TypeOK, OpsTypeOK, Start, Step
<1> QED
  BY <1>1, <1>2, <1>3, <1>4 DEF NewRequest

(* No operation touches the process, the lock or the workers, and rows     *)
(* that were inserted keep their name.                                     *)
LEMMA OperatorLeaves ==
  ASSUME OpsInv, OperatorPart
  PROVE  /\ UNCHANGED <<procVars, pc, workVars, cname>>
         /\ \A d \in Deploys : Recorded(d) => Recorded(d)'
         /\ \A d \in Deploys : Recorded(d)' => cname[d] # None
<1> DEFINE Goal == /\ UNCHANGED <<procVars, pc, workVars, cname>>
                   /\ \A d \in Deploys : Recorded(d) => Recorded(d)'
                   /\ \A d \in Deploys : Recorded(d)' => cname[d] # None
<1>0. \A d \in Deploys : Recorded(d) => cname[d] # None
  BY DEF OpsInv, RecordedFirst, RowsHaveNames
<1>1. SUFFICES ASSUME UNCHANGED <<procVars, pc, workVars, cname>>, crow' # crow PROVE Goal
  <2>1. ASSUME NEW r \in Requests, Request(r) \/ NewRequest(r)
        PROVE  UNCHANGED <<procVars, pc, workVars, cname>>
    BY <2>1 DEF Request, Drive, MarkDriven, CompareApps, RemoveOrphan, ComposeDown,
                QueryCurrent, RemoveCurrent, ReadHistory, DeleteRow, Leaves, ClearEdge,
                RemoveHistorical, NewRequest, ListContainers, ReadForDelete, ReadApp,
                ReadCurrent, CheckUntracked,
                vars, dbVars
  <2>2. ASSUME NEW a \in Apps, NEW n \in Names, CreateApp(a, n) \/ RenameApp(a, n)
        PROVE  UNCHANGED <<procVars, pc, workVars, cname>>
    BY <2>2 DEF CreateApp, RenameApp
  <2>3. UNCHANGED <<procVars, pc, workVars, cname>>
    BY <2>1, <2>2 DEF OperatorPart
  <2> QED
    BY <1>0, <2>3 DEF Recorded
<1>2. PICK r \in Requests : MarkDriven(r)
  <2>1. ASSUME NEW r \in Requests, Request(r), ~MarkDriven(r) PROVE crow' = crow
    BY <2>1 DEF Request, ReadCurrent, Drive, CompareApps, RemoveOrphan, ComposeDown,
                QueryCurrent, RemoveCurrent, ReadHistory, DeleteRow, Leaves, ClearEdge, RemoveHistorical, vars, dbVars
  <2>2. ASSUME NEW r \in Requests, NewRequest(r) PROVE crow' = crow
    BY <2>2 DEF NewRequest, ListContainers, ReadForDelete, ReadApp, CheckUntracked,
                vars, dbVars
  <2>3. ASSUME NEW a \in Apps, NEW n \in Names, CreateApp(a, n) \/ RenameApp(a, n)
        PROVE  crow' = crow
    BY <2>3 DEF CreateApp, RenameApp
  <2> QED
    BY <1>1, <2>1, <2>2, <2>3 DEF OperatorPart
<1>3. req[r].row \in Deploys /\ Recorded(req[r].row) /\ crow \in [Deploys -> {"none", "running", "exited"}]
  BY <1>2, Carries DEF MarkDriven, OpsInv, LockInv, TypeOK
<1> QED
  BY <1>0, <1>1, <1>2, <1>3 DEF MarkDriven, Recorded

LEMMA OperatorType ==
  ASSUME OpsInv, OperatorPart
  PROVE  TypeOK' /\ OpsTypeOK'
<1>1. ASSUME NEW r \in Requests, Request(r) \/ NewRequest(r) PROVE TypeOK' /\ OpsTypeOK'
  BY <1>1, RequestType, NewRequestType DEF OpsInv
<1>2. ASSUME NEW a \in Apps, NEW n \in Names, CreateApp(a, n) \/ RenameApp(a, n)
      PROVE  TypeOK' /\ OpsTypeOK'
  BY <1>2 DEF CreateApp, RenameApp, OpsInv, LockInv, TypeOK, OpsTypeOK, procVars, workVars, dockerVars,
              opVars
<1> QED
  BY <1>1, <1>2 DEF OperatorPart

(* Operations clear edges; an app loses its name together with its edge.   *)
LEMMA OperatorNames ==
  ASSUME OpsInv, OperatorPart
  PROVE  /\ \A a \in Apps : current'[a] \in {current[a], None}
         /\ \A a \in Apps : appName'[a] = None => appName[a] = None \/ current'[a] = None
<1> USE DEF OpsInv, LockInv, TypeOK
<1> DEFINE Goal == /\ \A a \in Apps : current'[a] \in {current[a], None}
                   /\ \A a \in Apps : appName'[a] = None => appName[a] = None \/ current'[a] = None
<1>1. ASSUME NEW r \in Requests, Request(r) PROVE Goal
  <2>1. CASE DeleteRow(r)
    BY <2>1, Carries DEF DeleteRow
  <2>2. ASSUME NEW a \in Apps, ClearEdge(r, a) PROVE Goal
    BY <2>2 DEF ClearEdge
  <2>3. ASSUME ~DeleteRow(r), \A a \in Apps : ~ClearEdge(r, a)
        PROVE  UNCHANGED <<appName, current>>
    BY <1>1, <2>3 DEF Request, ReadCurrent, Drive, MarkDriven, CompareApps, RemoveOrphan,
                      ComposeDown, QueryCurrent, RemoveCurrent, ReadHistory, Leaves, RemoveHistorical, vars, dbVars
  <2> QED
    BY <2>1, <2>2, <2>3
<1>2. ASSUME NEW r \in Requests, NewRequest(r) PROVE Goal
  BY <1>2 DEF NewRequest, ListContainers, ReadForDelete, ReadApp, CheckUntracked,
              vars, dbVars
<1>3. ASSUME NEW a \in Apps, NEW n \in Names, CreateApp(a, n) \/ RenameApp(a, n) PROVE Goal
  BY <1>3 DEF CreateApp, RenameApp
<1> QED
  BY <1>1, <1>2, <1>3 DEF OperatorPart

LEMMA OperatorPartInv == OpsInv /\ OperatorPart => OpsInv'
<1> SUFFICES ASSUME OpsInv, OperatorPart PROVE OpsInv'
  OBVIOUS
<1>1. TypeOK' /\ OpsTypeOK'
  BY OperatorType
<1>2. LockInv'
  BY <1>1, OperatorLeaves
     DEF OpsInv, LockInv, LockMatchesHolders, Holders, DownIsQuiet, procVars
<1>3. RecordedFirst'
  <2>1. RowsHaveNames'
    BY OperatorLeaves DEF OpsInv, RecordedFirst, RowsHaveNames
  <2>2. WorkersKnowRows'
    BY OperatorLeaves DEF OpsInv, RecordedFirst, WorkersKnowRows, Recorded
  <2> QED
    BY <2>1, <2>2 DEF RecordedFirst
<1>4. EdgeIsOwn'
  <2> SUFFICES ASSUME NEW a \in Apps, current'[a] # None
               PROVE  appName'[a] # None /\ AppOf[current'[a]] = a /\ Recorded(current[a])'
    BY DEF EdgeIsOwn
  <2>1. current'[a] = current[a] /\ current[a] \in Deploys
    BY OperatorNames DEF OpsInv, LockInv, TypeOK
  <2>2. appName[a] # None /\ AppOf[current[a]] = a /\ Recorded(current[a])
    BY <2>1 DEF OpsInv, EdgeIsOwn
  <2> QED
    BY <2>1, <2>2, OperatorNames, OperatorLeaves DEF Recorded
<1>5. EdgeInv'
  BY OperatorLeaves, OperatorNames DEF OpsInv, LockInv, TypeOK, EdgeInv, EdgeStaysClear, NoneToRetire, workVars
<1> QED
  BY <1>1, <1>2, <1>3, <1>4, <1>5 DEF OpsInv

LEMMA OpsInvariance == OpsSpec => []OpsInv
BY TwoParts, OpsInitInv, PipelinePartInv, OperatorPartInv, PTL DEF OpsSpec

-----------------------------------------------------------------------------
(* What the contract is about is out of the operators' reach: deploys and  *)
(* their rows outlive the app (the foreign key becomes NULL).              *)

LEMMA OperatorLeavesRows ==
  ASSUME OperatorPart
  PROVE  row' = row
<1>1. ASSUME NEW r \in Requests, Request(r) \/ NewRequest(r) PROVE row' = row
  BY <1>1 DEF Request, Drive, MarkDriven, CompareApps, RemoveOrphan, ComposeDown,
              QueryCurrent, RemoveCurrent, ReadHistory, DeleteRow, Leaves, ClearEdge,
              RemoveHistorical, NewRequest, ListContainers, ReadForDelete, ReadApp,
              ReadCurrent, CheckUntracked,
              vars, dbVars
<1>2. ASSUME NEW a \in Apps, NEW n \in Names, CreateApp(a, n) \/ RenameApp(a, n)
      PROVE  row' = row
  BY <1>2 DEF CreateApp, RenameApp
<1> QED
  BY <1>1, <1>2 DEF OperatorPart

LEMMA AdmissionStep == OpsInv /\ AdmissionInv /\ [OpsNext]_allVars => AdmissionInv'
<1> SUFFICES ASSUME OpsInv, AdmissionInv, [OpsNext]_allVars PROVE AdmissionInv'
  OBVIOUS
<1>1. CASE PipelinePart
  <2>1. LockInv /\ DrainSeesWorkers /\ RowHistory /\ TypeOK /\ [Next]_vars
    BY <1>1 DEF AdmissionInv, LockInv, PipelinePart
  <2>2. LockInv'
    BY <2>1, TypeStep, LockStep, QuietStep DEF LockInv
  <2> QED
    BY <2>1, <2>2, DrainStep, HistoryStep DEF AdmissionInv
<1>2. CASE OperatorPart
  <2>1. LockInv'
    BY <1>2, OperatorPartInv DEF OpsInv
  <2>2. UNCHANGED <<procVars, pc, workVars, row>>
    BY <1>2, OperatorLeaves, OperatorLeavesRows
  <2>3. DrainSeesWorkers' /\ RowHistory'
    BY <2>2 DEF AdmissionInv, DrainSeesWorkers, RowHistory, procVars, workVars
  <2> QED
    BY <2>1, <2>3 DEF AdmissionInv
<1> QED
  BY <1>1, <1>2, TwoParts

LEMMA OpsInitAdmission == OpsInit => AdmissionInv
BY InitInv DEF OpsInit, IInv

LEMMA OpsAdmission == OpsSpec => []AdmissionInv
BY OpsInitAdmission, AdmissionStep, OpsInvariance, PTL DEF OpsSpec

LEMMA OpsContractStep ==
  OpsInv /\ AdmissionInv /\ [OpsNext]_allVars => [Contract!Next]_(Contract!vars)
<1> SUFFICES ASSUME OpsInv, AdmissionInv, [OpsNext]_allVars
             PROVE  [Contract!Next]_(Contract!vars)
  OBVIOUS
<1>1. CASE PipelinePart
  BY <1>1, ContractStep DEF PipelinePart
<1>2. CASE OperatorPart
  <2>1. UNCHANGED <<procVars, pc, row>>
    BY <1>2, OperatorLeaves, OperatorLeavesRows
  <2> QED
    BY <2>1 DEF Contract!vars, Holders, procVars
<1> QED
  BY <1>1, <1>2, TwoParts

-----------------------------------------------------------------------------
(* Creating apps and applying a reconcile do not reach a container: an     *)
(* edge is cleared, or an app gets a name that no app has.                 *)

HandsOff == Ops \subseteq {"create", "reconcile"}

OnlyReconciles == \A r \in Requests : req[r].at \in {"idle", "listed", "clear"}

LEMMA HandsOffRequest ==
  ASSUME HandsOff, OnlyReconciles, NEW r \in Requests, Request(r) \/ NewRequest(r)
  PROVE  \/ CompareApps(r) \/ Leaves(r) \/ ListContainers(r)
         \/ \E a \in Apps : ClearEdge(r, a)
BY DEF HandsOff, OnlyReconciles, Request, NewRequest, Drive, MarkDriven, RemoveOrphan, Step,
       ComposeDown, QueryCurrent, RemoveCurrent, ReadHistory, DeleteRow, RemoveHistorical,
       Start, ReadForDelete, ReadApp, ReadCurrent, CheckUntracked

LEMMA HandsOffRequests ==
  ASSUME HandsOff, OpsTypeOK, OnlyReconciles, NEW r \in Requests, Request(r) \/ NewRequest(r)
  PROVE  OnlyReconciles'
<1> USE DEF OpsTypeOK, OnlyReconciles
<1>1. CASE CompareApps(r)
  BY <1>1 DEF CompareApps
<1>2. CASE Leaves(r)
  BY <1>2 DEF Leaves, Idle
<1>3. CASE ListContainers(r)
  BY <1>3 DEF ListContainers, Start, Step
<1>4. ASSUME NEW a \in Apps, ClearEdge(r, a) PROVE OnlyReconciles'
  BY <1>4 DEF ClearEdge
<1> QED
  BY <1>1, <1>2, <1>3, <1>4, HandsOffRequest

(* The edges may be cleared under the containers' invariant.               *)
LEMMA ClearingKeeps ==
  ASSUME ContainerInv, UNCHANGED <<procVars, pc, workVars, appName, row, crow, cname, dockerVars>>,
         TypeOK', \A a \in Apps : current'[a] \in {current[a], None}
  PROVE  ContainerInv'
<1> USE DEF ContainerInv, LockInv, procVars, dockerVars
<1>1. LockInv'
  BY DEF LockMatchesHolders, Holders, DownIsQuiet
<1>2. NamesAgree' /\ RowsFollow' /\ OwnsContainer'
  <2>1. NamesAgree'
    BY DEF NamesAgree
  <2>2. RowsFollow'
    BY DEF RowsFollow
  <2>3. OwnsContainer'
    BY DEF OwnsContainer, target
  <2> QED
    BY <2>1, <2>2, <2>3
<1>3. EdgeInv'
  BY DEF TypeOK, EdgeInv, EdgeStaysClear, NoneToRetire, workVars
<1>4. CurrentIsLive'
  <2> SUFFICES ASSUME NEW a \in Apps, current'[a] # None
               PROVE  /\ AppOf[current'[a]] = a
                      /\ crow'[current'[a]] = "running" /\ cname'[current'[a]] # None
                      /\ engine'[cname'[current'[a]]] = "running"
                      /\ owner'[cname'[current'[a]]] = current'[a]
    BY DEF CurrentIsLive
  <2>1. current'[a] = current[a]
    OBVIOUS
  <2> QED
    BY <2>1 DEF CurrentIsLive
<1> QED
  BY <1>1, <1>2, <1>3, <1>4

LEMMA CreatingKeeps ==
  ASSUME ContainerInv, NEW a \in Apps, NEW n \in Names, CreateApp(a, n), TypeOK'
  PROVE  ContainerInv'
<1> USE DEF ContainerInv, LockInv, CreateApp, procVars, dockerVars
<1>1. LockInv'
  BY DEF LockMatchesHolders, Holders, DownIsQuiet
<1>2. NamesAgree'
  <2>1. \A b \in Apps : appName'[b] = IF b = a THEN n ELSE appName[b]
    BY DEF TypeOK
  <2>2. \A d \in Deploys : cname[d] # None => cname[d] = appName[AppOf[d]]
    BY DEF NamesAgree
  <2>3. \A d \in Deploys : cname[d] # None => AppOf[d] # a /\ cname[d] = appName'[AppOf[d]]
    BY <2>1, <2>2
  <2> QED
    BY <2>1, <2>3 DEF NamesAgree, Unnamed
<1>3. RowsFollow' /\ OwnsContainer' /\ EdgeInv' /\ CurrentIsLive'
  <2>1. RowsFollow'
    BY DEF RowsFollow
  <2>2. OwnsContainer'
    BY DEF OwnsContainer, target
  <2>3. EdgeInv' /\ CurrentIsLive'
    BY DEF EdgeInv, EdgeStaysClear, NoneToRetire, CurrentIsLive, workVars
  <2> QED
    BY <2>1, <2>2, <2>3
<1> QED
  BY <1>1, <1>2, <1>3

LEMMA HandsOffStep ==
  HandsOff /\ OpsInv /\ ContainerInv /\ OnlyReconciles /\ [OpsNext]_allVars =>
    ContainerInv' /\ OnlyReconciles'
<1> SUFFICES ASSUME HandsOff, OpsInv, ContainerInv, OnlyReconciles, [OpsNext]_allVars
             PROVE  ContainerInv' /\ OnlyReconciles'
  OBVIOUS
<1>1. CASE PipelinePart
  <2>1. ContainerInv'
    BY <1>1, ContainerStep DEF PipelinePart
  <2>2. OnlyReconciles'
    BY <1>1 DEF PipelinePart, OnlyReconciles, Idle
  <2> QED
    BY <2>1, <2>2
<1>2. ASSUME NEW r \in Requests, Request(r) \/ NewRequest(r)
      PROVE  ContainerInv' /\ OnlyReconciles'
  <2>1. TypeOK' /\ \A a \in Apps : current'[a] \in {current[a], None}
    BY <1>2, OperatorType, OperatorNames DEF OperatorPart
  <2>2. UNCHANGED <<procVars, pc, workVars, appName, row, crow, cname, dockerVars>>
    BY <1>2, HandsOffRequest
       DEF CompareApps, Leaves, ListContainers, ClearEdge, vars, dbVars, dockerVars
  <2>3. OnlyReconciles'
    BY <1>2, HandsOffRequests DEF OpsInv
  <2> QED
    BY <2>1, <2>2, <2>3, ClearingKeeps
<1>3. ASSUME NEW a \in Apps, NEW n \in Names, CreateApp(a, n) \/ RenameApp(a, n)
      PROVE  ContainerInv' /\ OnlyReconciles'
  <2>1. CreateApp(a, n)
    BY <1>3 DEF RenameApp, HandsOff
  <2>2. TypeOK'
    BY <1>3, OperatorType DEF OperatorPart
  <2>3. OnlyReconciles'
    BY <2>1 DEF CreateApp, OnlyReconciles, opVars
  <2> QED
    BY <2>1, <2>2, <2>3, CreatingKeeps
<1> QED
  BY <1>1, <1>2, <1>3, TwoParts DEF OperatorPart

(* As long as operators only create apps and apply reconciles, a worker    *)
(* builds its container undisturbed and an edge leads to a live container  *)
(* of its app: reconcile.go looks at the engine before the database and    *)
(* clears edges without another look, and no deploy is hurt by it.  Every  *)
(* other operation breaks this.                                            *)
THEOREM ReconcileSparesContainers ==
  ASSUME HandsOff
  PROVE  OpsSpec => [](OwnsContainer /\ CurrentIsLive)
<1>1. OpsInit => ContainerInv /\ OnlyReconciles
  BY InitInv DEF OpsInit, IInv, OnlyReconciles, Idle
<1>2. OpsInv /\ ContainerInv /\ OnlyReconciles /\ [OpsNext]_allVars =>
        (ContainerInv /\ OnlyReconciles)'
  BY HandsOffStep
<1>3. ContainerInv => OwnsContainer /\ CurrentIsLive
  BY DEF ContainerInv
<1> QED
  BY <1>1, <1>2, <1>3, OpsInvariance, PTL DEF OpsSpec

-----------------------------------------------------------------------------
(* The requests carry what their place says, at any time.                  *)
THEOREM OpsTypeCorrect == OpsSpec => [](TypeOK /\ OpsTypeOK)
<1>1. OpsInv => TypeOK /\ OpsTypeOK
  BY DEF OpsInv, LockInv
<1> QED
  BY <1>1, OpsInvariance, PTL

(* The deploy lock stays exact although apps are started, stopped, renamed *)
(* and deleted under the workers.                                          *)
THEOREM LockSurvivesOps == OpsSpec => []LockMatchesHolders
<1>1. OpsInv => LockMatchesHolders
  BY DEF OpsInv, LockInv
<1> QED
  BY <1>1, OpsInvariance, PTL

(* An edge is always the app's own and leads to an inserted row, however   *)
(* deletes, reconciles and deploys interleave.                             *)
THEOREM EdgesStayOwn == OpsSpec => []EdgeIsOwn
<1>1. OpsInv => EdgeIsOwn
  BY DEF OpsInv
<1> QED
  BY <1>1, OpsInvariance, PTL

(* apps_deploy.go: the edge that a worker has cleared stays clear until it *)
(* sets it, whatever operators do meanwhile: none of them sets an edge.    *)
THEOREM EdgeStaysClearUnderOps == OpsSpec => []EdgeStaysClear
<1>1. OpsInv => EdgeStaysClear
  BY DEF OpsInv, EdgeInv
<1> QED
  BY <1>1, OpsInvariance, PTL

(* shutdown.go: the drain counts and copies the registered workers, all,   *)
(* also while requests are handled that drive or delete their apps.        *)
THEOREM DrainSurvivesOps == OpsSpec => []DrainSeesWorkers
<1>1. AdmissionInv => DrainSeesWorkers
  BY DEF AdmissionInv
<1> QED
  BY <1>1, OpsAdmission, PTL

(* A worker that is through has settled its row, or the write was lost,    *)
(* even when its app was renamed or deleted under it.                      *)
THEOREM WorkersSettleUnderOps == OpsSpec => []SettledUnlessLost
<1>1. AdmissionInv => SettledUnlessLost
  BY DEF AdmissionInv, RowHistory, SettledUnlessLost
<1> QED
  BY <1>1, OpsAdmission, PTL

(* Whatever operators do to apps meanwhile, deploys keep the contract: one *)
(* at a time is admitted for an app, only it writes its outcome, and after *)
(* a success only a shutdown may overwrite it.                             *)
THEOREM OpsRefinement == OpsSpec => ContractSpec
<1>1. OpsInit => Contract!Init
  BY DEF OpsInit, Init, Contract!Init, Holders, HoldPCs
<1> QED
  BY <1>1, OpsContractStep, OpsAdmission, OpsInvariance, PTL
     DEF OpsSpec, ContractSpec, Contract!Spec
=============================================================================
