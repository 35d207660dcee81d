------------------------ MODULE DeployPipelineProofs ------------------------
(***************************************************************************)
(* Proofs about DeployPipeline, for any number of apps and deploys, either *)
(* deploy method, and every set of environment events.                     *)
(***************************************************************************)
EXTENDS DeployPipeline, TLAPS

(* A process that is down runs nothing.                                    *)
DownIsQuiet ==
  phase = "down" => \A d \in Deploys : pc[d] \in {"idle", "done", "dead"}

(* A worker past Load has read the app's name; names stay unique.          *)
NamesAgree ==
  /\ \A a, b \in Apps : appName[a] = appName[b] /\ appName[a] # None => a = b
  /\ \A d \in Deploys : cname[d] # None => cname[d] = appName[AppOf[d]]
  /\ \A d \in Deploys : pc[d] \in Body \ {"load"} => cname[d] # None

(* What the row of a deploy says at each stage of its worker.              *)
RowHistory ==
  /\ \A d \in Deploys :
       /\ pc[d] \in {"idle", "request", "acquired"} => row[d] = "none"
       /\ pc[d] \in {"spawned", "counted", "failing", "panicked"} \cup Body
            => row[d] \in {"running", "failed"}
       /\ pc[d] \in {"release", "deregister", "wgdone", "done"}
            => row[d] \in {"success", "failed"} \/ d \in lost
       /\ pc[d] \in {"release", "deregister", "wgdone"} => row[d] # "none"
  /\ \A d \in stragglers : row[d] # "none" /\ phase = "marking"

(* A worker that is past its container's row left it running, and past the *)
(* edge it is pointed at.                                                  *)
RowsFollow ==
  \A d \in Deploys : pc[d] \in {"point", "regen", "finish"} => crow[d] = "running"
EdgesFollow ==
  \A d \in Deploys : pc[d] \in {"regen", "finish"} => current[AppOf[d]] = d

(* The edge is clear when Prepare looks for the old container through it,  *)
(* so no worker has one to retire.                                         *)
NoneToRetire == \A d \in Deploys : old[d] = None
EdgeInv == EdgeStaysClear /\ NoneToRetire

(* The part of the invariant that does not depend on what happens to the   *)
(* apps and their containers; AppOpsProofs uses it too.                    *)
LockInv == TypeOK /\ LockMatchesHolders /\ DownIsQuiet

(* With it, what the contract is about: the rows and who may write them.   *)
AdmissionInv == LockInv /\ DrainSeesWorkers /\ RowHistory

(* With it, what the containers are about.                                 *)
ContainerInv ==
  /\ LockInv
  /\ NamesAgree
  /\ RowsFollow
  /\ OwnsContainer
  /\ EdgeInv
  /\ CurrentIsLive

IInv == AdmissionInv /\ ContainerInv /\ EdgesFollow

USE PipelineAssumption
USE DEF Body, HoldPCs, InflightPCs, CountedPCs, PCs, Alive, Phases, target

-----------------------------------------------------------------------------
LEMMA InitInv == Init => IInv
BY DEF Init, IInv, AdmissionInv, ContainerInv, LockInv, TypeOK, LockMatchesHolders, Holders,
       DrainSeesWorkers, DownIsQuiet, NamesAgree, RowHistory, RowsFollow, EdgesFollow,
       OwnsContainer, EdgeInv, EdgeStaysClear, NoneToRetire, CurrentIsLive

LEMMA TypeStep == TypeOK /\ [Next]_vars => TypeOK'
<1> SUFFICES ASSUME TypeOK, [Next]_vars PROVE TypeOK'
  OBVIOUS
<1> USE DEF TypeOK, Goto, procVars, workVars, dbVars, dockerVars
<1>1. ASSUME NEW d \in Deploys, Handler(d) PROVE TypeOK'
  BY <1>1 DEF Handler, Arrive, TryAcquire, Reject, CreateRow, CreateRowFails
<1>2. ASSUME NEW d \in Deploys, Proceed(d) PROVE TypeOK'
  <2>1. CASE Load(d) \/ ClearCurrent(d) \/ Prepare(d) \/ Pull(d) \/ RemoveOld(d)
    BY <2>1 DEF Load, ClearCurrent, Prepare, Pull, RemoveOld
  <2>2. CASE CreateContainer(d) \/ StartContainer(d) \/ CheckExists(d) \/ ComposeUp(d)
    BY <2>2 DEF CreateContainer, StartContainer, CheckExists, ComposeUp
  <2>3. CASE Wire(d) \/ RecordContainer(d) \/ SetCurrent(d) \/ Regenerate(d)
    BY <2>3 DEF Wire, RecordContainer, SetCurrent, Regenerate
  <2>4. CASE Finish(d)
    BY <2>4 DEF Finish, RetireOld
  <2> QED
    BY <1>2, <2>1, <2>2, <2>3, <2>4 DEF Proceed
<1>3. ASSUME NEW d \in Deploys, Fail(d) PROVE TypeOK'
  <2>1. CASE FinishLost(d)
    BY <2>1 DEF FinishLost, RetireOld
  <2>2. CASE StepFails(d) \/ RemoveOldFails(d) \/ ComposeUpFails(d)
    BY <2>2 DEF StepFails, RemoveOldFails, ComposeUpFails
  <2>3. CASE MarkFailed(d) \/ MarkFailedLost(d) \/ Recover(d) \/ RecoverLost(d)
    BY <2>3 DEF MarkFailed, MarkFailedLost, Recover, RecoverLost
  <2> QED
    BY <1>3, <2>1, <2>2, <2>3 DEF Fail
<1>4. ASSUME NEW d \in Deploys,
             Count(d) \/ Register(d) \/ Release(d) \/ Deregister(d) \/ Uncount(d)
      PROVE  TypeOK'
  BY <1>4 DEF Count, Register, Release, Deregister, Uncount
<1>5. ASSUME NEW d \in Deploys, Panic(d) \/ Expire(d) PROVE TypeOK'
  BY <1>5 DEF Panic, Expire
<1>6. CASE Shutdown
  BY <1>6 DEF Shutdown, Signal, HTTPClosed, Drained, DrainTimeout, MarkStraggler,
              MarkStragglerLost, MarkingDone
<1>7. CASE ProcessEnds \/ Boot \/ BootUnreconciled
  BY <1>7 DEF ProcessEnds, Boot, BootUnreconciled
<1>8. CASE UNCHANGED vars
  BY <1>8 DEF vars
<1> QED
  BY <1>1, <1>2, <1>3, <1>4, <1>5, <1>6, <1>7, <1>8 DEF Next, Worker

LEMMA LockStep == LockInv /\ [Next]_vars => LockMatchesHolders'
<1> SUFFICES ASSUME LockInv, [Next]_vars PROVE LockMatchesHolders'
  OBVIOUS
<1> USE DEF LockInv, TypeOK, Goto, procVars, workVars, dbVars, dockerVars, LockMatchesHolders, Holders, DownIsQuiet
<1>1. ASSUME NEW d \in Deploys, Handler(d) PROVE LockMatchesHolders'
  BY <1>1 DEF Handler, Arrive, TryAcquire, Reject, CreateRow, CreateRowFails
<1>2. ASSUME NEW d \in Deploys, Proceed(d) PROVE LockMatchesHolders'
  <2>1. CASE Load(d) \/ ClearCurrent(d) \/ Prepare(d) \/ Pull(d) \/ RemoveOld(d)
    BY <2>1 DEF Load, ClearCurrent, Prepare, Pull, RemoveOld
  <2>2. CASE CreateContainer(d) \/ StartContainer(d) \/ CheckExists(d) \/ ComposeUp(d)
    BY <2>2 DEF CreateContainer, StartContainer, CheckExists, ComposeUp
  <2>3. CASE Wire(d) \/ RecordContainer(d) \/ SetCurrent(d) \/ Regenerate(d)
    BY <2>3 DEF Wire, RecordContainer, SetCurrent, Regenerate
  <2>4. CASE Finish(d)
    BY <2>4 DEF Finish, RetireOld
  <2> QED
    BY <1>2, <2>1, <2>2, <2>3, <2>4 DEF Proceed
<1>3. ASSUME NEW d \in Deploys, Fail(d) PROVE LockMatchesHolders'
  <2>1. CASE FinishLost(d)
    BY <2>1 DEF FinishLost, RetireOld
  <2>2. CASE StepFails(d) \/ RemoveOldFails(d) \/ ComposeUpFails(d)
    BY <2>2 DEF StepFails, RemoveOldFails, ComposeUpFails
  <2>3. CASE MarkFailed(d) \/ MarkFailedLost(d) \/ Recover(d) \/ RecoverLost(d)
    BY <2>3 DEF MarkFailed, MarkFailedLost, Recover, RecoverLost
  <2> QED
    BY <1>3, <2>1, <2>2, <2>3 DEF Fail
<1>4. ASSUME NEW d \in Deploys,
             Count(d) \/ Register(d) \/ Release(d) \/ Deregister(d) \/ Uncount(d)
      PROVE  LockMatchesHolders'
  BY <1>4 DEF Count, Register, Release, Deregister, Uncount
<1>5. ASSUME NEW d \in Deploys, Panic(d) \/ Expire(d) PROVE LockMatchesHolders'
  BY <1>5 DEF Panic, Expire
<1>6. CASE Shutdown
  BY <1>6 DEF Shutdown, Signal, HTTPClosed, Drained, DrainTimeout, MarkStraggler,
              MarkStragglerLost, MarkingDone
<1>7. CASE ProcessEnds \/ Boot \/ BootUnreconciled
  BY <1>7 DEF ProcessEnds, Boot, BootUnreconciled, CurrentMissing
<1>8. CASE UNCHANGED vars
  BY <1>8 DEF vars
<1> QED
  BY <1>1, <1>2, <1>3, <1>4, <1>5, <1>6, <1>7, <1>8 DEF Next, Worker

LEMMA DrainStep == LockInv /\ DrainSeesWorkers /\ [Next]_vars => DrainSeesWorkers'
<1> SUFFICES ASSUME LockInv, DrainSeesWorkers, [Next]_vars PROVE DrainSeesWorkers'
  OBVIOUS
<1> USE DEF LockInv, TypeOK, Goto, procVars, workVars, dbVars, dockerVars, DrainSeesWorkers, DownIsQuiet
<1>1. ASSUME NEW d \in Deploys, Handler(d) PROVE DrainSeesWorkers'
  BY <1>1 DEF Handler, Arrive, TryAcquire, Reject, CreateRow, CreateRowFails
<1>2. ASSUME NEW d \in Deploys, Proceed(d) PROVE DrainSeesWorkers'
  <2>1. CASE Load(d) \/ ClearCurrent(d) \/ Prepare(d) \/ Pull(d) \/ RemoveOld(d)
    BY <2>1 DEF Load, ClearCurrent, Prepare, Pull, RemoveOld
  <2>2. CASE CreateContainer(d) \/ StartContainer(d) \/ CheckExists(d) \/ ComposeUp(d)
    BY <2>2 DEF CreateContainer, StartContainer, CheckExists, ComposeUp
  <2>3. CASE Wire(d) \/ RecordContainer(d) \/ SetCurrent(d) \/ Regenerate(d)
    BY <2>3 DEF Wire, RecordContainer, SetCurrent, Regenerate
  <2>4. CASE Finish(d)
    BY <2>4 DEF Finish, RetireOld
  <2> QED
    BY <1>2, <2>1, <2>2, <2>3, <2>4 DEF Proceed
<1>3. ASSUME NEW d \in Deploys, Fail(d) PROVE DrainSeesWorkers'
  <2>1. CASE FinishLost(d)
    BY <2>1 DEF FinishLost, RetireOld
  <2>2. CASE StepFails(d) \/ RemoveOldFails(d) \/ ComposeUpFails(d)
    BY <2>2 DEF StepFails, RemoveOldFails, ComposeUpFails
  <2>3. CASE MarkFailed(d) \/ MarkFailedLost(d) \/ Recover(d) \/ RecoverLost(d)
    BY <2>3 DEF MarkFailed, MarkFailedLost, Recover, RecoverLost
  <2> QED
    BY <1>3, <2>1, <2>2, <2>3 DEF Fail
<1>4. ASSUME NEW d \in Deploys,
             Count(d) \/ Register(d) \/ Release(d) \/ Deregister(d) \/ Uncount(d)
      PROVE  DrainSeesWorkers'
  BY <1>4 DEF Count, Register, Release, Deregister, Uncount
<1>5. ASSUME NEW d \in Deploys, Panic(d) \/ Expire(d) PROVE DrainSeesWorkers'
  BY <1>5 DEF Panic, Expire
<1>6. CASE Shutdown
  BY <1>6 DEF Shutdown, Signal, HTTPClosed, Drained, DrainTimeout, MarkStraggler,
              MarkStragglerLost, MarkingDone
<1>7. CASE ProcessEnds \/ Boot \/ BootUnreconciled
  BY <1>7 DEF ProcessEnds, Boot, BootUnreconciled, CurrentMissing
<1>8. CASE UNCHANGED vars
  BY <1>8 DEF vars
<1> QED
  BY <1>1, <1>2, <1>3, <1>4, <1>5, <1>6, <1>7, <1>8 DEF Next, Worker

LEMMA QuietStep == LockInv /\ [Next]_vars => DownIsQuiet'
<1> SUFFICES ASSUME LockInv, [Next]_vars PROVE DownIsQuiet'
  OBVIOUS
<1> USE DEF LockInv, TypeOK, Goto, procVars, workVars, dbVars, dockerVars, DownIsQuiet
<1>1. ASSUME NEW d \in Deploys, Handler(d) PROVE DownIsQuiet'
  BY <1>1 DEF Handler, Arrive, TryAcquire, Reject, CreateRow, CreateRowFails
<1>2. ASSUME NEW d \in Deploys, Proceed(d) PROVE DownIsQuiet'
  <2>1. CASE Load(d) \/ ClearCurrent(d) \/ Prepare(d) \/ Pull(d) \/ RemoveOld(d)
    BY <2>1 DEF Load, ClearCurrent, Prepare, Pull, RemoveOld
  <2>2. CASE CreateContainer(d) \/ StartContainer(d) \/ CheckExists(d) \/ ComposeUp(d)
    BY <2>2 DEF CreateContainer, StartContainer, CheckExists, ComposeUp
  <2>3. CASE Wire(d) \/ RecordContainer(d) \/ SetCurrent(d) \/ Regenerate(d)
    BY <2>3 DEF Wire, RecordContainer, SetCurrent, Regenerate
  <2>4. CASE Finish(d)
    BY <2>4 DEF Finish, RetireOld
  <2> QED
    BY <1>2, <2>1, <2>2, <2>3, <2>4 DEF Proceed
<1>3. ASSUME NEW d \in Deploys, Fail(d) PROVE DownIsQuiet'
  <2>1. CASE FinishLost(d)
    BY <2>1 DEF FinishLost, RetireOld
  <2>2. CASE StepFails(d) \/ RemoveOldFails(d) \/ ComposeUpFails(d)
    BY <2>2 DEF StepFails, RemoveOldFails, ComposeUpFails
  <2>3. CASE MarkFailed(d) \/ MarkFailedLost(d) \/ Recover(d) \/ RecoverLost(d)
    BY <2>3 DEF MarkFailed, MarkFailedLost, Recover, RecoverLost
  <2> QED
    BY <1>3, <2>1, <2>2, <2>3 DEF Fail
<1>4. ASSUME NEW d \in Deploys,
             Count(d) \/ Register(d) \/ Release(d) \/ Deregister(d) \/ Uncount(d)
      PROVE  DownIsQuiet'
  BY <1>4 DEF Count, Register, Release, Deregister, Uncount
<1>5. ASSUME NEW d \in Deploys, Panic(d) \/ Expire(d) PROVE DownIsQuiet'
  BY <1>5 DEF Panic, Expire
<1>6. CASE Shutdown
  BY <1>6 DEF Shutdown, Signal, HTTPClosed, Drained, DrainTimeout, MarkStraggler,
              MarkStragglerLost, MarkingDone
<1>7. CASE ProcessEnds \/ Boot \/ BootUnreconciled
  BY <1>7 DEF ProcessEnds, Boot, BootUnreconciled, CurrentMissing
<1>8. CASE UNCHANGED vars
  BY <1>8 DEF vars
<1> QED
  BY <1>1, <1>2, <1>3, <1>4, <1>5, <1>6, <1>7, <1>8 DEF Next, Worker

LEMMA NamesStep == ContainerInv /\ [Next]_vars => NamesAgree'
<1> SUFFICES ASSUME ContainerInv, [Next]_vars PROVE NamesAgree'
  OBVIOUS
<1> USE DEF ContainerInv, LockInv, TypeOK, Goto, procVars, workVars, dbVars, dockerVars, NamesAgree
<1>1. ASSUME NEW d \in Deploys, Handler(d) PROVE NamesAgree'
  BY <1>1 DEF Handler, Arrive, TryAcquire, Reject, CreateRow, CreateRowFails
<1>2. ASSUME NEW d \in Deploys, Proceed(d) PROVE NamesAgree'
  <2>1. CASE Load(d) \/ ClearCurrent(d) \/ Prepare(d) \/ Pull(d) \/ RemoveOld(d)
    BY <2>1 DEF Load, ClearCurrent, Prepare, Pull, RemoveOld
  <2>2. CASE CreateContainer(d) \/ StartContainer(d) \/ CheckExists(d) \/ ComposeUp(d)
    BY <2>2 DEF CreateContainer, StartContainer, CheckExists, ComposeUp
  <2>3. CASE Wire(d) \/ RecordContainer(d) \/ SetCurrent(d) \/ Regenerate(d)
    BY <2>3 DEF Wire, RecordContainer, SetCurrent, Regenerate
  <2>4. CASE Finish(d)
    BY <2>4 DEF Finish, RetireOld, EdgeInv, EdgeStaysClear, NoneToRetire
  <2> QED
    BY <1>2, <2>1, <2>2, <2>3, <2>4 DEF Proceed
<1>3. ASSUME NEW d \in Deploys, Fail(d) PROVE NamesAgree'
  <2>1. CASE FinishLost(d)
    BY <2>1 DEF FinishLost, RetireOld, EdgeInv, EdgeStaysClear, NoneToRetire
  <2>2. CASE StepFails(d) \/ RemoveOldFails(d) \/ ComposeUpFails(d)
    BY <2>2 DEF StepFails, RemoveOldFails, ComposeUpFails
  <2>3. CASE MarkFailed(d) \/ MarkFailedLost(d) \/ Recover(d) \/ RecoverLost(d)
    BY <2>3 DEF MarkFailed, MarkFailedLost, Recover, RecoverLost
  <2> QED
    BY <1>3, <2>1, <2>2, <2>3 DEF Fail
<1>4. ASSUME NEW d \in Deploys,
             Count(d) \/ Register(d) \/ Release(d) \/ Deregister(d) \/ Uncount(d)
      PROVE  NamesAgree'
  BY <1>4 DEF Count, Register, Release, Deregister, Uncount
<1>5. ASSUME NEW d \in Deploys, Panic(d) \/ Expire(d) PROVE NamesAgree'
  BY <1>5 DEF Panic, Expire
<1>6. CASE Shutdown
  BY <1>6 DEF Shutdown, Signal, HTTPClosed, Drained, DrainTimeout, MarkStraggler,
              MarkStragglerLost, MarkingDone
<1>7. CASE ProcessEnds \/ Boot \/ BootUnreconciled
  BY <1>7 DEF ProcessEnds, Boot, BootUnreconciled, CurrentMissing
<1>8. CASE UNCHANGED vars
  BY <1>8 DEF vars
<1> QED
  BY <1>1, <1>2, <1>3, <1>4, <1>5, <1>6, <1>7, <1>8 DEF Next, Worker

LEMMA HistoryStep == AdmissionInv /\ [Next]_vars => RowHistory'
<1> SUFFICES ASSUME AdmissionInv, [Next]_vars PROVE RowHistory'
  OBVIOUS
<1> USE DEF AdmissionInv, LockInv, TypeOK, Goto, procVars, workVars, dbVars, dockerVars, RowHistory, LockMatchesHolders, Holders, DrainSeesWorkers, DownIsQuiet, EdgeInv, EdgeStaysClear, NoneToRetire
<1>1. ASSUME NEW d \in Deploys, Handler(d) PROVE RowHistory'
  BY <1>1 DEF Handler, Arrive, TryAcquire, Reject, CreateRow, CreateRowFails
<1>2. ASSUME NEW d \in Deploys, Proceed(d) PROVE RowHistory'
  <2>1. CASE Load(d) \/ ClearCurrent(d) \/ Prepare(d) \/ Pull(d) \/ RemoveOld(d)
    BY <2>1 DEF Load, ClearCurrent, Prepare, Pull, RemoveOld
  <2>2. CASE CreateContainer(d) \/ StartContainer(d) \/ CheckExists(d) \/ ComposeUp(d)
    BY <2>2 DEF CreateContainer, StartContainer, CheckExists, ComposeUp
  <2>3. CASE Wire(d) \/ RecordContainer(d) \/ SetCurrent(d) \/ Regenerate(d)
    BY <2>3 DEF Wire, RecordContainer, SetCurrent, Regenerate
  <2>4. CASE Finish(d)
    BY <2>4 DEF Finish, RetireOld
  <2> QED
    BY <1>2, <2>1, <2>2, <2>3, <2>4 DEF Proceed
<1>3. ASSUME NEW d \in Deploys, Fail(d) PROVE RowHistory'
  <2>1. CASE FinishLost(d)
    BY <2>1 DEF FinishLost, RetireOld
  <2>2. CASE StepFails(d) \/ RemoveOldFails(d) \/ ComposeUpFails(d)
    BY <2>2 DEF StepFails, RemoveOldFails, ComposeUpFails
  <2>3. CASE MarkFailed(d) \/ MarkFailedLost(d) \/ Recover(d) \/ RecoverLost(d)
    BY <2>3 DEF MarkFailed, MarkFailedLost, Recover, RecoverLost
  <2> QED
    BY <1>3, <2>1, <2>2, <2>3 DEF Fail
<1>4. ASSUME NEW d \in Deploys,
             Count(d) \/ Register(d) \/ Release(d) \/ Deregister(d) \/ Uncount(d)
      PROVE  RowHistory'
  BY <1>4 DEF Count, Register, Release, Deregister, Uncount
<1>5. ASSUME NEW d \in Deploys, Panic(d) \/ Expire(d) PROVE RowHistory'
  BY <1>5 DEF Panic, Expire
<1>6. CASE Shutdown
  BY <1>6 DEF Shutdown, Signal, HTTPClosed, Drained, DrainTimeout, MarkStraggler,
              MarkStragglerLost, MarkingDone
<1>7. CASE ProcessEnds \/ Boot \/ BootUnreconciled
  BY <1>7 DEF ProcessEnds, Boot, BootUnreconciled
<1>8. CASE UNCHANGED vars
  BY <1>8 DEF vars
<1> QED
  BY <1>1, <1>2, <1>3, <1>4, <1>5, <1>6, <1>7, <1>8 DEF Next, Worker

LEMMA RowsStep == ContainerInv /\ [Next]_vars => RowsFollow'
<1> SUFFICES ASSUME ContainerInv, [Next]_vars PROVE RowsFollow'
  OBVIOUS
<1> USE DEF ContainerInv, LockInv, TypeOK, Goto, procVars, workVars, dbVars, dockerVars, RowsFollow, LockMatchesHolders, Holders, EdgeInv, EdgeStaysClear, NoneToRetire
<1>1. ASSUME NEW d \in Deploys, Handler(d) PROVE RowsFollow'
  BY <1>1 DEF Handler, Arrive, TryAcquire, Reject, CreateRow, CreateRowFails
<1>2. ASSUME NEW d \in Deploys, Proceed(d) PROVE RowsFollow'
  <2>1. CASE Load(d) \/ ClearCurrent(d) \/ Prepare(d) \/ Pull(d) \/ RemoveOld(d)
    BY <2>1 DEF Load, ClearCurrent, Prepare, Pull, RemoveOld
  <2>2. CASE CreateContainer(d) \/ StartContainer(d) \/ CheckExists(d) \/ ComposeUp(d)
    BY <2>2 DEF CreateContainer, StartContainer, CheckExists, ComposeUp
  <2>3. CASE Wire(d) \/ RecordContainer(d) \/ SetCurrent(d) \/ Regenerate(d)
    BY <2>3 DEF Wire, RecordContainer, SetCurrent, Regenerate
  <2>4. CASE Finish(d)
    BY <2>4 DEF Finish, RetireOld, EdgeInv, EdgeStaysClear, NoneToRetire
  <2> QED
    BY <1>2, <2>1, <2>2, <2>3, <2>4 DEF Proceed
<1>3. ASSUME NEW d \in Deploys, Fail(d) PROVE RowsFollow'
  <2>1. CASE FinishLost(d)
    BY <2>1 DEF FinishLost, RetireOld, EdgeInv, EdgeStaysClear, NoneToRetire
  <2>2. CASE StepFails(d) \/ RemoveOldFails(d) \/ ComposeUpFails(d)
    BY <2>2 DEF StepFails, RemoveOldFails, ComposeUpFails
  <2>3. CASE MarkFailed(d) \/ MarkFailedLost(d) \/ Recover(d) \/ RecoverLost(d)
    BY <2>3 DEF MarkFailed, MarkFailedLost, Recover, RecoverLost
  <2> QED
    BY <1>3, <2>1, <2>2, <2>3 DEF Fail
<1>4. ASSUME NEW d \in Deploys,
             Count(d) \/ Register(d) \/ Release(d) \/ Deregister(d) \/ Uncount(d)
      PROVE  RowsFollow'
  BY <1>4 DEF Count, Register, Release, Deregister, Uncount
<1>5. ASSUME NEW d \in Deploys, Panic(d) \/ Expire(d) PROVE RowsFollow'
  BY <1>5 DEF Panic, Expire
<1>6. CASE Shutdown
  BY <1>6 DEF Shutdown, Signal, HTTPClosed, Drained, DrainTimeout, MarkStraggler,
              MarkStragglerLost, MarkingDone
<1>7. CASE ProcessEnds \/ Boot \/ BootUnreconciled
  BY <1>7 DEF ProcessEnds, Boot, BootUnreconciled, CurrentMissing
<1>8. CASE UNCHANGED vars
  BY <1>8 DEF vars
<1> QED
  BY <1>1, <1>2, <1>3, <1>4, <1>5, <1>6, <1>7, <1>8 DEF Next, Worker

LEMMA EdgesStep == LockInv /\ EdgesFollow /\ [Next]_vars => EdgesFollow'
<1> SUFFICES ASSUME LockInv, EdgesFollow, [Next]_vars PROVE EdgesFollow'
  OBVIOUS
<1> USE DEF LockInv, TypeOK, Goto, procVars, workVars, dbVars, dockerVars, EdgesFollow, LockMatchesHolders, Holders, EdgeInv, EdgeStaysClear, NoneToRetire
<1>1. ASSUME NEW d \in Deploys, Handler(d) PROVE EdgesFollow'
  BY <1>1 DEF Handler, Arrive, TryAcquire, Reject, CreateRow, CreateRowFails
<1>2. ASSUME NEW d \in Deploys, Proceed(d) PROVE EdgesFollow'
  <2>1. CASE Load(d) \/ ClearCurrent(d) \/ Prepare(d) \/ Pull(d) \/ RemoveOld(d)
    BY <2>1 DEF Load, ClearCurrent, Prepare, Pull, RemoveOld
  <2>2. CASE CreateContainer(d) \/ StartContainer(d) \/ CheckExists(d) \/ ComposeUp(d)
    BY <2>2 DEF CreateContainer, StartContainer, CheckExists, ComposeUp
  <2>3. CASE Wire(d) \/ RecordContainer(d) \/ SetCurrent(d) \/ Regenerate(d)
    BY <2>3 DEF Wire, RecordContainer, SetCurrent, Regenerate
  <2>4. CASE Finish(d)
    BY <2>4 DEF Finish, RetireOld, EdgeInv, EdgeStaysClear, NoneToRetire
  <2> QED
    BY <1>2, <2>1, <2>2, <2>3, <2>4 DEF Proceed
<1>3. ASSUME NEW d \in Deploys, Fail(d) PROVE EdgesFollow'
  <2>1. CASE FinishLost(d)
    BY <2>1 DEF FinishLost, RetireOld, EdgeInv, EdgeStaysClear, NoneToRetire
  <2>2. CASE StepFails(d) \/ RemoveOldFails(d) \/ ComposeUpFails(d)
    BY <2>2 DEF StepFails, RemoveOldFails, ComposeUpFails
  <2>3. CASE MarkFailed(d) \/ MarkFailedLost(d) \/ Recover(d) \/ RecoverLost(d)
    BY <2>3 DEF MarkFailed, MarkFailedLost, Recover, RecoverLost
  <2> QED
    BY <1>3, <2>1, <2>2, <2>3 DEF Fail
<1>4. ASSUME NEW d \in Deploys,
             Count(d) \/ Register(d) \/ Release(d) \/ Deregister(d) \/ Uncount(d)
      PROVE  EdgesFollow'
  BY <1>4 DEF Count, Register, Release, Deregister, Uncount
<1>5. ASSUME NEW d \in Deploys, Panic(d) \/ Expire(d) PROVE EdgesFollow'
  BY <1>5 DEF Panic, Expire
<1>6. CASE Shutdown
  BY <1>6 DEF Shutdown, Signal, HTTPClosed, Drained, DrainTimeout, MarkStraggler,
              MarkStragglerLost, MarkingDone
<1>7. CASE ProcessEnds \/ Boot \/ BootUnreconciled
  BY <1>7 DEF ProcessEnds, Boot, BootUnreconciled, CurrentMissing, DownIsQuiet
<1>8. CASE UNCHANGED vars
  BY <1>8 DEF vars
<1> QED
  BY <1>1, <1>2, <1>3, <1>4, <1>5, <1>6, <1>7, <1>8 DEF Next, Worker

LEMMA OwnsStep == ContainerInv /\ [Next]_vars => OwnsContainer'
<1> SUFFICES ASSUME ContainerInv, [Next]_vars PROVE OwnsContainer'
  OBVIOUS
<1> USE DEF ContainerInv, LockInv, TypeOK, Goto, procVars, workVars, dbVars, dockerVars, OwnsContainer, NamesAgree, LockMatchesHolders, Holders, EdgeInv, EdgeStaysClear, NoneToRetire
<1>1. ASSUME NEW d \in Deploys, Handler(d) PROVE OwnsContainer'
  BY <1>1 DEF Handler, Arrive, TryAcquire, Reject, CreateRow, CreateRowFails
<1>2. ASSUME NEW d \in Deploys, Proceed(d) PROVE OwnsContainer'
  <2>1. CASE Load(d) \/ ClearCurrent(d) \/ Prepare(d) \/ Pull(d) \/ RemoveOld(d)
    BY <2>1 DEF Load, ClearCurrent, Prepare, Pull, RemoveOld
  <2>2. CASE CreateContainer(d) \/ StartContainer(d) \/ CheckExists(d) \/ ComposeUp(d)
    BY <2>2 DEF CreateContainer, StartContainer, CheckExists, ComposeUp
  <2>3. CASE Wire(d) \/ RecordContainer(d) \/ SetCurrent(d) \/ Regenerate(d)
    BY <2>3 DEF Wire, RecordContainer, SetCurrent, Regenerate
  <2>4. CASE Finish(d)
    BY <2>4 DEF Finish, RetireOld, EdgeInv, EdgeStaysClear, NoneToRetire
  <2> QED
    BY <1>2, <2>1, <2>2, <2>3, <2>4 DEF Proceed
<1>3. ASSUME NEW d \in Deploys, Fail(d) PROVE OwnsContainer'
  <2>1. CASE FinishLost(d)
    BY <2>1 DEF FinishLost, RetireOld, EdgeInv, EdgeStaysClear, NoneToRetire
  <2>2. CASE StepFails(d) \/ RemoveOldFails(d) \/ ComposeUpFails(d)
    BY <2>2 DEF StepFails, RemoveOldFails, ComposeUpFails
  <2>3. CASE MarkFailed(d) \/ MarkFailedLost(d) \/ Recover(d) \/ RecoverLost(d)
    BY <2>3 DEF MarkFailed, MarkFailedLost, Recover, RecoverLost
  <2> QED
    BY <1>3, <2>1, <2>2, <2>3 DEF Fail
<1>4. ASSUME NEW d \in Deploys,
             Count(d) \/ Register(d) \/ Release(d) \/ Deregister(d) \/ Uncount(d)
      PROVE  OwnsContainer'
  BY <1>4 DEF Count, Register, Release, Deregister, Uncount
<1>5. ASSUME NEW d \in Deploys, Panic(d) \/ Expire(d) PROVE OwnsContainer'
  BY <1>5 DEF Panic, Expire
<1>6. CASE Shutdown
  BY <1>6 DEF Shutdown, Signal, HTTPClosed, Drained, DrainTimeout, MarkStraggler,
              MarkStragglerLost, MarkingDone
<1>7. CASE ProcessEnds \/ Boot \/ BootUnreconciled
  BY <1>7 DEF ProcessEnds, Boot, BootUnreconciled, CurrentMissing
<1>8. CASE UNCHANGED vars
  BY <1>8 DEF vars
<1> QED
  BY <1>1, <1>2, <1>3, <1>4, <1>5, <1>6, <1>7, <1>8 DEF Next, Worker

LEMMA EdgeStep == LockInv /\ EdgeInv /\ [Next]_vars => EdgeInv'
<1> SUFFICES ASSUME LockInv, EdgeInv, [Next]_vars PROVE EdgeInv'
  OBVIOUS
<1> USE DEF LockInv, TypeOK, Goto, procVars, workVars, dbVars, dockerVars, EdgeInv, EdgeStaysClear, NoneToRetire, LockMatchesHolders, Holders, DownIsQuiet
<1>1. ASSUME NEW d \in Deploys, Handler(d) PROVE EdgeInv'
  BY <1>1 DEF Handler, Arrive, TryAcquire, Reject, CreateRow, CreateRowFails
<1>2. ASSUME NEW d \in Deploys, Proceed(d) PROVE EdgeInv'
  <2>1. CASE Load(d) \/ ClearCurrent(d) \/ Prepare(d) \/ Pull(d) \/ RemoveOld(d)
    BY <2>1 DEF Load, ClearCurrent, Prepare, Pull, RemoveOld
  <2>2. CASE CreateContainer(d) \/ StartContainer(d) \/ CheckExists(d) \/ ComposeUp(d)
    BY <2>2 DEF CreateContainer, StartContainer, CheckExists, ComposeUp
  <2>3. CASE Wire(d) \/ RecordContainer(d) \/ SetCurrent(d) \/ Regenerate(d)
    BY <2>3 DEF Wire, RecordContainer, SetCurrent, Regenerate
  <2>4. CASE Finish(d)
    BY <2>4 DEF Finish, RetireOld, EdgeInv, EdgeStaysClear, NoneToRetire
  <2> QED
    BY <1>2, <2>1, <2>2, <2>3, <2>4 DEF Proceed
<1>3. ASSUME NEW d \in Deploys, Fail(d) PROVE EdgeInv'
  <2>1. CASE FinishLost(d)
    BY <2>1 DEF FinishLost, RetireOld, EdgeInv, EdgeStaysClear, NoneToRetire
  <2>2. CASE StepFails(d) \/ RemoveOldFails(d) \/ ComposeUpFails(d)
    BY <2>2 DEF StepFails, RemoveOldFails, ComposeUpFails
  <2>3. CASE MarkFailed(d) \/ MarkFailedLost(d) \/ Recover(d) \/ RecoverLost(d)
    BY <2>3 DEF MarkFailed, MarkFailedLost, Recover, RecoverLost
  <2> QED
    BY <1>3, <2>1, <2>2, <2>3 DEF Fail
<1>4. ASSUME NEW d \in Deploys,
             Count(d) \/ Register(d) \/ Release(d) \/ Deregister(d) \/ Uncount(d)
      PROVE  EdgeInv'
  BY <1>4 DEF Count, Register, Release, Deregister, Uncount
<1>5. ASSUME NEW d \in Deploys, Panic(d) \/ Expire(d) PROVE EdgeInv'
  BY <1>5 DEF Panic, Expire
<1>6. CASE Shutdown
  BY <1>6 DEF Shutdown, Signal, HTTPClosed, Drained, DrainTimeout, MarkStraggler,
              MarkStragglerLost, MarkingDone
<1>7. CASE ProcessEnds \/ Boot \/ BootUnreconciled
  BY <1>7 DEF ProcessEnds, Boot, BootUnreconciled, CurrentMissing
<1>8. CASE UNCHANGED vars
  BY <1>8 DEF vars
<1> QED
  BY <1>1, <1>2, <1>3, <1>4, <1>5, <1>6, <1>7, <1>8 DEF Next, Worker

LEMMA CurrentStep == ContainerInv /\ [Next]_vars => CurrentIsLive'
<1> SUFFICES ASSUME ContainerInv, [Next]_vars PROVE CurrentIsLive'
  OBVIOUS
<1> USE DEF ContainerInv, LockInv, TypeOK, Goto, procVars, workVars, dbVars, dockerVars, CurrentIsLive, NamesAgree, RowsFollow, OwnsContainer, EdgeInv, EdgeStaysClear, NoneToRetire, LockMatchesHolders, Holders
<1>1. ASSUME NEW d \in Deploys, Handler(d) PROVE CurrentIsLive'
  BY <1>1 DEF Handler, Arrive, TryAcquire, Reject, CreateRow, CreateRowFails
<1>2. ASSUME NEW d \in Deploys, Proceed(d) PROVE CurrentIsLive'
  <2>1. CASE Load(d) \/ ClearCurrent(d) \/ Prepare(d) \/ Pull(d) \/ RemoveOld(d)
    BY <2>1 DEF Load, ClearCurrent, Prepare, Pull, RemoveOld
  <2>2. CASE CreateContainer(d) \/ StartContainer(d) \/ CheckExists(d) \/ ComposeUp(d)
    BY <2>2 DEF CreateContainer, StartContainer, CheckExists, ComposeUp
  <2>3. CASE Wire(d) \/ RecordContainer(d) \/ SetCurrent(d) \/ Regenerate(d)
    BY <2>3 DEF Wire, RecordContainer, SetCurrent, Regenerate
  <2>4. CASE Finish(d)
    BY <2>4 DEF Finish, RetireOld, EdgeInv, EdgeStaysClear, NoneToRetire
  <2> QED
    BY <1>2, <2>1, <2>2, <2>3, <2>4 DEF Proceed
<1>3. ASSUME NEW d \in Deploys, Fail(d) PROVE CurrentIsLive'
  <2>1. CASE FinishLost(d)
    BY <2>1 DEF FinishLost, RetireOld, EdgeInv, EdgeStaysClear, NoneToRetire
  <2>2. CASE StepFails(d) \/ RemoveOldFails(d) \/ ComposeUpFails(d)
    BY <2>2 DEF StepFails, RemoveOldFails, ComposeUpFails
  <2>3. CASE MarkFailed(d) \/ MarkFailedLost(d) \/ Recover(d) \/ RecoverLost(d)
    BY <2>3 DEF MarkFailed, MarkFailedLost, Recover, RecoverLost
  <2> QED
    BY <1>3, <2>1, <2>2, <2>3 DEF Fail
<1>4. ASSUME NEW d \in Deploys,
             Count(d) \/ Register(d) \/ Release(d) \/ Deregister(d) \/ Uncount(d)
      PROVE  CurrentIsLive'
  BY <1>4 DEF Count, Register, Release, Deregister, Uncount
<1>5. ASSUME NEW d \in Deploys, Panic(d) \/ Expire(d) PROVE CurrentIsLive'
  BY <1>5 DEF Panic, Expire
<1>6. CASE Shutdown
  BY <1>6 DEF Shutdown, Signal, HTTPClosed, Drained, DrainTimeout, MarkStraggler,
              MarkStragglerLost, MarkingDone
<1>7. CASE ProcessEnds \/ Boot \/ BootUnreconciled
  BY <1>7 DEF ProcessEnds, Boot, BootUnreconciled, CurrentMissing
<1>8. CASE UNCHANGED vars
  BY <1>8 DEF vars
<1> QED
  BY <1>1, <1>2, <1>3, <1>4, <1>5, <1>6, <1>7, <1>8 DEF Next, Worker

-----------------------------------------------------------------------------
LEMMA LockInvStep == LockInv /\ [Next]_vars => LockInv'
BY TypeStep, LockStep, QuietStep DEF LockInv

LEMMA ContainerStep == ContainerInv /\ [Next]_vars => ContainerInv'
BY LockInvStep, NamesStep, RowsStep, OwnsStep, EdgeStep, CurrentStep DEF ContainerInv

LEMMA InvStep == IInv /\ [Next]_vars => IInv'
BY LockInvStep, DrainStep, HistoryStep, ContainerStep, EdgesStep DEF IInv, AdmissionInv

LEMMA Invariance == Spec => []IInv
BY InitInv, InvStep, PTL DEF Spec

(* Every variable keeps its type.                                          *)
THEOREM TypeCorrect == Spec => []TypeOK
<1>1. IInv => TypeOK
  BY DEF IInv, AdmissionInv, LockInv
<1> QED
  BY <1>1, Invariance, PTL

(* deploy_lock.go: two deploys of one app never overlap, and no path keeps *)
(* or loses the lock: not a failed INSERT, not a panic, not a crash.       *)
THEOREM LockIsExact == Spec => []LockMatchesHolders
<1>1. IInv => LockMatchesHolders
  BY DEF IInv, AdmissionInv, LockInv
<1> QED
  BY <1>1, Invariance, PTL

(* shutdown.go: what DrainInflight counts and copies are the workers that  *)
(* have registered, all of them and no others.                             *)
THEOREM DrainIsExact == Spec => []DrainSeesWorkers
<1>1. IInv => DrainSeesWorkers
  BY DEF IInv, AdmissionInv
<1> QED
  BY <1>1, Invariance, PTL

(* deploy_executor.go: the container a worker records is the one it made,  *)
(* and the engine never refuses the name.                                  *)
THEOREM ContainerIsOwned == Spec => []OwnsContainer
<1>1. IInv => OwnsContainer
  BY DEF IInv, ContainerInv
<1> QED
  BY <1>1, Invariance, PTL

(* The current_container edge always leads to a live container of its app. *)
THEOREM CurrentAlwaysLive == Spec => []CurrentIsLive
<1>1. IInv => CurrentIsLive
  BY DEF IInv, ContainerInv
<1> QED
  BY <1>1, Invariance, PTL

(* deploy_executor.go:170: the UNIQUE index never rejects the new edge.    *)
THEOREM EdgeAlwaysClear == Spec => []EdgeStaysClear
<1>1. IInv => EdgeStaysClear
  BY DEF IInv, ContainerInv, EdgeInv
<1> QED
  BY <1>1, Invariance, PTL

(* A worker that is through has settled its row, or the write was lost.    *)
THEOREM WorkersSettle == Spec => []SettledUnlessLost
<1>1. IInv => SettledUnlessLost
  BY DEF IInv, AdmissionInv, RowHistory, SettledUnlessLost
<1> QED
  BY <1>1, Invariance, PTL

-----------------------------------------------------------------------------
(* Only Finish turns a row to "success".                                   *)
LEMMA OnlyFinishSucceeds ==
  ASSUME IInv, Next, NEW d \in Deploys, row'[d] = "success", row[d] # "success"
  PROVE  Finish(d)
<1> USE DEF IInv, AdmissionInv, LockInv, TypeOK, procVars, workVars, dbVars, dockerVars
<1>1. ASSUME NEW e \in Deploys, Handler(e) PROVE FALSE
  BY <1>1 DEF Handler, Arrive, TryAcquire, Reject, CreateRow, CreateRowFails
<1>2. ASSUME NEW e \in Deploys, Proceed(e) PROVE Finish(d)
  <2>1. CASE Finish(e)
    BY <2>1 DEF Finish
  <2> QED
    BY <1>2, <2>1 DEF Proceed, Load, ClearCurrent, Prepare, Pull, RemoveOld, CreateContainer,
       StartContainer, CheckExists, ComposeUp, Wire, RecordContainer, SetCurrent, Regenerate
<1>3. ASSUME NEW e \in Deploys, Fail(e) PROVE FALSE
  BY <1>3 DEF Fail, StepFails, RemoveOldFails, ComposeUpFails, FinishLost, MarkFailed,
     MarkFailedLost, Recover, RecoverLost
<1>4. ASSUME NEW e \in Deploys,
             Count(e) \/ Register(e) \/ Release(e) \/ Deregister(e) \/ Uncount(e)
      PROVE  FALSE
  BY <1>4 DEF Count, Register, Release, Deregister, Uncount
<1>5. ASSUME NEW e \in Deploys, Panic(e) \/ Expire(e) PROVE FALSE
  BY <1>5 DEF Panic, Expire
<1>6. ASSUME Shutdown PROVE FALSE
  BY <1>6 DEF Shutdown, Signal, HTTPClosed, Drained, DrainTimeout, MarkStraggler,
              MarkStragglerLost, MarkingDone
<1>7. ASSUME ProcessEnds \/ Boot \/ BootUnreconciled PROVE FALSE
  BY <1>7 DEF ProcessEnds, Boot, BootUnreconciled
<1> QED
  BY <1>1, <1>2, <1>3, <1>4, <1>5, <1>6, <1>7 DEF Next, Worker

(* A deploy becomes "success" only while it is the app's current one.      *)
THEOREM SuccessAlwaysCurrent == Spec => SuccessIsCurrent
<1> DEFINE A == \A d \in Deploys :
                  row'[d] = "success" /\ row[d] # "success" => current'[AppOf[d]] = d
<1>1. IInv /\ [Next]_vars => [A]_vars
  <2> SUFFICES ASSUME IInv, Next, NEW d \in Deploys,
                      row'[d] = "success", row[d] # "success"
               PROVE  current'[AppOf[d]] = d
    OBVIOUS
  <2>1. Finish(d)
    BY OnlyFinishSucceeds
  <2> QED
    BY <2>1 DEF Finish, Goto, IInv, EdgesFollow
<1> QED
  BY <1>1, Invariance, PTL DEF Spec, SuccessIsCurrent

-----------------------------------------------------------------------------
(* Every step of the pipeline is a step of the contract, or none.          *)
LEMMA ContractStep == AdmissionInv /\ [Next]_vars => [Contract!Next]_(Contract!vars)
<1> SUFFICES ASSUME AdmissionInv, [Next]_vars
             PROVE  [Contract!Next]_(Contract!vars)
  OBVIOUS
<1> DEFINE Stutter == /\ (phase' = "up") = (phase = "up")
                      /\ Holders' = Holders
                      /\ row' = row
<1>0. Stutter => UNCHANGED Contract!vars
  BY DEF Contract!vars
<1> USE DEF AdmissionInv, LockInv, TypeOK, Goto, procVars, workVars, dbVars, dockerVars, Holders
<1>1. ASSUME NEW d \in Deploys, Handler(d)
      PROVE  [Contract!Next]_(Contract!vars)
  <2>1. CASE TryAcquire(d)
    <3>1. Contract!Admit(d)
      BY <2>1 DEF TryAcquire, Contract!Admit, RowHistory, LockMatchesHolders
    <3> QED
      BY <3>1 DEF Contract!Next
  <2>2. CASE CreateRow(d)
    <3>1. Contract!Record(d)
      BY <2>2 DEF CreateRow, Contract!Record, RowHistory
    <3> QED
      BY <3>1 DEF Contract!Next
  <2>3. CASE CreateRowFails(d)
    <3>1. Contract!Leave(d)
      BY <2>3 DEF CreateRowFails, Contract!Leave
    <3> QED
      BY <3>1 DEF Contract!Next
  <2>4. CASE Arrive(d) \/ Reject(d)
    BY <2>4, <1>0 DEF Arrive, Reject
  <2> QED
    BY <1>1, <2>1, <2>2, <2>3, <2>4 DEF Handler
<1>2. ASSUME NEW d \in Deploys, Proceed(d)
      PROVE  [Contract!Next]_(Contract!vars)
  <2>1. CASE Finish(d)
    <3>1. Contract!Settle(d, "success")
      BY <2>1 DEF Finish, Contract!Settle, RowHistory
    <3> QED
      BY <3>1 DEF Contract!Next, Contract!Outcomes
  <2>2. CASE ~Finish(d)
    <3>1. Stutter
      BY <1>2, <2>2 DEF Proceed, Load, ClearCurrent, Prepare, Pull, RemoveOld, CreateContainer,
         StartContainer, CheckExists, ComposeUp, Wire, RecordContainer, SetCurrent, Regenerate
    <3> QED
      BY <3>1, <1>0
  <2> QED
    BY <2>1, <2>2
<1>3. ASSUME NEW d \in Deploys, Fail(d)
      PROVE  [Contract!Next]_(Contract!vars)
  <2>1. CASE MarkFailed(d) \/ Recover(d)
    <3>1. Contract!Settle(d, "failed")
      BY <2>1 DEF MarkFailed, Recover, Contract!Settle, RowHistory
    <3> QED
      BY <3>1 DEF Contract!Next, Contract!Outcomes
  <2>2. CASE ~(MarkFailed(d) \/ Recover(d))
    <3>1. Stutter
      BY <1>3, <2>2 DEF Fail, StepFails, RemoveOldFails, ComposeUpFails, FinishLost,
         MarkFailedLost, RecoverLost
    <3> QED
      BY <3>1, <1>0
  <2> QED
    BY <2>1, <2>2
<1>4. ASSUME NEW d \in Deploys,
             Count(d) \/ Register(d) \/ Release(d) \/ Deregister(d) \/ Uncount(d)
      PROVE  [Contract!Next]_(Contract!vars)
  <2>1. CASE Release(d)
    <3>1. Contract!Leave(d)
      BY <2>1 DEF Release, Contract!Leave
    <3> QED
      BY <3>1 DEF Contract!Next
  <2>2. CASE ~Release(d)
    <3>1. Stutter
      BY <1>4, <2>2 DEF Count, Register, Deregister, Uncount
    <3> QED
      BY <3>1, <1>0
  <2> QED
    BY <2>1, <2>2
<1>5. ASSUME NEW d \in Deploys, Panic(d) \/ Expire(d)
      PROVE  [Contract!Next]_(Contract!vars)
  BY <1>5, <1>0 DEF Panic, Expire
<1>6. CASE Shutdown
  <2>1. CASE Signal
    <3>1. Contract!Close
      BY <2>1 DEF Signal, Contract!Close
    <3> QED
      BY <3>1 DEF Contract!Next
  <2>2. ASSUME NEW d \in Deploys, MarkStraggler(d)
        PROVE  [Contract!Next]_(Contract!vars)
    <3>1. Contract!GiveUp(d)
      BY <2>2 DEF MarkStraggler, Contract!GiveUp, RowHistory
    <3> QED
      BY <3>1 DEF Contract!Next
  <2>3. CASE \/ HTTPClosed \/ Drained \/ DrainTimeout \/ MarkingDone
             \/ \E d \in Deploys : MarkStragglerLost(d)
    BY <2>3, <1>0 DEF HTTPClosed, Drained, DrainTimeout, MarkingDone, MarkStragglerLost
  <2> QED
    BY <1>6, <2>1, <2>2, <2>3 DEF Shutdown
<1>7. CASE ProcessEnds
  <2>1. Contract!Die
    BY <1>7 DEF ProcessEnds, Contract!Die
  <2> QED
    BY <2>1 DEF Contract!Next
<1>8. CASE Boot \/ BootUnreconciled
  <2>1. Contract!Reopen
    BY <1>8 DEF Boot, BootUnreconciled, Contract!Reopen, DownIsQuiet
  <2> QED
    BY <2>1 DEF Contract!Next
<1>9. CASE UNCHANGED vars
  BY <1>9, <1>0 DEF vars
<1> QED
  BY <1>1, <1>2, <1>3, <1>4, <1>5, <1>6, <1>7, <1>8, <1>9 DEF Next, Worker

(* The pipeline implements the contract: deploys of one app exclude each   *)
(* other, only the one that holds the right writes its outcome, and after  *)
(* a success only a shutdown may overwrite it.                             *)
THEOREM Refinement == Spec => ContractSpec
<1>1. Init => Contract!Init
  BY DEF Init, Contract!Init, Holders
<1>2. IInv => AdmissionInv
  BY DEF IInv
<1> QED
  BY <1>1, <1>2, ContractStep, Invariance, PTL DEF Spec, ContractSpec, Contract!Spec
=============================================================================
