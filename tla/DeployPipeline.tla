--------------------------- MODULE DeployPipeline ---------------------------
(***************************************************************************)
(* The deploy pipeline of nanoku: the two HTTP handlers that start a       *)
(* deploy, the per-app lock, the detached worker goroutine with its        *)
(* deadline and its deferred clean-up, the container engine and the        *)
(* container rows the worker changes, the shutdown that drains the         *)
(* workers, a crash, and the boot that follows.                            *)
(*                                                                         *)
(* A deploy d is one request for a deploy of app AppOf[d] and everything   *)
(* that comes of it: the request, the Deploy row, the worker, and the      *)
(* Container row the worker creates.  pc[d] says how far it has got.       *)
(* One step is one critical section, one SQL statement (the pool has a     *)
(* single connection) or one call to the engine.                           *)
(***************************************************************************)
EXTENDS Naturals, FiniteSets

CONSTANTS
  Apps,         \* ids of apps
  Names,        \* app names; app a's container or compose project is "nanoku-<name>"
  Deploys,      \* ids of deploys
  AppOf,        \* AppOf[d]: the app of deploy d
  ComposeApps,  \* apps with deploy_method=compose
  None,         \* "no row" / "no name"
  Events        \* what the environment may do, see EventKinds

(* "shutdown": SIGTERM;  "slow": a request outlives the 10s of             *)
(* http.Server.Shutdown, a worker the 30s of DrainInflight;  "crash": the  *)
(* process dies;  "expire": a worker's 30 minutes are over;  "db": a       *)
(* write of a terminal status is lost;  "panic": a worker panics.          *)
EventKinds == {"shutdown", "slow", "crash", "expire", "db", "panic"}

ASSUME PipelineAssumption ==
  /\ AppOf \in [Deploys -> Apps]
  /\ ComposeApps \subseteq Apps
  /\ None \notin Deploys
  /\ None \notin Names
  /\ Events \subseteq EventKinds

VARIABLES
  phase,       \* the server process
  lock,        \* DeployLock.busy
  pc,          \* pc[d]: the next thing deploy d does
  expired,     \* deploys whose worker's context is past its deadline
  inflight,    \* Handlers.inflight (its keys)
  wg,          \* workers counted by Handlers.ShutdownWG
  stragglers,  \* DrainInflight's copy of inflight
  appName,     \* apps.name; None: no such app
  row,         \* row[d]: deploys.status
  crow,        \* crow[d]: containers.status of the row that deploy d created
  cname,       \* cname[d]: the app name the worker of d read, later in its container row
  old,         \* old[d]: the container row the worker of d means to retire
  lost,        \* history: deploys whose worker could not write its outcome
  current,     \* current[a]: the deploy whose container row is a's current_container
  engine,      \* engine[n]: state of the container (or stack) called nanoku-<n>
  owner        \* owner[n]: the deploy that created it

procVars == <<phase, lock, expired, inflight, wg, stragglers>>
dbVars == <<appName, row, crow, cname, current>>
dockerVars == <<engine, owner>>
workVars == <<old, lost>>
vars == <<procVars, pc, workVars, dbVars, dockerVars>>

-----------------------------------------------------------------------------
Alive == {"up", "closing", "waiting", "marking", "exiting"}
Phases == Alive \cup {"down"}

(* The statements of executeDeploy that can fail.                          *)
Body == {"load", "clear", "prepare", "pull", "remove", "create", "start",
         "check", "composeUp", "wire", "record", "point", "regen", "finish"}

(* From TryAcquire to Release.                                             *)
HoldPCs == {"acquired", "spawned", "counted", "failing", "panicked", "release"} \cup Body
(* From the insertion in the inflight map to the deferred delete.          *)
InflightPCs == {"failing", "panicked", "release", "deregister"} \cup Body
(* From ShutdownWG.Add to the deferred Done.                               *)
CountedPCs == {"counted", "wgdone"} \cup InflightPCs
PCs == {"idle", "request", "done", "dead"} \cup HoldPCs \cup CountedPCs

Holders == {d \in Deploys : pc[d] \in HoldPCs}

(* The name nanoku gives to the container of the app, as deploy d read it. *)
target(d) == cname[d]

TypeOK ==
  /\ phase \in Phases
  /\ lock \in SUBSET Apps
  /\ pc \in [Deploys -> PCs]
  /\ expired \in SUBSET Deploys
  /\ inflight \in SUBSET Deploys
  /\ wg \in SUBSET Deploys
  /\ stragglers \in SUBSET Deploys
  /\ appName \in [Apps -> Names \cup {None}]
  /\ row \in [Deploys -> {"none", "running", "success", "failed"}]
  /\ crow \in [Deploys -> {"none", "running", "exited"}]
  /\ cname \in [Deploys -> Names \cup {None}]
  /\ old \in [Deploys -> Deploys \cup {None}]
  /\ lost \in SUBSET Deploys
  /\ current \in [Apps -> Deploys \cup {None}]
  /\ engine \in [Names -> {"absent", "created", "running", "exited"}]
  /\ owner \in [Names -> Deploys \cup {None}]

Init ==
  /\ phase = "up"
  /\ lock = {}
  /\ pc = [d \in Deploys |-> "idle"]
  /\ expired = {} /\ inflight = {} /\ wg = {} /\ stragglers = {}
  /\ appName \in [Apps -> Names \cup {None}]
  /\ \A a, b \in Apps : appName[a] = appName[b] /\ appName[a] # None => a = b
  /\ row = [d \in Deploys |-> "none"]
  /\ crow = [d \in Deploys |-> "none"]
  /\ cname = [d \in Deploys |-> None]
  /\ old = [d \in Deploys |-> None]
  /\ lost = {}
  /\ current = [a \in Apps |-> None]
  /\ engine = [n \in Names |-> "absent"]
  /\ owner = [n \in Names |-> None]

Goto(d, from, to) ==
  /\ pc[d] = from
  /\ pc' = [pc EXCEPT ![d] = to]

-----------------------------------------------------------------------------
(* Faulty variants of actions below, one per mistake the properties are    *)
(* meant to catch.  No specification uses them.                            *)

(* The lock is taken without looking whether it is held.                   *)
TryAcquire_NoCheck(d) ==
  /\ Goto(d, "request", "acquired")
  /\ phase \in Alive
  /\ lock' = lock \cup {AppOf[d]}
  /\ UNCHANGED <<workVars, phase, expired, inflight, wg, stragglers, dbVars, dockerVars>>

(* The error path of the INSERT forgets the lock.                          *)
CreateRowFails_KeepsLock(d) ==
  /\ Goto(d, "acquired", "idle")
  /\ UNCHANGED <<workVars, procVars, dbVars, dockerVars>>

(* The handler releases the lock when it returns.                          *)
CreateRow_ReleasesLock(d) ==
  /\ Goto(d, "acquired", "spawned")
  /\ row' = [row EXCEPT ![d] = "running"]
  /\ lock' = lock \ {AppOf[d]}
  /\ UNCHANGED <<workVars, phase, expired, inflight, wg, stragglers, appName, crow, cname,
                 current, dockerVars>>

(* The edge to the previous container row is left in place.                *)
ClearCurrent_Skipped(d) ==
  /\ Goto(d, "clear", "prepare")
  /\ UNCHANGED <<workVars, procVars, dbVars, dockerVars>>

(* The container is created and never started.                             *)
CreateContainer_NotStarted(d) ==
  /\ Goto(d, "create", "check")
  /\ engine[target(d)] = "absent"
  /\ engine' = [engine EXCEPT ![target(d)] = "created"]
  /\ owner' = [owner EXCEPT ![target(d)] = d]
  /\ UNCHANGED <<workVars, procVars, dbVars>>

(* The new row is recorded but never becomes the current one.              *)
RecordContainer_NoEdge(d) ==
  /\ Goto(d, "record", "regen")
  /\ d \notin expired
  /\ crow' = [crow EXCEPT ![d] = "running"]
  /\ UNCHANGED <<workVars, procVars, appName, row, cname, current, dockerVars>>

(* A status the UI does not know.                                          *)
Finish_OddStatus(d) ==
  /\ Goto(d, "finish", "release")
  /\ row' = [row EXCEPT ![d] = "succeeded"]
  /\ UNCHANGED <<workVars, procVars, appName, crow, cname, current, dockerVars>>

(* An error return without markDeployFailed.                               *)
StepFails_Unmarked(d) ==
  /\ pc[d] \in Body \ {"finish"}
  /\ pc' = [pc EXCEPT ![d] = "release"]
  /\ UNCHANGED <<workVars, procVars, dbVars, dockerVars>>

(* The panic is swallowed.                                                 *)
Recover_Silent(d) ==
  /\ Goto(d, "panicked", "release")
  /\ UNCHANGED <<workVars, procVars, dbVars, dockerVars>>

(* The lock is never given back.                                           *)
Release_Forgotten(d) ==
  /\ Goto(d, "release", "deregister")
  /\ UNCHANGED <<workVars, procVars, dbVars, dockerVars>>

(* The entry stays in the inflight map.                                    *)
Deregister_Forgotten(d) ==
  /\ Goto(d, "deregister", "wgdone")
  /\ UNCHANGED <<workVars, procVars, dbVars, dockerVars>>

-----------------------------------------------------------------------------
(* DeployApp and Trigger: the request, up to the `go` statement.           *)

Arrive(d) ==
  /\ Goto(d, "idle", "request")
  /\ phase = "up"
  /\ appName[AppOf[d]] # None
  /\ UNCHANGED <<workVars, procVars, dbVars, dockerVars>>

TryAcquire(d) ==
  /\ Goto(d, "request", "acquired")
  /\ phase \in Alive
  /\ AppOf[d] \notin lock
  /\ lock' = lock \cup {AppOf[d]}
  /\ UNCHANGED <<workVars, phase, expired, inflight, wg, stragglers, dbVars, dockerVars>>

(* 202 with accepted=false: another deploy of the app is under way.        *)
Reject(d) ==
  /\ Goto(d, "request", "idle")
  /\ phase \in Alive
  /\ AppOf[d] \in lock
  /\ UNCHANGED <<workVars, procVars, dbVars, dockerVars>>

(* deploys.app is a foreign key: the INSERT needs the app to be there.     *)
CreateRow(d) ==
  /\ Goto(d, "acquired", "spawned")
  /\ appName[AppOf[d]] # None
  /\ row' = [row EXCEPT ![d] = "running"]
  /\ UNCHANGED <<workVars, procVars, appName, crow, cname, current, dockerVars>>

(* The INSERT failed: the handler itself releases the lock.                *)
CreateRowFails(d) ==
  /\ Goto(d, "acquired", "idle")
  /\ lock' = lock \ {AppOf[d]}
  /\ UNCHANGED <<workVars, phase, expired, inflight, wg, stragglers, dbVars, dockerVars>>

-----------------------------------------------------------------------------
(* executeDeploy, in the goroutine the handler left behind.                *)

Count(d) ==
  /\ Goto(d, "spawned", "counted")
  /\ wg' = wg \cup {d}
  /\ UNCHANGED <<workVars, phase, lock, expired, inflight, stragglers, dbVars, dockerVars>>

Register(d) ==
  /\ Goto(d, "counted", "load")
  /\ inflight' = inflight \cup {d}
  /\ UNCHANGED <<workVars, phase, lock, expired, wg, stragglers, dbVars, dockerVars>>

(* Load the app, resolve the image, open the log file.                     *)
Load(d) ==
  /\ Goto(d, "load", "clear")
  /\ d \notin expired
  /\ appName[AppOf[d]] # None
  /\ cname' = [cname EXCEPT ![d] = appName[AppOf[d]]]
  /\ UNCHANGED <<workVars, procVars, appName, row, crow, current, dockerVars>>

ClearCurrent(d) ==
  /\ Goto(d, "clear", "prepare")
  /\ d \notin expired
  /\ appName[AppOf[d]] # None
  /\ current' = [current EXCEPT ![AppOf[d]] = None]
  /\ UNCHANGED <<workVars, procVars, appName, row, crow, cname, dockerVars>>

(* Registry credentials, the "old" container, environment variables; then  *)
(* the branch on deploy_method.  The old container is looked up through    *)
(* the current_container edge that ClearCurrent has just cleared.          *)
Prepare(d) ==
  /\ Goto(d, "prepare", IF AppOf[d] \in ComposeApps THEN "composeUp" ELSE "pull")
  /\ old' = [old EXCEPT ![d] = current[AppOf[d]]]
  /\ UNCHANGED <<lost, procVars, dbVars, dockerVars>>

Pull(d) ==
  /\ Goto(d, "pull", "remove")
  /\ d \notin expired
  /\ UNCHANGED <<workVars, procVars, dbVars, dockerVars>>

(* removeContainerIfExists: stop, then force-remove, whatever has the name. *)
RemoveOld(d) ==
  /\ Goto(d, "remove", "create")
  /\ d \notin expired
  /\ engine' = [engine EXCEPT ![target(d)] = "absent"]
  /\ owner' = [owner EXCEPT ![target(d)] = None]
  /\ UNCHANGED <<workVars, procVars, dbVars>>

(* The stop went through and the removal did not.                          *)
RemoveOldFails(d) ==
  /\ Goto(d, "remove", "failing")
  /\ engine[target(d)] # "absent"
  /\ engine' = [engine EXCEPT ![target(d)] = "exited"]
  /\ UNCHANGED <<workVars, procVars, dbVars, owner>>

CreateContainer(d) ==
  /\ Goto(d, "create", "start")
  /\ d \notin expired
  /\ engine[target(d)] = "absent"
  /\ engine' = [engine EXCEPT ![target(d)] = "created"]
  /\ owner' = [owner EXCEPT ![target(d)] = d]
  /\ UNCHANGED <<workVars, procVars, dbVars>>

(* ContainerStart addresses the container by the id that the create call   *)
(* returned: it fails if that container has been removed in the meantime.  *)
StartContainer(d) ==
  /\ Goto(d, "start", "check")
  /\ d \notin expired
  /\ owner[target(d)] = d
  /\ engine' = [engine EXCEPT ![target(d)] = "running"]
  /\ UNCHANGED <<workVars, procVars, dbVars, owner>>

(* "container not found after deploy": a look-up by name.                  *)
CheckExists(d) ==
  /\ Goto(d, "check", "record")
  /\ d \notin expired
  /\ engine[target(d)] # "absent"
  /\ UNCHANGED <<workVars, procVars, dbVars, dockerVars>>

ComposeUp(d) ==
  /\ Goto(d, "composeUp", "wire")
  /\ d \notin expired
  /\ engine' = [engine EXCEPT ![target(d)] = "running"]
  /\ owner' = [owner EXCEPT ![target(d)] = d]
  /\ UNCHANGED <<workVars, procVars, dbVars>>

(* `compose up` stopped half-way: the stack has been replaced in part.     *)
ComposeUpFails(d) ==
  /\ Goto(d, "composeUp", "failing")
  /\ engine' = [engine EXCEPT ![target(d)] = "created"]
  /\ owner' = [owner EXCEPT ![target(d)] = d]
  /\ UNCHANGED <<workVars, procVars, dbVars>>

(* Network aliases and the check of exposed_ports against the stack.       *)
Wire(d) ==
  /\ Goto(d, "wire", "record")
  /\ d \notin expired
  /\ UNCHANGED <<workVars, procVars, dbVars, dockerVars>>

RecordContainer(d) ==
  /\ Goto(d, "record", "point")
  /\ d \notin expired
  /\ appName[AppOf[d]] # None
  /\ crow' = [crow EXCEPT ![d] = "running"]
  /\ UNCHANGED <<workVars, procVars, appName, row, cname, current, dockerVars>>

(* containers.app_current_container is UNIQUE: no other row may have it.   *)
SetCurrent(d) ==
  /\ Goto(d, "point", "regen")
  /\ d \notin expired
  /\ appName[AppOf[d]] # None
  /\ current[AppOf[d]] = None
  /\ current' = [current EXCEPT ![AppOf[d]] = d]
  /\ UNCHANGED <<workVars, procVars, appName, row, crow, cname, dockerVars>>

Regenerate(d) ==
  /\ Goto(d, "regen", "finish")
  /\ d \notin expired
  /\ UNCHANGED <<workVars, procVars, dbVars, dockerVars>>

(* The old container is retired after the new one is live, if it goes by   *)
(* another name: engine calls and row update are all best-effort.          *)
RetireOld(d) ==
  LET retire == old[d] # None /\ cname[old[d]] # cname[d]
  IN  IF retire
      THEN /\ engine' = [engine EXCEPT ![cname[old[d]]] = "absent"]
           /\ owner' = [owner EXCEPT ![cname[old[d]]] = None]
           /\ crow' = [crow EXCEPT ![old[d]] = "exited"]
      ELSE UNCHANGED <<engine, owner, crow>>

Finish(d) ==
  /\ Goto(d, "finish", "release")
  /\ d \notin expired
  /\ row' = [row EXCEPT ![d] = "success"]
  /\ RetireOld(d)
  /\ UNCHANGED <<workVars, procVars, appName, cname, current>>

(* The write of the status fails, and its error is dropped.                *)
FinishLost(d) ==
  /\ Goto(d, "finish", "release")
  /\ d \in expired \/ "db" \in Events
  /\ RetireOld(d)
  /\ lost' = lost \cup {d}
  /\ UNCHANGED <<old, procVars, appName, row, cname, current>>

(* Any call of the body may return an error and leave everything as it was. *)
StepFails(d) ==
  /\ pc[d] \in Body \ {"finish"}
  /\ pc' = [pc EXCEPT ![d] = "failing"]
  /\ UNCHANGED <<workVars, procVars, dbVars, dockerVars>>

MarkFailed(d) ==
  /\ Goto(d, "failing", "release")
  /\ d \notin expired
  /\ row' = [row EXCEPT ![d] = "failed"]
  /\ UNCHANGED <<workVars, procVars, appName, crow, cname, current, dockerVars>>

(* markDeployFailed runs under the worker's own context and drops errors.  *)
MarkFailedLost(d) ==
  /\ Goto(d, "failing", "release")
  /\ d \in expired \/ "db" \in Events
  /\ lost' = lost \cup {d}
  /\ UNCHANGED <<old, procVars, dbVars, dockerVars>>

Panic(d) ==
  /\ "panic" \in Events
  /\ pc[d] \in Body
  /\ pc' = [pc EXCEPT ![d] = "panicked"]
  /\ UNCHANGED <<workVars, procVars, dbVars, dockerVars>>

(* The deferred recover uses the parent context, which has no deadline.    *)
Recover(d) ==
  /\ Goto(d, "panicked", "release")
  /\ row' = [row EXCEPT ![d] = "failed"]
  /\ UNCHANGED <<workVars, procVars, appName, crow, cname, current, dockerVars>>

RecoverLost(d) ==
  /\ Goto(d, "panicked", "release")
  /\ "db" \in Events
  /\ lost' = lost \cup {d}
  /\ UNCHANGED <<old, procVars, dbVars, dockerVars>>

(* The deferred calls, last in first out.  The first is the cancel of the  *)
(* worker's context, whose deadline is of no account after it.             *)
Release(d) ==
  /\ Goto(d, "release", "deregister")
  /\ lock' = lock \ {AppOf[d]}
  /\ expired' = expired \ {d}
  /\ UNCHANGED <<workVars, phase, inflight, wg, stragglers, dbVars, dockerVars>>

Deregister(d) ==
  /\ Goto(d, "deregister", "wgdone")
  /\ inflight' = inflight \ {d}
  /\ UNCHANGED <<workVars, phase, lock, expired, wg, stragglers, dbVars, dockerVars>>

Uncount(d) ==
  /\ Goto(d, "wgdone", "done")
  /\ wg' = wg \ {d}
  /\ UNCHANGED <<workVars, phase, lock, expired, inflight, stragglers, dbVars, dockerVars>>

(* context.WithTimeout(30 minutes) runs out.                               *)
Expire(d) ==
  /\ "expire" \in Events
  /\ pc[d] \in Body \cup {"failing"}
  /\ expired' = expired \cup {d}
  /\ UNCHANGED <<workVars, phase, lock, inflight, wg, stragglers, pc, dbVars, dockerVars>>

-----------------------------------------------------------------------------
(* main and DrainInflight.                                                 *)

Signal ==
  /\ "shutdown" \in Events
  /\ phase = "up"
  /\ phase' = "closing"
  /\ UNCHANGED <<workVars, lock, expired, inflight, wg, stragglers, pc, dbVars, dockerVars>>

(* http.Server.Shutdown returns: every handler has, or ten seconds passed. *)
HTTPClosed ==
  /\ phase = "closing"
  /\ "slow" \in Events \/ \A d \in Deploys : pc[d] \notin {"request", "acquired"}
  /\ phase' = "waiting"
  /\ UNCHANGED <<workVars, lock, expired, inflight, wg, stragglers, pc, dbVars, dockerVars>>

Drained ==
  /\ phase = "waiting"
  /\ wg = {}
  /\ phase' = "exiting"
  /\ UNCHANGED <<workVars, lock, expired, inflight, wg, stragglers, pc, dbVars, dockerVars>>

DrainTimeout ==
  /\ phase = "waiting"
  /\ "slow" \in Events
  /\ phase' = "marking"
  /\ stragglers' = inflight
  /\ inflight' = {}
  /\ UNCHANGED <<workVars, lock, expired, wg, pc, dbVars, dockerVars>>

MarkStraggler(d) ==
  /\ phase = "marking"
  /\ d \in stragglers
  /\ stragglers' = stragglers \ {d}
  /\ row' = [row EXCEPT ![d] = "failed"]
  /\ UNCHANGED <<workVars, phase, lock, expired, inflight, wg, pc, appName, crow, cname,
                 current, dockerVars>>

(* markDeployFailed drops the error of the write.                          *)
MarkStragglerLost(d) ==
  /\ phase = "marking"
  /\ "db" \in Events
  /\ d \in stragglers
  /\ stragglers' = stragglers \ {d}
  /\ UNCHANGED <<workVars, phase, lock, expired, inflight, wg, pc, dbVars, dockerVars>>

MarkingDone ==
  /\ phase = "marking"
  /\ stragglers = {}
  /\ phase' = "exiting"
  /\ UNCHANGED <<workVars, lock, expired, inflight, wg, stragglers, pc, dbVars, dockerVars>>

(* The process ends: by returning from main, or by a crash.  Goroutines,   *)
(* the lock and the inflight map go; the database and the engine stay.     *)
ProcessEnds ==
  /\ phase \in Alive
  /\ phase = "exiting" \/ "crash" \in Events
  /\ phase' = "down"
  /\ lock' = {} /\ expired' = {} /\ inflight' = {} /\ wg' = {} /\ stragglers' = {}
  /\ pc' = [d \in Deploys |-> IF pc[d] \in {"idle", "request"} THEN "idle"
                              ELSE IF pc[d] = "done" THEN "done" ELSE "dead"]
  /\ UNCHANGED <<workVars, dbVars, dockerVars>>

(* Apps whose current container's name is not in the engine.               *)
CurrentMissing ==
  {a \in Apps : current[a] # None /\ engine[cname[current[a]]] = "absent"}

(* main, with RunBootReconcile before the server listens.                  *)
Boot ==
  /\ phase = "down"
  /\ phase' = "up"
  /\ current' = [a \in Apps |-> IF a \in CurrentMissing THEN None ELSE current[a]]
  /\ UNCHANGED <<workVars, lock, expired, inflight, wg, stragglers, pc, appName, row, crow,
                 cname, dockerVars>>

(* Reconcile errors are logged and swallowed; without docker it is skipped. *)
BootUnreconciled ==
  /\ phase = "down"
  /\ phase' = "up"
  /\ UNCHANGED <<workVars, lock, expired, inflight, wg, stragglers, pc, dbVars, dockerVars>>

-----------------------------------------------------------------------------
Handler(d) ==
  Arrive(d) \/ TryAcquire(d) \/ Reject(d) \/ CreateRow(d) \/ CreateRowFails(d)

Proceed(d) ==
  \/ Load(d) \/ ClearCurrent(d) \/ Prepare(d) \/ Pull(d) \/ RemoveOld(d)
  \/ CreateContainer(d) \/ StartContainer(d) \/ CheckExists(d) \/ ComposeUp(d)
  \/ Wire(d) \/ RecordContainer(d) \/ SetCurrent(d) \/ Regenerate(d) \/ Finish(d)

Fail(d) ==
  \/ StepFails(d) \/ RemoveOldFails(d) \/ ComposeUpFails(d) \/ FinishLost(d)
  \/ MarkFailed(d) \/ MarkFailedLost(d) \/ Recover(d) \/ RecoverLost(d)

Worker(d) ==
  \/ Count(d) \/ Register(d) \/ Proceed(d) \/ Fail(d)
  \/ Release(d) \/ Deregister(d) \/ Uncount(d)

Shutdown ==
  \/ Signal \/ HTTPClosed \/ Drained \/ DrainTimeout \/ MarkingDone
  \/ \E d \in Deploys : MarkStraggler(d) \/ MarkStragglerLost(d)

Next ==
  \/ \E d \in Deploys : Handler(d) \/ Worker(d) \/ Panic(d) \/ Expire(d)
  \/ Shutdown \/ ProcessEnds \/ Boot \/ BootUnreconciled

Spec == Init /\ [][Next]_vars

(* Every call a worker or a handler makes returns: the worker's context    *)
(* has a deadline and the handlers talk to the local database only.        *)
Fairness ==
  /\ \A d \in Deploys : WF_vars(Worker(d))
  /\ \A d \in Deploys : WF_vars(TryAcquire(d) \/ Reject(d) \/ CreateRow(d) \/ CreateRowFails(d))

FairSpec == Spec /\ Fairness

-----------------------------------------------------------------------------
(* deploy_lock.go:5: the lock serialises the deploys of an app, and every  *)
(* path that takes it gives it back: it is held exactly by the deploys     *)
(* between TryAcquire and Release, of which no two are of the same app.    *)
LockMatchesHolders ==
  /\ lock = {AppOf[d] : d \in Holders}
  /\ \A d, e \in Holders : AppOf[d] = AppOf[e] => d = e

(* The map and the WaitGroup that DrainInflight relies on describe the     *)
(* registered workers, those that have called ShutdownWG.Add or entered    *)
(* the map, until the map is replaced.  A worker between `go` and its      *)
(* first statement is in neither (deploy_executor.go:64-68).               *)
DrainSeesWorkers ==
  /\ wg = {d \in Deploys : pc[d] \in CountedPCs}
  /\ inflight \subseteq {d \in Deploys : pc[d] \in InflightPCs}
  /\ phase \in {"up", "closing", "waiting"} =>
        {d \in Deploys : pc[d] \in InflightPCs} \subseteq inflight

(* While a worker builds its container nothing else touches that name: the *)
(* create call never meets "name already in use", and the container that   *)
(* gets recorded is the worker's own and runs.                             *)
OwnsContainer ==
  \A d \in Deploys :
    /\ pc[d] = "create" => engine[target(d)] = "absent"
    /\ pc[d] = "start" => owner[target(d)] = d
    /\ pc[d] \in {"check", "wire", "record", "point", "regen", "finish"} =>
          engine[target(d)] = "running" /\ owner[target(d)] = d

(* The current_container edge never names a container that is gone, was    *)
(* replaced or is another app's: not in the middle of a redeploy, not      *)
(* after one that failed, not after a crash.                               *)
CurrentIsLive ==
  \A a \in Apps : current[a] # None =>
    LET d == current[a]
    IN  /\ AppOf[d] = a
        /\ crow[d] = "running"
        /\ cname[d] # None
        /\ engine[cname[d]] = "running" /\ owner[cname[d]] = d

(* The UNIQUE index on containers.app_current_container cannot reject the  *)
(* new edge: it is cleared first (deploy_executor.go:170), and nothing     *)
(* sets it again before the worker does, not another deploy of the app     *)
(* either.                                                                 *)
EdgeStaysClear ==
  \A d \in Deploys :
    pc[d] \in {"prepare", "pull", "remove", "create", "start", "check", "composeUp",
              "wire", "record", "point"} => current[AppOf[d]] = None

(* A worker that is through has left a terminal status, unless the write   *)
(* of it failed, which it does under an expired context.                   *)
SettledUnlessLost ==
  \A d \in Deploys : pc[d] = "done" =>
    row[d] \in {"success", "failed"} \/ d \in lost

(* A deploy that turns to "success" is the app's current one in that very  *)
(* step: what the UI calls successful is what is routed to.                *)
SuccessIsCurrent ==
  [][\A d \in Deploys :
       row'[d] = "success" /\ row[d] # "success" => current'[AppOf[d]] = d]_vars

(* The pipeline implements the contract.                                   *)
Contract == INSTANCE DeployContract WITH
  open <- phase = "up", admitted <- Holders, status <- row
ContractSpec == Contract!Spec

(* No deploy keeps the lock for ever, whatever fails (executor:61 "always  *)
(* releases the deploy lock").                                             *)
LockIsFreed == \A a \in Apps : a \in lock ~> a \notin lock

(* A deploy that was accepted gets its outcome, whatever fails in it,      *)
(* unless the write of it fails or its process ends first.                 *)
AcceptedIsSettled ==
  \A d \in Deploys : row[d] = "running" ~>
    row[d] \in {"success", "failed"} \/ d \in lost \/ pc[d] = "dead"
=============================================================================
