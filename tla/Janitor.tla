------------------------------ MODULE Janitor ------------------------------
(***************************************************************************)
(* The janitor's tasks that delete container rows and log files, one task  *)
(* at a time on the loop's goroutine, while deploys and operators go on as *)
(* AppOps says.  (Its two tasks about sign-in are actions of Sessions.)    *)
(*                                                                         *)
(* A task computes its cutoff when it starts, so what is old does not      *)
(* change while it runs; every call it makes is a step of its own.         *)
(***************************************************************************)
EXTENDS AppOps

CONSTANT Strays   \* log files whose deploy row is gone

ASSUME JanitorAssumption == Strays \cap Deploys = {}

VARIABLES
  aged,   \* deploys made, with their container row, more than KeepDeploysDays ago
  logs,   \* the files <id>.log
  task    \* the task that runs, and what it carries from call to call

janitorVars == <<aged, logs, task>>
everyVars == <<allVars, janitorVars>>

-----------------------------------------------------------------------------
NoTask == [at |-> "idle"]

TaskStates ==
  {NoTask}
  \cup [at : {"rows"}, ids : SUBSET Deploys]
  \cup [at : {"containers", "oldLogs"}, left : SUBSET Deploys]
  \cup [at : {"files"}, left : SUBSET (Deploys \cup Strays)]
  \cup [at : {"unlink"}, left : SUBSET (Deploys \cup Strays), file : Deploys \cup Strays]

JanitorTypeOK ==
  /\ OpsTypeOK
  /\ aged \in SUBSET Deploys
  /\ logs \in SUBSET (Deploys \cup Strays)
  /\ task \in TaskStates

Finished(d) == pc[d] \in {"done", "dead"}
HasRow(f) == f \in Deploys /\ row[f] # "none"

Task(from, to) ==
  /\ task.at = from
  /\ task' = to
  /\ phase \in Alive

StartTask(to) == phase # "exiting" /\ Task("idle", to)

-----------------------------------------------------------------------------
(* Faulty variants of actions below, one per mistake the properties are    *)
(* meant to catch.  No specification uses them.                            *)

(* Rows are chosen by their status alone.                                  *)
ReadOldContainers_AnyAge ==
  /\ Task("rows", [at |-> "containers",
                   left |-> {d \in Deploys : crow[d] = "exited"} \ task.ids])
  /\ UNCHANGED <<allVars, aged, logs>>

(* A file is kept for the sake of a finished deploy only.                  *)
CheckFile_Finished(f) ==
  /\ task.at = "files" /\ f \in task.left
  /\ Task("files", IF HasRow(f) /\ row[f] \in {"success", "failed"}
                   THEN [at |-> "files", left |-> task.left \ {f}]
                   ELSE [at |-> "unlink", left |-> task.left \ {f}, file |-> f])
  /\ UNCHANGED <<allVars, aged, logs>>

(* The directory itself is taken for a log.                                *)
ListLogs_Everything ==
  /\ StartTask([at |-> "files", left |-> logs \cup {None}])
  /\ UNCHANGED <<allVars, aged, logs>>

-----------------------------------------------------------------------------
(* pruneOldContainers: the ids of the current rows first, then the rows    *)
(* that are old, terminal and not among them, then one DELETE after        *)
(* another.                                                                *)

ReadCurrentIDs ==
  /\ StartTask([at |-> "rows", ids |-> {current[a] : a \in Apps} \ {None}])
  /\ UNCHANGED <<allVars, aged, logs>>

ReadOldContainers ==
  /\ Task("rows", [at |-> "containers",
                   left |-> {d \in aged : crow[d] = "exited"} \ task.ids])
  /\ UNCHANGED <<allVars, aged, logs>>

(* The foreign key of an app that leads to the row would become NULL.      *)
DeleteContainer(d) ==
  /\ task.at = "containers" /\ d \in task.left
  /\ Task("containers", [at |-> "containers", left |-> task.left \ {d}])
  /\ crow' = [crow EXCEPT ![d] = "none"]
  /\ current' = [a \in Apps |-> IF current[a] = d THEN None ELSE current[a]]
  /\ UNCHANGED <<procVars, pc, workVars, appName, row, cname, dockerVars, opVars, aged, logs>>

-----------------------------------------------------------------------------
(* pruneOldLogFiles.                                                       *)

ReadOldDeploys ==
  /\ StartTask([at |-> "oldLogs", left |-> {d \in aged : row[d] \in {"success", "failed"}}])
  /\ UNCHANGED <<allVars, aged, logs>>

RemoveOldLog(d) ==
  /\ task.at = "oldLogs" /\ d \in task.left
  /\ Task("oldLogs", [at |-> "oldLogs", left |-> task.left \ {d}])
  /\ logs' = logs \ {d}
  /\ UNCHANGED <<allVars, aged>>

-----------------------------------------------------------------------------
(* pruneOrphanLogFiles: the directory is read once, the row of each file   *)
(* looked up after that.                                                   *)

ListLogs ==
  /\ StartTask([at |-> "files", left |-> logs])
  /\ UNCHANGED <<allVars, aged, logs>>

CheckFile(f) ==
  /\ task.at = "files" /\ f \in task.left
  /\ Task("files", IF HasRow(f)
                   THEN [at |-> "files", left |-> task.left \ {f}]
                   ELSE [at |-> "unlink", left |-> task.left \ {f}, file |-> f])
  /\ UNCHANGED <<allVars, aged, logs>>

RemoveOrphanLog ==
  /\ Task("unlink", [at |-> "files", left |-> task.left])
  /\ logs' = logs \ {task.file}
  /\ UNCHANGED <<allVars, aged>>

-----------------------------------------------------------------------------
(* A DELETE or an unlink fails: the task goes on with the next.            *)
SkipOne(x) ==
  /\ task.at \in {"containers", "oldLogs"} /\ x \in task.left
  /\ Task(task.at, [at |-> task.at, left |-> task.left \ {x}])
  /\ UNCHANGED <<allVars, aged, logs>>

SkipUnlink ==
  /\ Task("unlink", [at |-> "files", left |-> task.left])
  /\ UNCHANGED <<allVars, aged, logs>>

(* The task is through, a query failed, it panicked, its 30 seconds are    *)
(* over or Stop has cancelled it.                                          *)
EndTask ==
  /\ task # NoTask
  /\ Task(task.at, NoTask)
  /\ UNCHANGED <<allVars, aged, logs>>

(* KeepDeploysDays go by, which is longer than any worker or task.         *)
Age(d) ==
  /\ task = NoTask
  /\ Finished(d) /\ d \notin aged
  /\ aged' = aged \cup {d}
  /\ UNCHANGED <<allVars, logs, task>>

(* Everyone else goes on.  The worker opens its log when it loads the app; *)
(* a task ends with its process, also one that Stop gave up on.            *)
Meanwhile ==
  /\ OpsNext
  /\ logs' = logs \cup {d \in Deploys : cname[d] = None /\ cname'[d] # None}
  /\ task' = IF phase' = "down" THEN NoTask ELSE task
  /\ UNCHANGED aged

JanitorInit ==
  /\ OpsInit
  /\ aged = {}
  /\ logs = Strays
  /\ task = NoTask

PruneContainers ==
  ReadCurrentIDs \/ ReadOldContainers \/ \E d \in Deploys : DeleteContainer(d)

PruneOldLogs == ReadOldDeploys \/ \E d \in Deploys : RemoveOldLog(d)

PruneOrphanLogs ==
  ListLogs \/ RemoveOrphanLog \/ SkipUnlink \/ \E f \in Deploys \cup Strays : CheckFile(f)

JanitorNext ==
  \/ PruneContainers \/ PruneOldLogs \/ PruneOrphanLogs \/ EndTask
  \/ \E d \in Deploys : SkipOne(d) \/ Age(d)
  \/ Meanwhile

JanitorSpec == JanitorInit /\ [][JanitorNext]_everyVars

-----------------------------------------------------------------------------
(* The row of an app's current container is never deleted, however a       *)
(* deploy, a stop or a reconcile falls between the reading of the ids, the *)
(* reading of the rows and the DELETE (cleanup.go:590: "the                *)
(* not-current_container filter guarantees" it).                           *)
PruneSparesCurrent ==
  [][\A d \in Deploys :
       crow[d] # "none" /\ crow'[d] = "none" => \A a \in Apps : current[a] # d]_everyVars

(* A deploy that has opened its log keeps the file until it is old:        *)
(* neither of the two tasks takes it from a worker that writes to it, nor  *)
(* from a deploy that has only just ended.                                 *)
LogsAreKept ==
  \A d \in Deploys : cname[d] # None /\ d \notin aged => d \in logs
=============================================================================
