# Verification of nanoku

nanoku is a small self-hosted deployment server: a Go process with an embedded
React UI, a SQLite database, a Docker engine it drives through the API and the
`docker compose` CLI, and a Caddy container in front of the deployed apps. This
directory holds TLA+ specifications of its stateful core, TLC configurations that
check them on small instances, and TLAPS proofs of the results that matter most.

Contents: [the system](#the-system) · [the modules](#the-modules-and-the-code) ·
[the runs](#the-runs) · [fairness](#fairness) · [the proofs](#the-proofs) ·
[findings](#findings) · [what is not modelled](#what-is-not-modelled) ·
[the plan](#the-plan)

## The system

### Components, their state and their operations

| Component | State | Operations | What makes it correct |
|---|---|---|---|
| Deploy pipeline (`api/deploy_executor.go`, `apps_deploy.go`, `trigger.go`, `deploy_lock.go`) | the per-app lock set, the in-flight map, the WaitGroup; rows `deploys`, `containers`; the edge `apps.current_container` | accept or reject a deploy, run it in a detached goroutine, write its outcome, give everything back | one deploy per app; the lock is given back on every path; the current container exists, runs and is the app's own; every accepted deploy gets an outcome |
| Shutdown and boot (`main.go`, `api/shutdown.go`) | phase of the process | signal, close HTTP, drain, mark what is left, exit; boot reconcile | no worker is overlooked; a crash at any point leaves edges that are true |
| Container engine client (`docker/docker.go`, `docker/compose.go`) | containers and stacks, by name | pull, remove, create, start, stop, compose up and down | a name belongs to whoever created it last; a half-done call is seen by its caller |
| Container actions (`api/apps_deploy.go`) | `containers.status` | start, stop, restart | act on the current container, not on an old one |
| Reconcile, orphans (`api/reconcile.go`) | edges, engine | clear edges to missing containers, remove containers no row knows | never disturb a deploy |
| App CRUD (`api/apps.go`) | `apps` | create, rename, delete with its engine calls | names stay unique; nothing of a deleted app stays reachable |
| Deploy log (`api/deploy_log_store.go`, `deploy_log_stream.go`, `ui/src/lib/useLogStream.ts`) | file, tail offset, rows and backlog of the view | append, tail, stream, end, reconnect, pause, resume | no gap, no double row, an end |
| Sites and Caddyfile (`api/sites.go`, `handlers.go`, `caddy/*`) | `sites`, the Caddyfile, what Caddy runs with | create, patch, toggle, delete a site; regenerate: render, write, reload | file, Caddy and database agree |
| Networks and aliases (`docker/docker.go`, `compose.go`) | network, aliases | ensure network, attach aliases after compose up | a service name leads to its service |
| Secrets and env vars (`secret/`, `api/apps.go`, `encryption_migrate.go`) | ciphertexts in `env_vars`, `apps` | replace in a transaction, migrate at boot, read for a deploy | nothing is served from plain text; a read gives what was set; a replacement is whole or undone |
| Sessions and login (`api/sessions.go`, `login.go`, `auth.go`, `users.go`) | `sessions`, `users`, a sliding window of admissions per address, the browser's cookie | log in, look up and renew, log out, change password, purge | no more logins than the limit; the stored expiry slides with use; a session that was ended stays ended |
| Janitor (`api/cleanup.go`) | time of the last pass of five tasks | purge sessions, old rows, log files, images, containers | never removes what a deploy still uses |
| Registry login (`docker/registry.go`) | credential store of the docker CLI | log in, pull, log out | one deploy's logout does not hit another's pull |
| Container log streams (`docker/docker.go`, `api/sse.go`) | a channel of 64 lines, one of an error, the engine's stream | follow, cut into lines, forward, cancel | whole lines in order; an error is shown; the engine's stream is closed when the viewer leaves |
| Volumes and files, compose parsing, dashboard, router, configuration, UI | none of their own between requests | — | — |

### How they interact

* A request for a deploy takes the lock, inserts the `deploys` row and leaves a goroutine
  behind. The goroutine talks to the database (one connection, so a SQL statement is atomic
  and nothing longer is), to the engine, to the log file and, at the end, to Caddy.
* Container actions, reconcile, orphan removal, rename and delete **do not take the deploy
  lock**. They read rows, call the engine, and write rows, with deploys in between.
* The shutdown sees workers through the WaitGroup and through the in-flight map; so does the
  log stream, which ends when its worker has left the map.
* Every change of a site and every deploy regenerates the Caddyfile from the database;
  nothing orders two of these.
* The janitor runs one task at a time beside all of this, and takes no lock either.
* Goroutines, lock and map are lost in a crash; the database, the engine, the Caddyfile and
  the log files are not.

### Where it is hard

Interleavings of requests without a lock; the order of a deploy's own fallible calls;
deadlines (30 min for a worker, 10 s for HTTP, 30 s for the drain) that race late answers;
errors that are dropped (every status write of a worker); a crash between any two calls;
data read from the engine or the database and acted upon later; views that reconnect and are
replayed from the start. `PROJECT.json` lists these under `hazards`, each with its line and
with the properties that guard it, or with the reason why none does yet.

## The modules and the code

One step of a specification is one critical section under a mutex, one SQL statement, or one
call to the engine, to the file system or to Caddy. `PROJECT.json` (`map`) names the lines
behind each definition.

### `DeployPipeline` (with `DeployContract`, `DeployClaims`)

A deploy `d` is the request, its row, its worker and the container row it creates. `pc[d]` says
what it does next; the names of the places are those of the steps of `executeDeploy`.

| Code | Specification |
|---|---|
| `DeployApp`, `Trigger` up to `go` | `Arrive`, `TryAcquire`, `Reject`, `CreateRow`, `CreateRowFails` |
| first statements of the goroutine: `WG.Add`, `inflight` | `Count`, `Register` |
| body of `executeDeploy`, docker mode | `Load`, `ClearCurrent`, `Prepare`, `Pull`, `RemoveOld`, `CreateContainer`, `StartContainer`, `CheckExists`, `RecordContainer`, `SetCurrent`, `Regenerate`, `Finish` (with `RetireOld`) |
| the same, compose mode | … `Prepare`, `ComposeUp`, `Wire`, `RecordContainer`, … |
| an error return | `StepFails`, `RemoveOldFails`, `ComposeUpFails`, then `MarkFailed` / `MarkFailedLost` |
| a panic and the deferred `recover` | `Panic`, `Recover`, `RecoverLost` |
| the 30-minute context | `Expire`: from then on no call succeeds, and neither does the write of the failure |
| the other deferred calls | `Release` (after the cancel of the context), `Deregister`, `Uncount` |
| `main` and `DrainInflight` | `Signal`, `HTTPClosed`, `Drained`, `DrainTimeout`, `MarkStraggler`, `MarkingDone`, `ProcessEnds` |
| `main` at start, `RunBootReconcile` | `Boot`, `BootUnreconciled` |

`current[a]`, `crow`, `cname` are the edge and the container rows; `engine[n]` and `owner[n]` what
the engine has under `nanoku-<n>` and which deploy put it there. `lost` is history: the deploys whose
worker could not write its outcome, because the write failed or its context had expired. `Events` selects what the
environment may do, so that a run can leave events out; every proof is for any `Events`.

`DeployContract` is the abstract specification: admission of one deploy per app, the row, the
outcome, and what a shutdown may write. The pipeline implements it with
`open <- phase = "up"`, `admitted <- Holders`, `status <- row`.

Abstracted: an image is not told from another; the row columns the operations do not branch
on; log lines (they have a module of their own). Left out: the branch with `SkipCaddyReload` or
without a docker client, which only tests and a misconfigured server take. Whether an app is
compose-mode is constant during a run. No container disappears or stops from outside nanoku, and the
boot clears all the edges it clears in one step, since nothing is served yet. Alone the pipeline never
leaves an edge to a missing container for it; in `apps_ops`, where operators remove containers, it does.
A worker that has started and is not counted yet (`pc[d] = "spawned"`) is not seen by a drain, as in
the code.

### `AppOps` (with `AppOpsClaims`)

Extends `DeployPipeline` by `Requests` that are handled at the same time, none under the lock.
`req[r]` is a record: where the handler is and the locals it carries on.

| Code | Specification |
|---|---|
| `StartApp`, `StopApp`, `RestartApp` (`containerAction`) | `ReadApp`, `ReadCurrent`, `Drive`, `MarkDriven` |
| `ApplyReconcile` | `ListContainers`, `CompareApps`, `ClearEdge` |
| `RemoveOrphanContainer` | `CheckUntracked`, `RemoveOrphan` |
| `CreateApp`, `UpdateApp` (name) | `CreateApp`, `RenameApp` |
| `DeleteApp` | `ReadForDelete`, `ComposeDown`, `QueryCurrent`, `RemoveCurrent`, `ReadHistory`, `RemoveHistorical`, `DeleteRow` |
| every early answer 4xx/5xx | `Leaves` |

Renaming and deleting change what a running worker finds: `Load`, `ClearCurrent`,
`RecordContainer` and `SetCurrent` of the pipeline ask for the app's row (`appName`), and the
name a worker uses is the one it read.

The two queries of `DeleteApp` whose errors are dropped may come back empty: no container is
removed then, and the row is deleted all the same.

### `SiteRouting`

`site` is the table, `route[a]` what `upstreamFor` derives for app `a`, `file` the entries of the
Caddyfile, `served` those Caddy runs with. `ReadForCreate`/`InsertSite`, `ReadForToggle`/`SaveToggle`,
`ReadForPatch`/`SavePatch`, `DeleteSite` and the changes of apps are the mutations; `Render`,
`WriteFile`, `Reload` are the three calls of `regenerateAndReloadCtx`; `RegenFails` and `Rollback`
what a failure leaves, and `ReloadMissed` a reload whose exit code is read while the exec still
runs, so that it counts as done and Caddy goes on as before. `SaveFails` is an INSERT or UPDATE that is refused
or fails. `Watch` is Caddy's own `--watch` (`docker/docker.go:358`), which takes over a changed file at any
time. `drift` is a history variable: it becomes true when a step fails, when an
app changes without a regeneration or when two regenerations overlap, and false again with a
regeneration that nothing disturbed. Domains, schemes and the text of the file are abstracted:
a file is its set of entries. The services of a compose app are folded into one route per app.

### `DeployLog`

The worker's side (`OpenLog`, `AppendLine`, `CloseLog`, `Deregister`), the handler's
(`Connect`, `Stat`, `Read`, `ReadFails`, `CheckInFlight`, `Tick`), the network (`Drop`, which a failing keepalive is too), a crash, and the
view's (`Deliver`, `Pause`, `Resume` over `applyEvents`). `Stat` and `Read` are two steps because the
file grows between them: the read goes on to the end and the offset only to the size the
stat saw, so a line may come twice. `Applied` is the loop of `applyEvents`, as a function of how many
events are through it, so that it can be proved about.

### `Secrets` (with `SecretsClaims`)

The process goes through `phase` = `down`, `start`, `apps`, `env`, `serving`: nothing else runs while
`MigrateEncryption` does. A string is a text and the number of times it was encrypted, which is all
that the prefix `enc:` and AES say of it here. `stored[a][s]` is a column of app `a` or one of its
variables.

| Code | Specification |
|---|---|
| `main` until `MigrateEncryption` has returned | `Boot`, `Serve`, `MigrationFails` (`log.Fatalf`), `Crash` |
| `MigrateEncryption` | `LoadApps`, `MigrateApp` (both credentials in one UPDATE), `LoadEnv`, `MigrateEnvVar` |
| `RotateTriggerToken`, `UpdateApp` on credentials | `SetCredential`, `ClearCredential` |
| `ReplaceAppEnvVars` | `Replace`, `BeginTx`, `DeleteRows`, `InsertRow`, `Commit`; `BeginFails`, `Rollback` |
| `executeDeploy`: query, create | `ReadEnv`, `ReadEnvFails` (the error is dropped), `CreateContainer`, `DeployFails` |

The pool has one connection, so a statement of another request waits while `conn` is taken
(`Free`). `saved` is what SQLite goes back to. `given` is history: what operators set, as far as it
was committed. `asked` is what `given` was when the container's deploy read its variables.

Abstracted: a legacy value that begins with `enc:` by itself, which the migration would take
for encrypted; a change of `NANOKU_SECRET_KEY`; a deploy between two of its calls (that is
`DeployPipeline`). `Rollback` stands for a failed `Commit` too, where the code calls none because the
transaction has ended by itself. Compose-mode apps get no variables this way and are not in `Apps` here.

### `Sessions`

A request holds in `req[r]` where it is and what it carries on; a step is one SQL statement, one
critical section of the limiter, or the arrival of the answer that sets or drops the cookie
(`jar[b]`). `now` is a clock that ticks between steps.

| Code | Specification |
|---|---|
| `Login`: cutoff, then `AllowLogin` under the mutex | `StartLogin`, `AllowLogin` / `DenyLogin` |
| `Authenticate`, `SessionStore.Create` | `Compare`, `Create` |
| `SessionAuth` with `SessionStore.Lookup` | `StartRequest`, `LookupMissing`, `LookupFresh`, `LookupAgeing`, `LookupExpired`, then `Renew` / `RenewMissing` or `Expire` |
| `Logout` | `StartLogout`, `Delete` |
| `ChangePassword` | `StartRequest` with `changes`, `Verify`, `StorePassword`, `DropSessions` |
| `setSessionCookie`, `clearSessionCookie` | `Answer`, `Arrive` |
| the janitor's `PurgeExpired`, `PurgeStaleAttempts` | the same |
| a failing statement; a client that leaves; a restart | `Fails`, `Abandon`, `Restart` |

A session carries, beside its user and its expiry, what the properties are about: the password it
was made with (`version`, the number of changes before it), when it was last used, and whether newer
passwords had already dropped their sessions when it was created (`late`). `recent` is the limiter
as it should be, `cut[u]` the passwords whose sessions were all dropped. Abstracted: tokens are drawn
and not computed, so none is guessed or hashed. `SeedFirstAdmin` runs before the server serves.

### `Janitor`

Extends `AppOps`, whose every step is `Meanwhile` here, by the tasks that delete container rows and
log files. A task computes its cutoff once; `aged` is what lies before it. It may end at every step
(`EndTask`): a query that fails, a panic that is recovered, its 30 seconds, `Stop`.

| Code | Specification |
|---|---|
| `pruneOldContainers` | `ReadCurrentIDs`, `ReadOldContainers`, `DeleteContainer` for each |
| `pruneOldLogFiles` | `ReadOldDeploys`, `RemoveOldLog` for each |
| `pruneOrphanLogFiles` | `ListLogs`, `CheckFile`, `RemoveOrphanLog` for each |
| an error of one element | `SkipOne`, `SkipUnlink` |
| `purgeExpiredSessions`, `purgeStaleAttempts` | in `Sessions` |

### `LogPump` (with `LogPumpClaims`)

A tail of a container: the goroutine that reads the engine's stream, the channels between, and
the handler's `select`. A frame is a few pieces, a piece a newline or some text; `text` is history, all
that the engine sent. A line is whole if it is a stretch of its stream that ends with its only
newline and begins where the line of that stream before it ended (`NextLine`).

| Code | Specification |
|---|---|
| `stdcopy.StdCopy` into two `lineWriter`s | `Read`, `SendLine` (blocks on a full channel), `WriteReturns`, `ReadEnds`, `ReadBreaks`, `ReadReleased` |
| the goroutine's deferred calls, last first | `ReaderCancels`, `CloseErrs`, `CloseLines` |
| `streamToSSE` | `TakeLine`, `TakeEnd` (which looks at the errors once more), `TakeError`, `TakeClosedErrors`, `ContextDone`, `Cancel` |
| the browser | `Disconnect` |

### Proof modules

`DeployPipelineProofs`, `AppOpsProofs`, `SiteRoutingProofs`, `DeployLogProofs`, `SecretsProofs`,
`SessionsProofs`, `JanitorProofs`, `LogPumpProofs`; see [the proofs](#the-proofs).

## The runs

`tlc -workers 2 -config <run>.cfg <module>`; the module of each run is in `PROJECT.json`.

| Run | Instance | Shows |
|---|---|---|
| `deploy_redeploy` | 2 deploys of a docker-mode app or 1 of a compose-mode one, all six kinds of events | type, exact lock, exact bookkeeping of the registered workers, ownership of the container through a deploy, a true `current_container` edge, an edge that stays clear until the worker sets it, success only for the current deploy; a worker that leaves has written its outcome unless the write failed, the lock is always freed, an accepted deploy gets an outcome unless its write fails or its process ends; and that the pipeline implements `DeployContract` |
| `apps_ops` | 2 apps (one compose), 1 deploy, 2 requests, all six operations, shutdown | types, and that edges stay own, while apps are driven, reconciled, renamed, created and deleted under a worker |
| `janitor` | 1 compose-mode app, 2 deploys, 1 request (start and stop), a crash, 1 stray file | no row of a current container is deleted, and no log that is not old |
| `site_routing` | 1 site, 2 apps, 2 routes, 2 requests, all faults | database, file and Caddy agree when quiet and not drifted; no site refers to a deleted app |
| `deploy_log` | 4 lines (2 of one progress row), 2 connections, cap 4 | no gap, pausing only defers, one row per key, the stream ends |
| `secrets` | 1 app, 2 credentials, 2 variables, 2 requests, failing statements and crashes; every plain-text database to start from | nothing served is kept in plain text, reads give back what was set last, a container has the variables of one replacement with the values that were set, and the connection is given back |
| `sessions` | 1 user, 1 browser, 2 tokens, 2 requests, TTL 3, window 1, limit 1, clock to 4, 1 change of password | no more admissions than the limit in a window, the sliding of the stored expiry, old sessions only from late logins, ended sessions stay ended |
| `log_pump` | 2 streams of up to 3 pieces, a channel of one place | lines are whole and in order, an end is the end, an error is shown, the engine's stream is closed after the browser left |
| `claim_*` | the smallest instance that shows it | the findings below; each is expected to be violated |

**Bounds.** `deploy_redeploy` has about 150,000 states, `janitor` 1.5 million, `apps_ops` 1.7 million and `site_routing`
0.7 million, the last three up to symmetry. Two deploys of one app are enough for every conflict of a lock, an edge or a name,
which are pairwise; a third adds only another of the same kind. That workers of two apps do not
touch one another's containers is not left to a bound: `ContainerIsOwned` is proved for any
number of apps, and `apps_ops` has two. In `deploy_redeploy` there is one name for two apps, so that one of them at most exists,
the docker-mode app with two deploys or the compose-mode app with one; two deploys in compose mode run in
`janitor`, and every proof has both modes. In `secrets` two variables make a replacement that can be
half done and a migration that can stop between two rows, two credentials an UPDATE of both or of
one; apps do not share anything but the connection, which two requests compete for. Two requests are enough for read–act races,
since every handler acts on what it has read before; a deploy is the third actor. In
`site_routing` one site suffices because entries of different sites never meet except in the
file, which is written whole; two requests give every overlap of render and write, and two apps
a relink. `SiteRouting` is symmetric in sites, requests, apps and routes, `Sessions` in tokens and requests, `AppOps` in
requests, `Janitor` in deploys (all of one app), and no
liveness is checked under these symmetries. In `deploy_log` four lines give a plain line before and after two that replace
each other, so that order, replacement and the cap (`MaxLines`, hit by replays over
`MaxConnections = 2`) all occur. In `sessions` two requests give
every pair of look-up, renewal, logout, purge and change; a TTL of 3 ticks has a first half, a
second half and an end, and the clock goes one tick past it; a delay of one tick lets a cutoff,
or a reading, be older than the critical section that uses it. A limit of one admission is at the
limit after one login, with the second request waiting for the mutex; the theorem has any limit. In `janitor` one deploy can be old
while the other is at work, and one request is enough to make a current container exit; that
three actors race in it makes it one of the longest runs. In `log_pump` three pieces are two lines, or a
line and a torn one; a channel of one place is full with one line waiting behind it, which
is what 64 places are with the 65th. Requests, deploys, connections, pieces and ticks are the
only bounded counters.
Deadlock checking is off where the system may stop: deploys have a bounded number of tries, and
operators need not act. `deploy_redeploy`, `secrets` and `site_routing` check it.

## Fairness

* A worker goes on (`WF` of `Worker(d)`): each call it makes takes a context with a deadline or
  talks to the local database. Which outcome a call has is left to chance.
* A handler between `TryAcquire` and `go` goes on: it talks to the local database only.
* The log stream goes on: its ticker fires every second, its reads are local. The worker closes
  its log and leaves the map: both are deferred calls of a goroutine with a deadline. It is
  *not* assumed that it writes all its lines.
* A transaction of `Secrets` goes on: its statements are local, and each of its error paths ends it.
* In `LogPump` both goroutines go on as long as they can, and a browser that has left is noticed
  even while lines keep coming: Go picks among the ready cases of a `select` at random. Nothing
  makes the engine send or the browser leave.
* `Sessions` and `Janitor` state no fairness; all that is said of them is safety.
* Nothing is assumed of operators, of the network, of shutdown or boot, or of requests of `AppOps`.

## The proofs

`tlapm <module>` checks them all. They hold for every set of apps, names, deploys, requests,
sites, lines, connections, credentials and variables, finite or not, and for every choice of `Events`, `Ops` and `Faults`,
under the assumptions on constants (`PipelineAssumption`, `OpsAssumption`, `JanitorAssumption`,
`RoutingAssumption`, `LogAssumption`, `SecretsAssumption`, `SessionsAssumption`, `PumpAssumption`),
which TLC evaluates in the runs.

**Pipeline.** `IInv` is the conjunction of `TypeOK`, the invariants to be shown, and what makes
them inductive:

* `DownIsQuiet`: while the process is down nothing holds the lock or is counted. Without it the
  boot could not start from an exact lock.
* `NamesAgree`: two apps never share a name, and a worker past `Load` has its app's. Without
  operators a name never changes, so two workers of different apps work on different
  containers, and two of one app exclude each other by the lock; that is the whole argument
  for `OwnsContainer`.
* `EdgeInv`: `EdgeStaysClear`, and `NoneToRetire`: no worker ever holds an old container. The second is
  how the code behaves and not what it means to do (`claim_retire`); a step of `Finish` that retired one
  would have to be shown to hit no live container.
* `RowHistory`: what the row of a deploy says at each place of its worker, and that a straggler
  has a row.
* `RowsFollow` and `EdgesFollow`: what the container row and the edge say by the time a worker is past
  them.

It comes in parts that other modules reuse: `LockInv` (types, lock, quiet), `AdmissionInv` (with the
drain and the row history) and `ContainerInv` (with the names, the rows, the edges, the containers).

From it: `TypeCorrect`, `LockIsExact`, `DrainIsExact`, `ContainerIsOwned`, `CurrentAlwaysLive`,
`EdgeAlwaysClear`, `WorkersSettle`, `SuccessAlwaysCurrent` (an action property), and `Refinement`:
each step of the pipeline is a step of the contract or a stutter. The last needs the lock
(`Admit` asks that no other deploy of the app is admitted) and the row history (`Settle` never
overwrites a success).

**With operators.** The container invariants of the pipeline fail under `AppOps`: a stop, a
deletion or an orphan removal may hit a container that a worker has just made. What survives is
proved from two invariants. `OpsInv` has the lock invariant (the step lemmas of the pipeline are
stated from the weaker `LockInv` so that they serve both), types of requests, `RecordedFirst` (a
recorded row has a name; a worker that is about to set the edge refers to a row that was inserted),
`EdgeInv` and `EdgeIsOwn`. `AdmissionInv` adds to the lock what the contract is about,
`DrainSeesWorkers` and `RowHistory`, which no operator can reach: a step of `AppOps` is one of the
pipeline or leaves process, workers and deploy rows alone (`TwoParts`, `OperatorLeaves`,
`OperatorLeavesRows`). Theorems: `OpsTypeCorrect`, `LockSurvivesOps`, `EdgesStayOwn`,
`EdgeStaysClearUnderOps` (no operation sets an edge, so what a worker has cleared stays clear),
`DrainSurvivesOps`, `WorkersSettleUnderOps`, and `OpsRefinement`: the composition still implements
`DeployContract`, with `ContractStep` reused from the pipeline.

How much of the container invariants operators can break is a theorem too. With `Ops` within
`create` and `reconcile` (`HandsOff`), `ReconcileSparesContainers` has `OwnsContainer` and
`CurrentIsLive`: a reconcile that listed the engine's containers in the middle of a redeploy clears an
edge at worst, and `ContainerInv` does not ask for one. That a deploy is then marked a success
without being current is the price (`EdgesFollow`, and with it `SuccessIsCurrent`, are not in it).
Each of the other four operations, alone beside `create`, breaks both properties, as TLC shows on two apps; `rename` needs a deploy of
each, where the second app takes the name that the first has left.

**Janitor.** `JanitorInv`: what is old is over (`AgedAreFinished`), a worker's row and a log's row are
there before them (`RowBeforeWorker`, `LogsHaveRows`), and what the task carries cannot become what
it must not delete (`TaskInv`: ids read first cover every old current row, a listed row is old and not
current, a file on the list that is a deploy's has its row). The argument is that a current row
can only be old if it was current when the ids were read, because an edge moves only to the row
of a worker, and a worker is not old; that is all the tasks need to know of `AppOps`, and the lemmas
`PipelineGentle` and `OperatorGentle` say it of each of its steps. Theorems: `LogsStay`,
`CurrentIsSpared`. The other direction, what deploys and operators rely on, is `HousekeepingInv`:
`OpsInv` and `AdmissionInv` beside `JanitorInv`. A row that the janitor deletes is neither current nor of
a deploy at work, so the edges and the rows a worker refers to survive. Theorems:
`JanitorTypeCorrect`, `EdgesOutliveJanitor`, and `JanitorRefinement`: with operators and the janitor at work
the deploys still implement `DeployContract`.

**Sessions.** `SessionsInv` adds to the properties that a request is younger than `Delay` and has read
nothing older than itself (`RequestsInTime`), that no session was used in the future
(`UsedBefore`), and that the limiter still knows every admission of the last window (`Remembers`):
a cutoff from before the mutex is earlier than now and so keeps more, never less. Theorems:
`SessionsTypeCorrect`, `LimitHolds`, `WindowSlides`, `OldSessionsGo`, `EndsAreFinal`. `WindowSlides` is about the
expiry that is stored and rests on
the assumption that a request takes less than half the TTL (three and a half days).

**Log pump.** `ErrorInv`: an error the reader has met waits in its channel until the handler takes it or
is past its `select` (`ErrorWaits`), and a closed channel of lines has nothing after it (`NoneFollows`).
Theorem: `ErrorsAreShown`. `PumpInv` is about the text: the line writer of a stream holds back what comes
after some piece of it (`SomeHeldBack`); as long as the browser is there, what it got and what is still
in the channel is a chain of whole lines of each stream up to that very piece (`OnTheWay`), which is
what a send extends and a receive only moves; no newline is held back but during a write
(`NoLineLeft`); and a closed channel, or an end that was told, comes after the reader (`Ended`).
`LinesAreWhole` alone is not inductive, as it knows nothing of the channel and of the buffers. The lemmas
below it are about stretches (`StretchesMeet`, `StretchCut`) and chains (`ChainGrows`, `ChainPrefix`). Theorems:
`PumpTypeCorrect`, `LinesStayWhole`, `EndsAreWhole`, for any number of streams, any capacity and any frames.

**Routing.** `RoutingInv` adds to the property: a request whose content is marked `clean` carries
what the database resolves to, and, at the reload, the file is that (`CleanIsCurrent`); and
while nothing has drifted, either all three agree or some request is on its way to regenerate
(`OnItsWay`). Theorems: `RoutingTypeCorrect`, `LinksDoNotDangle`, `QuietIsCoherent`.

**Log.** `StreamInv`: the offset is at most the size seen, which is at most the file
(`TailBehindFile`), and every line before the offset has been sent (`BeforeOffsetSent`).
Theorem: `LogHasNoGap`. `ViewInv` is about the view: nothing waits in a view that is not paused, and as long
as all that came fits, what was received is what is shown, applied from an empty view, and then what
is put off (`ShownThenPutOff`). That needs `applyEvents` for any number of events: `AppliedInTwo` (some
events and then some more are all of them), `AppliedKeeps` (a key has one row, and no event makes more
than one) and `LastOfKeeps` (a cut from the front keeps that). They go by induction over the number of
events. The library's induction rules take an operator and cannot be used by these provers, so
`SetInduction` derives the rule for a set of numbers from the well-foundedness of `<`, and the
recursive function of `Applied` is shown to exist with it (`OneFollows`). Theorems: `LogTypeCorrect` (rows
and events put off never exceed the buffer), `KeysHaveOneRow`, `PausesDefer`.

**Secrets.** `SecretsInv`: one request at a time has the connection, and only under a server
(`Exclusive`); the table that a crash would leave keeps what was set (`KeptOrSaved`); within a
transaction the table is the saved one with the request's progress on it, so that the commit of the
last row is the wish (`HalfReplaced`); what is in plain text is on the migration's list or not
listed yet (`SealedSoFar`); what a deploy carries is of one set (`Handed`). `ReadsBack` alone is not
inductive: a crash restores `saved`, which it does not speak of, and a commit needs to know what the
statements before it wrote. Theorems: `SecretsTypeCorrect`, `AlwaysSealed`, `AlwaysReadsBack`,
`OneSetAlways`.

**Only model-checked.** Liveness (`LockIsFreed`, `AcceptedIsSettled`, `StreamEnds`, `ConnectionIsFreed`,
`EngineIsReleased`): the prover has no fairness rules here. Every invariant and every other action
property or refinement of the passing runs is also a theorem. The four claims that fail are shown by TLC alone.

## Findings

Each is shown by a run whose property states what a comment or a text says.

| Run | What the text says | What happens |
|---|---|---|
| `claim_compose_delete` | the app and its container will be removed | `compose down` removes the container, the following removal fails, the answer is 500 and the app stays |
| `claim_retire` | the old container is retired once the new one is live, and its row marked exited (`api/deploy_executor.go:390-394`, also `164-167`) | the edge it is looked up through has been cleared (`170`), so nothing is found and the row stays `running` |
| `claim_env` | a changed variable takes effect with the next deploy | the deploy hands over the stored value, which is `enc:` and the ciphertext |
| `claim_pump` | cancel unblocks the reading goroutine (`docker/docker.go:719`) | a reader that waits at the full channel (`docker/docker.go:775`) waits for ever once its handler has left; the engine's stream is closed, the goroutine stays |

Seen while reading and modelling, most of it allowed by the models, but without a run of its own.

Deploys and apps:

* After the 30 minutes the write of the outcome uses the expired context and is lost; the row stays
  `running`, although a terminal status is always written (`api/deploy_executor.go:61, 97`).
* The old container is to be retired last, so that a failed create does not take the app offline
  (`api/deploy_executor.go:184-187`); it has the same name, and the create removes it first
  (`docker/docker.go:922`).
* `WG.Add` is inside the goroutine: a drain that comes first does not wait for the worker, and
  its row stays `running` (`api/shutdown.go:10-16` says the drain waits for the goroutines in flight and
  leaves no ghost `running` row). `DrainSeesWorkers` is about registered workers and does not exclude it.
* After the drain's deadline its placeholder `failed` and the worker's `success` race; either may
  be last (`api/shutdown.go:18-20`). `DeployContract` allows exactly that.
* Reconcile acts on a list taken earlier, and can clear the edge to a container that a deploy has
  just started (`api/reconcile.go:161`). Orphan removal can hit a container between its creation and
  its row (`api/reconcile.go:206-208`).
* After a rename the next deploy makes a container of the new name and leaves the old one running
  (`api/deploy_executor.go:390-394`): the block that would retire it never runs.
* The lock goes by app id, the container by name: an app that takes a freed name can be deployed
  while the former owner's worker still uses it (`api/deploy_lock.go:5-8`).
* An app deleted during its deploy can leave a container that runs without a row.

Sites and logs:

* The Caddyfile is to be coherent with the database always (`api/handlers.go:120-123`); two requests
  can write it in the opposite order of their reads (`131`). `CoherentUnlessDrifted` counts that as drift.
* A site for the loopback address beside an ACME address renders two global blocks, which Caddy
  refuses (`caddy/caddyfile.go:48`).
* A reload counts as done if its exec still runs when the exit code is read
  (`docker/docker.go:476`): `ReloadMissed`.
* A `CreateSite` that fails at the reload takes its row back and leaves its entry in the file.
* `UpdateSite` refuses a plain change of the upstream of a free site (`api/sites.go:310`).
* The upstream column stays when an app is linked, contrary to `db/schema/site.go:26-28`.
* Tail lines can come twice (`api/deploy_log_store.go:198`), and a reconnect replays them all into a
  view that keeps its rows; a pause drops the oldest events beyond the cap
  (`useLogStream.ts:26`); a view opened before the log file exists gets a 404 and no retry.
* One more read is to make the stream complete (`api/handlers.go:180-184`), but it comes before the
  look at the map, so the last lines can be missing (`api/deploy_log_stream.go:140-143`).
* In a container's tail the channel of errors is closed before that of lines (`docker/docker.go:729-732`), so
  the handler may leave through it with lines still buffered and no end comment. A last line without
  newline is never sent. The reader is said to be never blocked by a slow consumer (`688`,
  `712-716`) and, at `756`, to block on a full channel; it blocks.

Secrets and sign-in:

* An empty value cannot be encrypted: one in a replacement rolls all of it back
  (`api/apps.go:553-557`), although the migration keeps empty values that are there.
* A deploy whose query of the variables fails goes on without any (`api/deploy_executor.go:195`).
* An interrupted migration leaves some rows encrypted and some not; the next boot finishes it, which
  is what `AlwaysReadsBack` is about (`api/encryption_migrate.go:12-14` describes it as idempotent). That
  an error "never leaves the DB half-converted" (`13-14`) holds neither of the code nor of the model.
* `UpdateApp` mints a trigger token if the row it read had none, and can replace one that
  `RotateTriggerToken` has just shown (`api/apps.go:305`).
* A look-up that finds a session expired deletes it by its id a step later, also if another look-up
  has renewed it in between (`api/sessions.go:92-96`). So a session in use can end; `SlidingWindow` bounds the
  expiry that is stored, not the life of the row.
* The cookie is set by the login only (`api/auth.go:74`): the browser drops it seven days after the login
  although the row was renewed ("sliding renewal", the repository's `README.md:404`). A row
  is renewed in the second half of its life only, not "on each authenticated request"
  (`db/schema/session.go:26`).
* A change of the password drops the user's own session too, not "all other" ones (`api/login.go:120`),
  and none if the DELETE fails. A login that had compared the old password before keeps its new
  session: `OldSessionsAreLate` says it is the only kind left.
* Any error of a look-up drops the cookie, and so does a logout whose DELETE failed. A late 401 can drop
  the cookie of a newer login.

Janitor, networks and registry:

* Rows of superseded deploys stay `running` (see above), so neither they nor the logs of deploys that
  ended without an outcome are ever pruned (the repository's `README.md:373`).
* A zero interval "disables" a task (`api/cleanup.go:105-114`), but `applyDefaults` replaces it; elsewhere it is
  said to mean once (`87`), which `shouldRun` does not know. `Stop` is said to let the task finish (`261`) and
  cancels its context; it gives up after two seconds and the database closes under the task.
* The aliases of all services of a compose project go to each of its containers
  (`docker/docker.go:126-128`).
* The logout of one worker's pull takes the credentials from another's (`docker/registry.go:63`).
* The repository's `README.md:214` answers a busy trigger with 409; the code answers 202 with
  `accepted: false`.

## What is not modelled

* Registry login and aliases: small state of the docker CLI and of the network; planned below.
* The janitor's figures and byte counts, and when a task is due: a task of the model may start whenever
  the loop is free, which covers every interval.
* Volumes and the file browser: one transaction and path checks, no state between requests.
* Parsing (compose, progress lines, Caddyfile text): pure text; the models use their results.
* Dashboard, system, health: read-only. Router, configuration, UI shell: wiring.
* The generated database code: a statement is taken to do what it says, atomically. SQL constraints
  that matter (UNIQUE names and edges, foreign keys, ON DELETE SET NULL) are in the actions. This code
  (`internal/db` without `db.go` and `schema/`) is some 27 000 of the repository's 44 000 lines, all of
  them produced by ent from the schema: the models cover the statements, not their builders.

## The plan

Done, in this order, the deploy first because everything else races it: `DeployContract`,
`DeployPipeline`, `AppOps`, `DeployLog`, `SiteRouting`, `Secrets`, `Sessions`, `Janitor`, `LogPump`, and their
proof modules.

Next:

1. `RegistryLogin` and `Aliases`: small, shared state of the CLI and of the network.
2. In `Secrets`, who was shown which token, and a change of the key.
3. In `AppOps`, the columns of `UpdateApp` that the next deploy reads.

Proofs to follow: what of `ContainerInv` survives a stop and a start (`owner` does, `engine` does not).
Runs are kept few: a new module extends a run or
replaces one that shows less.
