------------------------------ MODULE Secrets ------------------------------
(***************************************************************************)
(* Registry passwords, trigger tokens and environment variables: sealed in *)
(* the database, rewritten at boot where an older build left them in plain *)
(* text, replaced in a transaction, and handed to containers.              *)
(*                                                                         *)
(* A string is a text and the number of times it was encrypted.  The pool  *)
(* has one connection: a transaction keeps every other statement waiting.  *)
(***************************************************************************)
EXTENDS Naturals, FiniteSets

CONSTANTS
  Apps,      \* ids of apps
  Creds,     \* columns of an app that are sealed: its token, its password
  Keys,      \* keys of environment variables
  Texts,     \* what may be kept secret
  Empty,     \* the empty text
  None,      \* no such row, NULL
  Requests,  \* requests and deploys that the server handles at a time
  Faults     \* what may go wrong, see FaultKinds

(* "db": a statement fails or its context ends;  "crash": the process dies. *)
FaultKinds == {"db", "crash"}

VARIABLES
  phase,      \* the server process
  todo,       \* what MigrateEncryption has loaded and not yet rewritten
  stored,     \* stored[a][s]: the value of column or variable s of app a
  conn,       \* the request whose transaction has the connection
  saved,      \* what its rollback restores; None outside a transaction
  req,        \* req[r]: where request r is
  container,  \* container[a]: the environment of a's container
  given,      \* history: what operators have set, as far as it was committed
  asked       \* history: what they had set when the container's deploy read it;
              \* None throughout if that query failed

vars == <<phase, todo, stored, conn, saved, req, container, given, asked>>

-----------------------------------------------------------------------------
Slots == Creds \cup Keys
Plain == Texts \cup {Empty}
Strings == [sealed : 0..2, text : Plain]
Tables == [Apps -> [Slots -> Strings \cup {None}]]
Settings == [Slots -> Plain \cup {None}]
Environments == [Keys -> Strings \cup {None}]
Wishes == [Keys -> Plain \cup {None}]

ASSUME SecretsAssumption ==
  /\ Faults \subseteq FaultKinds
  /\ Creds \cap Keys = {}
  /\ Empty \notin Texts
  /\ None \notin Plain \cup Requests
  /\ None \notin Strings
  /\ None \notin Tables

AsTyped(t) == [sealed |-> 0, text |-> t]
EncryptString(v) == [sealed |-> v.sealed + 1, text |-> v.text]
DecryptString(v) == IF v.sealed > 0 THEN [sealed |-> v.sealed - 1, text |-> v.text] ELSE v

(* A value that MigrateEncryption rewrites.                                *)
Legacy(v) == v # None /\ v.sealed = 0 /\ v.text # Empty

Idle == [at |-> "idle"]
RequestStates ==
  {Idle}
  \cup [at : {"begin", "delete"}, app : Apps, wish : Wishes]
  \cup [at : {"insert"}, app : Apps, wish : Wishes, keys : SUBSET Keys]
  \cup [at : {"create"}, app : Apps, env : Environments, wish : Wishes]

Migrating == {"start", "apps", "env"}

TypeOK ==
  /\ phase \in Migrating \cup {"down", "serving"}
  /\ todo \subseteq Apps \X Slots
  /\ stored \in Tables
  /\ conn \in Requests \cup {None}
  /\ saved \in Tables \cup {None}
  /\ req \in [Requests -> RequestStates]
  /\ container \in [Apps -> Environments]
  /\ given \in [Apps -> Settings]
  /\ asked \in [Apps -> Wishes]

(* A database that an early build has left: everything is plain text.      *)
Init ==
  /\ phase = "down"
  /\ todo = {}
  /\ given \in [Apps -> {g \in Settings : \A c \in Creds : g[c] # Empty}]
  /\ stored = [a \in Apps |->
       [s \in Slots |-> IF given[a][s] = None THEN None ELSE AsTyped(given[a][s])]]
  /\ conn = None
  /\ saved = None
  /\ req = [r \in Requests |-> Idle]
  /\ container = [a \in Apps |-> [k \in Keys |-> None]]
  /\ asked = [a \in Apps |-> [k \in Keys |-> None]]

Put(table, a, s, v) == [table EXCEPT ![a] = [@ EXCEPT ![s] = v]]
Go(r, next) == req' = [req EXCEPT ![r] = next]
Free == phase = "serving" /\ conn = None

-----------------------------------------------------------------------------
(* Faulty variants of actions below.  No specification uses them.          *)

(* An error of the migration is logged, and the server starts.             *)
MigrationFails_Serves ==
  /\ phase \in Migrating
  /\ phase' = "serving"
  /\ todo' = {}
  /\ UNCHANGED <<stored, conn, saved, req, container, given, asked>>

(* The migration does not look for the "enc:" prefix.                      *)
LoadEnv_All ==
  /\ phase = "apps" /\ todo = {}
  /\ phase' = "env"
  /\ todo' = {t \in Apps \X Keys : LET v == stored[t[1]][t[2]] IN v # None /\ v.text # Empty}
  /\ UNCHANGED <<stored, conn, saved, req, container, given, asked>>

(* The error of EncryptString is returned without a rollback.              *)
Rollback_Forgotten(r) ==
  /\ req[r].at = "insert"
  /\ \E k \in req[r].keys : req[r].wish[k] = Empty
  /\ Go(r, Idle)
  /\ UNCHANGED <<phase, todo, stored, conn, saved, container, given, asked>>

(* The rollback restores the rows of one app only.                         *)
BeginTx_OneApp(r) ==
  /\ req[r].at = "begin"
  /\ conn = None
  /\ conn' = r
  /\ saved' = stored[req[r].app]
  /\ Go(r, [req[r] EXCEPT !.at = "delete"])
  /\ UNCHANGED <<phase, todo, stored, container, given, asked>>

(* The DELETE is committed on its own; only the INSERTs that follow are in  *)
(* a transaction.                                                          *)
DeleteRows_Commits(r) ==
  LET a == req[r].app
      wish == req[r].wish
  IN  /\ req[r].at = "delete"
      /\ stored' = [stored EXCEPT ![a] =
           [s \in Slots |-> IF s \in Keys THEN None ELSE stored[a][s]]]
      /\ saved' = stored'
      /\ Go(r, [at |-> "insert", app |-> a, wish |-> wish,
                keys |-> {k \in Keys : wish[k] # None}])
      /\ UNCHANGED <<phase, todo, conn, container, given, asked>>

-----------------------------------------------------------------------------
(* main and MigrateEncryption.  Nothing else runs before it is through.    *)

Boot ==
  /\ phase = "down"
  /\ phase' = "start"
  /\ UNCHANGED <<todo, stored, conn, saved, req, container, given, asked>>

LoadApps ==
  /\ phase = "start"
  /\ phase' = "apps"
  /\ todo' = {t \in Apps \X Creds : Legacy(stored[t[1]][t[2]])}
  /\ UNCHANGED <<stored, conn, saved, req, container, given, asked>>

(* One UPDATE for the credentials of an app.                               *)
MigrateApp(a) ==
  /\ phase = "apps"
  /\ \E c \in Creds : <<a, c>> \in todo
  /\ stored' = [stored EXCEPT ![a] =
       [s \in Slots |-> IF <<a, s>> \in todo THEN EncryptString(stored[a][s])
                        ELSE stored[a][s]]]
  /\ todo' = {t \in todo : t[1] # a}
  /\ UNCHANGED <<phase, conn, saved, req, container, given, asked>>

LoadEnv ==
  /\ phase = "apps" /\ todo = {}
  /\ phase' = "env"
  /\ todo' = {t \in Apps \X Keys : Legacy(stored[t[1]][t[2]])}
  /\ UNCHANGED <<stored, conn, saved, req, container, given, asked>>

MigrateEnvVar(a, k) ==
  /\ phase = "env"
  /\ <<a, k>> \in todo
  /\ stored' = Put(stored, a, k, EncryptString(stored[a][k]))
  /\ todo' = todo \ {<<a, k>>}
  /\ UNCHANGED <<phase, conn, saved, req, container, given, asked>>

(* The first error ends the migration, and log.Fatalf the process.         *)
MigrationFails ==
  /\ phase \in Migrating
  /\ "db" \in Faults
  /\ phase' = "down"
  /\ todo' = {}
  /\ UNCHANGED <<stored, conn, saved, req, container, given, asked>>

Serve ==
  /\ phase = "env" /\ todo = {}
  /\ phase' = "serving"
  /\ UNCHANGED <<todo, stored, conn, saved, req, container, given, asked>>

(* SQLite undoes a transaction that was not committed.                     *)
Crash ==
  /\ "crash" \in Faults
  /\ phase # "down"
  /\ phase' = "down"
  /\ todo' = {}
  /\ stored' = IF conn = None THEN stored ELSE saved
  /\ conn' = None /\ saved' = None
  /\ req' = [r \in Requests |-> Idle]
  /\ UNCHANGED <<container, given, asked>>

-----------------------------------------------------------------------------
(* CreateApp, UpdateApp, RotateTriggerToken: one statement.                *)

SetCredential(a, c, t) ==
  /\ Free
  /\ stored' = Put(stored, a, c, EncryptString(AsTyped(t)))
  /\ given' = Put(given, a, c, t)
  /\ UNCHANGED <<phase, todo, conn, saved, req, container, asked>>

ClearCredential(a, c) ==
  /\ Free
  /\ stored' = Put(stored, a, c, None)
  /\ given' = Put(given, a, c, None)
  /\ UNCHANGED <<phase, todo, conn, saved, req, container, asked>>

-----------------------------------------------------------------------------
(* ReplaceAppEnvVars: wipe and recreate in a transaction.                  *)

Replace(r, a, wish) ==
  /\ Free
  /\ req[r].at = "idle"
  /\ Go(r, [at |-> "begin", app |-> a, wish |-> wish])
  /\ UNCHANGED <<phase, todo, stored, conn, saved, container, given, asked>>

BeginTx(r) ==
  /\ req[r].at = "begin"
  /\ conn = None
  /\ conn' = r
  /\ saved' = stored
  /\ Go(r, [req[r] EXCEPT !.at = "delete"])
  /\ UNCHANGED <<phase, todo, stored, container, given, asked>>

DeleteRows(r) ==
  LET a == req[r].app
      wish == req[r].wish
  IN  /\ req[r].at = "delete"
      /\ stored' = [stored EXCEPT ![a] =
           [s \in Slots |-> IF s \in Keys THEN None ELSE stored[a][s]]]
      /\ Go(r, [at |-> "insert", app |-> a, wish |-> wish,
                keys |-> {k \in Keys : wish[k] # None}])
      /\ UNCHANGED <<phase, todo, conn, saved, container, given, asked>>

(* EncryptString refuses the empty text.                                   *)
InsertRow(r, k) ==
  /\ req[r].at = "insert"
  /\ k \in req[r].keys
  /\ req[r].wish[k] # Empty
  /\ stored' = Put(stored, req[r].app, k, EncryptString(AsTyped(req[r].wish[k])))
  /\ Go(r, [req[r] EXCEPT !.keys = @ \ {k}])
  /\ UNCHANGED <<phase, todo, conn, saved, container, given, asked>>

Commit(r) ==
  /\ req[r].at = "insert"
  /\ req[r].keys = {}
  /\ conn' = None /\ saved' = None
  /\ given' = [given EXCEPT ![req[r].app] =
       [s \in Slots |-> IF s \in Keys THEN req[r].wish[s] ELSE given[req[r].app][s]]]
  /\ Go(r, Idle)
  /\ UNCHANGED <<phase, todo, stored, container, asked>>

(* A Commit whose context was cancelled ends the same way: database/sql    *)
(* rolls back and gives the connection back.                               *)
Rollback(r) ==
  /\ req[r].at \in {"delete", "insert"}
  /\ \/ "db" \in Faults
     \/ req[r].at = "insert" /\ \E k \in req[r].keys : req[r].wish[k] = Empty
  /\ conn' = None /\ saved' = None
  /\ stored' = saved
  /\ Go(r, Idle)
  /\ UNCHANGED <<phase, todo, container, given, asked>>

(* No connection was to be had before the context ended.                   *)
BeginFails(r) ==
  /\ req[r].at = "begin"
  /\ "db" \in Faults
  /\ Go(r, Idle)
  /\ UNCHANGED <<phase, todo, stored, conn, saved, container, given, asked>>

-----------------------------------------------------------------------------
(* A deploy of a docker-mode app; the deploy lock admits one per app.      *)

ReadEnv(r, a) ==
  /\ Free
  /\ req[r].at = "idle"
  /\ \A q \in Requests : req[q].at = "create" => req[q].app # a
  /\ Go(r, [at |-> "create", app |-> a, env |-> [k \in Keys |-> stored[a][k]],
            wish |-> [k \in Keys |-> given[a][k]]])
  /\ UNCHANGED <<phase, todo, stored, conn, saved, container, given, asked>>

(* The error of the query is dropped: the container gets no variables.     *)
ReadEnvFails(r, a) ==
  /\ phase = "serving"
  /\ "db" \in Faults
  /\ req[r].at = "idle"
  /\ \A q \in Requests : req[q].at = "create" => req[q].app # a
  /\ Go(r, [at |-> "create", app |-> a, env |-> [k \in Keys |-> None],
            wish |-> [k \in Keys |-> None]])
  /\ UNCHANGED <<phase, todo, stored, conn, saved, container, given, asked>>

CreateContainer(r) ==
  /\ req[r].at = "create"
  /\ container' = [container EXCEPT ![req[r].app] = req[r].env]
  /\ asked' = [asked EXCEPT ![req[r].app] = req[r].wish]
  /\ Go(r, Idle)
  /\ UNCHANGED <<phase, todo, stored, conn, saved, given>>

DeployFails(r) ==
  /\ req[r].at = "create"
  /\ Go(r, Idle)
  /\ UNCHANGED <<phase, todo, stored, conn, saved, container, given, asked>>

-----------------------------------------------------------------------------
Migration ==
  \/ Boot \/ LoadApps \/ LoadEnv \/ MigrationFails \/ Serve \/ Crash
  \/ \E a \in Apps : MigrateApp(a) \/ \E k \in Keys : MigrateEnvVar(a, k)

Operator(r) ==
  \E a \in Apps : ReadEnv(r, a) \/ ReadEnvFails(r, a) \/ \E w \in Wishes : Replace(r, a, w)

Transaction(r) ==
  DeleteRows(r) \/ (\E k \in Keys : InsertRow(r, k)) \/ Commit(r) \/ Rollback(r)

Next ==
  \/ Migration
  \/ \E a \in Apps, c \in Creds : ClearCredential(a, c) \/ \E t \in Texts : SetCredential(a, c, t)
  \/ \E r \in Requests :
        \/ Operator(r) \/ BeginTx(r) \/ BeginFails(r) \/ Transaction(r)
        \/ CreateContainer(r) \/ DeployFails(r)

Spec == Init /\ [][Next]_vars

(* The statements of a transaction are local, and each of its error paths  *)
(* ends it.                                                                *)
FairSpec == Spec /\ \A r \in Requests : WF_vars(Transaction(r))

-----------------------------------------------------------------------------
(* main.go:47: no secret is served from plain text, however often the      *)
(* migration was cut short before.                                         *)
ServingIsSealed ==
  phase = "serving" => \A a \in Apps, s \in Slots : ~Legacy(stored[a][s])

(* What a read decrypts is what was last set: all of a replacement or      *)
(* nothing of it, and a migration that was interrupted and run again seals *)
(* nothing twice (apps.go:541, encryption_migrate.go:12).                  *)
ReadsBack ==
  conn = None => \A a \in Apps, s \in Slots :
    IF given[a][s] = None THEN stored[a][s] = None
    ELSE stored[a][s] # None /\ DecryptString(stored[a][s]) = AsTyped(given[a][s])

(* A container gets the variables of one replacement, all of them and with *)
(* the values that were set, or none if the query failed: a deploy cannot  *)
(* read in the middle of a replacement, nor one that is rolled back (the   *)
(* transaction of apps.go:541, "so partial failures don't leave junk").    *)
OneSetHandedOver ==
  \A a \in Apps, k \in Keys :
    IF asked[a][k] = None THEN container[a][k] = None
    ELSE /\ container[a][k] # None
         /\ DecryptString(container[a][k]) = AsTyped(asked[a][k])

(* No path through a replacement keeps the only connection of the pool.    *)
ConnectionIsFreed == conn # None ~> conn = None
=============================================================================
