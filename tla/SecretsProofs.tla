--------------------------- MODULE SecretsProofs ---------------------------
(***************************************************************************)
(* Proofs about Secrets, for any apps, columns, variables, texts and       *)
(* requests, and any choice of Faults.                                     *)
(***************************************************************************)
EXTENDS Secrets, TLAPS

USE SecretsAssumption

(* v is what the database may keep for the setting g.                      *)
Keeps(v, g) ==
  IF g = None THEN v = None ELSE v # None /\ DecryptString(v) = AsTyped(g)

KeepsAll(table) == \A a \in Apps, s \in Slots : Keeps(table[a][s], given[a][s])

AllSealed(table) == \A a \in Apps, s \in Slots : ~Legacy(table[a][s])

(* One transaction at a time has the connection, and only under a server.  *)
Exclusive ==
  /\ conn = None <=> saved = None
  /\ \A r \in Requests : req[r].at \in {"delete", "insert"} <=> conn = r
  /\ phase # "serving" => conn = None /\ \A r \in Requests : req[r].at = "idle"

(* What the database would be after a crash keeps what was set.            *)
KeptOrSaved ==
  /\ conn = None => KeepsAll(stored)
  /\ conn # None => KeepsAll(saved)

(* How far a transaction has changed the table it will replace.            *)
TxValue(q, s) ==
  IF q.wish[s] = None \/ s \in q.keys THEN None ELSE EncryptString(AsTyped(q.wish[s]))
HalfReplaced ==
  \A r \in Requests :
    /\ req[r].at = "delete" => stored = saved
    /\ req[r].at = "insert" => \A k \in req[r].keys : req[r].wish[k] # None
    /\ req[r].at = "insert" =>
         \A a \in Apps, s \in Slots :
           stored[a][s] = IF a = req[r].app /\ s \in Keys THEN TxValue(req[r], s)
                          ELSE saved[a][s]

(* What is in plain text still is on the list, or was not listed yet.      *)
SealedSoFar ==
  /\ phase = "apps" => \A a \in Apps, c \in Creds : Legacy(stored[a][c]) <=> <<a, c>> \in todo
  /\ phase = "apps" => todo \subseteq Apps \X Creds
  /\ phase = "env" => \A a \in Apps, c \in Creds : ~Legacy(stored[a][c])
  /\ phase = "env" => \A a \in Apps, k \in Keys : Legacy(stored[a][k]) <=> <<a, k>> \in todo
  /\ phase = "env" => todo \subseteq Apps \X Keys
  /\ phase = "serving" => AllSealed(stored)
  /\ phase = "serving" /\ conn # None => AllSealed(saved)

(* An environment is what was set, as it is stored.                        *)
Fits(env, wish) == \A k \in Keys : Keeps(env[k], wish[k])
Handed ==
  /\ \A a \in Apps : Fits(container[a], asked[a])
  /\ \A r \in Requests : req[r].at = "create" => Fits(req[r].env, req[r].wish)

SecretsInv == TypeOK /\ Exclusive /\ KeptOrSaved /\ HalfReplaced /\ SealedSoFar /\ Handed

-----------------------------------------------------------------------------
(* Values.                                                                 *)

LEMMA TypedValue ==
  ASSUME NEW t \in Plain
  PROVE  AsTyped(t) \in Strings /\ Keeps(AsTyped(t), t)
  BY DEF AsTyped, Strings, Keeps, DecryptString, Plain

(* A value that was encrypted once reads as it was typed.                  *)
LEMMA SealedValue ==
  ASSUME NEW t \in Plain
  PROVE  /\ EncryptString(AsTyped(t)) \in Strings
         /\ EncryptString(AsTyped(t)) # None
         /\ Keeps(EncryptString(AsTyped(t)), t)
         /\ ~Legacy(EncryptString(AsTyped(t)))
<1> DEFINE v == EncryptString(AsTyped(t))
<1>1. v = [sealed |-> 1, text |-> t]
  BY DEF EncryptString, AsTyped
<1>2. v \in Strings
  BY <1>1 DEF Strings
<1>3. DecryptString(v) = AsTyped(t)
  BY <1>1 DEF DecryptString, AsTyped
<1> QED
  BY <1>1, <1>2, <1>3 DEF Keeps, Legacy, Plain

(* Encrypting what is in plain text keeps the setting.                     *)
LEMMA MigratedValue ==
  ASSUME NEW v \in Strings \cup {None}, NEW g \in Plain \cup {None},
         Keeps(v, g), Legacy(v)
  PROVE  /\ EncryptString(v) \in Strings
         /\ Keeps(EncryptString(v), g)
         /\ ~Legacy(EncryptString(v))
<1>1. v \in Strings /\ v.sealed = 0 /\ g \in Plain
  BY DEF Legacy, Keeps
<1>2. v = [sealed |-> v.sealed, text |-> v.text]
  BY <1>1 DEF Strings
<1>3. v = AsTyped(g)
  BY <1>1 DEF Legacy, Keeps, DecryptString
<1> QED
  BY <1>1, <1>3, SealedValue

-----------------------------------------------------------------------------
(* Tables and requests.                                                    *)

LEMMA PutTable ==
  ASSUME NEW table \in Tables, NEW a \in Apps, NEW s \in Slots, NEW v \in Strings \cup {None}
  PROVE  /\ Put(table, a, s, v) \in Tables
         /\ \A b \in Apps, z \in Slots :
              Put(table, a, s, v)[b][z] = IF b = a /\ z = s THEN v ELSE table[b][z]
  BY DEF Put, Tables

LEMMA PutSetting ==
  ASSUME NEW g \in [Apps -> Settings], NEW a \in Apps, NEW s \in Slots,
         NEW v \in Plain \cup {None}
  PROVE  /\ Put(g, a, s, v) \in [Apps -> Settings]
         /\ \A b \in Apps, z \in Slots :
              Put(g, a, s, v)[b][z] = IF b = a /\ z = s THEN v ELSE g[b][z]
  BY DEF Put, Settings

(* What a request carries is what its place says.                          *)
LEMMA Carries ==
  ASSUME TypeOK, NEW r \in Requests
  PROVE  /\ req[r].at \in {"idle", "begin", "delete", "insert", "create"}
         /\ req[r].at # "idle" => req[r].app \in Apps /\ req[r].wish \in Wishes
         /\ req[r].at = "begin" =>
              /\ [req[r] EXCEPT !.at = "delete"] \in RequestStates
              /\ [req[r] EXCEPT !.at = "delete"].at = "delete"
         /\ req[r].at = "insert" => req[r].keys \subseteq Keys
         /\ req[r].at = "insert" => \A k \in Keys :
              LET q == [req[r] EXCEPT !.keys = @ \ {k}]
              IN  /\ q \in RequestStates /\ q.at = "insert"
                  /\ q.app = req[r].app /\ q.wish = req[r].wish /\ q.keys = req[r].keys \ {k}
         /\ req[r].at = "create" => req[r].env \in Environments
<1>1. req[r] \in RequestStates
  BY DEF TypeOK
<1> QED
  BY <1>1 DEF RequestStates, Idle

LEMMA NewRequests ==
  ASSUME NEW a \in Apps, NEW w \in Wishes
  PROVE  /\ Idle \in RequestStates /\ Idle.at = "idle"
         /\ [at |-> "begin", app |-> a, wish |-> w] \in RequestStates
         /\ \A K \in SUBSET Keys :
              [at |-> "insert", app |-> a, wish |-> w, keys |-> K] \in RequestStates
         /\ \A e \in Environments :
              [at |-> "create", app |-> a, env |-> e, wish |-> w] \in RequestStates
  BY DEF RequestStates, Idle

-----------------------------------------------------------------------------
(* Start.                                                                  *)

LEMMA InitSecrets == Init => SecretsInv
<1> SUFFICES ASSUME Init PROVE SecretsInv
  OBVIOUS
<1>1. \A a \in Apps, s \in Slots : given[a][s] \in Plain \cup {None}
  BY DEF Init, Settings
<1>2. ASSUME NEW a \in Apps, NEW s \in Slots
      PROVE  stored[a][s] \in Strings \cup {None} /\ Keeps(stored[a][s], given[a][s])
  <2>1. stored[a][s] = IF given[a][s] = None THEN None ELSE AsTyped(given[a][s])
    BY DEF Init
  <2>2. CASE given[a][s] = None
    BY <2>1, <2>2 DEF Keeps
  <2>3. CASE given[a][s] # None
    BY <1>1, <2>1, <2>3, TypedValue
  <2> QED
    BY <2>2, <2>3
<1>3. TypeOK
  <2>1. stored \in Tables
    BY <1>2 DEF Init, Tables
  <2>2. req \in [Requests -> RequestStates]
    BY DEF Init, RequestStates
  <2>3. container \in [Apps -> Environments] /\ asked \in [Apps -> Wishes]
    BY DEF Init, Environments, Wishes
  <2> QED
    BY <2>1, <2>2, <2>3 DEF Init, TypeOK, Migrating
<1>4. Exclusive /\ HalfReplaced /\ SealedSoFar
  BY DEF Init, Exclusive, HalfReplaced, SealedSoFar, Idle
<1>5. KeptOrSaved
  BY <1>2 DEF Init, KeptOrSaved, KeepsAll
<1>6. Handed
  BY DEF Init, Handed, Fits, Keeps, Idle
<1> QED
  BY <1>3, <1>4, <1>5, <1>6 DEF SecretsInv

-----------------------------------------------------------------------------
(* The migration: alone in the process, with no transaction about.         *)

(* What its steps do not touch.                                            *)
OthersStay == UNCHANGED <<conn, saved, req, container, given, asked>>

LEMMA MigrationKeepsOthers ==
  ASSUME SecretsInv, OthersStay, phase # "serving"
  PROVE  /\ Exclusive' /\ HalfReplaced' /\ Handed'
         /\ conn = None /\ conn' = None /\ KeepsAll(stored)
         /\ stored' \in Tables /\ todo' \subseteq Apps \X Slots
            /\ phase' \in Migrating \cup {"down", "serving"} => TypeOK'
<1>1. conn = None /\ \A r \in Requests : req[r].at = "idle"
  BY DEF SecretsInv, Exclusive
<1> QED
  BY <1>1 DEF SecretsInv, OthersStay, Exclusive, HalfReplaced, Handed, KeptOrSaved, TypeOK

(* Steps that load, give up or go on.                                      *)
LEMMA MigrationReads ==
  SecretsInv /\ (Boot \/ LoadApps \/ LoadEnv \/ MigrationFails \/ Serve) => SecretsInv'
<1> SUFFICES ASSUME SecretsInv, Boot \/ LoadApps \/ LoadEnv \/ MigrationFails \/ Serve
             PROVE  SecretsInv'
  OBVIOUS
<1>1. OthersStay /\ stored' = stored /\ phase # "serving"
  BY DEF OthersStay, Boot, LoadApps, LoadEnv, MigrationFails, Serve, Migrating
<1>2. TypeOK'
  <2>1. stored' \in Tables
    BY <1>1 DEF SecretsInv, TypeOK
  <2>2. todo' \subseteq Apps \X Slots
    BY DEF SecretsInv, TypeOK, Boot, LoadApps, LoadEnv, MigrationFails, Serve, Slots
  <2>3. phase' \in Migrating \cup {"down", "serving"}
    BY DEF Boot, LoadApps, LoadEnv, MigrationFails, Serve, Migrating
  <2> QED
    BY <1>1, <2>1, <2>2, <2>3, MigrationKeepsOthers
<1>3. KeptOrSaved'
  BY <1>1, MigrationKeepsOthers DEF KeptOrSaved, KeepsAll, OthersStay
<1>4. SealedSoFar'
  <2>1. CASE Boot \/ MigrationFails
    BY <2>1 DEF Boot, MigrationFails, SealedSoFar
  <2>2. CASE LoadApps
    BY <1>1, <2>2 DEF LoadApps, SealedSoFar
  <2>3. CASE LoadEnv
    BY <1>1, <2>3 DEF SecretsInv, LoadEnv, SealedSoFar
  <2>4. CASE Serve
    <3>1. AllSealed(stored)
      BY <2>4 DEF SecretsInv, Serve, SealedSoFar, AllSealed, Slots
    <3> QED
      BY <1>1, <2>4, <3>1, MigrationKeepsOthers DEF Serve, SealedSoFar, AllSealed
  <2> QED
    BY <2>1, <2>2, <2>3, <2>4
<1> QED
  BY <1>1, <1>2, <1>3, <1>4, MigrationKeepsOthers DEF SecretsInv

(* Steps that rewrite.                                                     *)
LEMMA MigrationWrites ==
  ASSUME SecretsInv, NEW a \in Apps, MigrateApp(a) \/ \E k \in Keys : MigrateEnvVar(a, k)
  PROVE  SecretsInv'
<1>1. OthersStay /\ phase' = phase /\ phase \in {"apps", "env"}
  BY DEF OthersStay, MigrateApp, MigrateEnvVar
<1>2. \A b \in Apps, s \in Slots : /\ stored[b][s] \in Strings \cup {None}
                                  /\ given[b][s] \in Plain \cup {None}
  BY DEF SecretsInv, TypeOK, Tables, Settings
<1> DEFINE Hit(b, s) == <<b, s>> \in todo /\ <<b, s>> \notin todo'
<1> DEFINE Rewritten == \A b \in Apps, s \in Slots :
             stored'[b][s] = IF Hit(b, s) THEN EncryptString(stored[b][s]) ELSE stored[b][s]
<1> DEFINE Shaped == /\ stored' = [b \in Apps |-> stored'[b]]
                     /\ \A b \in Apps : stored'[b] = [s \in Slots |-> stored'[b][s]]
<1>3. Rewritten /\ Shaped /\ todo' \subseteq todo
  <2>1. stored \in Tables
    BY DEF SecretsInv, TypeOK
  <2>2. CASE MigrateApp(a)
    <3>1. \A b \in Apps, s \in Slots : Hit(b, s) <=> b = a /\ <<b, s>> \in todo
      BY <2>2 DEF MigrateApp
    <3> QED
      BY <2>1, <2>2, <3>1 DEF MigrateApp, Tables
  <2>3. ASSUME NEW k \in Keys, MigrateEnvVar(a, k)
        PROVE  Rewritten /\ Shaped /\ todo' \subseteq todo
    <3>1. \A b \in Apps, s \in Slots : Hit(b, s) <=> b = a /\ s = k
      BY <2>3 DEF MigrateEnvVar
    <3>2. k \in Slots
      BY DEF Slots
    <3>3. stored' = Put(stored, a, k, EncryptString(stored[a][k])) /\ todo' \subseteq todo
      BY <2>3 DEF MigrateEnvVar
    <3> QED
      BY <2>1, <3>1, <3>2, <3>3 DEF Put, Tables
  <2> QED
    BY <2>2, <2>3
<1>4. \A b \in Apps, s \in Slots : Hit(b, s) => Legacy(stored[b][s])
  <2>1. phase = "apps" => todo \subseteq Apps \X Creds
    BY DEF SecretsInv, SealedSoFar
  <2>2. phase = "env" => todo \subseteq Apps \X Keys
    BY DEF SecretsInv, SealedSoFar
  <2> QED
    BY <1>1, <2>1, <2>2 DEF SecretsInv, SealedSoFar
<1>5. \A b \in Apps, s \in Slots : Keeps(stored[b][s], given[b][s])
  BY <1>1, MigrationKeepsOthers DEF KeepsAll
<1>6. ASSUME NEW b \in Apps, NEW s \in Slots
      PROVE  /\ stored'[b][s] \in Strings \cup {None}
             /\ Keeps(stored'[b][s], given[b][s])
             /\ Hit(b, s) => ~Legacy(stored'[b][s])
             /\ ~Hit(b, s) => stored'[b][s] = stored[b][s]
  <2>1. CASE Hit(b, s)
    <3>1. stored'[b][s] = EncryptString(stored[b][s])
      BY <1>3, <2>1
    <3>2. Legacy(stored[b][s])
      BY <1>4, <2>1
    <3> QED
      BY <1>2, <1>5, <2>1, <3>1, <3>2, MigratedValue
  <2>2. CASE ~Hit(b, s)
    BY <1>2, <1>3, <1>5, <2>2
  <2> QED
    BY <2>1, <2>2
<1>7. TypeOK'
  <2>1. stored' \in Tables
    BY <1>3, <1>6 DEF Tables
  <2>2. todo' \subseteq Apps \X Slots
    BY <1>3 DEF SecretsInv, TypeOK
  <2> QED
    BY <1>1, <2>1, <2>2, MigrationKeepsOthers DEF Migrating
<1>8. KeptOrSaved'
  BY <1>1, <1>6, MigrationKeepsOthers DEF KeptOrSaved, KeepsAll, OthersStay
<1>9. SealedSoFar'
  <2>1. CASE phase = "apps"
    <3>1. todo \subseteq Apps \X Creds
          /\ \A b \in Apps, c \in Creds : Legacy(stored[b][c]) <=> <<b, c>> \in todo
      BY <2>1 DEF SecretsInv, SealedSoFar
    <3>2. \A b \in Apps, c \in Creds : Legacy(stored'[b][c]) <=> <<b, c>> \in todo'
      BY <1>3, <1>6, <3>1 DEF Slots
    <3> QED
      BY <1>1, <1>3, <2>1, <3>1, <3>2 DEF SealedSoFar
  <2>2. CASE phase = "env"
    <3>1. /\ todo \subseteq Apps \X Keys
          /\ \A b \in Apps, c \in Creds : ~Legacy(stored[b][c])
          /\ \A b \in Apps, k \in Keys : Legacy(stored[b][k]) <=> <<b, k>> \in todo
      BY <2>2 DEF SecretsInv, SealedSoFar
    <3>2. \A b \in Apps, k \in Keys : Legacy(stored'[b][k]) <=> <<b, k>> \in todo'
      BY <1>3, <1>6, <3>1 DEF Slots
    <3>3. \A b \in Apps, c \in Creds : ~Legacy(stored'[b][c])
      BY <1>6, <3>1 DEF Slots
    <3> QED
      BY <1>1, <1>3, <2>2, <3>1, <3>2, <3>3 DEF SealedSoFar
  <2> QED
    BY <1>1, <2>1, <2>2
<1> QED
  BY <1>1, <1>7, <1>8, <1>9, MigrationKeepsOthers DEF SecretsInv

(* A crash brings back what a transaction had found.                       *)
LEMMA CrashKeeps == SecretsInv /\ Crash => SecretsInv'
<1> SUFFICES ASSUME SecretsInv, Crash PROVE SecretsInv'
  OBVIOUS
<1>1. stored' \in Tables /\ KeepsAll(stored')
  <2>1. CASE conn = None
    BY <2>1 DEF Crash, SecretsInv, TypeOK, KeptOrSaved
  <2>2. CASE conn # None
    BY <2>2 DEF Crash, SecretsInv, TypeOK, KeptOrSaved, Exclusive
  <2> QED
    BY <2>1, <2>2
<1>2. TypeOK'
  BY <1>1 DEF Crash, SecretsInv, TypeOK, RequestStates
<1>3. KeptOrSaved'
  BY <1>1 DEF Crash, KeptOrSaved, KeepsAll
<1>4. Exclusive' /\ HalfReplaced' /\ SealedSoFar' /\ Handed'
  BY DEF Crash, SecretsInv, Exclusive, HalfReplaced, SealedSoFar, Handed, Idle
<1> QED
  BY <1>2, <1>3, <1>4 DEF SecretsInv

-----------------------------------------------------------------------------
(* Statements of requests outside a transaction.                           *)

(* A credential is replaced by one that is sealed, or by nothing.          *)
LEMMA CredentialKeeps ==
  ASSUME SecretsInv, NEW a \in Apps, NEW c \in Creds,
         ClearCredential(a, c) \/ \E t \in Texts : SetCredential(a, c, t)
  PROVE  SecretsInv'
<1>1. Free /\ c \in Slots /\ UNCHANGED <<phase, todo, conn, saved, req, container, asked>>
  BY DEF ClearCredential, SetCredential, Slots
<1>2. PICK v \in Strings \cup {None}, g \in Plain \cup {None} :
        /\ stored' = Put(stored, a, c, v) /\ given' = Put(given, a, c, g)
        /\ Keeps(v, g) /\ ~Legacy(v)
  <2>1. CASE ClearCredential(a, c)
    BY <2>1 DEF ClearCredential, Keeps, Legacy
  <2>2. ASSUME NEW t \in Texts, SetCredential(a, c, t)
        PROVE  /\ stored' = Put(stored, a, c, EncryptString(AsTyped(t)))
               /\ given' = Put(given, a, c, t) /\ t \in Plain
    BY <2>2 DEF SetCredential, Plain
  <2> QED
    BY <2>1, <2>2, SealedValue
<1>3. stored \in Tables /\ given \in [Apps -> Settings] /\ KeepsAll(stored) /\ AllSealed(stored)
  BY <1>1 DEF SecretsInv, TypeOK, KeptOrSaved, SealedSoFar, Free
<1>4. stored' \in Tables /\ given' \in [Apps -> Settings]
      /\ \A b \in Apps, z \in Slots : Keeps(stored'[b][z], given'[b][z]) /\ ~Legacy(stored'[b][z])
  <2>1. /\ stored' \in Tables
        /\ \A b \in Apps, z \in Slots :
             stored'[b][z] = IF b = a /\ z = c THEN v ELSE stored[b][z]
    BY <1>1, <1>2, <1>3, PutTable
  <2>2. /\ given' \in [Apps -> Settings]
        /\ \A b \in Apps, z \in Slots :
             given'[b][z] = IF b = a /\ z = c THEN g ELSE given[b][z]
    BY <1>1, <1>2, <1>3, PutSetting
  <2>3. ASSUME NEW b \in Apps, NEW z \in Slots
        PROVE  Keeps(stored'[b][z], given'[b][z]) /\ ~Legacy(stored'[b][z])
    <3>1. CASE b = a /\ z = c
      BY <1>2, <2>1, <2>2, <3>1
    <3>2. CASE ~(b = a /\ z = c)
      BY <1>3, <2>1, <2>2, <3>2 DEF KeepsAll, AllSealed
    <3> QED
      BY <3>1, <3>2
  <2> QED
    BY <2>1, <2>2, <2>3
<1>5. TypeOK'
  BY <1>1, <1>4 DEF SecretsInv, TypeOK
<1>6. Exclusive' /\ Handed'
  BY <1>1 DEF SecretsInv, Exclusive, Handed
<1>7. KeptOrSaved' /\ SealedSoFar'
  BY <1>1, <1>4 DEF KeptOrSaved, KeepsAll, SealedSoFar, AllSealed, Free
<1>8. HalfReplaced'
  BY <1>1 DEF SecretsInv, Exclusive, HalfReplaced, Free
<1> QED
  BY <1>5, <1>6, <1>7, <1>8 DEF SecretsInv

(* A request that moves and leaves the database alone.                     *)
LEMMA RequestMoves ==
  ASSUME SecretsInv, NEW r \in Requests, NEW q \in RequestStates, Go(r, q),
         phase = "serving",
         req[r].at \notin {"delete", "insert"}, q.at \notin {"delete", "insert"},
         q.at = "create" => Fits(q.env, q.wish),
         UNCHANGED <<phase, todo, stored, conn, saved, given>>,
         container' \in [Apps -> Environments], asked' \in [Apps -> Wishes],
         \A a \in Apps : Fits(container'[a], asked'[a])
  PROVE  SecretsInv'
<1>1. req \in [Requests -> RequestStates] /\ req' = [req EXCEPT ![r] = q]
  BY DEF SecretsInv, TypeOK, Go
<1>2. TypeOK'
  BY <1>1 DEF SecretsInv, TypeOK
<1>3. Exclusive'
  BY <1>1 DEF SecretsInv, Exclusive
<1>4. KeptOrSaved' /\ SealedSoFar'
  BY DEF SecretsInv, KeptOrSaved, KeepsAll, SealedSoFar, AllSealed
<1>5. HalfReplaced'
  BY <1>1 DEF SecretsInv, HalfReplaced
<1>6. Handed'
  BY <1>1 DEF SecretsInv, Handed
<1> QED
  BY <1>2, <1>3, <1>4, <1>5, <1>6 DEF SecretsInv

(* What a deploy reads on the free connection is what was set last.        *)
LEMMA ReadFits ==
  ASSUME SecretsInv, conn = None, NEW a \in Apps
  PROVE  /\ [k \in Keys |-> stored[a][k]] \in Environments
         /\ [k \in Keys |-> given[a][k]] \in Wishes
         /\ Fits([k \in Keys |-> stored[a][k]], [k \in Keys |-> given[a][k]])
<1>1. \A k \in Keys : /\ k \in Slots
                     /\ stored[a][k] \in Strings \cup {None}
                     /\ given[a][k] \in Plain \cup {None}
                     /\ Keeps(stored[a][k], given[a][k])
  BY DEF SecretsInv, TypeOK, Tables, Settings, KeptOrSaved, KeepsAll, Slots
<1> QED
  BY <1>1 DEF Environments, Wishes, Fits

LEMMA RequestsKeep ==
  ASSUME SecretsInv, NEW r \in Requests,
         Operator(r) \/ BeginFails(r) \/ CreateContainer(r) \/ DeployFails(r)
  PROVE  SecretsInv'
<1>1. container \in [Apps -> Environments] /\ asked \in [Apps -> Wishes]
      /\ (\A a \in Apps : Fits(container[a], asked[a])) /\ TypeOK
  BY DEF SecretsInv, TypeOK, Handed
<1>2. req[r].at # "idle" => phase = "serving"
  BY DEF SecretsInv, Exclusive
<1>3. ASSUME NEW a \in Apps, NEW w \in Wishes, Replace(r, a, w) PROVE SecretsInv'
  <2> DEFINE q == [at |-> "begin", app |-> a, wish |-> w]
  <2>1. q \in RequestStates /\ q.at = "begin"
    BY NewRequests
  <2>2. Go(r, q) /\ phase = "serving" /\ req[r].at = "idle"
        /\ UNCHANGED <<phase, todo, stored, conn, saved, given, container, asked>>
    BY <1>3 DEF Replace, Free
  <2> HIDE DEF q
  <2> QED
    BY <1>1, <2>1, <2>2, RequestMoves
<1>4. ASSUME NEW a \in Apps, ReadEnv(r, a) \/ ReadEnvFails(r, a) PROVE SecretsInv'
  <2>1. PICK e \in Environments, w \in Wishes :
          Fits(e, w) /\ Go(r, [at |-> "create", app |-> a, env |-> e, wish |-> w])
    <3>1. CASE ReadEnv(r, a)
      BY <3>1, ReadFits DEF ReadEnv, Free
    <3>2. CASE ReadEnvFails(r, a)
      <4>1. [k \in Keys |-> None] \in Environments /\ [k \in Keys |-> None] \in Wishes
        BY DEF Environments, Wishes
      <4>2. Fits([k \in Keys |-> None], [k \in Keys |-> None])
        BY DEF Fits, Keeps
      <4> QED
        BY <3>2, <4>1, <4>2 DEF ReadEnvFails
    <3> QED
      BY <1>4, <3>1, <3>2
  <2> DEFINE q == [at |-> "create", app |-> a, env |-> e, wish |-> w]
  <2>2. q \in RequestStates
    BY NewRequests
  <2>3. q.at = "create" /\ q.env = e /\ q.wish = w
    OBVIOUS
  <2>4. phase = "serving" /\ req[r].at = "idle"
        /\ UNCHANGED <<phase, todo, stored, conn, saved, given, container, asked>>
    BY <1>4 DEF ReadEnv, ReadEnvFails, Free
  <2>5. Go(r, q)
    BY <2>1
  <2> HIDE DEF q
  <2> QED
    BY <1>1, <2>1, <2>2, <2>3, <2>4, <2>5, RequestMoves
<1>5. CASE BeginFails(r) \/ DeployFails(r)
  <2>1. Go(r, Idle) /\ req[r].at \in {"begin", "create"}
        /\ UNCHANGED <<phase, todo, stored, conn, saved, given, container, asked>>
    BY <1>5 DEF BeginFails, DeployFails
  <2>2. Idle \in RequestStates /\ Idle.at = "idle"
    BY DEF RequestStates, Idle
  <2> QED
    BY <1>1, <1>2, <2>1, <2>2, RequestMoves
<1>6. CASE CreateContainer(r)
  <2>1. Go(r, Idle) /\ req[r].at = "create" /\ UNCHANGED <<phase, todo, stored, conn, saved, given>>
        /\ container' = [container EXCEPT ![req[r].app] = req[r].env]
        /\ asked' = [asked EXCEPT ![req[r].app] = req[r].wish]
    BY <1>6 DEF CreateContainer
  <2>2. Idle \in RequestStates /\ Idle.at = "idle"
    BY DEF RequestStates, Idle
  <2>3. req[r].app \in Apps /\ req[r].wish \in Wishes /\ req[r].env \in Environments
        /\ Fits(req[r].env, req[r].wish)
    BY <1>1, <2>1, Carries DEF SecretsInv, Handed
  <2>4. /\ container' \in [Apps -> Environments] /\ asked' \in [Apps -> Wishes]
        /\ \A a \in Apps : Fits(container'[a], asked'[a])
    BY <1>1, <2>1, <2>3
  <2> QED
    BY <1>2, <2>1, <2>2, <2>4, RequestMoves
<1> QED
  BY <1>3, <1>4, <1>5, <1>6 DEF Operator

-----------------------------------------------------------------------------
(* A replacement in its transaction.                                       *)

LEMMA BeginKeeps ==
  ASSUME SecretsInv, NEW r \in Requests, BeginTx(r)
  PROVE  SecretsInv'
<1> DEFINE q == [req[r] EXCEPT !.at = "delete"]
<1>1. q \in RequestStates /\ q.at = "delete"
  BY Carries DEF SecretsInv, BeginTx
<1>2. /\ req \in [Requests -> RequestStates] /\ req' = [req EXCEPT ![r] = q]
      /\ conn = None /\ conn' = r /\ saved' = stored /\ req[r].at = "begin"
      /\ UNCHANGED <<phase, todo, stored, container, given, asked>>
  BY DEF SecretsInv, TypeOK, BeginTx, Go
<1>3. phase = "serving" /\ stored \in Tables
  BY <1>2 DEF SecretsInv, Exclusive, TypeOK
<1> HIDE DEF q
<1>4. TypeOK'
  BY <1>1, <1>2 DEF SecretsInv, TypeOK
<1>5. Exclusive'
  BY <1>1, <1>2, <1>3 DEF SecretsInv, Exclusive
<1>6. KeptOrSaved' /\ SealedSoFar'
  BY <1>2, <1>3 DEF SecretsInv, KeptOrSaved, KeepsAll, SealedSoFar, AllSealed
<1>7. HalfReplaced'
  <2>1. \A p \in Requests : req[p].at \notin {"delete", "insert"}
    BY <1>2 DEF SecretsInv, Exclusive
  <2> QED
    BY <1>1, <1>2, <2>1 DEF HalfReplaced
<1>8. Handed'
  BY <1>1, <1>2 DEF SecretsInv, Handed
<1> QED
  BY <1>4, <1>5, <1>6, <1>7, <1>8 DEF SecretsInv

(* A statement of the transaction: the table is what the request has made  *)
(* of the saved one, and nothing in it is in plain text.                   *)
LEMMA StatementKeeps ==
  ASSUME SecretsInv, NEW r \in Requests, req[r].at \in {"delete", "insert"},
         NEW q \in RequestStates, Go(r, q), q.at = "insert", q.wish \in Wishes,
         \A k \in q.keys : q.wish[k] # None,
         stored' \in [Apps -> [Slots -> {v : v \in Strings \cup {None}}]],
         \A a \in Apps, s \in Slots :
           stored'[a][s] = IF a = q.app /\ s \in Keys THEN TxValue(q, s) ELSE saved[a][s],
         UNCHANGED <<phase, todo, conn, saved, container, given, asked>>
  PROVE  SecretsInv'
<1>1. /\ req \in [Requests -> RequestStates] /\ req' = [req EXCEPT ![r] = q]
      /\ conn = r /\ conn # None /\ saved # None /\ phase = "serving"
  BY DEF SecretsInv, TypeOK, Exclusive, Go
<1>2. TypeOK'
  BY <1>1 DEF SecretsInv, TypeOK, Tables
<1>3. Exclusive' /\ Handed'
  BY <1>1 DEF SecretsInv, Exclusive, Handed
<1>4. KeptOrSaved'
  BY <1>1 DEF SecretsInv, KeptOrSaved, KeepsAll
<1>5. HalfReplaced'
  <2>1. \A p \in Requests \ {r} : req'[p].at \notin {"delete", "insert"}
    BY <1>1 DEF SecretsInv, Exclusive
  <2> QED
    BY <1>1, <2>1 DEF HalfReplaced, TxValue
<1>6. SealedSoFar'
  <2>1. ASSUME NEW a \in Apps, NEW s \in Slots PROVE ~Legacy(stored'[a][s])
    <3>1. CASE a = q.app /\ s \in Keys
      <4>1. q.wish[s] \in Plain \cup {None}
        BY <3>1 DEF Wishes
      <4>2. CASE TxValue(q, s) = None
        BY <3>1, <4>2 DEF Legacy
      <4>3. CASE TxValue(q, s) # None
        <5>1. TxValue(q, s) = EncryptString(AsTyped(q.wish[s])) /\ q.wish[s] \in Plain
          BY <4>1, <4>3 DEF TxValue
        <5> QED
          BY <3>1, <5>1, SealedValue
      <4> QED
        BY <4>2, <4>3
    <3>2. CASE ~(a = q.app /\ s \in Keys)
      BY <1>1, <3>2 DEF SecretsInv, SealedSoFar, AllSealed
    <3> QED
      BY <3>1, <3>2
  <2> QED
    BY <1>1, <2>1 DEF SecretsInv, SealedSoFar, AllSealed
<1> QED
  BY <1>2, <1>3, <1>4, <1>5, <1>6 DEF SecretsInv

LEMMA DeleteKeeps ==
  ASSUME SecretsInv, NEW r \in Requests, DeleteRows(r)
  PROVE  SecretsInv'
<1> DEFINE a == req[r].app
           w == req[r].wish
           K == {k \in Keys : w[k] # None}
           q == [at |-> "insert", app |-> a, wish |-> w, keys |-> K]
<1>1. a \in Apps /\ w \in Wishes
  BY Carries DEF SecretsInv, DeleteRows
<1>2. q \in RequestStates /\ q.at = "insert" /\ q.wish = w /\ q.app = a /\ q.keys = K
  BY <1>1, NewRequests
<1>3. /\ req[r].at = "delete" /\ Go(r, q) /\ stored \in Tables /\ stored = saved
      /\ stored' = [stored EXCEPT ![a] =
                     [s \in Slots |-> IF s \in Keys THEN None ELSE stored[a][s]]]
      /\ UNCHANGED <<phase, todo, conn, saved, container, given, asked>>
  BY DEF SecretsInv, TypeOK, HalfReplaced, DeleteRows
<1>4. (\A k \in Keys : TxValue(q, k) = None) /\ \A k \in q.keys : q.wish[k] # None
  BY <1>2 DEF TxValue
<1> HIDE DEF q
<1>5. stored' \in [Apps -> [Slots -> {v : v \in Strings \cup {None}}]]
  BY <1>1, <1>3 DEF Tables
<1>6. \A b \in Apps, s \in Slots :
        stored'[b][s] = IF b = q.app /\ s \in Keys THEN TxValue(q, s) ELSE saved[b][s]
  BY <1>1, <1>2, <1>3, <1>4 DEF Tables
<1> QED
  BY <1>1, <1>2, <1>3, <1>4, <1>5, <1>6, StatementKeeps

LEMMA InsertKeeps ==
  ASSUME SecretsInv, NEW r \in Requests, NEW k \in Keys, InsertRow(r, k)
  PROVE  SecretsInv'
<1> DEFINE q == [req[r] EXCEPT !.keys = @ \ {k}]
           new == EncryptString(AsTyped(req[r].wish[k]))
<1>1. /\ req[r].app \in Apps /\ req[r].wish \in Wishes
      /\ q \in RequestStates /\ q.at = "insert"
      /\ q.app = req[r].app /\ q.wish = req[r].wish /\ q.keys = req[r].keys \ {k}
  BY Carries DEF SecretsInv, InsertRow
<1>2. /\ req[r].at = "insert" /\ k \in req[r].keys /\ Go(r, q) /\ stored \in Tables
      /\ stored' = Put(stored, req[r].app, k, new) /\ k \in Slots
      /\ UNCHANGED <<phase, todo, conn, saved, container, given, asked>>
  BY DEF SecretsInv, TypeOK, InsertRow, Slots
<1>3. /\ \A z \in req[r].keys : req[r].wish[z] # None
      /\ \A a \in Apps, s \in Slots :
           stored[a][s] = IF a = req[r].app /\ s \in Keys THEN TxValue(req[r], s)
                          ELSE saved[a][s]
  BY <1>2 DEF SecretsInv, HalfReplaced
<1>4. req[r].wish[k] \in Plain /\ req[r].wish[k] # None
  BY <1>1, <1>2, <1>3 DEF Wishes
<1>5. new \in Strings
  BY <1>4, SealedValue
<1> HIDE DEF q, new
<1>6. /\ stored' \in Tables
      /\ \A a \in Apps, s \in Slots :
           stored'[a][s] = IF a = req[r].app /\ s = k THEN new ELSE stored[a][s]
  BY <1>1, <1>2, <1>5, PutTable
<1>7. ASSUME NEW a \in Apps, NEW s \in Slots
      PROVE  stored'[a][s] = IF a = q.app /\ s \in Keys THEN TxValue(q, s) ELSE saved[a][s]
  <2>1. CASE a = req[r].app /\ s = k
    BY <1>1, <1>4, <1>6, <2>1 DEF TxValue, new
  <2>2. CASE ~(a = req[r].app /\ s = k)
    BY <1>1, <1>3, <1>6, <2>2 DEF TxValue
  <2> QED
    BY <2>1, <2>2
<1>8. stored' \in [Apps -> [Slots -> {v : v \in Strings \cup {None}}]]
  BY <1>6 DEF Tables
<1> QED
  BY <1>1, <1>2, <1>3, <1>7, <1>8, StatementKeeps

(* The end of a transaction: what the table is now is what is set now.     *)
LEMMA EndKeeps ==
  ASSUME SecretsInv, NEW r \in Requests, req[r].at \in {"delete", "insert"}, Go(r, Idle),
         conn' = None, saved' = None,
         stored' \in Tables, given' \in [Apps -> Settings],
         \A a \in Apps, s \in Slots :
           Keeps(stored'[a][s], given'[a][s]) /\ ~Legacy(stored'[a][s]),
         UNCHANGED <<phase, todo, container, asked>>
  PROVE  SecretsInv'
<1>1. /\ req \in [Requests -> RequestStates] /\ req' = [req EXCEPT ![r] = Idle]
      /\ conn = r /\ phase = "serving"
  BY DEF SecretsInv, TypeOK, Exclusive, Go
<1>2. Idle \in RequestStates /\ Idle.at = "idle"
  BY DEF RequestStates, Idle
<1>3. \A p \in Requests : req'[p].at \notin {"delete", "insert"}
  BY <1>1, <1>2 DEF SecretsInv, Exclusive
<1>4. TypeOK'
  BY <1>1, <1>2 DEF SecretsInv, TypeOK
<1>5. Exclusive'
  BY <1>1, <1>3 DEF Exclusive
<1>6. KeptOrSaved' /\ HalfReplaced'
  BY <1>3 DEF KeptOrSaved, KeepsAll, HalfReplaced
<1>7. SealedSoFar'
  BY <1>1 DEF SealedSoFar, AllSealed
<1>8. Handed'
  BY <1>1, <1>2 DEF SecretsInv, Handed
<1> QED
  BY <1>4, <1>5, <1>6, <1>7, <1>8 DEF SecretsInv

LEMMA RollbackKeeps ==
  ASSUME SecretsInv, NEW r \in Requests, Rollback(r)
  PROVE  SecretsInv'
<1>1. /\ req[r].at \in {"delete", "insert"} /\ conn' = None /\ saved' = None
      /\ stored' = saved /\ Go(r, Idle) /\ UNCHANGED <<phase, todo, container, given, asked>>
  BY DEF Rollback
<1>2. conn # None /\ saved # None /\ phase = "serving"
  BY <1>1 DEF SecretsInv, Exclusive
<1>3. saved \in Tables /\ given \in [Apps -> Settings] /\ KeepsAll(saved) /\ AllSealed(saved)
  BY <1>2 DEF SecretsInv, TypeOK, KeptOrSaved, SealedSoFar
<1> QED
  BY <1>1, <1>3, EndKeeps DEF KeepsAll, AllSealed

LEMMA CommitKeeps ==
  ASSUME SecretsInv, NEW r \in Requests, Commit(r)
  PROVE  SecretsInv'
<1> DEFINE a == req[r].app
           w == req[r].wish
<1>1. a \in Apps /\ w \in Wishes
  BY Carries DEF SecretsInv, Commit
<1>2. /\ req[r].at = "insert" /\ req[r].keys = {} /\ Go(r, Idle)
      /\ conn' = None /\ saved' = None
      /\ given' = [given EXCEPT ![a] = [s \in Slots |-> IF s \in Keys THEN w[s] ELSE given[a][s]]]
      /\ UNCHANGED <<phase, todo, stored, container, asked>>
  BY DEF Commit
<1>3. conn # None /\ phase = "serving"
  BY <1>2 DEF SecretsInv, Exclusive
<1>4. stored \in Tables /\ given \in [Apps -> Settings] /\ AllSealed(stored) /\ KeepsAll(saved)
  BY <1>3 DEF SecretsInv, TypeOK, SealedSoFar, KeptOrSaved
<1>5. \A b \in Apps, s \in Slots :
        stored[b][s] = IF b = a /\ s \in Keys THEN TxValue(req[r], s) ELSE saved[b][s]
  BY <1>2 DEF SecretsInv, HalfReplaced
<1> HIDE DEF a, w
<1>6. /\ given' \in [Apps -> Settings]
      /\ \A b \in Apps, s \in Slots :
           given'[b][s] = IF b = a /\ s \in Keys THEN w[s] ELSE given[b][s]
  BY <1>1, <1>2, <1>4 DEF Settings, Wishes
<1>7. ASSUME NEW b \in Apps, NEW s \in Slots PROVE Keeps(stored[b][s], given'[b][s])
  <2>1. CASE b = a /\ s \in Keys
    <3>1. w[s] \in Plain \cup {None}
      BY <1>1, <2>1 DEF Wishes
    <3>2. stored[b][s] = IF w[s] = None THEN None ELSE EncryptString(AsTyped(w[s]))
      BY <1>2, <1>5, <2>1 DEF TxValue, w
    <3>3. given'[b][s] = w[s]
      BY <1>6, <2>1
    <3>4. CASE w[s] = None
      BY <3>2, <3>3, <3>4 DEF Keeps
    <3>5. CASE w[s] # None
      BY <3>1, <3>2, <3>3, <3>5, SealedValue
    <3> QED
      BY <3>4, <3>5
  <2>2. CASE ~(b = a /\ s \in Keys)
    BY <1>4, <1>5, <1>6, <2>2 DEF KeepsAll
  <2> QED
    BY <2>1, <2>2
<1> QED
  BY <1>2, <1>4, <1>6, <1>7, EndKeeps DEF AllSealed

-----------------------------------------------------------------------------
LEMMA NextKeeps == SecretsInv /\ [Next]_vars => SecretsInv'
<1> SUFFICES ASSUME SecretsInv, [Next]_vars PROVE SecretsInv'
  OBVIOUS
<1>1. CASE Migration
  BY <1>1, MigrationReads, MigrationWrites, CrashKeeps DEF Migration
<1>2. ASSUME NEW a \in Apps, NEW c \in Creds,
             ClearCredential(a, c) \/ \E t \in Texts : SetCredential(a, c, t)
      PROVE  SecretsInv'
  BY <1>2, CredentialKeeps
<1>3. ASSUME NEW r \in Requests,
             Operator(r) \/ BeginFails(r) \/ CreateContainer(r) \/ DeployFails(r)
      PROVE  SecretsInv'
  BY <1>3, RequestsKeep
<1>4. ASSUME NEW r \in Requests, BeginTx(r) \/ Transaction(r) PROVE SecretsInv'
  BY <1>4, BeginKeeps, DeleteKeeps, InsertKeeps, CommitKeeps, RollbackKeeps DEF Transaction
<1>5. CASE UNCHANGED vars
  BY <1>5 DEF vars, SecretsInv, TypeOK, Exclusive, KeptOrSaved, KeepsAll, HalfReplaced,
              TxValue, SealedSoFar, AllSealed, Handed
<1> QED
  BY <1>1, <1>2, <1>3, <1>4, <1>5 DEF Next

LEMMA SecretsInvariance == Spec => []SecretsInv
BY InitSecrets, NextKeeps, PTL DEF Spec

-----------------------------------------------------------------------------
(* The variables of Secrets keep their types, and a transaction is undone   *)
(* to a whole table.                                                       *)
THEOREM SecretsTypeCorrect == Spec => []TypeOK
<1>1. SecretsInv => TypeOK
  BY DEF SecretsInv
<1> QED
  BY <1>1, SecretsInvariance, PTL

(* Whatever an older build left, and wherever migrations were cut short,   *)
(* the server never serves a secret that is kept in plain text.            *)
THEOREM AlwaysSealed == Spec => []ServingIsSealed
<1>1. SecretsInv => ServingIsSealed
  BY DEF SecretsInv, SealedSoFar, AllSealed, ServingIsSealed
<1> QED
  BY <1>1, SecretsInvariance, PTL

(* Outside a transaction, what the database keeps decrypts to what was set *)
(* last, through migrations, replacements, rollbacks and crashes.          *)
THEOREM AlwaysReadsBack == Spec => []ReadsBack
<1>1. SecretsInv => ReadsBack
  BY DEF SecretsInv, KeptOrSaved, KeepsAll, Keeps, ReadsBack
<1> QED
  BY <1>1, SecretsInvariance, PTL

(* Every container has the variables of one replacement, all and as they   *)
(* were set, or none where the query failed (deploy_executor.go:195).      *)
THEOREM OneSetAlways == Spec => []OneSetHandedOver
<1>1. SecretsInv => OneSetHandedOver
  BY DEF SecretsInv, Handed, Fits, Keeps, OneSetHandedOver
<1> QED
  BY <1>1, SecretsInvariance, PTL
=============================================================================
