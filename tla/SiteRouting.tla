---------------------------- MODULE SiteRouting ----------------------------
(***************************************************************************)
(* How sites reach Caddy.  Every change of a site is followed, in the same *)
(* request, by regenerateAndReload: read all sites, write the Caddyfile,   *)
(* tell Caddy to reload it.  Deploys regenerate too, and so do some        *)
(* changes of apps; others do not.  No lock orders any of this.            *)
(*                                                                         *)
(* An upstream stands for the host:port a site is proxied to; that of a    *)
(* linked site is derived from its app (route), that of a free site is a   *)
(* column.  The Caddyfile is the set of its entries.                       *)
(***************************************************************************)
EXTENDS Naturals, FiniteSets

CONSTANTS
  Sites,      \* ids of sites; the domain of a site, which is UNIQUE, goes with it
  Apps,       \* ids of apps
  Upstreams,  \* upstreams of free sites
  Routes,     \* upstreams of apps: nanoku-<app>:<port>
  Requests,   \* requests (and deploys) that may regenerate at a time
  None,       \* no app, no upstream
  Faults      \* what may go wrong, see FaultKinds

(* "db", "file": a query or a write of the file fails;  "caddy": Caddy     *)
(* refuses the file, is stopped, or restarts;  "crash": the process dies.  *)
FaultKinds == {"db", "file", "caddy", "crash"}

ASSUME RoutingAssumption ==
  /\ Faults \subseteq FaultKinds
  /\ None \notin Upstreams \cup Routes /\ None \notin Apps

VARIABLES
  site,     \* the sites table
  route,    \* route[a]: upstreamFor(a), None if the service is not exposed
  deleted,  \* apps that were deleted
  file,     \* the entries of the Caddyfile
  served,   \* the entries Caddy runs with
  req,      \* req[r]: where request r is
  drift     \* history: something happened that may leave the file incoherent

vars == <<site, route, deleted, file, served, req, drift>>

Entries == [site : Sites, upstream : Upstreams \cup Routes]

Links == {"keep", "clear", "zero"} \cup Apps
Patches == [link : Links, upstream : Upstreams \cup {None}, enabled : {"keep", "on", "off"}]

Idle == [at |-> "idle"]
RequestStates ==
  {Idle}
  \cup [at : {"create"}, site : Sites, app : Apps \cup {None}, upstream : Upstreams \cup {None},
        enabled : BOOLEAN]
  \cup [at : {"toggle"}, site : Sites, to : BOOLEAN]
  \cup [at : {"patch"}, site : Sites, patch : Patches]
  \cup [at : {"render", "rollback"}, new : Sites \cup {None}]
  \cup [at : {"write", "reload"}, new : Sites \cup {None}, content : SUBSET Entries,
        clean : BOOLEAN]

TypeOK ==
  /\ site \in [Sites -> [state : {"unused", "live", "gone"}, enabled : BOOLEAN,
                         app : Apps \cup {None}, upstream : Upstreams \cup {None}]]
  /\ route \in [Apps -> Routes \cup {None}]
  /\ deleted \subseteq Apps
  /\ file \subseteq Entries /\ served \subseteq Entries
  /\ req \in [Requests -> RequestStates]
  /\ drift \in BOOLEAN

NoRow(why) == [state |-> why, enabled |-> FALSE, app |-> None, upstream |-> None]
Live == {s \in Sites : site[s].state = "live"}
Target(s) == IF site[s].app # None THEN route[site[s].app] ELSE site[s].upstream

(* resolveCaddySites and Render: disabled sites and sites without an       *)
(* upstream are left out.                                                  *)
Resolved ==
  {[site |-> s, upstream |-> Target(s)] :
     s \in {t \in Live : site[t].enabled /\ Target(t) # None}}

Init ==
  /\ site = [s \in Sites |-> NoRow("unused")]
  /\ route \in [Apps -> Routes \cup {None}]
  /\ deleted = {}
  /\ file = {} /\ served = {}
  /\ req = [r \in Requests |-> Idle]
  /\ drift = FALSE

-----------------------------------------------------------------------------
(* Request r goes on to `next`; what the others have rendered is no longer *)
(* what the database and the file say.                                     *)
Disturb(r, next) ==
  req' = [q \in Requests |->
            IF q = r THEN next
            ELSE IF req[q].at \in {"write", "reload"} THEN [req[q] EXCEPT !.clean = FALSE]
            ELSE req[q]]

Go(r, next) == req' = [req EXCEPT ![r] = next]
Regenerate(new) == [at |-> "render", new |-> new]

-----------------------------------------------------------------------------
(* Faulty variants of actions below.  No specification uses them.          *)

(* Sites without an upstream are rendered too.                             *)
Render_Empty(r) ==
  /\ req[r].at = "render"
  /\ Go(r, [at |-> "write", new |-> req[r].new, clean |-> TRUE,
            content |-> {[site |-> s, upstream |-> Target(s)] :
                           s \in {t \in Live : site[t].enabled}}])
  /\ UNCHANGED <<site, route, deleted, file, served, drift>>

(* DeleteSite forgets to regenerate.                                       *)
DeleteSite_NoReload(r, s) ==
  /\ req[r].at = "idle"
  /\ s \in Live
  /\ site' = [site EXCEPT ![s] = NoRow("gone")]
  /\ Disturb(r, Idle)
  /\ UNCHANGED <<route, deleted, file, served, drift>>

(* The app goes and the links to it stay.                                  *)
DeleteApp_Dangling(a) ==
  /\ a \notin deleted
  /\ deleted' = deleted \cup {a}
  /\ drift' = TRUE
  /\ UNCHANGED <<site, route, file, served, req>>

-----------------------------------------------------------------------------
(* The mutations of sites.                                                 *)

ReadForCreate(r, s, a, u, on) ==
  /\ req[r].at = "idle"
  /\ \/ a = None /\ u # None
     \/ a # None /\ u = None /\ a \notin deleted /\ route[a] # None
  /\ Go(r, [at |-> "create", site |-> s, app |-> a, upstream |-> u, enabled |-> on])
  /\ UNCHANGED <<site, route, deleted, file, served, drift>>

(* The domain is UNIQUE, the app a foreign key.                            *)
InsertSite(r) ==
  LET q == req[r]
  IN  /\ q.at = "create"
      /\ site[q.site].state = "unused"
      /\ q.app \notin deleted
      /\ site' = [site EXCEPT ![q.site] = [state |-> "live", enabled |-> q.enabled,
                                          app |-> q.app, upstream |-> q.upstream]]
      /\ Disturb(r, Regenerate(q.site))
      /\ UNCHANGED <<route, deleted, file, served, drift>>

ReadForToggle(r, s) ==
  /\ req[r].at = "idle"
  /\ s \in Live
  /\ Go(r, [at |-> "toggle", site |-> s, to |-> ~site[s].enabled])
  /\ UNCHANGED <<site, route, deleted, file, served, drift>>

SaveToggle(r) ==
  /\ req[r].at = "toggle"
  /\ req[r].site \in Live
  /\ site' = [site EXCEPT ![req[r].site].enabled = req[r].to]
  /\ Disturb(r, Regenerate(None))
  /\ UNCHANGED <<route, deleted, file, served, drift>>

(* UpdateSite takes a patch that keeps the link for one that will have an  *)
(* app, also if the site has none; an upstream is refused then.            *)
WillHaveApp(s, p) ==
  p.link # "clear" /\ (p.link \notin {"clear", "zero"} \/ site[s].app # None)

TargetApp(s, p) ==
  CASE p.link = "keep" -> site[s].app
    [] p.link \in {"clear", "zero"} -> None
    [] OTHER -> p.link

ReadForPatch(r, s, p) ==
  /\ req[r].at = "idle"
  /\ s \in Live
  /\ p.upstream # None => ~WillHaveApp(s, p)
  /\ WillHaveApp(s, p) /\ TargetApp(s, p) # None =>
        TargetApp(s, p) \notin deleted /\ route[TargetApp(s, p)] # None
  /\ Go(r, [at |-> "patch", site |-> s, patch |-> p])
  /\ UNCHANGED <<site, route, deleted, file, served, drift>>

(* One UPDATE of the patched columns.  The stored upstream stays when an   *)
(* app is linked.                                                          *)
SavePatch(r) ==
  LET s == req[r].site
      p == req[r].patch
  IN  /\ req[r].at = "patch"
      /\ s \in Live
      /\ p.link \notin deleted
      /\ site' = [site EXCEPT
           ![s].enabled = IF p.enabled = "keep" THEN @ ELSE p.enabled = "on",
           ![s].upstream = IF p.upstream = None THEN @ ELSE p.upstream,
           ![s].app = IF p.link = "keep" THEN @
                      ELSE IF p.link \in {"clear", "zero"} THEN None ELSE p.link]
      /\ Disturb(r, Regenerate(None))
      /\ UNCHANGED <<route, deleted, file, served, drift>>

DeleteSite(r, s) ==
  /\ req[r].at = "idle"
  /\ s \in Live
  /\ site' = [site EXCEPT ![s] = NoRow("gone")]
  /\ Disturb(r, Regenerate(None))
  /\ UNCHANGED <<route, deleted, file, served, drift>>

-----------------------------------------------------------------------------
(* The mutations of apps that move an upstream.                            *)

(* UpdateApp with exposed_ports or deploy_method: regenerates, best-effort. *)
ChangeExposed(r, a, u) ==
  /\ req[r].at = "idle"
  /\ a \notin deleted
  /\ route' = [route EXCEPT ![a] = u]
  /\ Disturb(r, Regenerate(None))
  /\ UNCHANGED <<site, deleted, file, served, drift>>

(* UpdateApp with a name or a port: the next deploy regenerates.           *)
ChangeNameOrPort(a, u) ==
  /\ a \notin deleted
  /\ route[a] # None /\ u # None /\ u # route[a]
  /\ route' = [route EXCEPT ![a] = u]
  /\ Disturb(None, Idle)
  /\ drift' = TRUE
  /\ UNCHANGED <<site, deleted, file, served>>

(* DeleteApp: the foreign key of its sites becomes NULL.                   *)
DeleteApp(a) ==
  /\ a \notin deleted
  /\ deleted' = deleted \cup {a}
  /\ route' = [route EXCEPT ![a] = None]
  /\ site' = [s \in Sites |-> IF site[s].app = a THEN [site[s] EXCEPT !.app = None] ELSE site[s]]
  /\ Disturb(None, Idle)
  /\ drift' = TRUE
  /\ UNCHANGED <<file, served>>

(* A deploy has set current_container and calls regenerateAndReloadCtx.    *)
DeployRegenerates(r) ==
  /\ req[r].at = "idle"
  /\ Go(r, Regenerate(None))
  /\ UNCHANGED <<site, route, deleted, file, served, drift>>

-----------------------------------------------------------------------------
(* regenerateAndReloadCtx: one query, one rename, one `caddy reload`.      *)

Render(r) ==
  /\ req[r].at = "render"
  /\ Go(r, [at |-> "write", new |-> req[r].new, content |-> Resolved, clean |-> TRUE])
  /\ UNCHANGED <<site, route, deleted, file, served, drift>>

WriteFile(r) ==
  /\ req[r].at = "write"
  /\ file' = req[r].content
  /\ Disturb(r, [req[r] EXCEPT !.at = "reload"])
  /\ drift' = (drift \/ ~req[r].clean)
  /\ UNCHANGED <<site, route, deleted, served>>

(* Caddy reads the file as it is when the command runs in its container.   *)
Reload(r) ==
  /\ req[r].at = "reload"
  /\ served' = file
  /\ drift' = ~req[r].clean
  /\ Go(r, Idle)
  /\ UNCHANGED <<site, route, deleted, file>>

(* The step a request is at fails: CreateSite takes its row back, every    *)
(* other request leaves what it has done, and answers 500 or says nothing. *)
RegenFails(r) ==
  /\ \/ req[r].at = "render" /\ "db" \in Faults
     \/ req[r].at = "write" /\ "file" \in Faults
     \/ req[r].at = "reload" /\ "caddy" \in Faults
  /\ Go(r, IF req[r].new = None THEN Idle ELSE [at |-> "rollback", new |-> req[r].new])
  /\ drift' = TRUE
  /\ UNCHANGED <<site, route, deleted, file, served>>

(* The exit code is asked for before the output has ended: a command that  *)
(* still runs has none, and what it will fail at is taken for a success.   *)
ReloadMissed(r) ==
  /\ req[r].at = "reload"
  /\ "caddy" \in Faults
  /\ Go(r, Idle)
  /\ drift' = TRUE
  /\ UNCHANGED <<site, route, deleted, file, served>>

(* The row is deleted, if it can be; the file is not written again.        *)
Rollback(r) ==
  /\ req[r].at = "rollback"
  /\ \/ site' = [site EXCEPT ![req[r].new] = NoRow("gone")]
     \/ "db" \in Faults /\ UNCHANGED site
  /\ Disturb(r, Idle)
  /\ drift' = TRUE
  /\ UNCHANGED <<route, deleted, file, served>>

(* The INSERT or UPDATE fails: the domain is taken, or there is no such    *)
(* site or app any more.                                                   *)
SaveFails(r) ==
  /\ req[r].at \in {"create", "toggle", "patch"}
  /\ \/ "db" \in Faults
     \/ req[r].at = "create" /\ (site[req[r].site].state # "unused" \/ req[r].app \in deleted)
     \/ req[r].at \in {"toggle", "patch"} /\ req[r].site \notin Live
     \/ req[r].at = "patch" /\ req[r].patch.link \in deleted
  /\ Go(r, Idle)
  /\ UNCHANGED <<site, route, deleted, file, served, drift>>

(* Caddy runs with --watch: it takes over a file that has changed also     *)
(* without being told to reload, some time later.                          *)
Watch ==
  /\ served # file
  /\ served' = file
  /\ UNCHANGED <<site, route, deleted, file, req, drift>>

CaddyRestarts ==
  /\ "caddy" \in Faults
  /\ served' \in {file, {}}
  /\ drift' = TRUE
  /\ UNCHANGED <<site, route, deleted, file, req>>

(* The process dies and boots again; the boot does not regenerate.         *)
Crash ==
  /\ "crash" \in Faults
  /\ \E r \in Requests : req[r] # Idle
  /\ req' = [r \in Requests |-> Idle]
  /\ drift' = TRUE
  /\ UNCHANGED <<site, route, deleted, file, served>>

-----------------------------------------------------------------------------
Operator(r) ==
  \/ \E s \in Sites : ReadForToggle(r, s) \/ DeleteSite(r, s)
  \/ \E s \in Sites, p \in Patches : ReadForPatch(r, s, p)
  \/ \E s \in Sites, a \in Apps \cup {None}, u \in Upstreams \cup {None}, on \in BOOLEAN :
        ReadForCreate(r, s, a, u, on)
  \/ \E a \in Apps, u \in Routes \cup {None} : ChangeExposed(r, a, u)
  \/ DeployRegenerates(r)

Handler(r) ==
  \/ InsertSite(r) \/ SaveToggle(r) \/ SavePatch(r) \/ SaveFails(r)
  \/ Render(r) \/ WriteFile(r) \/ Reload(r) \/ RegenFails(r)
  \/ ReloadMissed(r) \/ Rollback(r)

Next ==
  \/ \E r \in Requests : Operator(r) \/ Handler(r)
  \/ \E a \in Apps : DeleteApp(a) \/ \E u \in Routes : ChangeNameOrPort(a, u)
  \/ Watch \/ CaddyRestarts \/ Crash

Spec == Init /\ [][Next]_vars

-----------------------------------------------------------------------------
Quiet == \A r \in Requests : req[r] = Idle

(* handlers.go:120 promises a Caddyfile that is always coherent with the   *)
(* database.  It is, whenever nothing is in progress, except after one of  *)
(* three things: a step that failed, seen or not, a change of an app that  *)
(* does not regenerate, two regenerations that overlapped.  And the next   *)
(* one that succeeds undisturbed repairs whatever had drifted.             *)
CoherentUnlessDrifted ==
  Quiet /\ ~drift => file = Resolved /\ served = file

(* No site refers to an app that is gone, whatever was read before.        *)
NoDanglingLink == \A s \in Live : site[s].app \notin deleted
=============================================================================
