------------------------- MODULE SiteRoutingProofs -------------------------
(***************************************************************************)
(* Proofs about SiteRouting, for any number of sites, apps and concurrent  *)
(* requests, and any set of faults.                                        *)
(***************************************************************************)
EXTENDS SiteRouting, TLAPS

USE RoutingAssumption DEF FaultKinds

Regenerating(r) == req[r].at \in {"render", "write", "reload"}

(* What a request has rendered or written is what the database says, until *)
(* somebody disturbs it.                                                   *)
CleanIsCurrent ==
  \A r \in Requests :
    /\ req[r].at = "write" /\ req[r].clean => req[r].content = Resolved
    /\ req[r].at = "reload" /\ req[r].clean => file = Resolved

(* A change that has not reached Caddy yet has a request that will take it *)
(* there.                                                                  *)
OnItsWay ==
  drift \/ (file = Resolved /\ served = file) \/ \E r \in Requests : Regenerating(r)

RoutingInv == TypeOK /\ NoDanglingLink /\ CleanIsCurrent /\ OnItsWay

-----------------------------------------------------------------------------
LEMMA Unclean ==
  ASSUME NEW x \in RequestStates, x.at \in {"write", "reload"}
  PROVE  [x EXCEPT !.clean = FALSE] \in RequestStates
BY DEF RequestStates, Idle

LEMMA DisturbType ==
  ASSUME TypeOK, NEW r, NEW next \in RequestStates, Disturb(r, next)
  PROVE  req' \in [Requests -> RequestStates]
BY Unclean DEF TypeOK, Disturb

LEMMA GoType ==
  ASSUME TypeOK, NEW r \in Requests, NEW next \in RequestStates, Go(r, next)
  PROVE  req' \in [Requests -> RequestStates]
BY DEF TypeOK, Go

LEMMA RegenerateType ==
  /\ Idle \in RequestStates
  /\ \A s \in Sites \cup {None} : Regenerate(s) \in RequestStates
BY DEF Idle, Regenerate, RequestStates

LEMMA ResolvedType == TypeOK => Resolved \subseteq Entries
BY DEF TypeOK, Resolved, Entries, Live, Target

LEMMA RoutingInit == Init => RoutingInv
<1> SUFFICES ASSUME Init PROVE RoutingInv
  OBVIOUS
<1> USE DEF Init, NoRow
<1>1. TypeOK
  BY RegenerateType DEF TypeOK, Entries
<1>2. Live = {}
  BY DEF Live
<1>3. NoDanglingLink /\ Resolved = {}
  BY <1>2 DEF NoDanglingLink, Resolved
<1>4. CleanIsCurrent /\ OnItsWay
  BY <1>3 DEF CleanIsCurrent, OnItsWay, Idle
<1> QED
  BY <1>1, <1>3, <1>4 DEF RoutingInv

-----------------------------------------------------------------------------
(* Type correctness of the steps.                                          *)

LEMMA OperatorType == TypeOK /\ (\E r \in Requests : Operator(r)) => TypeOK'
<1> SUFFICES ASSUME TypeOK, NEW r \in Requests, Operator(r) PROVE TypeOK'
  OBVIOUS
<1> USE DEF TypeOK
<1>1. ASSUME NEW s \in Sites, ReadForToggle(r, s) PROVE TypeOK'
  <2>1. [at |-> "toggle", site |-> s, to |-> ~site[s].enabled] \in RequestStates
    BY DEF RequestStates
  <2> QED
    BY <1>1, <2>1, GoType DEF ReadForToggle
<1>2. ASSUME NEW s \in Sites, DeleteSite(r, s) PROVE TypeOK'
  <2>1. req' \in [Requests -> RequestStates]
    BY <1>2, RegenerateType, DisturbType DEF DeleteSite
  <2>2. site' \in [Sites -> [state : {"unused", "live", "gone"}, enabled : BOOLEAN,
                             app : Apps \cup {None}, upstream : Upstreams \cup {None}]]
    BY <1>2 DEF DeleteSite, NoRow
  <2> QED
    BY <1>2, <2>1, <2>2 DEF DeleteSite
<1>3. ASSUME NEW s \in Sites, NEW p \in Patches, ReadForPatch(r, s, p) PROVE TypeOK'
  <2>1. [at |-> "patch", site |-> s, patch |-> p] \in RequestStates
    BY DEF RequestStates
  <2> QED
    BY <1>3, <2>1, GoType DEF ReadForPatch
<1>4. ASSUME NEW s \in Sites, NEW a \in Apps \cup {None}, NEW u \in Upstreams \cup {None},
             NEW on \in BOOLEAN, ReadForCreate(r, s, a, u, on)
      PROVE  TypeOK'
  <2>1. [at |-> "create", site |-> s, app |-> a, upstream |-> u, enabled |-> on] \in RequestStates
    BY DEF RequestStates
  <2> QED
    BY <1>4, <2>1, GoType DEF ReadForCreate
<1>5. ASSUME NEW a \in Apps, NEW u \in Routes \cup {None}, ChangeExposed(r, a, u)
      PROVE  TypeOK'
  <2>1. req' \in [Requests -> RequestStates]
    BY <1>5, RegenerateType, DisturbType DEF ChangeExposed
  <2> QED
    BY <1>5, <2>1 DEF ChangeExposed
<1>6. CASE DeployRegenerates(r)
  BY <1>6, RegenerateType, GoType DEF DeployRegenerates
<1> QED
  BY <1>1, <1>2, <1>3, <1>4, <1>5, <1>6 DEF Operator

LEMMA HandlerType == TypeOK /\ (\E r \in Requests : Handler(r)) => TypeOK'
<1> SUFFICES ASSUME TypeOK, NEW r \in Requests, Handler(r) PROVE TypeOK'
  OBVIOUS
<1> USE DEF TypeOK
<1>0. req[r] \in RequestStates
  OBVIOUS
<1>1. CASE SaveToggle(r)
  <2>1. req' \in [Requests -> RequestStates]
    BY <1>1, RegenerateType, DisturbType DEF SaveToggle
  <2>2. req[r].to \in BOOLEAN /\ req[r].site \in Sites
    BY <1>0, <1>1 DEF SaveToggle, RequestStates, Idle
  <2> QED
    BY <1>1, <2>1, <2>2 DEF SaveToggle
<1>2. CASE SavePatch(r)
  <2>1. req' \in [Requests -> RequestStates]
    BY <1>2, RegenerateType, DisturbType DEF SavePatch
  <2>2. req[r].patch \in Patches /\ req[r].site \in Sites
    BY <1>0, <1>2 DEF SavePatch, RequestStates, Idle
  <2>3. req[r].patch.link \in Links /\ req[r].patch.upstream \in Upstreams \cup {None}
    BY <2>2 DEF Patches
  <2> QED
    <3> DEFINE s == req[r].site
               p == req[r].patch
               on == IF p.enabled = "keep" THEN site[s].enabled ELSE p.enabled = "on"
               up == IF p.upstream = None THEN site[s].upstream ELSE p.upstream
               ap == IF p.link = "keep" THEN site[s].app
                     ELSE IF p.link \in {"clear", "zero"} THEN None ELSE p.link
    <3>1. on \in BOOLEAN
      BY <2>2
    <3>2. up \in Upstreams \cup {None} /\ ap \in Apps \cup {None}
      BY <2>2, <2>3 DEF Links
    <3>3. site' = [site EXCEPT ![s].enabled = on, ![s].upstream = up, ![s].app = ap]
      BY <1>2 DEF SavePatch
    <3> HIDE DEF on, up, ap
    <3>4. site' \in [Sites -> [state : {"unused", "live", "gone"}, enabled : BOOLEAN,
                               app : Apps \cup {None}, upstream : Upstreams \cup {None}]]
      BY <2>2, <3>1, <3>2, <3>3
    <3> QED
      BY <1>2, <2>1, <3>4 DEF SavePatch
<1>3. CASE SaveFails(r)
  BY <1>3, RegenerateType, GoType DEF SaveFails
<1>4. CASE Render(r)
  <2>1. [at |-> "write", new |-> req[r].new, content |-> Resolved, clean |-> TRUE]
          \in RequestStates
    BY <1>0, <1>4, ResolvedType DEF Render, RequestStates, Idle
  <2> QED
    BY <1>4, <2>1, GoType DEF Render
<1>5. CASE WriteFile(r)
  <2>1. [req[r] EXCEPT !.at = "reload"] \in RequestStates /\ req[r].content \subseteq Entries
        /\ req[r].clean \in BOOLEAN
    BY <1>0, <1>5 DEF WriteFile, RequestStates, Idle
  <2> QED
    BY <1>5, <2>1, DisturbType DEF WriteFile
<1>6. CASE Reload(r)
  <2>1. req[r].clean \in BOOLEAN
    BY <1>0, <1>6 DEF Reload, RequestStates, Idle
  <2> QED
    BY <1>6, <2>1, RegenerateType, GoType DEF Reload
<1>7. CASE RegenFails(r)
  <2>1. req[r].new \in Sites \cup {None}
    BY <1>0, <1>7 DEF RegenFails, RequestStates, Idle
  <2>2. [at |-> "rollback", new |-> req[r].new] \in RequestStates
    BY <2>1 DEF RequestStates
  <2> QED
    BY <1>7, <2>2, RegenerateType, GoType DEF RegenFails
<1>8. CASE Rollback(r)
  <2>1. req' \in [Requests -> RequestStates]
    BY <1>8, RegenerateType, DisturbType DEF Rollback
  <2>2. site' \in [Sites -> [state : {"unused", "live", "gone"}, enabled : BOOLEAN,
                             app : Apps \cup {None}, upstream : Upstreams \cup {None}]]
    <3>1. NoRow("gone") \in [state : {"unused", "live", "gone"}, enabled : BOOLEAN,
                             app : Apps \cup {None}, upstream : Upstreams \cup {None}]
      BY DEF NoRow
    <3> QED
      BY <1>8, <3>1 DEF Rollback
  <2> QED
    BY <1>8, <2>1, <2>2 DEF Rollback
<1>9. CASE ReloadMissed(r)
  BY <1>9, RegenerateType, GoType DEF ReloadMissed
<1>10. CASE InsertSite(r)
  <2>1. /\ req[r].site \in Sites /\ req[r].enabled \in BOOLEAN
        /\ req[r].app \in Apps \cup {None} /\ req[r].upstream \in Upstreams \cup {None}
    BY <1>0, <1>10 DEF InsertSite, RequestStates, Idle
  <2>2. req' \in [Requests -> RequestStates]
    BY <1>10, <2>1, RegenerateType, DisturbType DEF InsertSite
  <2> QED
    BY <1>10, <2>1, <2>2 DEF InsertSite
<1> QED
  BY <1>1, <1>2, <1>3, <1>4, <1>5, <1>6, <1>7, <1>8, <1>9, <1>10 DEF Handler

LEMMA TypeStep == TypeOK /\ [Next]_vars => TypeOK'
<1> SUFFICES ASSUME TypeOK, [Next]_vars PROVE TypeOK'
  OBVIOUS
<1> USE DEF TypeOK
<1>1. ASSUME NEW r \in Requests, Operator(r) PROVE TypeOK'
  BY <1>1, OperatorType
<1>2. ASSUME NEW r \in Requests, Handler(r) PROVE TypeOK'
  BY <1>2, HandlerType
<1>3. ASSUME NEW a \in Apps, DeleteApp(a) PROVE TypeOK'
  <2>1. req' \in [Requests -> RequestStates]
    BY <1>3, RegenerateType, DisturbType DEF DeleteApp
  <2>2. site' \in [Sites -> [state : {"unused", "live", "gone"}, enabled : BOOLEAN,
                             app : Apps \cup {None}, upstream : Upstreams \cup {None}]]
    BY <1>3 DEF DeleteApp
  <2> QED
    BY <1>3, <2>1, <2>2 DEF DeleteApp
<1>4. ASSUME NEW a \in Apps, NEW u \in Routes, ChangeNameOrPort(a, u) PROVE TypeOK'
  <2>1. req' \in [Requests -> RequestStates]
    BY <1>4, RegenerateType, DisturbType DEF ChangeNameOrPort
  <2> QED
    BY <1>4, <2>1 DEF ChangeNameOrPort
<1>5. CASE Watch \/ CaddyRestarts
  BY <1>5 DEF Watch, CaddyRestarts
<1>6. CASE Crash
  BY <1>6, RegenerateType DEF Crash
<1>7. CASE UNCHANGED vars
  BY <1>7 DEF vars
<1> QED
  BY <1>1, <1>2, <1>3, <1>4, <1>5, <1>6, <1>7 DEF Next

-----------------------------------------------------------------------------
(* Links.                                                                  *)

LEMMA LinkStep == TypeOK /\ NoDanglingLink /\ [Next]_vars => NoDanglingLink'
<1> SUFFICES ASSUME TypeOK, NoDanglingLink, [Next]_vars PROVE NoDanglingLink'
  OBVIOUS
<1> USE DEF TypeOK, NoDanglingLink, Live
<1>1. None \notin deleted
  OBVIOUS
<1>2. ASSUME NEW r \in Requests, Operator(r) PROVE NoDanglingLink'
  <2>1. ASSUME NEW s \in Sites, ReadForToggle(r, s) PROVE NoDanglingLink'
    BY <2>1 DEF ReadForToggle
  <2>2. ASSUME NEW s \in Sites, DeleteSite(r, s) PROVE NoDanglingLink'
    BY <1>1, <2>2 DEF DeleteSite, NoRow
  <2>3. ASSUME NEW s \in Sites, NEW p \in Patches, ReadForPatch(r, s, p) PROVE NoDanglingLink'
    BY <2>3 DEF ReadForPatch
  <2>4. ASSUME NEW s \in Sites, NEW a \in Apps \cup {None}, NEW u \in Upstreams \cup {None},
               NEW on \in BOOLEAN, ReadForCreate(r, s, a, u, on)
        PROVE  NoDanglingLink'
    BY <2>4 DEF ReadForCreate
  <2>5. ASSUME NEW a \in Apps, NEW u \in Routes \cup {None}, ChangeExposed(r, a, u)
        PROVE  NoDanglingLink'
    BY <2>5 DEF ChangeExposed
  <2>6. CASE DeployRegenerates(r)
    BY <2>6 DEF DeployRegenerates
  <2> QED
    BY <1>2, <2>1, <2>2, <2>3, <2>4, <2>5, <2>6 DEF Operator
<1>3. ASSUME NEW r \in Requests, Handler(r) PROVE NoDanglingLink'
  <2>1. CASE SaveToggle(r)
    BY <2>1 DEF SaveToggle
  <2>2. CASE SavePatch(r)
    BY <1>1, <2>2 DEF SavePatch
  <2>3. CASE SaveFails(r) \/ Render(r) \/ WriteFile(r) \/ Reload(r) \/ RegenFails(r)
              \/ ReloadMissed(r)
    BY <2>3 DEF SaveFails, Render, WriteFile, Reload, RegenFails, ReloadMissed
  <2>4. CASE Rollback(r)
    BY <1>1, <2>4 DEF Rollback, NoRow
  <2>5. CASE InsertSite(r)
    BY <2>5 DEF InsertSite
  <2> QED
    BY <1>3, <2>1, <2>2, <2>3, <2>4, <2>5 DEF Handler
<1>4. ASSUME NEW a \in Apps, DeleteApp(a) PROVE NoDanglingLink'
  <2>1. ASSUME NEW s \in Sites, site'[s].state = "live" PROVE site'[s].app \notin deleted'
    <3>1. CASE site[s].app = a
      BY <1>4, <2>1, <3>1, <1>1 DEF DeleteApp
    <3>2. CASE site[s].app # a
      BY <1>4, <2>1, <3>2 DEF DeleteApp
    <3> QED
      BY <3>1, <3>2
  <2> QED
    BY <2>1
<1>5. ASSUME NEW a \in Apps, NEW u \in Routes, ChangeNameOrPort(a, u) PROVE NoDanglingLink'
  BY <1>5 DEF ChangeNameOrPort
<1>6. CASE Watch \/ CaddyRestarts \/ Crash \/ UNCHANGED vars
  BY <1>6 DEF Watch, CaddyRestarts, Crash, vars
<1> QED
  BY <1>2, <1>3, <1>4, <1>5, <1>6 DEF Next

-----------------------------------------------------------------------------
(* Coherence.                                                              *)

LEMMA SameResolved == UNCHANGED <<site, route>> => Resolved' = Resolved
BY DEF Resolved, Live, Target

(* After a disturbance nothing that was rendered before counts as clean.   *)
LEMMA DisturbClean ==
  ASSUME TypeOK, NEW r, NEW next \in RequestStates, next.at \notin {"write", "reload"},
         Disturb(r, next)
  PROVE  CleanIsCurrent'
<1> SUFFICES ASSUME NEW q \in Requests, req'[q].at \in {"write", "reload"}
             PROVE  ~req'[q].clean
  BY DEF CleanIsCurrent
<1>1. q # r /\ req[q].at \in {"write", "reload"} /\ req'[q] = [req[q] EXCEPT !.clean = FALSE]
  BY DEF Disturb
<1>2. req[q] \in RequestStates
  BY DEF TypeOK
<1> QED
  BY <1>1, <1>2 DEF RequestStates, Idle

LEMMA GoClean ==
  ASSUME TypeOK, CleanIsCurrent, NEW r \in Requests, NEW next,
         next.at \notin {"write", "reload"}, Go(r, next), UNCHANGED <<site, route, file>>
  PROVE  CleanIsCurrent'
BY SameResolved DEF TypeOK, Go, CleanIsCurrent

(* A request that regenerates next takes the change along.                 *)
LEMMA WillRegenerate ==
  ASSUME TypeOK, NEW r \in Requests, NEW s, req'[r] = Regenerate(s)
  PROVE  OnItsWay'
BY DEF OnItsWay, Regenerating, Regenerate

(* A step that moves neither the database nor the files nor a request that *)
(* regenerates.                                                            *)
LEMMA NothingMoves ==
  ASSUME TypeOK, OnItsWay, UNCHANGED <<site, route, file, served, drift>>,
         \A q \in Requests : Regenerating(q) => Regenerating(q)'
  PROVE  OnItsWay'
BY SameResolved DEF OnItsWay

LEMMA OperatorCoherent ==
  RoutingInv /\ (\E r \in Requests : Operator(r)) => CleanIsCurrent' /\ OnItsWay'
<1> SUFFICES ASSUME RoutingInv, NEW r \in Requests, Operator(r)
             PROVE  CleanIsCurrent' /\ OnItsWay'
  OBVIOUS
<1> USE DEF RoutingInv
<1>1. ASSUME NEW s, Disturb(r, Regenerate(s)), s \in Sites \cup {None}
      PROVE  CleanIsCurrent' /\ OnItsWay'
  <2>1. req'[r] = Regenerate(s) /\ Regenerate(s).at \notin {"write", "reload"}
    BY <1>1 DEF Disturb, Regenerate
  <2> QED
    BY <1>1, <2>1, RegenerateType, DisturbClean, WillRegenerate
<1>2. ASSUME NEW next, next.at \in {"create", "toggle", "patch"}, Go(r, next), req[r].at = "idle",
             UNCHANGED <<site, route, file, served, drift>>
      PROVE  CleanIsCurrent' /\ OnItsWay'
  BY <1>2, GoClean, NothingMoves DEF TypeOK, Go, Regenerating
<1>3. ASSUME NEW s \in Sites, ReadForToggle(r, s) PROVE CleanIsCurrent' /\ OnItsWay'
  BY <1>2, <1>3 DEF ReadForToggle
<1>4. ASSUME NEW s \in Sites, NEW p \in Patches, ReadForPatch(r, s, p)
      PROVE  CleanIsCurrent' /\ OnItsWay'
  BY <1>2, <1>4 DEF ReadForPatch
<1>5. ASSUME NEW s \in Sites, DeleteSite(r, s) PROVE CleanIsCurrent' /\ OnItsWay'
  BY <1>1, <1>5 DEF DeleteSite
<1>6. ASSUME NEW s \in Sites, NEW a \in Apps \cup {None}, NEW u \in Upstreams \cup {None},
             NEW on \in BOOLEAN, ReadForCreate(r, s, a, u, on)
      PROVE  CleanIsCurrent' /\ OnItsWay'
  BY <1>2, <1>6 DEF ReadForCreate
<1>7. ASSUME NEW a \in Apps, NEW u \in Routes \cup {None}, ChangeExposed(r, a, u)
      PROVE  CleanIsCurrent' /\ OnItsWay'
  BY <1>1, <1>7 DEF ChangeExposed
<1>8. CASE DeployRegenerates(r)
  <2>1. Go(r, Regenerate(None)) /\ UNCHANGED <<site, route, file>>
    BY <1>8 DEF DeployRegenerates
  <2>2. req'[r] = Regenerate(None) /\ Regenerate(None).at \notin {"write", "reload"}
    BY <2>1 DEF Go, TypeOK, Regenerate
  <2> QED
    BY <2>1, <2>2, GoClean, WillRegenerate
<1> QED
  BY <1>3, <1>4, <1>5, <1>6, <1>7, <1>8 DEF Operator

LEMMA HandlerCoherent ==
  RoutingInv /\ (\E r \in Requests : Handler(r)) => CleanIsCurrent' /\ OnItsWay'
<1> SUFFICES ASSUME RoutingInv, NEW r \in Requests, Handler(r)
             PROVE  CleanIsCurrent' /\ OnItsWay'
  OBVIOUS
<1> USE DEF RoutingInv
<1>0. req[r] \in RequestStates
  BY DEF TypeOK
<1>1. CASE InsertSite(r) \/ SaveToggle(r) \/ SavePatch(r)
  <2>1. PICK new \in Sites \cup {None} : Disturb(r, Regenerate(new))
    BY <1>0, <1>1 DEF InsertSite, SaveToggle, SavePatch, RequestStates, Idle
  <2>2. req'[r] = Regenerate(new) /\ Regenerate(new).at \notin {"write", "reload"}
    BY <2>1 DEF Disturb, Regenerate
  <2> QED
    BY <2>1, <2>2, RegenerateType, DisturbClean, WillRegenerate
<1>2. CASE SaveFails(r)
  <2>1. Go(r, Idle) /\ Idle.at \notin {"write", "reload"} /\ ~Regenerating(r)
        /\ UNCHANGED <<site, route, file, served, drift>>
    BY <1>2 DEF SaveFails, Idle, Regenerating
  <2>2. \A q \in Requests : Regenerating(q) => Regenerating(q)'
    BY <2>1 DEF Go, Regenerating, TypeOK
  <2> QED
    BY <2>1, <2>2, GoClean, NothingMoves
<1>3. CASE Render(r)
  <2>1. UNCHANGED <<site, route, file, served, drift>> /\ Resolved' = Resolved
    BY <1>3, SameResolved DEF Render
  <2>2. req' = [req EXCEPT ![r] = [at |-> "write", new |-> req[r].new,
                                   content |-> Resolved, clean |-> TRUE]]
    BY <1>3 DEF Render, Go
  <2>3. CleanIsCurrent'
    BY <2>1, <2>2 DEF CleanIsCurrent, TypeOK
  <2>4. \A q \in Requests : Regenerating(q) => Regenerating(q)'
    BY <2>2 DEF Regenerating, TypeOK
  <2> QED
    BY <2>1, <2>3, <2>4, NothingMoves
<1>4. CASE WriteFile(r)
  <2>1. Resolved' = Resolved /\ file' = req[r].content /\ req[r].at = "write"
    BY <1>4, SameResolved DEF WriteFile
  <2>2. req' = [q \in Requests |->
                  IF q = r THEN [req[r] EXCEPT !.at = "reload"]
                  ELSE IF req[q].at \in {"write", "reload"} THEN [req[q] EXCEPT !.clean = FALSE]
                  ELSE req[q]]
    BY <1>4 DEF WriteFile, Disturb
  <2>3. req'[r].at = "reload" /\ req'[r].clean = req[r].clean
    BY <2>1, <2>2, <1>0 DEF RequestStates, Idle
  <2>4. ASSUME NEW q \in Requests, q # r, req'[q].at \in {"write", "reload"}
        PROVE  ~req'[q].clean
    <3>1. req[q].at \in {"write", "reload"} /\ req'[q] = [req[q] EXCEPT !.clean = FALSE]
      BY <2>2, <2>4
    <3>2. req[q] \in RequestStates
      BY DEF TypeOK
    <3> QED
      BY <3>1, <3>2 DEF RequestStates, Idle
  <2>5. CleanIsCurrent'
    <3>1. req[r].clean => file' = Resolved'
      BY <2>1 DEF CleanIsCurrent
    <3> QED
      BY <2>3, <2>4, <3>1 DEF CleanIsCurrent
  <2>6. OnItsWay'
    BY <2>3 DEF OnItsWay, Regenerating
  <2> QED
    BY <2>5, <2>6
<1>5. CASE Reload(r)
  <2>1. Resolved' = Resolved /\ UNCHANGED <<site, route, file>> /\ Go(r, Idle)
        /\ served' = file /\ drift' = ~req[r].clean /\ req[r].at = "reload"
    BY <1>5, SameResolved DEF Reload
  <2>2. req[r].clean => file = Resolved
    BY <2>1 DEF CleanIsCurrent
  <2>3. req[r].clean \in BOOLEAN
    BY <2>1, <1>0 DEF RequestStates, Idle
  <2>4. OnItsWay'
    BY <2>1, <2>2, <2>3 DEF OnItsWay
  <2> QED
    BY <2>1, <2>4, GoClean DEF Idle
<1>6. CASE RegenFails(r)
  <2>1. OnItsWay'
    BY <1>6 DEF RegenFails, OnItsWay
  <2> QED
    BY <1>6, <2>1, GoClean DEF RegenFails, Idle
<1>7. CASE Rollback(r)
  <2>1. Disturb(r, Idle) /\ Idle.at \notin {"write", "reload"} /\ drift'
    BY <1>7 DEF Rollback, Idle
  <2> QED
    BY <2>1, RegenerateType, DisturbClean DEF OnItsWay
<1>8. CASE ReloadMissed(r)
  <2>1. OnItsWay'
    BY <1>8 DEF ReloadMissed, OnItsWay
  <2> QED
    BY <1>8, <2>1, GoClean DEF ReloadMissed, Idle
<1> QED
  BY <1>1, <1>2, <1>3, <1>4, <1>5, <1>6, <1>7, <1>8 DEF Handler

LEMMA RoutingStep == RoutingInv /\ [Next]_vars => RoutingInv'
<1> SUFFICES ASSUME RoutingInv, [Next]_vars PROVE RoutingInv'
  OBVIOUS
<1> USE DEF RoutingInv
<1>1. TypeOK' /\ NoDanglingLink'
  BY TypeStep, LinkStep
<1>2. CleanIsCurrent' /\ OnItsWay'
  <2>1. ASSUME NEW r \in Requests, Operator(r) \/ Handler(r)
        PROVE  CleanIsCurrent' /\ OnItsWay'
    BY <2>1, OperatorCoherent, HandlerCoherent
  <2>2. ASSUME NEW a \in Apps, DeleteApp(a) \/ \E u \in Routes : ChangeNameOrPort(a, u)
        PROVE  CleanIsCurrent' /\ OnItsWay'
    <3>1. Disturb(None, Idle) /\ Idle.at \notin {"write", "reload"} /\ drift'
      BY <2>2 DEF DeleteApp, ChangeNameOrPort, Idle
    <3> QED
      BY <3>1, RegenerateType, DisturbClean DEF OnItsWay
  <2>3. CASE CaddyRestarts
    BY <2>3, SameResolved DEF CaddyRestarts, CleanIsCurrent, OnItsWay
  <2>4. CASE Crash
    BY <2>4 DEF Crash, CleanIsCurrent, OnItsWay, Idle
  <2>5. CASE UNCHANGED vars
    BY <2>5, SameResolved DEF vars, CleanIsCurrent, OnItsWay, Regenerating
  <2>6. CASE Watch
    BY <2>6, SameResolved DEF Watch, CleanIsCurrent, OnItsWay, Regenerating
  <2> QED
    BY <2>1, <2>2, <2>3, <2>4, <2>5, <2>6 DEF Next
<1> QED
  BY <1>1, <1>2

-----------------------------------------------------------------------------
(* The state stays well-formed.                                            *)
THEOREM RoutingTypeCorrect == Spec => []TypeOK
<1>1. RoutingInv => TypeOK
  BY DEF RoutingInv
<1> QED
  BY <1>1, RoutingInit, RoutingStep, PTL DEF Spec

(* No live site is linked to a deleted app, although a request may have    *)
(* read both before the deletion.                                          *)
THEOREM LinksDoNotDangle == Spec => []NoDanglingLink
<1>1. RoutingInv => NoDanglingLink
  BY DEF RoutingInv
<1> QED
  BY <1>1, RoutingInit, RoutingStep, PTL DEF Spec

(* When no request is in progress, the Caddyfile and Caddy agree with the  *)
(* database, unless one of the three causes of drift has come after the    *)
(* last undisturbed regeneration.                                          *)
THEOREM QuietIsCoherent == Spec => []CoherentUnlessDrifted
<1>1. RoutingInv => CoherentUnlessDrifted
  BY DEF RoutingInv, CoherentUnlessDrifted, Quiet, OnItsWay, Regenerating, Idle
<1> QED
  BY <1>1, RoutingInit, RoutingStep, PTL DEF Spec
=============================================================================
