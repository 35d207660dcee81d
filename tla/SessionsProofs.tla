--------------------------- MODULE SessionsProofs ---------------------------
(***************************************************************************)
(* Proofs about Sessions, for any users, browsers, addresses, tokens and   *)
(* requests, and any TTL, window, limit and delay.                         *)
(***************************************************************************)
EXTENDS Sessions, FiniteSetTheorems, TLAPS

-----------------------------------------------------------------------------
(* Strengthening.                                                          *)

(* A request is younger than Delay, and what it has read is no older than  *)
(* the request.                                                            *)
RequestsInTime ==
  \A r \in Requests : req[r] # Idle =>
    /\ req[r].since <= now /\ now <= req[r].since + Delay
    /\ req[r].at = "renew" => req[r].since <= req[r].found /\ req[r].found <= now

UsedBefore == \A t \in Tokens : Live(t) => session[t].used <= now

(* The limiter still knows every admission of the last Window.             *)
Remembers ==
  \A i \in Addresses : recent[i] \subseteq After(attempts[i], now)

SessionsInv ==
  /\ TypeOK
  /\ RequestsInTime /\ UsedBefore /\ Remembers
  /\ AtMostLimit /\ SlidingWindow /\ OldSessionsAreLate

-----------------------------------------------------------------------------
LEMMA InitInv == Init => SessionsInv
  <1>1. ASSUME Init PROVE TypeOK
    BY <1>1, SessionsAssumption DEF Init, TypeOK, Times, Versions, RequestStates, Admissions
  <1>2. ASSUME Init PROVE RequestsInTime /\ UsedBefore /\ SlidingWindow /\ OldSessionsAreLate
    BY <1>2 DEF Init, RequestsInTime, UsedBefore, SlidingWindow, OldSessionsAreLate, Live, Idle
  <1>3. ASSUME Init PROVE Remembers /\ AtMostLimit
    BY <1>3, FS_EmptySet, SessionsAssumption DEF Init, Remembers, AtMostLimit, After
  <1> QED BY <1>1, <1>2, <1>3 DEF SessionsInv

-----------------------------------------------------------------------------
(* Types, action by action.                                                *)

LEMMA TypeLogin ==
  ASSUME TypeOK, NEW r \in Requests, Login(r)
  PROVE  TypeOK'
  <1> USE SessionsAssumption
  <1>1. ASSUME NEW b \in Browsers, NEW u \in Users, NEW v \in Versions, NEW i \in Addresses,
               StartLogin(r, b, u, v, i)
        PROVE  TypeOK'
    BY <1>1 DEF TypeOK, StartLogin, Goto, RequestStates, limiterVars, dbVars
  <1>2. ASSUME NEW n \in 0..Limit, AllowLogin(r, n) PROVE TypeOK'
    <2>1. req[r] \in [at : {"limit"}, browser : Browsers, since : Times, user : Users,
                      version : Versions, address : Addresses]
      BY <1>2 DEF AllowLogin, TypeOK, RequestStates, Idle
    <2>2. <<now, n>> \in Admissions
      BY <1>2 DEF TypeOK, Admissions
    <2>3. Kept(r) \in SUBSET Admissions
      BY <2>1 DEF TypeOK, Kept, After
    <2>4. attempts' \in [Addresses -> SUBSET Admissions] /\ recent' \in [Addresses -> SUBSET Admissions]
      BY <1>2, <2>1, <2>2, <2>3 DEF AllowLogin, TypeOK
    <2>5. req' \in [Requests -> RequestStates]
      BY <1>2, <2>1 DEF AllowLogin, TypeOK, RequestStates
    <2> QED BY <1>2, <2>4, <2>5 DEF AllowLogin, TypeOK, dbVars
  <1>3. ASSUME DenyLogin(r) PROVE TypeOK'
    <2>1. req[r] \in [at : {"limit"}, browser : Browsers, since : Times, user : Users,
                      version : Versions, address : Addresses]
      BY <1>3 DEF DenyLogin, Goto, TypeOK, RequestStates, Idle
    <2>2. Kept(r) \in SUBSET Admissions
      BY <2>1 DEF TypeOK, Kept, After
    <2> QED BY <1>3, <2>1, <2>2 DEF DenyLogin, Goto, TypeOK, RequestStates, Idle, dbVars
  <1>4. ASSUME Compare(r) PROVE TypeOK'
    <2>1. req[r] \in [at : {"compare"}, browser : Browsers, since : Times, user : Users,
                      version : Versions]
      BY <1>4 DEF Compare, Goto, TypeOK, RequestStates, Idle
    <2>2. Idle \in RequestStates /\ [req[r] EXCEPT !.at = "create"] \in RequestStates
      BY <2>1 DEF RequestStates, Answer
    <2> QED BY <1>4, <2>2 DEF Compare, Goto, TypeOK, limiterVars, dbVars
  <1>5. ASSUME NEW t \in Tokens, Create(r, t) PROVE TypeOK'
    <2>1. req[r] \in [at : {"create"}, browser : Browsers, since : Times, user : Users,
                      version : Versions]
      BY <1>5 DEF Create, Goto, TypeOK, RequestStates, Idle
    <2>2. Answer(r, t) \in RequestStates
      BY <2>1 DEF RequestStates, Answer
    <2>3. [user |-> req[r].user, expires |-> now + TTL, version |-> req[r].version,
           late |-> req[r].version < cut[req[r].user], used |-> now] \in Rows
      BY <2>1 DEF TypeOK, Rows, Times, Versions
    <2> QED BY <1>5, <2>2, <2>3 DEF Create, Goto, TypeOK, limiterVars
  <1> QED BY <1>1, <1>2, <1>3, <1>4, <1>5 DEF Login

LEMMA TypeLookup ==
  ASSUME TypeOK, NEW r \in Requests, Lookup(r)
  PROVE  TypeOK'
  <1> USE SessionsAssumption
  <1>1. ASSUME NEW b \in Browsers, NEW c \in BOOLEAN, StartRequest(r, b, c) PROVE TypeOK'
    <2>1. jar[b].token \in Tokens /\ now \in Times
      BY <1>1 DEF StartRequest, Sends, TypeOK
    <2>2. [at |-> "look", browser |-> b, since |-> now, token |-> jar[b].token,
           changes |-> c] \in RequestStates
      BY <2>1 DEF RequestStates
    <2> QED BY <1>1, <2>2 DEF StartRequest, Goto, TypeOK, limiterVars, dbVars
  <1>2. ASSUME req[r].at = "look"
        PROVE  /\ req[r] \in [at : {"look"}, browser : Browsers, since : Times,
                               token : Tokens, changes : BOOLEAN]
               /\ req[r].token \in Tokens
               /\ Answer(r, None) \in RequestStates
               /\ [req[r] EXCEPT !.at = "expire"] \in RequestStates
    <2>1. req[r] \in [at : {"look"}, browser : Browsers, since : Times,
                      token : Tokens, changes : BOOLEAN]
      BY <1>2 DEF TypeOK, RequestStates, Idle
    <2> QED BY <2>1 DEF RequestStates, Answer
  <1>3. ASSUME req[r].at \in {"look", "renew"}, NEW u \in Users
        PROVE  Entered(r, u) \in RequestStates
    <2>1. req[r].browser \in Browsers /\ req[r].since \in Times
      BY <1>3 DEF TypeOK, RequestStates, Idle
    <2> QED BY <2>1 DEF Entered, RequestStates, Answer
  <1>4. ASSUME req[r].at \in {"renew"}
        PROVE  req[r].token \in Tokens /\ req[r].found \in Times
    BY <1>4 DEF TypeOK, RequestStates, Idle
  <1>5. ASSUME req[r].at \in {"renew", "expire"}
        PROVE  req[r].token \in Tokens /\ Answer(r, None) \in RequestStates
    <2>1. req[r].token \in Tokens /\ req[r].browser \in Browsers /\ req[r].since \in Times
      BY <1>5 DEF TypeOK, RequestStates, Idle
    <2> QED BY <2>1 DEF RequestStates, Answer
  <1>6. ASSUME NEW t \in Tokens, NEW e \in Nat, Live(t), Used(t, e)
        PROVE  session' \in [Tokens -> Rows \cup {None}]
    <2>1. session[t] \in Rows /\ now \in Nat
      BY <1>6 DEF Live, TypeOK, Times
    <2>2. [session[t] EXCEPT !.expires = e, !.used = now] \in Rows
      BY <2>1 DEF Rows
    <2>3. session' = [session EXCEPT ![t] = [session[t] EXCEPT !.expires = e, !.used = now]]
      BY <1>6 DEF Used, TypeOK
    <2> QED BY <2>2, <2>3 DEF TypeOK
  <1>7. ASSUME NEW t \in Tokens, Live(t)
        PROVE  session[t] \in Rows
    BY <1>7 DEF Live, TypeOK
  <1>8. CASE LookupMissing(r)
    BY <1>8, <1>2 DEF LookupMissing, Goto, TypeOK, limiterVars, dbVars
  <1>9. CASE LookupFresh(r)
    <2> DEFINE t == req[r].token
    <2>1. t \in Tokens /\ session[t] \in Rows
      BY <1>9, <1>2, <1>7 DEF LookupFresh
    <2>2. session[t].user \in Users /\ session[t].expires \in Nat
      BY <2>1 DEF Rows
    <2>3. session' \in [Tokens -> Rows \cup {None}]
      BY <1>9, <1>6, <2>1, <2>2 DEF LookupFresh
    <2>4. req' \in [Requests -> RequestStates]
      BY <1>9, <1>3, <2>2 DEF LookupFresh, TypeOK
    <2> QED BY <1>9, <2>3, <2>4 DEF LookupFresh, TypeOK, limiterVars
  <1>10. CASE LookupAgeing(r)
    <2>1. now \in Times
      BY DEF TypeOK
    <2>2. [at |-> "renew", browser |-> req[r].browser, since |-> req[r].since,
           token |-> req[r].token, changes |-> req[r].changes, found |-> now] \in RequestStates
      BY <1>10, <1>2, <2>1 DEF LookupAgeing, RequestStates
    <2> QED BY <1>10, <2>2 DEF LookupAgeing, TypeOK, limiterVars, dbVars
  <1>11. CASE LookupExpired(r)
    BY <1>11, <1>2 DEF LookupExpired, Goto, TypeOK, limiterVars, dbVars
  <1>12. CASE Renew(r)
    <2> DEFINE t == req[r].token
    <2>1. t \in Tokens /\ session[t] \in Rows /\ req[r].found \in Times
      BY <1>12, <1>4, <1>7 DEF Renew
    <2>2. session[t].user \in Users /\ req[r].found + TTL \in Nat
      BY <2>1 DEF Rows, Times
    <2>3. session' \in [Tokens -> Rows \cup {None}]
      BY <1>12, <1>6, <2>1, <2>2 DEF Renew
    <2>4. req' \in [Requests -> RequestStates]
      BY <1>12, <1>3, <2>2 DEF Renew, TypeOK
    <2> QED BY <1>12, <2>3, <2>4 DEF Renew, TypeOK, limiterVars
  <1>13. CASE RenewMissing(r)
    BY <1>13, <1>5 DEF RenewMissing, Goto, TypeOK, limiterVars, dbVars
  <1>14. CASE Expire(r)
    BY <1>14, <1>5 DEF Expire, Goto, TypeOK, limiterVars
  <1> QED
    BY <1>1, <1>8, <1>9, <1>10, <1>11, <1>12, <1>13, <1>14 DEF Lookup

LEMMA TypeRest ==
  ASSUME TypeOK, NEW r \in Requests,
         Logout(r) \/ ChangePassword(r) \/ Arrive(r) \/ Fails(r) \/ Abandon(r)
  PROVE  TypeOK'
  <1> USE SessionsAssumption
  <1>1. ASSUME NEW b \in Browsers, StartLogout(r, b) PROVE TypeOK'
    <2>1. jar[b].token \in Tokens /\ now \in Times
      BY <1>1 DEF StartLogout, Sends, TypeOK
    <2>2. [at |-> "end", browser |-> b, since |-> now, token |-> jar[b].token] \in RequestStates
      BY <2>1 DEF RequestStates
    <2> QED BY <1>1, <2>2 DEF StartLogout, Goto, TypeOK, limiterVars, dbVars
  <1>2. ASSUME req[r] # Idle
        PROVE  Answer(r, None) \in RequestStates /\ Idle \in RequestStates
    <2>1. req[r].browser \in Browsers /\ req[r].since \in Times
      BY <1>2 DEF TypeOK, RequestStates, Idle
    <2> QED BY <2>1 DEF RequestStates, Answer
  <1>3. CASE Delete(r)
    <2>1. req[r] # Idle
      BY <1>3 DEF Delete, Goto, Idle
    <2>2. req' \in [Requests -> RequestStates]
      BY <1>3, <1>2, <2>1 DEF Delete, Goto, TypeOK
    <2>3. session' \in [Tokens -> Rows \cup {None}]
      BY <1>3 DEF Delete, TypeOK
    <2> QED BY <1>3, <2>2, <2>3 DEF Delete, TypeOK, limiterVars
  <1>4. ASSUME req[r].at \in {"verify", "store", "drop"}
        PROVE  req[r] \in [at : {"verify", "store", "drop"}, browser : Browsers,
                           since : Times, user : Users]
    BY <1>4 DEF TypeOK, RequestStates, Idle
  <1>5. CASE Verify(r)
    <2>1. [req[r] EXCEPT !.at = "store"] \in RequestStates
      BY <1>4, <1>5 DEF Verify, Goto, RequestStates
    <2> QED BY <1>5, <2>1 DEF Verify, Goto, TypeOK, limiterVars, dbVars
  <1>6. CASE StorePassword(r)
    <2>1. [req[r] EXCEPT !.at = "drop"] \in RequestStates
      BY <1>4, <1>6 DEF StorePassword, RequestStates
    <2>2. req' = [req EXCEPT ![r] = [req[r] EXCEPT !.at = "drop"]]
      BY <1>6 DEF StorePassword, TypeOK
    <2>3. password' \in [Users -> Versions]
      BY <1>6, <1>4 DEF StorePassword, TypeOK, Versions
    <2> QED BY <1>6, <2>1, <2>2, <2>3 DEF StorePassword, TypeOK, limiterVars
  <1>7. CASE DropSessions(r)
    <2>1. req[r].user \in Users
      BY <1>7, <1>4 DEF DropSessions, Goto
    <2>2. session' \in [Tokens -> Rows \cup {None}] /\ cut' \in [Users -> Versions]
      BY <1>7, <2>1 DEF DropSessions, TypeOK
    <2> QED BY <1>7, <1>2, <2>2 DEF DropSessions, Goto, TypeOK, limiterVars, Idle
  <1>8. CASE Arrive(r)
    <2>1. req[r].cookie \in Tokens \cup {None} /\ req[r].browser \in Browsers
      BY <1>8 DEF Arrive, Goto, TypeOK, RequestStates, Idle
    <2>2. now + TTL \in Nat
      BY DEF TypeOK, Times
    <2>3. jar' \in [Browsers -> [token : Tokens, until : Nat] \cup {None}]
      <3>2. CASE req[r].cookie = None
        BY <1>8, <3>2 DEF Arrive, TypeOK
      <3>3. CASE req[r].cookie # None
        <4>1. jar' = [jar EXCEPT ![req[r].browser] =
                        [token |-> req[r].cookie, until |-> now + TTL]]
          BY <1>8, <3>3 DEF Arrive
        <4>2. req[r].cookie \in Tokens
          BY <2>1, <3>3
        <4> QED BY <4>1, <4>2, <2>2 DEF TypeOK
      <3> QED BY <3>2, <3>3
    <2> QED BY <1>8, <2>3 DEF Arrive, Goto, TypeOK, limiterVars, dbVars, RequestStates
  <1>9. CASE Fails(r)
    BY <1>9, <1>2 DEF Fails, Idle, TypeOK, limiterVars, dbVars
  <1>10. CASE Abandon(r)
    BY <1>10 DEF Abandon, TypeOK, limiterVars, dbVars, RequestStates
  <1> QED
    BY <1>1, <1>3, <1>5, <1>6, <1>7, <1>8, <1>9, <1>10 DEF Logout, ChangePassword

LEMMA TypeStep == TypeOK /\ [Next]_vars => TypeOK'
  <1> SUFFICES ASSUME TypeOK, [Next]_vars PROVE TypeOK'
    OBVIOUS
  <1> USE SessionsAssumption
  <1>1. CASE PurgeExpired
    BY <1>1 DEF PurgeExpired, TypeOK, limiterVars
  <1>2. ASSUME NEW i \in Addresses, PurgeStaleAttempts(i) PROVE TypeOK'
    BY <1>2 DEF PurgeStaleAttempts, TypeOK, dbVars
  <1>3. CASE Restart
    BY <1>3 DEF Restart, TypeOK, dbVars, RequestStates
  <1>4. CASE Tick
    <2>1. now' \in Times
      BY <1>4 DEF Tick, TypeOK, Times
    <2>2. recent' \in [Addresses -> SUBSET Admissions]
      BY <1>4 DEF Tick, TypeOK, After
    <2> QED BY <1>4, <2>1, <2>2 DEF Tick, TypeOK, dbVars
  <1>5. CASE UNCHANGED vars
    BY <1>5 DEF vars, limiterVars, dbVars, TypeOK
  <1> QED BY <1>1, <1>2, <1>3, <1>4, <1>5, TypeLogin, TypeLookup, TypeRest DEF Next

-----------------------------------------------------------------------------
(* Every state of the system has the type that TypeOK gives it.            *)
THEOREM SessionsTypeCorrect == Spec => []TypeOK
  <1>1. Init => TypeOK
    BY InitInv DEF SessionsInv
  <1> QED BY <1>1, TypeStep, PTL DEF Spec

-----------------------------------------------------------------------------
(* What a step may do to the row of token t.                               *)
RowStep(t) ==
  \/ session'[t] = session[t]
  \/ session'[t] = None
  \/ \E r \in Requests : Create(r, t)
  \/ \E r \in Requests : LookupFresh(r) /\ t = req[r].token
  \/ \E r \in Requests : Renew(r) /\ t = req[r].token

LEMMA RowSteps ==
  ASSUME TypeOK, [Next]_vars, NEW t \in Tokens
  PROVE  RowStep(t)
  <1> USE DEF RowStep, TypeOK
  <1>1. ASSUME NEW r \in Requests, Login(r) PROVE RowStep(t)
    <2>1. ASSUME NEW s \in Tokens, Create(r, s) PROVE RowStep(t)
      BY <2>1 DEF Create
    <2> QED
      BY <1>1, <2>1 DEF Login, StartLogin, AllowLogin, DenyLogin, Compare, dbVars
  <1>2. ASSUME NEW r \in Requests, Lookup(r) PROVE RowStep(t)
    <2>1. CASE LookupFresh(r)
      BY <2>1 DEF LookupFresh, Used
    <2>2. CASE Renew(r)
      BY <2>2 DEF Renew, Used
    <2>3. CASE Expire(r)
      BY <2>3 DEF Expire
    <2> QED
      BY <1>2, <2>1, <2>2, <2>3
      DEF Lookup, StartRequest, LookupMissing, LookupAgeing, LookupExpired, RenewMissing, dbVars
  <1>3. ASSUME NEW r \in Requests,
               Logout(r) \/ ChangePassword(r) \/ Arrive(r) \/ Fails(r) \/ Abandon(r)
        PROVE  RowStep(t)
    <2>1. CASE Delete(r)
      BY <2>1 DEF Delete
    <2>2. CASE DropSessions(r)
      BY <2>2 DEF DropSessions
    <2>3. ASSUME NEW b \in Browsers, StartLogout(r, b) PROVE session' = session
      BY <2>3 DEF StartLogout, dbVars
    <2>4. CASE Verify(r) \/ StorePassword(r)
      BY <2>4 DEF Verify, StorePassword, dbVars
    <2>5. CASE Arrive(r) \/ Fails(r) \/ Abandon(r)
      BY <2>5 DEF Arrive, Fails, Abandon, dbVars
    <2> QED
      BY <1>3, <2>1, <2>2, <2>3, <2>4, <2>5 DEF Logout, ChangePassword
  <1>4. CASE PurgeExpired
    BY <1>4 DEF PurgeExpired
  <1>5. ASSUME NEW i \in Addresses, PurgeStaleAttempts(i) PROVE RowStep(t)
    BY <1>5 DEF PurgeStaleAttempts, dbVars
  <1>6. CASE Restart \/ Tick \/ UNCHANGED vars
    BY <1>6 DEF Restart, Tick, vars, dbVars
  <1> QED BY <1>1, <1>2, <1>3, <1>4, <1>5, <1>6 DEF Next

(* The three steps that write a row, field by field.                       *)
SameOwner(t) ==
  /\ Live(t) /\ session[t] \in Rows
  /\ session'[t].user = session[t].user
  /\ session'[t].version = session[t].version
  /\ session'[t].late = session[t].late

LEMMA CreateWrites ==
  ASSUME TypeOK, NEW r \in Requests, NEW t \in Tokens, Create(r, t)
  PROVE  /\ session'[t].user = req[r].user /\ session'[t].version = req[r].version
         /\ session'[t].late = (req[r].version < cut[req[r].user])
         /\ session'[t].used = now /\ session'[t].expires = now + TTL
  <1>1. session'[t] =
          [user |-> req[r].user, expires |-> now + TTL, version |-> req[r].version,
           late |-> req[r].version < cut[req[r].user], used |-> now]
    BY DEF Create, TypeOK
  <1> QED BY <1>1

LEMMA FreshWrites ==
  ASSUME TypeOK, NEW r \in Requests, NEW t \in Tokens, LookupFresh(r), t = req[r].token
  PROVE  /\ SameOwner(t)
         /\ 2 * session[t].expires > 2 * now + TTL
         /\ session'[t].used = now /\ session'[t].expires = session[t].expires
  <1>1. /\ Live(t) /\ 2 * session[t].expires > 2 * now + TTL
        /\ session'[t] = [session[t] EXCEPT !.expires = session[t].expires, !.used = now]
    BY DEF LookupFresh, Used, TypeOK
  <1>2. session[t] \in Rows
    BY <1>1 DEF Live, TypeOK
  <1> QED BY <1>1, <1>2 DEF Rows, SameOwner

LEMMA RenewWrites ==
  ASSUME TypeOK, NEW r \in Requests, NEW t \in Tokens, Renew(r), t = req[r].token
  PROVE  /\ SameOwner(t)
         /\ req[r].at = "renew" /\ req[r] # Idle
         /\ session'[t].used = now /\ session'[t].expires = req[r].found + TTL
  <1>1. Live(t) /\ req[r].at = "renew" /\ Used(t, req[r].found + TTL)
    BY DEF Renew
  <1>2. req[r] # Idle
    BY <1>1 DEF Idle
  <1>3. session'[t] = [session[t] EXCEPT !.expires = req[r].found + TTL, !.used = now]
    BY <1>1 DEF Used, TypeOK
  <1>4. session[t] \in Rows
    BY <1>1 DEF Live, TypeOK
  <1> QED BY <1>1, <1>2, <1>3, <1>4 DEF Rows, SameOwner

(* Only a login makes a row, and its token is new.                         *)
LEMMA EndedStep == TypeOK /\ [Next]_vars => \A t \in issued : ~Live(t) => ~Live(t)'
  <1> SUFFICES ASSUME TypeOK, [Next]_vars, NEW t \in issued, ~Live(t) PROVE ~Live(t)'
    OBVIOUS
  <1>1. t \in Tokens /\ session[t] = None
    BY DEF TypeOK, Live
  <1>2. RowStep(t)
    BY <1>1, RowSteps
  <1> QED BY <1>1, <1>2 DEF RowStep, Create, LookupFresh, Renew, Live

LEMMA OldStep ==
  TypeOK /\ OldSessionsAreLate /\ [Next]_vars => OldSessionsAreLate'
  <1> SUFFICES ASSUME TypeOK, OldSessionsAreLate, [Next]_vars, NEW t \in Tokens,
                      Live(t)', (session[t].version < cut[session[t].user])'
               PROVE  session'[t].late
    BY DEF OldSessionsAreLate
  <1>1. CASE \E r \in Requests : DropSessions(r)
    <2>1. PICK r \in Requests : DropSessions(r)
      BY <1>1
    <2>2. session'[t] = session[t] /\ Live(t) /\ session[t].user # req[r].user
      BY <2>1 DEF DropSessions, TypeOK, Live
    <2>3. cut'[session[t].user] = cut[session[t].user]
      BY <2>1, <2>2 DEF DropSessions, TypeOK, Rows, Live
    <2> QED BY <2>2, <2>3 DEF OldSessionsAreLate
  <1>2. CASE ~\E r \in Requests : DropSessions(r)
    <2>1. cut' = cut
      <3>1. ASSUME NEW r \in Requests, Login(r) PROVE cut' = cut
        BY <3>1 DEF Login, StartLogin, AllowLogin, DenyLogin, Compare, Create
      <3>2. ASSUME NEW r \in Requests, Lookup(r) PROVE cut' = cut
        BY <3>2 DEF Lookup, StartRequest, LookupMissing, LookupFresh, LookupAgeing,
                    LookupExpired, Renew, RenewMissing, Expire
      <3>3. ASSUME NEW r \in Requests,
                   Logout(r) \/ ChangePassword(r) \/ Arrive(r) \/ Fails(r) \/ Abandon(r)
            PROVE  cut' = cut
        BY <3>3, <1>2 DEF Logout, ChangePassword, StartLogout, Delete, Verify, StorePassword,
                          Arrive, Fails, Abandon
      <3> QED
        BY <3>1, <3>2, <3>3 DEF Next, PurgeExpired, PurgeStaleAttempts, Restart, Tick, vars
    <2>2. RowStep(t)
      BY RowSteps
    <2>3. CASE session'[t] = session[t] \/ session'[t] = None
      BY <2>1, <2>3 DEF OldSessionsAreLate, Live
    <2>4. ASSUME NEW r \in Requests, Create(r, t) PROVE session'[t].late
      <3>1. /\ session'[t].user = req[r].user /\ session'[t].version = req[r].version
            /\ session'[t].late = (req[r].version < cut[req[r].user])
        BY <2>4, CreateWrites
      <3> QED BY <2>1, <3>1
    <2>5. ASSUME NEW r \in Requests, LookupFresh(r) \/ Renew(r), t = req[r].token
          PROVE  session'[t].late
      <3>1. SameOwner(t)
        BY <2>5, FreshWrites, RenewWrites
      <3> QED BY <2>1, <3>1 DEF OldSessionsAreLate, SameOwner
    <2> QED BY <2>2, <2>3, <2>4, <2>5 DEF RowStep
  <1> QED BY <1>1, <1>2

(* The clock moves by ticks only.                                          *)
LEMMA ClockStep ==
  ASSUME [Next]_vars
  PROVE  Tick \/ now' = now
  <1>1. ASSUME NEW r \in Requests, Login(r) PROVE now' = now
    BY <1>1 DEF Login, StartLogin, AllowLogin, DenyLogin, Compare, Create
  <1>2. ASSUME NEW r \in Requests, Lookup(r) PROVE now' = now
    BY <1>2 DEF Lookup, StartRequest, LookupMissing, LookupFresh, LookupAgeing,
                LookupExpired, Renew, RenewMissing, Expire
  <1>3. ASSUME NEW r \in Requests,
               Logout(r) \/ ChangePassword(r) \/ Arrive(r) \/ Fails(r) \/ Abandon(r)
        PROVE  now' = now
    BY <1>3 DEF Logout, ChangePassword, StartLogout, Delete, Verify, StorePassword,
                DropSessions, Arrive, Fails, Abandon
  <1> QED BY <1>1, <1>2, <1>3 DEF Next, PurgeExpired, PurgeStaleAttempts, Restart, vars

LEMMA SlideStep ==
  TypeOK /\ RequestsInTime /\ UsedBefore /\ SlidingWindow /\ [Next]_vars
    => UsedBefore' /\ SlidingWindow'
  <1> SUFFICES ASSUME TypeOK, RequestsInTime, UsedBefore, SlidingWindow, [Next]_vars,
                      NEW t \in Tokens, Live(t)'
               PROVE  /\ session'[t].used <= now'
                      /\ 2 * session'[t].expires >= 2 * session'[t].used + TTL
                      /\ session'[t].expires <= session'[t].used + TTL
    BY DEF UsedBefore, SlidingWindow
  <1> USE SessionsAssumption
  <1>1. now \in Nat /\ now' \in Nat /\ now <= now'
    BY ClockStep, TypeStep DEF TypeOK, Times, Tick
  <1>2. RowStep(t)
    BY RowSteps
  <1>3. CASE session'[t] = session[t] \/ session'[t] = None
    <2>1. session'[t] = session[t] /\ Live(t) /\ session[t] \in Rows
      BY <1>3 DEF Live, TypeOK
    <2> QED BY <1>1, <2>1 DEF UsedBefore, SlidingWindow, Rows
  <1>4. ASSUME NEW r \in Requests, Create(r, t)
        PROVE  session'[t].used = now /\ session'[t].expires = now + TTL
    BY <1>4, CreateWrites
  <1>5. ASSUME NEW r \in Requests, LookupFresh(r), t = req[r].token
        PROVE  /\ session'[t].used = now /\ session'[t].expires \in Nat
               /\ 2 * session'[t].expires > 2 * now + TTL
               /\ session'[t].expires <= now + TTL
    <2>1. /\ Live(t) /\ session[t] \in Rows
          /\ 2 * session[t].expires > 2 * now + TTL
          /\ session'[t].used = now /\ session'[t].expires = session[t].expires
      BY <1>5, FreshWrites DEF SameOwner
    <2> QED BY <1>1, <2>1 DEF UsedBefore, SlidingWindow, Rows
  <1>6. ASSUME NEW r \in Requests, Renew(r), t = req[r].token
        PROVE  /\ session'[t].used = now /\ session'[t].expires = req[r].found + TTL
               /\ req[r].found \in Nat /\ req[r].found <= now
               /\ now <= req[r].found + Delay
    <2>1. /\ req[r].at = "renew" /\ req[r] # Idle
          /\ session'[t].used = now /\ session'[t].expires = req[r].found + TTL
      BY <1>6, RenewWrites
    <2>4. req[r].found \in Nat /\ req[r].since \in Nat
      BY <2>1 DEF TypeOK, RequestStates, Idle, Times
    <2>5. req[r].since <= req[r].found /\ req[r].found <= now /\ now <= req[r].since + Delay
      BY <2>1 DEF RequestsInTime
    <2> QED BY <1>1, <2>1, <2>4, <2>5
  <1> QED BY <1>1, <1>2, <1>3, <1>4, <1>5, <1>6 DEF RowStep

-----------------------------------------------------------------------------
(* Requests and the clock.                                                 *)
InTime(x) ==
  x # Idle =>
    /\ x.since <= now /\ now <= x.since + Delay
    /\ x.at = "renew" => x.since <= x.found /\ x.found <= now

LEMMA OneRequest ==
  ASSUME TypeOK, RequestsInTime, NEW r \in Requests, NEW x, InTime(x),
         req' = [req EXCEPT ![r] = x], now' = now
  PROVE  RequestsInTime'
  BY DEF RequestsInTime, InTime, TypeOK

(* A request that goes on keeps the time of its start.                     *)
LEMMA GoesOn ==
  ASSUME TypeOK, RequestsInTime, NEW r \in Requests, req[r] # Idle,
         NEW x, x.since = req[r].since, x.at # "renew"
  PROVE  InTime(x)
  BY DEF RequestsInTime, InTime, TypeOK

LEMMA InTimeStep == TypeOK /\ RequestsInTime /\ [Next]_vars => RequestsInTime'
  <1> SUFFICES ASSUME TypeOK, RequestsInTime, [Next]_vars PROVE RequestsInTime'
    OBVIOUS
  <1> USE SessionsAssumption
  <1>1. now \in Nat
    BY DEF TypeOK, Times
  <1>2. ASSUME NEW r \in Requests, req[r] # Idle, NEW c
        PROVE  InTime(Answer(r, c))
    BY <1>2, GoesOn DEF Answer
  <1>3. InTime(Idle)
    BY DEF InTime
  <1>4. ASSUME NEW r \in Requests, req[r] # Idle, NEW u
        PROVE  InTime(Entered(r, u))
    BY <1>4, <1>3, GoesOn DEF Entered
  <1>5. ASSUME NEW r \in Requests, Login(r) PROVE RequestsInTime'
    <2>1. ASSUME NEW b \in Browsers, NEW u \in Users, NEW v \in Versions, NEW i \in Addresses,
                 StartLogin(r, b, u, v, i)
          PROVE  RequestsInTime'
      <3>1. InTime([at |-> "limit", browser |-> b, since |-> now, user |-> u,
                    version |-> v, address |-> i])
        BY <1>1 DEF InTime
      <3> QED BY <2>1, <3>1, OneRequest DEF StartLogin, Goto
    <2>2. ASSUME NEW n \in 0..Limit, AllowLogin(r, n) PROVE RequestsInTime'
      <3>1. req[r] # Idle
        BY <2>2 DEF AllowLogin, Idle
      <3>2. InTime([at |-> "compare", browser |-> req[r].browser, since |-> req[r].since,
                    user |-> req[r].user, version |-> req[r].version])
        BY <3>1, GoesOn
      <3> QED BY <2>2, <3>2, OneRequest DEF AllowLogin
    <2>3. CASE DenyLogin(r)
      <3>1. req[r] # Idle
        BY <2>3 DEF DenyLogin, Goto, Idle
      <3> QED BY <2>3, <3>1, <1>2, <1>3, OneRequest DEF DenyLogin, Goto
    <2>4. CASE Compare(r)
      <3>1. req[r].at = "compare" /\ req[r] # Idle
        BY <2>4 DEF Compare, Goto, Idle
      <3>2. req[r] \in [at : {"compare"}, browser : Browsers, since : Times, user : Users,
                        version : Versions]
        BY <3>1 DEF TypeOK, RequestStates
      <3>3. InTime([req[r] EXCEPT !.at = "create"])
        BY <3>1, <3>2, GoesOn
      <3> QED BY <2>4, <3>1, <3>3, <1>2, <1>3, OneRequest DEF Compare, Goto
    <2>5. ASSUME NEW t \in Tokens, Create(r, t) PROVE RequestsInTime'
      <3>1. req[r] # Idle
        BY <2>5 DEF Create, Goto, Idle
      <3> QED BY <2>5, <3>1, <1>2, OneRequest DEF Create, Goto
    <2> QED BY <1>5, <2>1, <2>2, <2>3, <2>4, <2>5 DEF Login
  <1>6. ASSUME NEW r \in Requests, Lookup(r) PROVE RequestsInTime'
    <2>1. ASSUME NEW b \in Browsers, NEW c \in BOOLEAN, StartRequest(r, b, c)
          PROVE  RequestsInTime'
      <3>1. InTime([at |-> "look", browser |-> b, since |-> now, token |-> jar[b].token,
                    changes |-> c])
        BY <1>1 DEF InTime
      <3> QED BY <2>1, <3>1, OneRequest DEF StartRequest, Goto
    <2>2. CASE LookupMissing(r) \/ RenewMissing(r) \/ Expire(r)
      <3>1. req[r] # Idle
        BY <2>2 DEF LookupMissing, RenewMissing, Expire, Goto, Idle
      <3> QED BY <2>2, <3>1, <1>2, OneRequest DEF LookupMissing, RenewMissing, Expire, Goto
    <2>3. CASE LookupFresh(r) \/ Renew(r)
      <3>1. req[r] # Idle
        BY <2>3 DEF LookupFresh, Renew, Idle
      <3> QED BY <2>3, <3>1, <1>4, OneRequest DEF LookupFresh, Renew
    <2>4. CASE LookupAgeing(r)
      <3>1. req[r] # Idle
        BY <2>4 DEF LookupAgeing, Idle
      <3>2. InTime([at |-> "renew", browser |-> req[r].browser, since |-> req[r].since,
                    token |-> req[r].token, changes |-> req[r].changes, found |-> now])
        BY <1>1, <3>1 DEF InTime, RequestsInTime
      <3> QED BY <2>4, <3>2, OneRequest DEF LookupAgeing
    <2>5. CASE LookupExpired(r)
      <3>1. req[r].at = "look" /\ req[r] # Idle
        BY <2>5 DEF LookupExpired, Goto, Idle
      <3>2. req[r] \in [at : {"look"}, browser : Browsers, since : Times,
                        token : Tokens, changes : BOOLEAN]
        BY <3>1 DEF TypeOK, RequestStates
      <3>3. InTime([req[r] EXCEPT !.at = "expire"])
        BY <3>1, <3>2, GoesOn
      <3> QED BY <2>5, <3>3, OneRequest DEF LookupExpired, Goto
    <2> QED BY <1>6, <2>1, <2>2, <2>3, <2>4, <2>5 DEF Lookup
  <1>7. ASSUME NEW r \in Requests, Logout(r) \/ ChangePassword(r) PROVE RequestsInTime'
    <2>1. ASSUME NEW b \in Browsers, StartLogout(r, b) PROVE RequestsInTime'
      <3>1. InTime([at |-> "end", browser |-> b, since |-> now, token |-> jar[b].token])
        BY <1>1 DEF InTime
      <3> QED BY <2>1, <3>1, OneRequest DEF StartLogout, Goto
    <2>2. CASE Delete(r) \/ DropSessions(r)
      <3>1. req[r] # Idle
        BY <2>2 DEF Delete, DropSessions, Goto, Idle
      <3> QED BY <2>2, <3>1, <1>2, <1>3, OneRequest DEF Delete, DropSessions, Goto
    <2>3. CASE Verify(r) \/ StorePassword(r)
      <3>1. req[r].at \in {"verify", "store"} /\ req[r] # Idle
        BY <2>3 DEF Verify, StorePassword, Goto, Idle
      <3>2. req[r] \in [at : {"verify", "store", "drop"}, browser : Browsers,
                        since : Times, user : Users]
        BY <3>1 DEF TypeOK, RequestStates
      <3>3. InTime([req[r] EXCEPT !.at = "store"]) /\ InTime([req[r] EXCEPT !.at = "drop"])
        BY <3>1, <3>2, GoesOn
      <3>4. StorePassword(r) => req' = [req EXCEPT ![r] = [req[r] EXCEPT !.at = "drop"]]
        BY DEF StorePassword, TypeOK
      <3> QED BY <2>3, <3>3, <3>4, OneRequest DEF Verify, StorePassword, Goto
    <2> QED BY <1>7, <2>1, <2>2, <2>3 DEF Logout, ChangePassword
  <1>8. ASSUME NEW r \in Requests, Arrive(r) \/ Abandon(r) PROVE RequestsInTime'
    BY <1>8, <1>3, OneRequest DEF Arrive, Abandon, Goto
  <1>9. ASSUME NEW r \in Requests, Fails(r) PROVE RequestsInTime'
    <2>1. req[r] # Idle
      BY <1>9 DEF Fails, Idle
    <2> QED BY <1>9, <2>1, <1>2, <1>3, OneRequest DEF Fails
  <1>10. CASE Restart
    BY <1>10 DEF Restart, RequestsInTime
  <1>11. CASE Tick
    <2> SUFFICES ASSUME NEW r \in Requests, req[r] # Idle
                 PROVE  /\ req[r].since <= now + 1 /\ now + 1 <= req[r].since + Delay
                        /\ req[r].at = "renew" =>
                              req[r].since <= req[r].found /\ req[r].found <= now + 1
      BY <1>11 DEF Tick, RequestsInTime
    <2>1. req[r].since \in Nat /\ (req[r].at = "renew" => req[r].found \in Nat)
      BY DEF TypeOK, RequestStates, Idle, Times
    <2>2. now < req[r].since + Delay
      BY <1>11 DEF Tick
    <2> QED BY <1>1, <2>1, <2>2 DEF RequestsInTime
  <1>12. CASE PurgeExpired \/ (\E i \in Addresses : PurgeStaleAttempts(i)) \/ UNCHANGED vars
    BY <1>12 DEF PurgeExpired, PurgeStaleAttempts, vars, RequestsInTime
  <1> QED BY <1>5, <1>6, <1>7, <1>8, <1>9, <1>10, <1>11, <1>12 DEF Next

-----------------------------------------------------------------------------
(* The limiter.                                                            *)
LEMMA AdmissionsFinite ==
  ASSUME NEW S \in SUBSET Admissions
  PROVE  IsFiniteSet(S) /\ Cardinality(S) \in Nat
  <1>1. IsFiniteSet(0..MaxNow) /\ IsFiniteSet(0..Limit)
    BY FS_Interval, SessionsAssumption
  <1>2. IsFiniteSet(Admissions)
    BY <1>1, FS_Product DEF Admissions, Times
  <1> QED BY <1>2, FS_Subset, FS_CardinalityType

LEMMA LimiterUnchanged ==
  ASSUME TypeOK, Remembers, AtMostLimit, attempts' = attempts, recent' = recent, now' = now
  PROVE  Remembers' /\ AtMostLimit'
  BY DEF Remembers, AtMostLimit, After

(* One admission more, where those kept are fewer than the limit.          *)
LEMMA Admit ==
  ASSUME TypeOK, Remembers, AtMostLimit, RequestsInTime, NEW r \in Requests,
         NEW n \in 0..Limit, AllowLogin(r, n)
  PROVE  Remembers' /\ AtMostLimit'
  <1> DEFINE i == req[r].address
             x == <<now, n>>
  <1> USE SessionsAssumption
  <1>1. /\ i \in Addresses /\ req[r].since \in Nat /\ now \in Nat /\ req[r].since <= now
        /\ x \in Admissions
    <2>1. req[r].at = "limit" /\ req[r] # Idle
      BY DEF AllowLogin, Idle
    <2>2. req[r] \in [at : {"limit"}, browser : Browsers, since : Times, user : Users,
                      version : Versions, address : Addresses]
      BY <2>1 DEF TypeOK, RequestStates
    <2> QED BY <2>1, <2>2 DEF TypeOK, RequestsInTime, Times, Admissions
  <1>2. /\ attempts' = [attempts EXCEPT ![i] = Kept(r) \cup {x}]
        /\ recent' = [recent EXCEPT ![i] = recent[i] \cup {x}]
        /\ now' = now /\ Cardinality(Kept(r)) < Limit
    BY DEF AllowLogin, TypeOK
  <1>3. Kept(r) \in SUBSET Admissions /\ recent[i] \in SUBSET Admissions
    BY <1>1 DEF TypeOK, Kept, After
  <1>4. recent[i] \subseteq Kept(r)
    <2> SUFFICES ASSUME NEW a \in recent[i] PROVE a \in Kept(r)
      OBVIOUS
    <2>1. a \in attempts[i] /\ a[1] + Window > now
      BY <1>1 DEF Remembers, After
    <2>2. a[1] \in Nat
      BY <1>3 DEF Admissions, Times
    <2> QED BY <1>1, <2>1, <2>2 DEF Kept, After
  <1>5. Cardinality(recent[i] \cup {x}) <= Limit
    <2>1. IsFiniteSet(Kept(r)) /\ Cardinality(Kept(r)) \in Nat
      BY <1>3, AdmissionsFinite
    <2>2. Cardinality(Kept(r) \cup {x}) <= Cardinality(Kept(r)) + 1
      <3>1. Cardinality(Kept(r) \cup {x}) =
              IF x \in Kept(r) THEN Cardinality(Kept(r)) ELSE Cardinality(Kept(r)) + 1
        BY <2>1, FS_AddElement
      <3> HIDE DEF x
      <3> QED BY <2>1, <3>1
    <2>3. Kept(r) \cup {x} \in SUBSET Admissions
      BY <1>1, <1>3
    <2>4. IsFiniteSet(Kept(r) \cup {x}) /\ Cardinality(Kept(r) \cup {x}) \in Nat
      BY <2>3, AdmissionsFinite
    <2>5. recent[i] \cup {x} \subseteq Kept(r) \cup {x}
      BY <1>4
    <2>6. Cardinality(recent[i] \cup {x}) <= Cardinality(Kept(r) \cup {x})
      BY <2>4, <2>5, FS_Subset
    <2>7. recent[i] \cup {x} \in SUBSET Admissions
      BY <1>1, <1>3
    <2>8. Cardinality(recent[i] \cup {x}) \in Nat
      BY <2>7, AdmissionsFinite
    <2> HIDE DEF x, i
    <2> QED BY <1>2, <2>1, <2>2, <2>4, <2>6, <2>8
  <1>6. AtMostLimit'
    BY <1>1, <1>2, <1>5 DEF AtMostLimit, TypeOK
  <1>7. recent[i] \cup {x} \subseteq After(Kept(r) \cup {x}, now)
    <2>1. \A a \in recent[i] : a[1] + Window > now
      BY <1>1 DEF Remembers, After
    <2>2. x[1] + Window > now
      BY <1>1
    <2> QED BY <1>4, <2>1, <2>2 DEF After
  <1>8. Remembers'
    <2> SUFFICES ASSUME NEW j \in Addresses PROVE recent'[j] \subseteq After(attempts'[j], now)
      BY <1>2 DEF Remembers, After
    <2>1. CASE j = i
      BY <1>2, <1>7, <2>1 DEF TypeOK
    <2>2. CASE j # i
      BY <1>2, <2>2 DEF TypeOK, Remembers
    <2> QED BY <2>1, <2>2
  <1> QED BY <1>6, <1>8

LEMMA LimiterStep ==
  TypeOK /\ RequestsInTime /\ Remembers /\ AtMostLimit /\ [Next]_vars
    => Remembers' /\ AtMostLimit'
  <1> SUFFICES ASSUME TypeOK, RequestsInTime, Remembers, AtMostLimit, [Next]_vars
               PROVE  Remembers' /\ AtMostLimit'
    OBVIOUS
  <1> USE SessionsAssumption
  <1>1. now \in Nat
    BY DEF TypeOK, Times
  <1>2. ASSUME NEW r \in Requests, DenyLogin(r) PROVE Remembers' /\ AtMostLimit'
    <2> DEFINE i == req[r].address
    <2>1. i \in Addresses /\ req[r].since \in Nat /\ req[r].since <= now
      <3>1. req[r].at = "limit" /\ req[r] # Idle
        BY <1>2 DEF DenyLogin, Goto, Idle
      <3>2. req[r] \in [at : {"limit"}, browser : Browsers, since : Times, user : Users,
                        version : Versions, address : Addresses]
        BY <3>1 DEF TypeOK, RequestStates
      <3> QED BY <3>1, <3>2 DEF RequestsInTime, Times
    <2>2. attempts' = [attempts EXCEPT ![i] = Kept(r)] /\ recent' = recent /\ now' = now
      BY <1>2 DEF DenyLogin
    <2>3. recent[i] \subseteq After(Kept(r), now)
      <3> SUFFICES ASSUME NEW a \in recent[i] PROVE a \in After(Kept(r), now)
        OBVIOUS
      <3>1. a \in attempts[i] /\ a[1] + Window > now
        BY <2>1 DEF Remembers, After
      <3>2. a[1] \in Nat
        BY <2>1 DEF TypeOK, Admissions, Times
      <3> QED BY <1>1, <2>1, <3>1, <3>2 DEF Kept, After
    <2>4. Remembers'
      <3> SUFFICES ASSUME NEW j \in Addresses
                   PROVE  recent[j] \subseteq After(attempts'[j], now)
        BY <2>2 DEF Remembers, After
      <3>1. CASE j = i
        BY <2>2, <2>3, <3>1 DEF TypeOK
      <3>2. CASE j # i
        BY <2>2, <3>2 DEF TypeOK, Remembers
      <3> QED BY <3>1, <3>2
    <2> QED BY <2>2, <2>4 DEF AtMostLimit
  <1>3. ASSUME NEW i \in Addresses, PurgeStaleAttempts(i) PROVE Remembers' /\ AtMostLimit'
    <2>1. attempts' = [attempts EXCEPT ![i] = {}] /\ recent' = recent /\ now' = now
      BY <1>3 DEF PurgeStaleAttempts
    <2>2. recent[i] = {}
      BY <1>3 DEF PurgeStaleAttempts, Remembers
    <2>3. Remembers'
      <3> SUFFICES ASSUME NEW j \in Addresses
                   PROVE  recent[j] \subseteq After(attempts'[j], now)
        BY <2>1 DEF Remembers, After
      <3>1. CASE j = i
        BY <2>2, <3>1
      <3>2. CASE j # i
        BY <2>1, <3>2 DEF TypeOK, Remembers
      <3> QED BY <3>1, <3>2
    <2> QED BY <2>1, <2>3 DEF AtMostLimit
  <1>4. CASE Restart
    BY <1>4, FS_EmptySet DEF Restart, Remembers, AtMostLimit, After
  <1>5. CASE Tick
    <2>1. recent' = [i \in Addresses |-> After(recent[i], now + 1)] /\ attempts' = attempts
          /\ now' = now + 1
      BY <1>5 DEF Tick
    <2>2. Remembers'
      BY <2>1 DEF Remembers, After
    <2>3. ASSUME NEW i \in Addresses PROVE Cardinality(After(recent[i], now + 1)) <= Limit
      <3>1. recent[i] \in SUBSET Admissions /\ After(recent[i], now + 1) \subseteq recent[i]
        BY DEF TypeOK, After
      <3>2. After(recent[i], now + 1) \in SUBSET Admissions
        BY <3>1
      <3>3. IsFiniteSet(recent[i]) /\ Cardinality(recent[i]) \in Nat
            /\ Cardinality(After(recent[i], now + 1)) \in Nat
        BY <3>1, <3>2, AdmissionsFinite
      <3>4. Cardinality(After(recent[i], now + 1)) <= Cardinality(recent[i])
        BY <3>1, <3>3, FS_Subset
      <3> QED BY <3>3, <3>4 DEF AtMostLimit
    <2>4. AtMostLimit'
      BY <2>1, <2>3 DEF AtMostLimit
    <2> QED BY <2>2, <2>4
  <1>6. ASSUME NEW r \in Requests, Login(r) PROVE Remembers' /\ AtMostLimit'
    <2>1. ASSUME NEW n \in 0..Limit, AllowLogin(r, n) PROVE Remembers' /\ AtMostLimit'
      BY <2>1, Admit
    <2> QED
      BY <1>2, <1>6, <2>1, LimiterUnchanged
      DEF Login, StartLogin, Compare, Create, limiterVars
  <1>7. ASSUME NEW r \in Requests, Lookup(r) PROVE Remembers' /\ AtMostLimit'
    BY <1>7, LimiterUnchanged
    DEF Lookup, StartRequest, LookupMissing, LookupFresh, LookupAgeing, LookupExpired,
        Renew, RenewMissing, Expire, limiterVars
  <1>8. ASSUME NEW r \in Requests,
               Logout(r) \/ ChangePassword(r) \/ Arrive(r) \/ Fails(r) \/ Abandon(r)
        PROVE  Remembers' /\ AtMostLimit'
    BY <1>8, LimiterUnchanged
    DEF Logout, ChangePassword, StartLogout, Delete, Verify, StorePassword, DropSessions,
        Arrive, Fails, Abandon, limiterVars
  <1>9. CASE PurgeExpired \/ UNCHANGED vars
    BY <1>9, LimiterUnchanged DEF PurgeExpired, vars, limiterVars
  <1> QED BY <1>3, <1>4, <1>5, <1>6, <1>7, <1>8, <1>9 DEF Next

-----------------------------------------------------------------------------
LEMMA Invariance == Spec => []SessionsInv
  <1>1. SessionsInv /\ [Next]_vars => SessionsInv'
    BY TypeStep, InTimeStep, SlideStep, LimiterStep, OldStep DEF SessionsInv
  <1> QED BY <1>1, InitInv, PTL DEF Spec

(* Within any Window at most Limit logins of an address are let through,   *)
(* whatever cutoffs the waiting requests have computed.                    *)
THEOREM LimitHolds == Spec => []AtMostLimit
  <1>1. SessionsInv => AtMostLimit
    BY DEF SessionsInv
  <1> QED BY <1>1, Invariance, PTL

(* As long as a session has its row, the expiry stored there is half the   *)
(* TTL after its last use at least and the TTL at most, in whatever order  *)
(* renewals are written (sessions.go:100-111).                             *)
THEOREM WindowSlides == Spec => []SlidingWindow
  <1>1. SessionsInv => SlidingWindow
    BY DEF SessionsInv
  <1> QED BY <1>1, Invariance, PTL

(* After the sessions of a user were dropped for a new password, those     *)
(* made with an older one were created since.                              *)
THEOREM OldSessionsGo == Spec => []OldSessionsAreLate
  <1>1. SessionsInv => OldSessionsAreLate
    BY DEF SessionsInv
  <1> QED BY <1>1, Invariance, PTL

(* No step brings back a session that was ended.                           *)
THEOREM EndsAreFinal == Spec => EndedStaysEnded
  <1>1. TypeOK /\ [Next]_vars => [\A t \in issued : ~Live(t) => ~Live(t)']_vars
    BY EndedStep
  <1> QED BY <1>1, SessionsTypeCorrect, PTL DEF Spec, EndedStaysEnded
=============================================================================
