------------------------------ MODULE Sessions ------------------------------
(***************************************************************************)
(* Sign-in of nanoku: the rate limit, the login, the look-up that every    *)
(* other request begins with and its sliding renewal, the logout, the      *)
(* change of a password, the janitor's purges, restarts of the server, and *)
(* the cookie a browser keeps.                                             *)
(*                                                                         *)
(* A request r holds in req[r] where it is and what it carries on.  One    *)
(* step is one SQL statement, one critical section of the limiter, or the  *)
(* answer's arrival.  Time is a clock that ticks between steps; a password *)
(* is the number of times its user has changed it.                         *)
(***************************************************************************)
EXTENDS Naturals, FiniteSets

CONSTANTS
  Users, Browsers, Requests,
  Addresses,    \* client addresses, the keys of the limiter
  Tokens,       \* the tokens newToken may draw; no token is drawn twice
  None,
  TTL,          \* sessionTTL
  Window,       \* the minute of AllowLogin
  Limit,        \* its limit
  Delay,        \* ticks a request may take
  MaxNow,       \* bound of the clock
  MaxVersion    \* bound of the changes of a password

(* A row, with the password it was made with (version), whether newer ones *)
(* had dropped their sessions by then (late), and when it was last used.   *)
Rows == [user : Users, expires : Nat, version : Nat, late : BOOLEAN, used : Nat]

ASSUME SessionsAssumption ==
  /\ None \notin Tokens /\ None \notin Rows
  /\ TTL \in Nat \ {0} /\ Delay \in Nat /\ MaxNow \in Nat /\ MaxVersion \in Nat
  /\ Window \in Nat \ {0} /\ Limit \in Nat
  /\ 2 * Delay <= TTL   \* a request takes less than half of seven days

VARIABLES
  now,
  attempts,   \* SessionStore.attempts: the admissions of an address
  recent,     \* history: those of the last Window, since the server started
  password,   \* users.password_hash
  session,    \* session[t]: the row with the hash of token t, or None
  issued,     \* tokens drawn so far
  jar,        \* jar[b]: the cookie of browser b, with the time b will drop it
  req,        \* the requests being handled
  cut         \* history: cut[u]: passwords below it had all their sessions dropped

limiterVars == <<attempts, recent>>
dbVars == <<password, session>>
vars == <<now, limiterVars, dbVars, issued, jar, req, cut>>

-----------------------------------------------------------------------------
Idle == [at |-> "idle"]
Live(t) == session[t] # None

Times == 0..MaxNow
Versions == 0..MaxVersion

(* An admission is its time and, among those of one time, its number.      *)
Admissions == Times \X (0..Limit)

(* `changes` says whether the request behind the look-up is to change the  *)
(* password; `found` is when the look-up took the time.                    *)
RequestStates ==
  {Idle}
  \cup [at : {"limit"}, browser : Browsers, since : Times, user : Users,
        version : Versions, address : Addresses]
  \cup [at : {"compare", "create"}, browser : Browsers, since : Times, user : Users,
        version : Versions]
  \cup [at : {"look", "expire"}, browser : Browsers, since : Times, token : Tokens,
        changes : BOOLEAN]
  \cup [at : {"renew"}, browser : Browsers, since : Times, token : Tokens,
        changes : BOOLEAN, found : Times]
  \cup [at : {"verify", "store", "drop"}, browser : Browsers, since : Times, user : Users]
  \cup [at : {"end"}, browser : Browsers, since : Times, token : Tokens]
  \cup [at : {"answer"}, browser : Browsers, since : Times, cookie : Tokens \cup {None}]

TypeOK ==
  /\ now \in Times
  /\ attempts \in [Addresses -> SUBSET Admissions]
  /\ recent \in [Addresses -> SUBSET Admissions]
  /\ password \in [Users -> Versions]
  /\ session \in [Tokens -> Rows \cup {None}]
  /\ issued \in SUBSET Tokens
  /\ jar \in [Browsers -> [token : Tokens, until : Nat] \cup {None}]
  /\ req \in [Requests -> RequestStates]
  /\ cut \in [Users -> Versions]

Init ==
  /\ now = 0
  /\ attempts = [i \in Addresses |-> {}]
  /\ recent = [i \in Addresses |-> {}]
  /\ password = [u \in Users |-> 0]
  /\ session = [t \in Tokens |-> None]
  /\ issued = {}
  /\ jar = [b \in Browsers |-> None]
  /\ req = [r \in Requests |-> Idle]
  /\ cut = [u \in Users |-> 0]

(* Request r goes on with what it carries in `to`.                         *)
Goto(r, from, to) ==
  /\ req[r].at = from
  /\ req' = [req EXCEPT ![r] = to]

(* An answer that sets the cookie, or drops it (None).  One that leaves it *)
(* alone changes nothing more: its request is Idle at once.                *)
Answer(r, cookie) ==
  [at |-> "answer", browser |-> req[r].browser, since |-> req[r].since, cookie |-> cookie]

After(admissions, time) == {a \in admissions : a[1] + Window > time}

-----------------------------------------------------------------------------
(* Faulty variants of actions below, one per mistake the properties are    *)
(* meant to catch.  No specification uses them.                            *)

(* The row is inserted without its user.                                   *)
Create_NoUser(r, t) ==
  /\ Goto(r, "create", Answer(r, t))
  /\ t \notin issued
  /\ issued' = issued \cup {t}
  /\ session' = [session EXCEPT ![t] =
       [user |-> None, expires |-> now + TTL, version |-> req[r].version,
        late |-> FALSE, used |-> now]]
  /\ UNCHANGED <<now, limiterVars, password, jar, cut>>

(* The purge of the limiter takes the window a tick too short.             *)
PurgeStaleAttempts_Early(i) ==
  /\ attempts[i] # {} /\ After(attempts[i], now + 1) = {}
  /\ attempts' = [attempts EXCEPT ![i] = {}]
  /\ UNCHANGED <<now, recent, dbVars, issued, jar, req, cut>>

(* A session is let in as it is until it expires.                          *)
LookupFresh_NoRenewal(r) ==
  LET t == req[r].token
  IN  /\ req[r].at = "look"
      /\ Live(t)
      /\ now < session[t].expires
      /\ req' = [req EXCEPT ![r] = Idle]
      /\ session' = [session EXCEPT ![t].used = now]
      /\ UNCHANGED <<now, limiterVars, password, issued, jar, cut>>

(* The renewal is an upsert.                                               *)
Renew_Upsert(r) ==
  /\ Goto(r, "renew", Idle)
  /\ session' = [session EXCEPT ![req[r].token] =
       [user |-> CHOOSE u \in Users : TRUE, expires |-> req[r].found + TTL, version |-> 0,
        late |-> TRUE, used |-> now]]
  /\ UNCHANGED <<now, limiterVars, password, issued, jar, cut>>

(* The change of a password drops the sessions that have expired.          *)
DropSessions_Expired(r) ==
  LET u == req[r].user
  IN  /\ Goto(r, "drop", Idle)
      /\ session' = [t \in Tokens |->
           IF Live(t) /\ session[t].user = u /\ session[t].expires < now
           THEN None ELSE session[t]]
      /\ cut' = [cut EXCEPT ![u] = password[u]]
      /\ UNCHANGED <<now, limiterVars, password, issued, jar>>

-----------------------------------------------------------------------------
(* Login.                                                                  *)

(* The cutoff of the limiter is computed before its mutex is taken.        *)
StartLogin(r, b, u, v, i) ==
  /\ Goto(r, "idle", [at |-> "limit", browser |-> b, since |-> now, user |-> u,
                      version |-> v, address |-> i])
  /\ v <= password[u]
  /\ UNCHANGED <<now, limiterVars, dbVars, issued, jar, cut>>

Kept(r) == After(attempts[req[r].address], req[r].since)

(* n is the first free number.                                             *)
AllowLogin(r, n) ==
  LET i == req[r].address
      known == attempts[i] \cup recent[i]
  IN  /\ req[r].at = "limit"
      /\ Cardinality(Kept(r)) < Limit
      /\ <<now, n>> \notin known /\ \A m \in 0..Limit : m < n => <<now, m>> \in known
      /\ req' = [req EXCEPT ![r] =
           [at |-> "compare", browser |-> req[r].browser, since |-> req[r].since,
            user |-> req[r].user, version |-> req[r].version]]
      /\ attempts' = [attempts EXCEPT ![i] = Kept(r) \cup {<<now, n>>}]
      /\ recent' = [recent EXCEPT ![i] = @ \cup {<<now, n>>}]
      /\ UNCHANGED <<now, dbVars, issued, jar, cut>>

(* 429.                                                                    *)
DenyLogin(r) ==
  /\ Goto(r, "limit", Idle)
  /\ Cardinality(Kept(r)) >= Limit
  /\ attempts' = [attempts EXCEPT ![req[r].address] = Kept(r)]
  /\ UNCHANGED <<now, recent, dbVars, issued, jar, cut>>

(* Authenticate reads the hash and compares; then the slow bcrypt is over. *)
Compare(r) ==
  /\ Goto(r, "compare", IF req[r].version = password[req[r].user]
                        THEN [req[r] EXCEPT !.at = "create"] ELSE Idle)
  /\ UNCHANGED <<now, limiterVars, dbVars, issued, jar, cut>>

Create(r, t) ==
  /\ Goto(r, "create", Answer(r, t))
  /\ t \notin issued
  /\ issued' = issued \cup {t}
  /\ session' = [session EXCEPT ![t] =
       [user |-> req[r].user, expires |-> now + TTL, version |-> req[r].version,
        late |-> req[r].version < cut[req[r].user], used |-> now]]
  /\ UNCHANGED <<now, limiterVars, password, jar, cut>>

-----------------------------------------------------------------------------
(* SessionAuth: Lookup, before every handler but those of login and logout. *)

Sends(b) == jar[b] # None /\ now < jar[b].until

StartRequest(r, b, c) ==
  /\ Sends(b)
  /\ Goto(r, "idle", [at |-> "look", browser |-> b, since |-> now, token |-> jar[b].token,
                      changes |-> c])
  /\ UNCHANGED <<now, limiterVars, dbVars, issued, jar, cut>>

(* The handler behind SessionAuth, with the user that Lookup has found.    *)
Entered(r, u) ==
  IF req[r].changes
  THEN [at |-> "verify", browser |-> req[r].browser, since |-> req[r].since, user |-> u]
  ELSE Idle

Used(t, expires) ==
  session' = [session EXCEPT ![t] = [@ EXCEPT !.expires = expires, !.used = now]]

LookupMissing(r) ==
  /\ Goto(r, "look", Answer(r, None))
  /\ ~Live(req[r].token)
  /\ UNCHANGED <<now, limiterVars, dbVars, issued, jar, cut>>

(* In the first half of its life a session is let in as it is.             *)
LookupFresh(r) ==
  LET t == req[r].token
  IN  /\ req[r].at = "look"
      /\ Live(t)
      /\ 2 * session[t].expires > 2 * now + TTL
      /\ req' = [req EXCEPT ![r] = Entered(r, session[t].user)]
      /\ Used(t, session[t].expires)
      /\ UNCHANGED <<now, limiterVars, password, issued, jar, cut>>

LookupAgeing(r) ==
  LET t == req[r].token
  IN  /\ req[r].at = "look"
      /\ Live(t)
      /\ now < session[t].expires
      /\ 2 * session[t].expires <= 2 * now + TTL
      /\ req' = [req EXCEPT ![r] =
           [at |-> "renew", browser |-> req[r].browser, since |-> req[r].since,
            token |-> t, changes |-> req[r].changes, found |-> now]]
      /\ UNCHANGED <<now, limiterVars, dbVars, issued, jar, cut>>

LookupExpired(r) ==
  /\ Goto(r, "look", [req[r] EXCEPT !.at = "expire"])
  /\ Live(req[r].token)
  /\ now >= session[req[r].token].expires
  /\ UNCHANGED <<now, limiterVars, dbVars, issued, jar, cut>>

(* UpdateOneID by the id that was read: it writes the row that is there by *)
(* now, and answers NotFound if there is none.                             *)
Renew(r) ==
  LET t == req[r].token
  IN  /\ req[r].at = "renew"
      /\ Live(t)
      /\ req' = [req EXCEPT ![r] = Entered(r, session[t].user)]
      /\ Used(t, req[r].found + TTL)
      /\ UNCHANGED <<now, limiterVars, password, issued, jar, cut>>

RenewMissing(r) ==
  /\ Goto(r, "renew", Answer(r, None))
  /\ ~Live(req[r].token)
  /\ UNCHANGED <<now, limiterVars, dbVars, issued, jar, cut>>

Expire(r) ==
  /\ Goto(r, "expire", Answer(r, None))
  /\ session' = [session EXCEPT ![req[r].token] = None]
  /\ UNCHANGED <<now, limiterVars, password, issued, jar, cut>>

-----------------------------------------------------------------------------
(* Logout, which needs no valid session and drops the cookie whether the   *)
(* DELETE went through or not.                                             *)

StartLogout(r, b) ==
  /\ Sends(b)
  /\ Goto(r, "idle", [at |-> "end", browser |-> b, since |-> now, token |-> jar[b].token])
  /\ UNCHANGED <<now, limiterVars, dbVars, issued, jar, cut>>

Delete(r) ==
  /\ Goto(r, "end", Answer(r, None))
  /\ session' = [session EXCEPT ![req[r].token] = None]
  /\ UNCHANGED <<now, limiterVars, password, issued, jar, cut>>

-----------------------------------------------------------------------------
(* ChangePassword: Authenticate with the old password, the new hash, the   *)
(* sessions of the user.                                                   *)

Verify(r) ==
  /\ Goto(r, "verify", [req[r] EXCEPT !.at = "store"])
  /\ UNCHANGED <<now, limiterVars, dbVars, issued, jar, cut>>

StorePassword(r) ==
  LET u == req[r].user
  IN  /\ req[r].at = "store"
      /\ password[u] < MaxVersion
      /\ password' = [password EXCEPT ![u] = @ + 1]
      /\ req' = [req EXCEPT ![r].at = "drop"]
      /\ UNCHANGED <<now, limiterVars, session, issued, jar, cut>>

DropSessions(r) ==
  LET u == req[r].user
  IN  /\ Goto(r, "drop", Idle)
      /\ session' = [t \in Tokens |->
           IF Live(t) /\ session[t].user = u THEN None ELSE session[t]]
      /\ cut' = [cut EXCEPT ![u] = password[u]]
      /\ UNCHANGED <<now, limiterVars, password, issued, jar>>

-----------------------------------------------------------------------------
(* The answer arrives, with setSessionCookie or clearSessionCookie.        *)
Arrive(r) ==
  /\ Goto(r, "answer", Idle)
  /\ jar' = [jar EXCEPT ![req[r].browser] =
       IF req[r].cookie = None THEN None ELSE [token |-> req[r].cookie, until |-> now + TTL]]
  /\ UNCHANGED <<now, limiterVars, dbVars, issued, cut>>

(* A statement fails, the body is malformed or the old password wrong.     *)
(* SessionAuth and Logout drop the cookie all the same.                    *)
Fails(r) ==
  /\ req[r].at \notin {"idle", "limit", "answer"}
  /\ req' = [req EXCEPT ![r] =
       IF req[r].at \in {"look", "renew", "expire", "end"} THEN Answer(r, None) ELSE Idle]
  /\ UNCHANGED <<now, limiterVars, dbVars, issued, jar, cut>>

(* The browser is gone: its context is cancelled, no answer arrives.       *)
Abandon(r) ==
  /\ req[r] # Idle
  /\ req' = [req EXCEPT ![r] = Idle]
  /\ UNCHANGED <<now, limiterVars, dbVars, issued, jar, cut>>

-----------------------------------------------------------------------------
(* The janitor's two tasks, a restart, and time.                           *)

PurgeExpired ==
  /\ \E t \in Tokens : Live(t) /\ session[t].expires < now
  /\ session' = [t \in Tokens |->
       IF Live(t) /\ session[t].expires < now THEN None ELSE session[t]]
  /\ UNCHANGED <<now, limiterVars, password, issued, jar, req, cut>>

PurgeStaleAttempts(i) ==
  /\ attempts[i] # {} /\ After(attempts[i], now) = {}
  /\ attempts' = [attempts EXCEPT ![i] = {}]
  /\ UNCHANGED <<now, recent, dbVars, issued, jar, req, cut>>

Restart ==
  /\ attempts' = [i \in Addresses |-> {}]
  /\ recent' = [i \in Addresses |-> {}]
  /\ req' = [r \in Requests |-> Idle]
  /\ UNCHANGED <<now, dbVars, issued, jar, cut>>

Tick ==
  /\ now < MaxNow
  /\ \A r \in Requests : req[r] # Idle => now < req[r].since + Delay
  /\ now' = now + 1
  /\ recent' = [i \in Addresses |-> After(recent[i], now + 1)]
  /\ UNCHANGED <<attempts, dbVars, issued, jar, req, cut>>

-----------------------------------------------------------------------------
Login(r) ==
  \/ \E b \in Browsers, u \in Users, v \in Versions, i \in Addresses : StartLogin(r, b, u, v, i)
  \/ \E n \in 0..Limit : AllowLogin(r, n)
  \/ DenyLogin(r) \/ Compare(r)
  \/ \E t \in Tokens : Create(r, t)

Lookup(r) ==
  \/ \E b \in Browsers, c \in BOOLEAN : StartRequest(r, b, c)
  \/ LookupMissing(r) \/ LookupFresh(r) \/ LookupAgeing(r) \/ LookupExpired(r)
  \/ Renew(r) \/ RenewMissing(r) \/ Expire(r)

Logout(r) == (\E b \in Browsers : StartLogout(r, b)) \/ Delete(r)

ChangePassword(r) == Verify(r) \/ StorePassword(r) \/ DropSessions(r)

Next ==
  \/ \E r \in Requests :
       \/ Login(r) \/ Lookup(r) \/ Logout(r) \/ ChangePassword(r)
       \/ Arrive(r) \/ Fails(r) \/ Abandon(r)
  \/ PurgeExpired
  \/ \E i \in Addresses : PurgeStaleAttempts(i)
  \/ Restart
  \/ Tick

Spec == Init /\ [][Next]_vars

-----------------------------------------------------------------------------
(* At most Limit logins of one address are let through within any Window   *)
(* (login 5/min): whatever the requests that wait for the mutex with an    *)
(* old cutoff, those that are refused and the purge do to the list.        *)
AtMostLimit == \A i \in Addresses : Cardinality(recent[i]) <= Limit

(* Sliding renewal: although it is skipped in the first half and two of    *)
(* them may be written in the opposite order of their reads, the expiry    *)
(* stored with a session is half the TTL after its last use at least, and  *)
(* the TTL at most (sessions.go:100).  It says nothing of how long the row *)
(* lives: a look-up that found the session expired before another renewed  *)
(* it still deletes it (Expire, sessions.go:93).                           *)
SlidingWindow ==
  \A t \in Tokens : Live(t) =>
    /\ 2 * session[t].expires >= 2 * session[t].used + TTL
    /\ session[t].expires <= session[t].used + TTL

(* A change of the password ends every session made with an older one;     *)
(* only a login that had compared the old password before and created its  *)
(* session after the change is left with one (login.go:125).               *)
OldSessionsAreLate ==
  \A t \in Tokens :
    Live(t) /\ session[t].version < cut[session[t].user] => session[t].late

(* A session that was ended, by logout, expiry, purge or a changed         *)
(* password, stays ended: a look-up that had read it before, and renews it *)
(* now, does not bring it back.                                            *)
EndedStaysEnded ==
  [][\A t \in issued : ~Live(t) => ~Live(t)']_vars
=============================================================================
