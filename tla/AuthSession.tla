------------------------------ MODULE AuthSession ------------------------------
(* Sessions, token rotation and the access-token check of the Pulse backend:   *)
(* AuthService::createUserSession / refreshAccessToken / logoutUser, the       *)
(* AuthFilter, and the handlers that end sessions (password change, account    *)
(* deletion, the administrator's ban).                                         *)
(*                                                                             *)
(* One action per access to MongoDB or Redis: a Drogon worker runs a handler   *)
(* to its end, but other workers (and other instances) run between two of its  *)
(* accesses.  `req[r]` is the handler worker r is running and where it stands. *)
EXTENDS Naturals, FiniteSets

CONSTANTS
  Users, Devices, Requests, None,
  AccessTTL,       \* lifetime of an access token and of its revocation, seconds
  SessionTTL,      \* lifetime of a session and of a refresh token, seconds
  MaxTime,         \* bound: the clock stops here
  MaxRefresh,      \* bound: refresh tokens ever minted
  Ops,             \* the operations this instance starts
  CrossDevice,     \* may a client name another device than its own at logout?
  RedisFaults      \* may an access to Redis fail?

OpNames == {"login", "adminLogin", "refresh", "serve", "logout",
            "password", "delete", "ban", "unban"}

ASSUME ConstAssumption ==
  /\ AccessTTL \in Nat /\ SessionTTL \in Nat \ {0}
  /\ MaxTime \in Nat /\ MaxRefresh \in Nat
  /\ Ops \subseteq OpNames
  /\ CrossDevice \in BOOLEAN /\ RedisFaults \in BOOLEAN
  /\ None \notin Users /\ None \notin Devices

VARIABLES
  now,        \* the clock, in the whole seconds a JWT carries
  users,      \* collection users: isActive
  sessions,   \* collection sessions
  cache,      \* Redis auth_user:<id>: "none" | "true" | "false"
  revoked,    \* Redis revoked_token:<sha256>: the token and when the key expires
  access,     \* access tokens clients hold (with the device that got them)
  refresh,    \* refresh tokens clients hold
  minted,     \* refresh tokens minted so far; the last one's number
  req,        \* the handler each worker runs
  redeemed,   \* history: how often each refresh token was redeemed
  dead,       \* history: sessions ended by a handler
  barred,     \* history: users whose ban or deletion has completed
  loggedOut   \* history: tokens whose logout stored their revocation

vars == <<now, users, sessions, cache, revoked, access, refresh, minted, req,
          redeemed, dead, barred, loggedOut>>
hist == <<redeemed, dead, barred, loggedOut>>

Time == 0 .. MaxTime
RefreshId == 1 .. MaxRefresh
\* An access token carries no token id: its user and the second it was minted.
Token == [user : Users, iat : Time]
Expiry == 0 .. MaxTime + AccessTTL + SessionTTL
\* A session document is identified by the first refresh token it was given.
Session == [id : RefreshId, user : Users, device : Devices, iat : Time,
            ref : RefreshId, active : BOOLEAN, exp : Expiry]

PCs == {"idle", "loginDeactivate", "loginInsert", "rotate", "vCache", "vFetch",
        "vFill", "vSession", "handler", "outSessions", "outRevoke",
        "pwSessions", "pwCache", "pwRevoke",
        "endUser", "endSessions", "endCache"}
Call == [pc : PCs, op : OpNames \cup {"idle"},
         user : Users \cup {None}, device : Devices \cup {None},
         iat : Time, ref : 0 .. MaxRefresh, new : 0 .. MaxRefresh, exp : Expiry,
         val : BOOLEAN,
         snap : SUBSET RefreshId, late : BOOLEAN, out : BOOLEAN]

Idle == [pc |-> "idle", op |-> "idle", user |-> None, device |-> None,
         iat |-> 0, ref |-> 0, new |-> 0, exp |-> 0, val |-> FALSE,
         snap |-> {}, late |-> FALSE, out |-> FALSE]

Init ==
  /\ now = 0
  /\ users = [u \in Users |-> TRUE]
  /\ sessions = {}
  /\ cache = [u \in Users |-> "none"]
  /\ revoked = {} /\ access = {} /\ refresh = {}
  /\ minted = 0
  /\ req = [r \in Requests |-> Idle]
  /\ redeemed = [x \in RefreshId |-> 0]
  /\ dead = {} /\ barred = {} /\ loggedOut = {}

\* A user's sessions, those of one device, and the state after update_many
\* has deactivated a set of them.
Of(u) == {s \in sessions : s.user = u /\ s.active}
OfDevice(u, d) == {s \in Of(u) : s.device = d}
Ids(S) == {s.id : s \in S}
Deactivate(S) ==
  (sessions \ S) \cup {[s EXCEPT !.active = FALSE] : s \in S}

Start(r, op) == op \in Ops /\ req[r].pc = "idle"
At(r, pc) == req[r].pc = pc
Goto(r, pc) == req' = [req EXCEPT ![r].pc = pc]
End(r) == req' = [req EXCEPT ![r] = Idle]

\* Does Redis answer?  CacheService::set and del report a failure only in a
\* result no handler here reads.
Answered == IF RedisFaults THEN BOOLEAN ELSE {TRUE}
Stored(next, written, old) == next = written \/ (RedisFaults /\ next = old)

-----------------------------------------------------------------------------
(* Logging in.  Each login flow (one-time code, Firebase, username creation,   *)
(* the administrator's password) reads an active user and ends in              *)
(* createUserSession.                                                          *)
BeginLogin(r, u, d) ==
  /\ Start(r, "login")
  /\ users[u]
  /\ req' = [req EXCEPT ![r] = [Idle EXCEPT
       !.pc = "loginDeactivate", !.op = "login", !.user = u, !.device = d]]
  /\ UNCHANGED <<now, users, sessions, cache, revoked, access, refresh, minted, hist>>

\* The admin panel's login names a device nobody has (admin-panel-<random>).
BeginAdminLogin(r, u, d) ==
  /\ Start(r, "adminLogin")
  /\ users[u]
  /\ \A s \in sessions : s.device # d
  /\ \A q \in Requests : req[q].device # d
  /\ req' = [req EXCEPT ![r] = [Idle EXCEPT
       !.pc = "loginDeactivate", !.op = "adminLogin", !.user = u, !.device = d]]
  /\ UNCHANGED <<now, users, sessions, cache, revoked, access, refresh, minted, hist>>

\* createUserSession: both tokens are minted, then update_many deactivates the
\* device's other sessions.
LoginDeactivate(r) ==
  LET old == OfDevice(req[r].user, req[r].device) IN
  /\ At(r, "loginDeactivate")
  /\ minted < MaxRefresh
  /\ minted' = minted + 1
  /\ sessions' = Deactivate(old)
  /\ dead' = dead \cup Ids(old)
  /\ req' = [req EXCEPT ![r] = [@ EXCEPT !.pc = "loginInsert",
       !.iat = now, !.new = minted', !.exp = now + SessionTTL]]
  /\ UNCHANGED <<now, users, cache, revoked, access, refresh, redeemed, barred, loggedOut>>

\* ... and insert_one stores the new one; the client receives both tokens.
LoginInsert(r) ==
  LET q == req[r] IN
  /\ At(r, "loginInsert")
  /\ sessions' = sessions \cup
       {[id |-> q.new, user |-> q.user, device |-> q.device, iat |-> q.iat,
         ref |-> q.new, active |-> TRUE, exp |-> q.exp]}
  /\ access' = access \cup {[user |-> q.user, device |-> q.device, iat |-> q.iat]}
  /\ refresh' = refresh \cup
       {[id |-> q.new, user |-> q.user, device |-> q.device, exp |-> q.exp]}
  /\ End(r)
  /\ UNCHANGED <<now, users, cache, revoked, minted, hist>>

-----------------------------------------------------------------------------
(* Refreshing: the token is verified and its user read, and the session that   *)
(* still holds its hash is rotated by one find_one_and_update.                 *)
BeginRefresh(r, t) ==
  /\ Start(r, "refresh")
  /\ now <= t.exp
  /\ users[t.user]
  /\ minted < MaxRefresh
  /\ minted' = minted + 1
  /\ req' = [req EXCEPT ![r] = [Idle EXCEPT
       !.pc = "rotate", !.op = "refresh", !.user = t.user, !.device = t.device,
       !.iat = now, !.ref = t.id, !.new = minted', !.exp = now + SessionTTL]]
  /\ UNCHANGED <<now, users, sessions, cache, revoked, access, refresh, hist>>

\* Mutant: the old hash is missing from the predicate.
MatchesAnyToken(s, q) ==
  s.user = q.user /\ s.device = q.device /\ s.active /\ s.exp > now

Matches(s, q) ==
  /\ s.user = q.user /\ s.device = q.device
  /\ s.ref = q.ref
  /\ s.active
  /\ s.exp > now

\* Mutant: only the access token's hash is replaced.
RotatedAccessOnly(s, q) == [s EXCEPT !.iat = q.iat]

Rotated(s, q) == [s EXCEPT !.iat = q.iat, !.ref = q.new]

RefreshRotate(r) ==
  LET q == req[r] IN
  /\ At(r, "rotate")
  /\ \E s \in sessions :
       /\ Matches(s, q)
       /\ sessions' = (sessions \ {s}) \cup {Rotated(s, q)}
  /\ redeemed' = [redeemed EXCEPT ![q.ref] = @ + 1]
  /\ access' = access \cup {[user |-> q.user, device |-> q.device, iat |-> q.iat]}
  /\ refresh' = refresh \cup
       {[id |-> q.new, user |-> q.user, device |-> q.device, exp |-> q.exp]}
  /\ End(r)
  /\ UNCHANGED <<now, users, cache, revoked, minted, dead, barred, loggedOut>>

RefreshRefused(r) ==
  /\ At(r, "rotate")
  /\ ~\E s \in sessions : Matches(s, req[r])
  /\ End(r)
  /\ UNCHANGED <<now, users, sessions, cache, revoked, access, refresh, minted, hist>>

-----------------------------------------------------------------------------
(* validateAccessToken: signature and expiry, the revocation key, the cached   *)
(* isActive of the user (filled by getOrSet), the session.                     *)
Revoked(u, iat) == \E k \in revoked : k.user = u /\ k.iat = iat /\ now <= k.exp

BeginRequest(r, t, op) ==
  /\ op \in {"serve", "logout", "password", "delete"}
  /\ Start(r, op)
  /\ now <= t.iat + AccessTTL
  /\ \E answered \in Answered :             \* a failed get finds no key
       /\ answered => ~Revoked(t.user, t.iat)
       /\ req' = [req EXCEPT ![r] = [Idle EXCEPT
            !.pc = "vCache", !.op = op, !.user = t.user, !.device = t.device,
            !.iat = t.iat, !.late = t.user \in barred,
            !.out = answered /\ [user |-> t.user, iat |-> t.iat] \in loggedOut]]
  /\ UNCHANGED <<now, users, sessions, cache, revoked, access, refresh, minted, hist>>

\* resolveUserActive: a cached value is used as it is; without one the request
\* fetches, or waits for what another of its process has under way.
CheckCached(r) ==
  LET u == req[r].user IN
  /\ At(r, "vCache")
  /\ \/ (cache[u] = "none" \/ RedisFaults) /\ Goto(r, "vFetch")
     \/ /\ cache[u] = "none" \/ RedisFaults
        /\ \E q \in Requests :
             /\ At(q, "vFill") /\ req[q].user = u
             /\ IF req[q].val THEN Goto(r, "vSession") ELSE End(r)
     \/ cache[u] = "true" /\ Goto(r, "vSession")
     \/ cache[u] = "false" /\ End(r)
  /\ UNCHANGED <<now, users, sessions, cache, revoked, access, refresh, minted, hist>>

\* Mutant: a failing read counts as active.
FetchActiveFailOpen(r) ==
  /\ At(r, "vFetch")
  /\ \E v \in {users[req[r].user], TRUE} :
       req' = [req EXCEPT ![r] = [@ EXCEPT !.pc = "vFill", !.val = v]]
  /\ UNCHANGED <<now, users, sessions, cache, revoked, access, refresh, minted, hist>>

\* The single flight's fetch reads the user; a failing read counts as inactive.
FetchActive(r) ==
  /\ At(r, "vFetch")
  /\ \E v \in {users[req[r].user], FALSE} :
       req' = [req EXCEPT ![r] = [@ EXCEPT !.pc = "vFill", !.val = v]]
  /\ UNCHANGED <<now, users, sessions, cache, revoked, access, refresh, minted, hist>>

\* Its result is written to the cache (a failed write goes unnoticed) and used.
FillCache(r) ==
  LET u == req[r].user
      v == IF req[r].val THEN "true" ELSE "false" IN
  /\ At(r, "vFill")
  /\ Stored(cache', [cache EXCEPT ![u] = v], cache)
  /\ IF req[r].val THEN Goto(r, "vSession") ELSE End(r)
  /\ UNCHANGED <<now, users, sessions, revoked, access, refresh, minted, hist>>

HasActiveSession(q) ==
  \E s \in sessions : s.user = q.user /\ s.iat = q.iat /\ s.active /\ s.exp > now

CheckSession(r) ==
  /\ At(r, "vSession")
  /\ IF HasActiveSession(req[r]) THEN Goto(r, "handler") ELSE End(r)
  /\ UNCHANGED <<now, users, sessions, cache, revoked, access, refresh, minted, hist>>

-----------------------------------------------------------------------------
(* The handlers behind the filter.                                             *)
Serve(r) ==
  /\ At(r, "handler") /\ req[r].op = "serve"
  /\ End(r)
  /\ UNCHANGED <<now, users, sessions, cache, revoked, access, refresh, minted, hist>>

\* logoutUser: the device is the one the client names.
BeginLogout(r) ==
  /\ At(r, "handler") /\ req[r].op = "logout"
  /\ \E d \in (IF CrossDevice THEN Devices ELSE {req[r].device}) :
       req' = [req EXCEPT ![r] = [@ EXCEPT !.pc = "outSessions", !.device = d]]
  /\ UNCHANGED <<now, users, sessions, cache, revoked, access, refresh, minted, hist>>

LogoutSessions(r) ==
  LET old == OfDevice(req[r].user, req[r].device) IN
  /\ At(r, "outSessions")
  /\ sessions' = Deactivate(old)
  /\ dead' = dead \cup Ids(old)
  /\ Goto(r, "outRevoke")
  /\ UNCHANGED <<now, users, cache, revoked, access, refresh, minted,
                 redeemed, barred, loggedOut>>

\* Mutants: a revocation that lives too short, or as long as a refresh token.
KeyShort(q) == [user |-> q.user, iat |-> q.iat, exp |-> now]
KeyLong(q) == [user |-> q.user, iat |-> q.iat, exp |-> now + SessionTTL]

Key(q) == [user |-> q.user, iat |-> q.iat, exp |-> now + AccessTTL]

LogoutRevoke(r) ==
  /\ At(r, "outRevoke")
  /\ \E answered \in Answered :
       IF answered
       THEN /\ revoked' = revoked \cup {Key(req[r])}
            /\ loggedOut' = loggedOut \cup {[user |-> req[r].user, iat |-> req[r].iat]}
       ELSE UNCHANGED <<revoked, loggedOut>>
  /\ End(r)
  /\ UNCHANGED <<now, users, sessions, cache, access, refresh, minted,
                 redeemed, dead, barred>>

\* changePassword ends the sessions, stores the hash (which nothing here tells
\* apart), drops the cached isActive and revokes this request's token.
BeginPassword(r) ==
  /\ At(r, "handler") /\ req[r].op = "password"
  /\ req' = [req EXCEPT ![r] = [@ EXCEPT !.pc = "pwSessions",
       !.snap = Ids({s \in sessions : s.user = req[r].user})]]
  /\ UNCHANGED <<now, users, sessions, cache, revoked, access, refresh, minted, hist>>

\* Mutant: the requesting device stays logged in.
PasswordOtherSessions(r) ==
  /\ At(r, "pwSessions")
  /\ sessions' = Deactivate(Of(req[r].user) \ OfDevice(req[r].user, req[r].device))
  /\ Goto(r, "pwCache")
  /\ UNCHANGED <<now, users, cache, revoked, access, refresh, minted, hist>>

PasswordSessions(r) ==
  /\ At(r, "pwSessions")
  /\ sessions' = Deactivate(Of(req[r].user))
  /\ Goto(r, "pwCache")
  /\ UNCHANGED <<now, users, cache, revoked, access, refresh, minted, hist>>

PasswordCache(r) ==
  /\ At(r, "pwCache")
  /\ Stored(cache', [cache EXCEPT ![req[r].user] = "none"], cache)
  /\ Goto(r, "pwRevoke")
  /\ UNCHANGED <<now, users, sessions, revoked, access, refresh, minted, hist>>

PasswordRevoke(r) ==
  /\ At(r, "pwRevoke")
  /\ Stored(revoked', revoked \cup {Key(req[r])}, revoked)
  /\ dead' = dead \cup req[r].snap
  /\ End(r)
  /\ UNCHANGED <<now, users, sessions, cache, access, refresh, minted,
                 redeemed, barred, loggedOut>>

-----------------------------------------------------------------------------
(* deleteAccount and the administrator's ban make the same three writes: the   *)
(* user inactive, every session inactive, the cached isActive dropped.         *)
BeginDelete(r) ==
  /\ At(r, "handler") /\ req[r].op = "delete"
  /\ req' = [req EXCEPT ![r] = [@ EXCEPT !.pc = "endUser",
       !.snap = Ids({s \in sessions : s.user = req[r].user})]]
  /\ UNCHANGED <<now, users, sessions, cache, revoked, access, refresh, minted, hist>>

BeginBan(r, u) ==
  /\ Start(r, "ban")
  /\ req' = [req EXCEPT ![r] = [Idle EXCEPT !.pc = "endUser", !.op = "ban",
       !.user = u, !.snap = Ids({s \in sessions : s.user = u})]]
  /\ UNCHANGED <<now, users, sessions, cache, revoked, access, refresh, minted, hist>>

EndUser(r) ==
  /\ At(r, "endUser")
  /\ users' = [users EXCEPT ![req[r].user] = FALSE]
  /\ Goto(r, "endSessions")
  /\ UNCHANGED <<now, sessions, cache, revoked, access, refresh, minted, hist>>

EndSessions(r) ==
  /\ At(r, "endSessions")
  /\ sessions' = Deactivate(Of(req[r].user))
  /\ Goto(r, "endCache")
  /\ UNCHANGED <<now, users, cache, revoked, access, refresh, minted, hist>>

EndCache(r) ==
  LET u == req[r].user IN
  /\ At(r, "endCache")
  /\ Stored(cache', [cache EXCEPT ![u] = "none"], cache)
  /\ dead' = dead \cup req[r].snap
  /\ barred' = IF users[u] THEN barred ELSE barred \cup {u}
  /\ End(r)
  /\ UNCHANGED <<now, users, sessions, revoked, access, refresh, minted,
                 redeemed, loggedOut>>

\* updateUserStatus(true) writes the user and nothing else.  The history of
\* the ban ends with it.
Unban(u) ==
  /\ "unban" \in Ops
  /\ ~users[u]
  /\ users' = [users EXCEPT ![u] = TRUE]
  /\ barred' = barred \ {u}
  /\ req' = [r \in Requests |->
       IF req[r].user = u THEN [req[r] EXCEPT !.late = FALSE] ELSE req[r]]
  /\ UNCHANGED <<now, sessions, cache, revoked, access, refresh, minted,
                 redeemed, dead, loggedOut>>

-----------------------------------------------------------------------------
(* The environment: time, expiry, the cleanup job, a handler that throws or    *)
(* whose process dies with its earlier writes in place.                        *)
Tick ==
  /\ now < MaxTime
  /\ now' = now + 1
  /\ UNCHANGED <<users, sessions, cache, revoked, access, refresh, minted, req, hist>>

CacheExpire(u) ==
  /\ cache[u] # "none"
  /\ cache' = [cache EXCEPT ![u] = "none"]
  /\ UNCHANGED <<now, users, sessions, revoked, access, refresh, minted, req, hist>>

\* The TTL index and session::cleanupExpired remove what has expired (the job
\* also removes what has long been inactive).
CleanupExpired ==
  /\ \E s \in sessions :
       /\ s.exp <= now \/ ~s.active
       /\ sessions' = sessions \ {s}
  /\ UNCHANGED <<now, users, cache, revoked, access, refresh, minted, req, hist>>

Abort(r) ==
  /\ ~At(r, "idle")
  /\ End(r)
  /\ UNCHANGED <<now, users, sessions, cache, revoked, access, refresh, minted, hist>>

Step(r) ==
  \/ LoginDeactivate(r) \/ LoginInsert(r)
  \/ RefreshRotate(r) \/ RefreshRefused(r)
  \/ CheckCached(r) \/ FetchActive(r) \/ FillCache(r) \/ CheckSession(r)
  \/ Serve(r)
  \/ BeginLogout(r) \/ LogoutSessions(r) \/ LogoutRevoke(r)
  \/ BeginPassword(r) \/ PasswordSessions(r) \/ PasswordCache(r) \/ PasswordRevoke(r)
  \/ BeginDelete(r) \/ EndUser(r) \/ EndSessions(r) \/ EndCache(r)

Begin(r) ==
  \/ \E u \in Users, d \in Devices : BeginLogin(r, u, d)
  \/ \E u \in Users, d \in Devices : BeginAdminLogin(r, u, d)
  \/ \E t \in refresh : BeginRefresh(r, t)
  \/ \E t \in access, op \in Ops : BeginRequest(r, t, op)
  \/ \E u \in Users : BeginBan(r, u)

Environment ==
  \/ \E u \in Users : Unban(u)
  \/ Tick
  \/ \E u \in Users : CacheExpire(u)
  \/ CleanupExpired
  \/ \E r \in Requests : Abort(r)

Next ==
  \/ \E r \in Requests : Begin(r) \/ Step(r)
  \/ Environment

\* A worker finishes the handler it runs, and Redis expires a key that is
\* never refreshed (resolveUserActive writes it only when it is absent).
Fairness ==
  /\ \A r \in Requests : WF_vars(Step(r))
  /\ \A u \in Users : WF_vars(CacheExpire(u))

Spec == Init /\ [][Next]_vars
FairSpec == Spec /\ Fairness

-----------------------------------------------------------------------------
(* Properties                                                                  *)

\* Every variable stays in its range; in particular no revocation key is stored
\* for longer than an access token lives (logoutUser, changePassword).
TypeOK ==
  /\ now \in Time
  /\ users \in [Users -> BOOLEAN]
  /\ sessions \subseteq Session
  /\ cache \in [Users -> {"none", "true", "false"}]
  /\ revoked \subseteq [user : Users, iat : Time, exp : 0 .. MaxTime + AccessTTL]
  /\ access \subseteq [user : Users, device : Devices, iat : Time]
  /\ refresh \subseteq [id : RefreshId, user : Users, device : Devices, exp : Expiry]
  /\ minted \in 0 .. MaxRefresh
  /\ req \in [Requests -> Call]
  /\ redeemed \in [RefreshId -> Nat]
  /\ dead \subseteq RefreshId
  /\ barred \subseteq Users
  /\ loggedOut \subseteq Token

\* A refresh token is redeemed at most once, however many clients and workers
\* present it at the same time (the find_one_and_update in refreshAccessToken).
RefreshOnce == \A x \in RefreshId : redeemed[x] <= 1

\* A session ended by a login on its device, a logout, a password change, a
\* deletion or a ban that ran to its end is never active again, whatever
\* refresh or login was in flight.
KilledStayDead == \A s \in sessions : s.id \in dead => ~s.active

\* A token whose logout was stored is refused by every request that begins
\* later and whose lookup Redis answers, for as long as its signature is valid,
\* even when another session holds the same token (logoutUser,
\* validateAccessToken).
LogoutRevokes == \A r \in Requests : ~(At(r, "handler") /\ req[r].out)

\* The session store implements the ledger of refresh-token chains.
Ledger == INSTANCE SessionLedger WITH
  Tokens <- RefreshId,
  open   <- {[first |-> s.id, last |-> s.ref] : s \in {t \in sessions : t.active}},
  issued <- {t.id : t \in refresh},
  spent  <- {x \in RefreshId : redeemed[x] > 0}
LedgerSpec == Ledger!Spec

\* A user who stays banned or deleted is eventually served nothing, even if a
\* login or a cache fill raced with the ban (deleteAccount, updateUserStatus).
BanEventuallyHolds ==
  \A u \in Users :
    <>[](~users[u]) =>
      <>[](\A r \in Requests : At(r, "handler") => req[r].user # u)

\* Once a ban or a deletion has completed, no request that begins afterwards
\* is served ("so the ban takes effect now", updateUserStatus).
BanTakesEffect == \A r \in Requests : ~(At(r, "handler") /\ req[r].late)
=============================================================================
