--------------------------- MODULE AuthSessionProofs ---------------------------
(* Proofs about AuthSession for every set of users, devices and workers, every *)
(* lifetime and every bound; and, at the end, what AccountsMC puts next to it.  *)
EXTENDS AccountsMC, FiniteSetTheorems, TLAPS

-----------------------------------------------------------------------------
(* Type correctness                                                            *)

\* What a handler has filled in by the time it stands at a step.
NeedsDevice == {"loginDeactivate", "loginInsert", "rotate", "vCache", "vFetch", "vFill",
                "vSession", "handler", "outSessions", "outRevoke"}
NeedsToken == {"loginInsert", "rotate"}
CallOK(q) ==
  /\ q.pc # "idle" => q.user \in Users
  /\ q.pc \in NeedsDevice => q.device \in Devices
  /\ q.pc \in NeedsToken => q.new \in RefreshId
  /\ q.pc = "rotate" => q.ref \in RefreshId

CallsOK == req \in [Requests -> Call] /\ \A r \in Requests : CallOK(req[r])

\* TypeOK without the handlers.
StoreOK ==
  /\ now \in Time
  /\ users \in [Users -> BOOLEAN]
  /\ sessions \subseteq Session
  /\ cache \in [Users -> {"none", "true", "false"}]
  /\ revoked \subseteq [user : Users, iat : Time, exp : 0 .. MaxTime + AccessTTL]
  /\ access \subseteq [user : Users, device : Devices, iat : Time]
  /\ refresh \subseteq [id : RefreshId, user : Users, device : Devices, exp : Expiry]
  /\ minted \in 0 .. MaxRefresh
  /\ redeemed \in [RefreshId -> Nat]
  /\ dead \subseteq RefreshId
  /\ barred \subseteq Users
  /\ loggedOut \subseteq Token

TypeInv == StoreOK /\ CallsOK

LEMMA TypeInvImpliesTypeOK == TypeInv => TypeOK
BY DEF TypeInv, StoreOK, CallsOK, TypeOK

LEMMA IdleCall == Idle \in Call /\ CallOK(Idle)
BY ConstAssumption DEF Idle, Call, CallOK, PCs, Expiry, Time, NeedsDevice, NeedsToken

LEMMA TypeInit == Init => TypeInv
BY IdleCall, ConstAssumption
   DEF Init, TypeInv, StoreOK, CallsOK, Time, RefreshId, Token

\* A step replaces one handler's record.
LEMMA MoveCalls ==
  ASSUME CallsOK, NEW r \in Requests, NEW q \in Call, CallOK(q),
         req' = [req EXCEPT ![r] = q]
  PROVE  CallsOK'
BY DEF CallsOK

LEMMA EndCalls ==
  ASSUME CallsOK, NEW r \in Requests, End(r)
  PROVE  CallsOK'
BY IdleCall, MoveCalls DEF End

LEMMA GotoCalls ==
  ASSUME CallsOK, NEW r \in Requests, NEW pc \in PCs \ NeedsToken, Goto(r, pc),
         req[r].pc # "idle", pc \in NeedsDevice => req[r].pc \in NeedsDevice
  PROVE  CallsOK'
<1> DEFINE q == [req[r] EXCEPT !.pc = pc]
<1>1. req[r] \in Call /\ CallOK(req[r])
  BY DEF CallsOK
<1>2. q \in Call
  BY <1>1 DEF Call
<1>3. q.pc = pc /\ q.user = req[r].user /\ q.device = req[r].device
  BY <1>1 DEF Call
<1>4. CallOK(q)
  BY <1>1, <1>3 DEF CallOK, NeedsToken
<1>5. req' = [req EXCEPT ![r] = q]
  BY DEF Goto
<1> QED
  BY <1>2, <1>4, <1>5, MoveCalls

LEMMA DeactivateType ==
  ASSUME sessions \subseteq Session, NEW S \in SUBSET sessions
  PROVE  Deactivate(S) \subseteq Session
BY DEF Deactivate, Session

LEMMA BeginType ==
  ASSUME TypeInv, NEW r \in Requests, Begin(r)
  PROVE  TypeInv'
<1> USE ConstAssumption
<1>1. ASSUME NEW u \in Users, NEW d \in Devices, BeginLogin(r, u, d)
      PROVE  TypeInv'
  <2> DEFINE q == [Idle EXCEPT !.pc = "loginDeactivate", !.op = "login", !.user = u, !.device = d]
  <2>1. q \in Call
    BY IdleCall DEF Call, PCs, OpNames
  <2>1a. CallOK(q)
    BY IdleCall DEF Call, CallOK, NeedsToken, NeedsDevice
  <2>2. req' = [req EXCEPT ![r] = q]
    BY <1>1 DEF BeginLogin
  <2>3. CallsOK'
    BY <2>1, <2>1a, <2>2, MoveCalls DEF TypeInv
  <2> QED
    BY <1>1, <2>3 DEF BeginLogin, TypeInv, StoreOK, hist
<1>2. ASSUME NEW u \in Users, NEW d \in Devices, BeginAdminLogin(r, u, d)
      PROVE  TypeInv'
  <2> DEFINE q == [Idle EXCEPT !.pc = "loginDeactivate", !.op = "adminLogin", !.user = u, !.device = d]
  <2>1. q \in Call
    BY IdleCall DEF Call, PCs, OpNames
  <2>1a. CallOK(q)
    BY IdleCall DEF Call, CallOK, NeedsToken, NeedsDevice
  <2>2. req' = [req EXCEPT ![r] = q]
    BY <1>2 DEF BeginAdminLogin
  <2>3. CallsOK'
    BY <2>1, <2>1a, <2>2, MoveCalls DEF TypeInv
  <2> QED
    BY <1>2, <2>3 DEF BeginAdminLogin, TypeInv, StoreOK, hist
<1>3. ASSUME NEW t \in refresh, BeginRefresh(r, t)
      PROVE  TypeInv'
  <2> DEFINE q == [Idle EXCEPT
       !.pc = "rotate", !.op = "refresh", !.user = t.user, !.device = t.device,
       !.iat = now, !.ref = t.id, !.new = minted', !.exp = now + SessionTTL]
  <2>1. /\ t.user \in Users /\ t.device \in Devices /\ t.id \in RefreshId
        /\ now \in Time /\ minted' \in RefreshId
    BY <1>3 DEF TypeInv, StoreOK, BeginRefresh, RefreshId
  <2>2. /\ now + SessionTTL \in Expiry
        /\ t.id \in 0 .. MaxRefresh /\ minted' \in 0 .. MaxRefresh
    BY <2>1 DEF Expiry, Time, RefreshId
  <2>3. q \in Call
    <3> DEFINE new == minted'
    <3> HIDE DEF new
    <3> QED
      BY <2>1, <2>2, IdleCall DEF Call, PCs, OpNames, new
  <2>3a. CallOK(q)
    BY <2>1, <2>2, IdleCall DEF Call, CallOK, NeedsToken, NeedsDevice
  <2>4. req' = [req EXCEPT ![r] = q]
    BY <1>3 DEF BeginRefresh
  <2>5. CallsOK'
    BY <2>3, <2>3a, <2>4, MoveCalls DEF TypeInv
  <2> QED
    BY <1>3, <2>5 DEF BeginRefresh, TypeInv, StoreOK, hist
<1>4. ASSUME NEW t \in access, NEW op \in Ops, BeginRequest(r, t, op)
      PROVE  TypeInv'
  <2> DEFINE late == t.user \in barred
             q(out) == [Idle EXCEPT
               !.pc = "vCache", !.op = op, !.user = t.user, !.device = t.device,
               !.iat = t.iat, !.late = late, !.out = out]
  <2>0. PICK out \in BOOLEAN : req' = [req EXCEPT ![r] = q(out)]
    BY <1>4 DEF BeginRequest
  <2>1. t.user \in Users /\ t.device \in Devices /\ t.iat \in Time /\ op \in OpNames
    BY DEF TypeInv, StoreOK
  <2>2. q(out) \in Call
    <3>1. late \in BOOLEAN
      OBVIOUS
    <3> HIDE DEF late
    <3> QED
      BY ZenonT(30), <3>1, <2>1, IdleCall DEF Call, PCs, OpNames
  <2>2a. CallOK(q(out))
    BY <2>1, IdleCall DEF Call, CallOK, NeedsToken, NeedsDevice
  <2>4. CallsOK'
    BY <2>0, <2>2, <2>2a, MoveCalls DEF TypeInv
  <2> QED
    BY <1>4, <2>4 DEF BeginRequest, TypeInv, StoreOK, hist
<1>5. ASSUME NEW u \in Users, BeginBan(r, u)
      PROVE  TypeInv'
  <2> DEFINE q == [Idle EXCEPT !.pc = "endUser", !.op = "ban",
       !.user = u, !.snap = Ids({s \in sessions : s.user = u})]
  <2>1. Ids({s \in sessions : s.user = u}) \in SUBSET RefreshId
    BY DEF TypeInv, StoreOK, Session, Ids
  <2>2. q \in Call
    BY <2>1, IdleCall DEF Call, PCs, OpNames
  <2>2a. CallOK(q)
    BY <2>1, IdleCall DEF Call, CallOK, NeedsToken, NeedsDevice
  <2>3. req' = [req EXCEPT ![r] = q]
    BY <1>5 DEF BeginBan
  <2>4. CallsOK'
    BY <2>2, <2>2a, <2>3, MoveCalls DEF TypeInv
  <2> QED
    BY <1>5, <2>4 DEF BeginBan, TypeInv, StoreOK, hist
<1> QED
  BY <1>1, <1>2, <1>3, <1>4, <1>5 DEF Begin

LEMMA StepType ==
  ASSUME TypeInv, NEW r \in Requests, Step(r)
  PROVE  TypeInv'
<1> USE DEF At
<1>0. /\ StoreOK /\ CallsOK /\ req[r] \in Call /\ CallOK(req[r])
  BY DEF TypeInv, CallsOK
<1>1. CASE LoginDeactivate(r)
  <2> DEFINE q == [req[r] EXCEPT !.pc = "loginInsert",
                     !.iat = now, !.new = minted', !.exp = now + SessionTTL]
  <2>1. /\ minted' \in RefreshId /\ minted' \in 0 .. MaxRefresh
        /\ now \in Time /\ now + SessionTTL \in Expiry
    BY <1>0, <1>1, ConstAssumption DEF StoreOK, LoginDeactivate, RefreshId, Expiry, Time
  <2>2. q \in Call
    <3> DEFINE new == minted'
    <3> HIDE DEF new
    <3> QED
      BY <1>0, <2>1 DEF Call, PCs, new
  <2>3. CallOK(q)
    BY <1>0, <1>1, <2>1 DEF LoginDeactivate, Call, CallOK, NeedsToken, NeedsDevice
  <2>4. req' = [req EXCEPT ![r] = q]
    BY <1>1 DEF LoginDeactivate
  <2>5. CallsOK'
    BY <1>0, <2>2, <2>3, <2>4, MoveCalls
  <2>6. sessions' \subseteq Session
    BY <1>0, <1>1, DeactivateType DEF LoginDeactivate, OfDevice, Of, StoreOK
  <2>7. dead' \subseteq RefreshId
    BY <1>0, <1>1 DEF LoginDeactivate, OfDevice, Of, Ids, StoreOK, Session
  <2> QED
    BY <1>0, <1>1, <2>1, <2>5, <2>6, <2>7 DEF LoginDeactivate, TypeInv, StoreOK, RefreshId
<1>2. CASE LoginInsert(r)
  <2>1. /\ req[r].new \in RefreshId /\ req[r].user \in Users /\ req[r].device \in Devices
        /\ req[r].iat \in Time /\ req[r].exp \in Expiry
    BY <1>0, <1>2 DEF LoginInsert, Call, CallOK, NeedsToken, NeedsDevice
  <2>2. CallsOK'
    BY <1>0, <1>2, EndCalls DEF LoginInsert
  <2>3. sessions' \subseteq Session
    <3> DEFINE q == req[r]
               s == [id |-> q.new, user |-> q.user, device |-> q.device, iat |-> q.iat,
                     ref |-> q.new, active |-> TRUE, exp |-> q.exp]
    <3>1. s \in Session
      BY <2>1 DEF Session
    <3>2. sessions' = sessions \cup {s}
      BY <1>2 DEF LoginInsert
    <3> HIDE DEF s
    <3> QED
      BY <1>0, <3>1, <3>2 DEF StoreOK
  <2>4. access' \subseteq [user : Users, device : Devices, iat : Time]
    BY <1>0, <1>2, <2>1 DEF LoginInsert, StoreOK
  <2>5. refresh' \subseteq [id : RefreshId, user : Users, device : Devices, exp : Expiry]
    BY <1>0, <1>2, <2>1 DEF LoginInsert, StoreOK
  <2> QED
    BY <1>0, <1>2, <2>2, <2>3, <2>4, <2>5 DEF LoginInsert, TypeInv, StoreOK, hist
<1>3. CASE RefreshRotate(r)
  <2>1. /\ req[r].new \in RefreshId /\ req[r].ref \in RefreshId
        /\ req[r].user \in Users /\ req[r].device \in Devices
        /\ req[r].iat \in Time /\ req[r].exp \in Expiry
    BY <1>0, <1>3 DEF RefreshRotate, Call, CallOK, NeedsToken, NeedsDevice
  <2>2. CallsOK'
    BY <1>0, <1>3, EndCalls DEF RefreshRotate
  <2>3. sessions' \subseteq Session
    <3>1. PICK s \in sessions : sessions' = (sessions \ {s}) \cup {Rotated(s, req[r])}
      BY <1>3 DEF RefreshRotate
    <3>2. Rotated(s, req[r]) \in Session
      BY <1>0, <2>1, <3>1 DEF Rotated, StoreOK, Session
    <3> QED
      BY <1>0, <3>1, <3>2 DEF StoreOK
  <2>4. redeemed' \in [RefreshId -> Nat]
    BY <1>0, <1>3, <2>1 DEF RefreshRotate, StoreOK
  <2> QED
    BY <1>0, <1>3, <2>1, <2>2, <2>3, <2>4 DEF RefreshRotate, TypeInv, StoreOK
<1>4. CASE RefreshRefused(r)
  BY <1>0, <1>4, EndCalls DEF RefreshRefused, TypeInv, StoreOK, hist
<1>5. CASE CheckCached(r)
  <2>1. CallsOK'
    BY <1>0, <1>5, EndCalls, GotoCalls DEF CheckCached, PCs, NeedsToken, NeedsDevice
  <2> QED
    BY <1>0, <1>5, <2>1 DEF CheckCached, TypeInv, StoreOK, hist
<1>6. CASE FetchActive(r)
  <2>0. users[req[r].user] \in BOOLEAN
    BY <1>0, <1>6 DEF FetchActive, StoreOK, CallOK
  <2>1. PICK v \in {users[req[r].user], FALSE} :
          req' = [req EXCEPT ![r] = [req[r] EXCEPT !.pc = "vFill", !.val = v]]
    BY <1>6 DEF FetchActive
  <2>1a. v \in BOOLEAN
    BY <2>0, <2>1
  <2> DEFINE q == [req[r] EXCEPT !.pc = "vFill", !.val = v]
  <2>2. q \in Call
    BY <1>0, <2>1a DEF Call, PCs
  <2>3. CallOK(q)
    BY <1>0, <1>6 DEF FetchActive, Call, CallOK, NeedsToken, NeedsDevice
  <2>4. CallsOK'
    BY <1>0, <2>1, <2>2, <2>3, MoveCalls
  <2> QED
    BY <1>0, <1>6, <2>4 DEF FetchActive, TypeInv, StoreOK, hist
<1>7. CASE FillCache(r)
  <2>1. CallsOK'
    BY <1>0, <1>7, EndCalls, GotoCalls DEF FillCache, PCs, NeedsToken, NeedsDevice
  <2> QED
    BY <1>0, <1>7, <2>1 DEF FillCache, Stored, TypeInv, StoreOK, hist
<1>8. CASE CheckSession(r)
  <2>1. CallsOK'
    BY <1>0, <1>8, EndCalls, GotoCalls DEF CheckSession, PCs, NeedsToken, NeedsDevice
  <2> QED
    BY <1>0, <1>8, <2>1 DEF CheckSession, TypeInv, StoreOK, hist
<1>9. CASE Serve(r)
  BY <1>0, <1>9, EndCalls DEF Serve, TypeInv, StoreOK, hist
<1>10. CASE BeginLogout(r)
  <2>1. PICK d \in Devices :
          req' = [req EXCEPT ![r] = [req[r] EXCEPT !.pc = "outSessions", !.device = d]]
    BY <1>0, <1>10 DEF BeginLogout, CallOK, NeedsDevice
  <2> DEFINE q == [req[r] EXCEPT !.pc = "outSessions", !.device = d]
  <2>2. q \in Call
    BY <1>0 DEF Call, PCs
  <2>3. CallOK(q)
    BY <1>0, <1>10 DEF BeginLogout, Call, CallOK, NeedsToken
  <2>4. CallsOK'
    BY <1>0, <2>1, <2>2, <2>3, MoveCalls
  <2> QED
    BY <1>0, <1>10, <2>4 DEF BeginLogout, TypeInv, StoreOK, hist
<1>11. CASE LogoutSessions(r)
  <2>1. CallsOK'
    BY <1>0, <1>11, GotoCalls DEF LogoutSessions, PCs, NeedsToken, NeedsDevice
  <2>2. sessions' \subseteq Session
    BY <1>0, <1>11, DeactivateType DEF LogoutSessions, OfDevice, Of, StoreOK
  <2>3. dead' \subseteq RefreshId
    BY <1>0, <1>11 DEF LogoutSessions, OfDevice, Of, Ids, StoreOK, Session
  <2> QED
    BY <1>0, <1>11, <2>1, <2>2, <2>3 DEF LogoutSessions, TypeInv, StoreOK

<1>12. CASE LogoutRevoke(r)
  <2>1. Key(req[r]) \in [user : Users, iat : Time, exp : 0 .. MaxTime + AccessTTL]
    BY <1>0, <1>12, ConstAssumption DEF LogoutRevoke, Key, Call, CallOK, StoreOK, Time
  <2>2. [user |-> req[r].user, iat |-> req[r].iat] \in Token
    BY <1>0, <1>12 DEF LogoutRevoke, Call, CallOK, Token
  <2>3. CallsOK'
    BY <1>0, <1>12, EndCalls DEF LogoutRevoke
  <2> QED
    BY <1>0, <1>12, <2>1, <2>2, <2>3 DEF LogoutRevoke, TypeInv, StoreOK
<1>13. CASE BeginPassword(r) \/ BeginDelete(r)
  <2> DEFINE ids == Ids({s \in sessions : s.user = req[r].user})
  <2>1. PICK pc \in {"pwSessions", "endUser"} :
          req' = [req EXCEPT ![r] = [req[r] EXCEPT !.pc = pc, !.snap = ids]]
    BY <1>13 DEF BeginPassword, BeginDelete
  <2> DEFINE q == [req[r] EXCEPT !.pc = pc, !.snap = ids]
  <2>2. ids \in SUBSET RefreshId
    BY <1>0 DEF StoreOK, Session, Ids
  <2>3. q \in Call
    <3> HIDE DEF ids
    <3> QED
      BY <1>0, <2>1, <2>2 DEF Call, PCs
  <2>4. CallOK(q)
    BY <1>0, <1>13, <2>1 DEF BeginPassword, BeginDelete, Call, CallOK, NeedsToken, NeedsDevice
  <2>5. CallsOK'
    BY <1>0, <2>1, <2>3, <2>4, MoveCalls
  <2> QED
    BY <1>0, <1>13, <2>5 DEF BeginPassword, BeginDelete, TypeInv, StoreOK, hist
<1>14. CASE PasswordSessions(r) \/ EndSessions(r)
  <2>1. CallsOK'
    BY <1>0, <1>14, GotoCalls DEF PasswordSessions, EndSessions, PCs, NeedsToken, NeedsDevice
  <2>2. sessions' \subseteq Session
    BY <1>0, <1>14, DeactivateType DEF PasswordSessions, EndSessions, Of, StoreOK
  <2> QED
    BY <1>0, <1>14, <2>1, <2>2 DEF PasswordSessions, EndSessions, TypeInv, StoreOK, hist
<1>15. CASE PasswordCache(r)
  <2>1. CallsOK'
    BY <1>0, <1>15, GotoCalls DEF PasswordCache, PCs, NeedsToken, NeedsDevice
  <2> QED
    BY <1>0, <1>15, <2>1 DEF PasswordCache, Stored, TypeInv, StoreOK, hist
<1>16. CASE PasswordRevoke(r)
  <2>1. Key(req[r]) \in [user : Users, iat : Time, exp : 0 .. MaxTime + AccessTTL]
    BY <1>0, <1>16, ConstAssumption DEF PasswordRevoke, Key, Call, CallOK, StoreOK, Time
  <2>2. req[r].snap \subseteq RefreshId
    BY <1>0 DEF Call
  <2>3. CallsOK'
    BY <1>0, <1>16, EndCalls DEF PasswordRevoke
  <2> QED
    BY <1>0, <1>16, <2>1, <2>2, <2>3 DEF PasswordRevoke, Stored, TypeInv, StoreOK
<1>17. CASE EndUser(r)
  <2>1. CallsOK'
    BY <1>0, <1>17, GotoCalls DEF EndUser, PCs, NeedsToken, NeedsDevice
  <2> QED
    BY <1>0, <1>17, <2>1 DEF EndUser, TypeInv, StoreOK, hist
<1>18. CASE EndCache(r)
  <2>1. req[r].snap \subseteq RefreshId /\ req[r].user \in Users
    BY <1>0, <1>18 DEF EndCache, Call, CallOK
  <2>2. CallsOK'
    BY <1>0, <1>18, EndCalls DEF EndCache
  <2> QED
    BY <1>0, <1>18, <2>1, <2>2 DEF EndCache, Stored, TypeInv, StoreOK
<1> QED
  BY <1>1, <1>2, <1>3, <1>4, <1>5, <1>6, <1>7, <1>8, <1>9, <1>10, <1>11, <1>12,
     <1>13, <1>14, <1>15, <1>16, <1>17, <1>18 DEF Step

LEMMA EnvironmentType ==
  ASSUME TypeInv, Environment
  PROVE  TypeInv'
<1>1. ASSUME NEW u \in Users, Unban(u)
      PROVE  TypeInv'
  <2>1. ASSUME NEW r \in Requests
        PROVE  req'[r] \in Call /\ CallOK(req'[r])
    BY ZenonT(30), <1>1, <2>1 DEF Unban, TypeInv, CallsOK, Call, CallOK
  <2>2. CallsOK'
    BY <1>1, <2>1 DEF Unban, CallsOK
  <2> QED
    BY <1>1, <2>2 DEF Unban, TypeInv, StoreOK
<1>2. CASE Tick
  BY <1>2, ConstAssumption DEF Tick, TypeInv, StoreOK, CallsOK, Time, hist
<1>3. ASSUME NEW u \in Users, CacheExpire(u)
      PROVE  TypeInv'
  BY <1>3 DEF CacheExpire, TypeInv, StoreOK, CallsOK, hist
<1>4. CASE CleanupExpired
  BY <1>4 DEF CleanupExpired, TypeInv, StoreOK, CallsOK, hist
<1>5. ASSUME NEW r \in Requests, Abort(r)
      PROVE  TypeInv'
  BY <1>5, EndCalls DEF Abort, TypeInv, StoreOK, hist
<1> QED
  BY <1>1, <1>2, <1>3, <1>4, <1>5 DEF Environment

LEMMA NextType == TypeInv /\ [Next]_vars => TypeInv'
<1> SUFFICES ASSUME TypeInv, [Next]_vars
             PROVE  TypeInv'
  OBVIOUS
<1>1. CASE UNCHANGED vars
  BY <1>1 DEF vars, TypeInv, StoreOK, CallsOK, hist
<1> QED
  BY <1>1, BeginType, StepType, EnvironmentType DEF Next

LEMMA TypeInvariance == Spec => []TypeInv
BY TypeInit, NextType, PTL DEF Spec

\* Every reachable state is of the declared types.
THEOREM TypeCorrect == Spec => []TypeOK
BY TypeInvariance, TypeInvImpliesTypeOK, PTL

-----------------------------------------------------------------------------
(* A refresh token is redeemed once                                            *)

\* A handler that has minted a refresh token no session holds yet.
InFlight(r) == req[r].pc \in NeedsToken

\* Every session holds a token of its own that was never redeemed.
HeldOnce ==
  /\ \A s \in sessions : s.id <= minted /\ s.ref <= minted /\ redeemed[s.ref] = 0
  /\ \A s, t \in sessions : s.ref = t.ref \/ s.id = t.id => s = t

\* A token in flight is neither held nor redeemed, and nobody else's.
FreshInFlight ==
  /\ \A r \in Requests : InFlight(r) =>
       /\ req[r].new <= minted
       /\ redeemed[req[r].new] = 0
       /\ \A s \in sessions : s.ref # req[r].new /\ s.id # req[r].new
  /\ \A r, q \in Requests :
       InFlight(r) /\ InFlight(q) /\ req[r].new = req[q].new => r = q

UnmintedUnspent == \A x \in RefreshId : x > minted => redeemed[x] = 0

TokenInv == HeldOnce /\ FreshInFlight /\ UnmintedUnspent /\ RefreshOnce

LEMMA TokenInit == Init => TokenInv
BY IdleCall DEF Init, Idle, TokenInv, HeldOnce, FreshInFlight, InFlight, NeedsToken,
   UnmintedUnspent, RefreshOnce

\* What update_many leaves of each session.
LEMMA DeactivateFacts ==
  ASSUME sessions \subseteq Session, NEW S \in SUBSET sessions, NEW t \in Deactivate(S)
  PROVE  \E s \in sessions :
           /\ t.id = s.id /\ t.ref = s.ref /\ t.user = s.user
           /\ t.active => s.active
           /\ IF s \in S THEN t = [s EXCEPT !.active = FALSE] /\ ~t.active ELSE t = s
<1>1. CASE t \in sessions \ S
  BY <1>1
<1>2. CASE t \in {[s EXCEPT !.active = FALSE] : s \in S}
  <2>1. PICK s \in S : t = [s EXCEPT !.active = FALSE]
    BY <1>2
  <2>2. s \in Session
    OBVIOUS
  <2>3. t.id = s.id /\ t.ref = s.ref /\ t.user = s.user /\ t.active = FALSE
    BY <2>1, <2>2 DEF Session
  <2> QED
    BY <2>1, <2>3
<1> QED
  BY <1>1, <1>2 DEF Deactivate

LEMMA DeactivateNothing == Deactivate({}) = sessions
BY DEF Deactivate

\* Deactivating or removing sessions disturbs no token.
LEMMA HeldStep ==
  ASSUME TypeInv, HeldOnce, minted' \in Nat, minted' >= minted, redeemed' = redeemed,
         NEW S \in SUBSET sessions, sessions' \subseteq Deactivate(S)
  PROVE  HeldOnce'
<1>0. sessions \subseteq Session /\ minted \in Nat
  BY DEF TypeInv, StoreOK
<1>1. ASSUME NEW t \in sessions'
      PROVE  t.id <= minted' /\ t.ref <= minted' /\ redeemed'[t.ref] = 0
  <2>1. PICK s \in sessions : t.id = s.id /\ t.ref = s.ref
    BY <1>0, <1>1, DeactivateFacts
  <2>2. s.id \in Nat /\ s.ref \in Nat
    BY <1>0 DEF Session, RefreshId
  <2> QED
    BY <1>0, <2>1, <2>2 DEF HeldOnce
<1>2. ASSUME NEW t \in sessions', NEW v \in sessions', t.ref = v.ref \/ t.id = v.id
      PROVE  t = v
  <2>1. PICK s \in sessions : t.id = s.id /\ t.ref = s.ref
              /\ IF s \in S THEN t = [s EXCEPT !.active = FALSE] ELSE t = s
    BY <1>0, DeactivateFacts
  <2>2. PICK w \in sessions : v.id = w.id /\ v.ref = w.ref
              /\ IF w \in S THEN v = [w EXCEPT !.active = FALSE] ELSE v = w
    BY <1>0, DeactivateFacts
  <2>3. s = w
    BY <1>2, <2>1, <2>2 DEF HeldOnce
  <2>4. CASE s \in S
    BY <2>1, <2>2, <2>3, <2>4
  <2>5. CASE s \notin S
    BY <2>1, <2>2, <2>3, <2>5
  <2> QED
    BY <2>4, <2>5
<1> QED
  BY <1>1, <1>2 DEF HeldOnce

\* A step that mints no token, redeems none and stores no session.
LEMMA QuietTokens ==
  ASSUME TypeInv, TokenInv, minted' = minted, redeemed' = redeemed,
         NEW S \in SUBSET sessions, sessions' \subseteq Deactivate(S),
         \A r \in Requests : req'[r].pc \in NeedsToken =>
           InFlight(r) /\ req'[r].new = req[r].new
  PROVE  TokenInv'
<1>0. sessions \subseteq Session /\ minted \in Nat
  BY DEF TypeInv, StoreOK
<1>1. HeldOnce'
  BY <1>0, HeldStep DEF TokenInv
<1>2. \A t \in sessions' : \E s \in sessions : t.id = s.id /\ t.ref = s.ref
  BY <1>0, DeactivateFacts
<1>3. FreshInFlight'
  BY <1>2 DEF TokenInv, FreshInFlight, InFlight
<1>4. UnmintedUnspent' /\ RefreshOnce'
  BY DEF TokenInv, UnmintedUnspent, RefreshOnce
<1> QED
  BY <1>1, <1>3, <1>4 DEF TokenInv

\* A step of handler r that mints one token.
LEMMA MintTokens ==
  ASSUME TypeInv, TokenInv, NEW r \in Requests,
         minted < MaxRefresh, minted' = minted + 1, redeemed' = redeemed,
         NEW S \in SUBSET sessions, sessions' \subseteq Deactivate(S),
         req'[r].new = minted', \A q \in Requests \ {r} : req'[q] = req[q]
  PROVE  TokenInv'
<1>0. sessions \subseteq Session /\ minted \in Nat
  BY DEF TypeInv, StoreOK
<1>1. HeldOnce'
  BY <1>0, HeldStep DEF TokenInv
<1>2. minted' \in RefreshId /\ redeemed'[minted'] = 0
  BY <1>0, ConstAssumption DEF TokenInv, UnmintedUnspent, RefreshId
<1>3. ASSUME NEW t \in sessions'
      PROVE  t.id <= minted /\ t.ref <= minted /\ t.id \in Nat /\ t.ref \in Nat
  <2>1. PICK s \in sessions : t.id = s.id /\ t.ref = s.ref
    BY <1>0, <1>3, DeactivateFacts
  <2> QED
    BY <1>0, <2>1 DEF TokenInv, HeldOnce, Session, RefreshId
<1>4. ASSUME NEW q \in Requests, q # r, InFlight(q)
      PROVE  /\ req'[q].new = req[q].new /\ req[q].new \in Nat /\ req[q].new <= minted
             /\ redeemed[req[q].new] = 0
             /\ \A t \in sessions' : t.ref # req[q].new /\ t.id # req[q].new
  <2>1. req[q].new \in Nat
    BY <1>4 DEF TypeInv, CallsOK, CallOK, InFlight, RefreshId
  <2>2. \A t \in sessions' : \E s \in sessions : t.id = s.id /\ t.ref = s.ref
    BY <1>0, DeactivateFacts
  <2> QED
    BY <1>4, <2>1, <2>2 DEF TokenInv, FreshInFlight
<1>5. FreshInFlight'
  <2>1. ASSUME NEW q \in Requests, InFlight(q)'
        PROVE  /\ req'[q].new <= minted' /\ redeemed'[req'[q].new] = 0
               /\ \A t \in sessions' : t.ref # req'[q].new /\ t.id # req'[q].new
    <3>1. CASE q = r
      BY <1>0, <1>2, <1>3, <3>1
    <3>2. CASE q # r
      BY <1>0, <1>4, <2>1, <3>2 DEF InFlight
    <3> QED
      BY <3>1, <3>2
  <2>2. ASSUME NEW q \in Requests, NEW p \in Requests, InFlight(q)', InFlight(p)',
               req'[q].new = req'[p].new, q # p
        PROVE  FALSE
    <3>1. CASE q # r /\ p # r
      BY <2>2, <3>1 DEF TokenInv, FreshInFlight, InFlight
    <3>2. CASE q = r
      BY <1>0, <1>4, <2>2, <3>2 DEF InFlight
    <3>3. CASE p = r
      BY <1>0, <1>4, <2>2, <3>3 DEF InFlight
    <3> QED
      BY <3>1, <3>2, <3>3
  <2> QED
    BY <2>1, <2>2 DEF FreshInFlight
<1>6. UnmintedUnspent' /\ RefreshOnce'
  BY <1>0 DEF TokenInv, UnmintedUnspent, RefreshOnce, RefreshId
<1> QED
  BY <1>1, <1>5, <1>6 DEF TokenInv

LEMMA InsertTokens ==
  ASSUME TypeInv, TokenInv, NEW r \in Requests, LoginInsert(r)
  PROVE  TokenInv'
<1> DEFINE q == req[r]
           n == [id |-> q.new, user |-> q.user, device |-> q.device, iat |-> q.iat,
                 ref |-> q.new, active |-> TRUE, exp |-> q.exp]
<1>0. /\ sessions' = sessions \cup {n} /\ n.id = q.new /\ n.ref = q.new
      /\ minted' = minted /\ redeemed' = redeemed
  BY DEF LoginInsert, hist
<1>1. InFlight(r) /\ q.new <= minted /\ redeemed[q.new] = 0
      /\ \A s \in sessions : s.ref # q.new /\ s.id # q.new
  BY DEF LoginInsert, At, InFlight, NeedsToken, TokenInv, FreshInFlight
<1> HIDE DEF n
<1>2. HeldOnce'
  BY <1>0, <1>1 DEF TokenInv, HeldOnce
<1>3. \A p \in Requests : InFlight(p)' => p # r /\ InFlight(p) /\ req'[p] = req[p]
  BY IdleCall DEF LoginInsert, End, InFlight, TypeInv, CallsOK, Idle, NeedsToken
<1>4. FreshInFlight'
  <2>1. ASSUME NEW p \in Requests, InFlight(p)'
        PROVE  q.new # req[p].new
    BY <1>1, <1>3, <2>1 DEF TokenInv, FreshInFlight
  <2> QED
    BY <1>0, <1>3, <2>1 DEF TokenInv, FreshInFlight
<1> QED
  BY <1>0, <1>2, <1>4 DEF TokenInv, UnmintedUnspent, RefreshOnce

LEMMA RotateTokens ==
  ASSUME TypeInv, TokenInv, NEW r \in Requests, RefreshRotate(r)
  PROVE  TokenInv'
<1> DEFINE q == req[r]
<1>1. PICK s \in sessions : Matches(s, q) /\ sessions' = (sessions \ {s}) \cup {Rotated(s, q)}
  BY DEF RefreshRotate
<1> DEFINE n == Rotated(s, q)
<1>2. /\ q.new \in RefreshId /\ q.ref \in RefreshId /\ s \in Session /\ sessions \subseteq Session
      /\ minted \in Nat
  BY DEF RefreshRotate, At, TypeInv, StoreOK, CallsOK, CallOK, NeedsToken
<1>3. n.id = s.id /\ n.ref = q.new
  BY <1>2 DEF Rotated, Session
<1> HIDE DEF n
<1>4. /\ s.ref = q.ref /\ minted' = minted
      /\ sessions' = (sessions \ {s}) \cup {n}
  BY <1>1 DEF Matches, RefreshRotate, n
<1>5. /\ redeemed' = [redeemed EXCEPT ![s.ref] = @ + 1] /\ redeemed \in [RefreshId -> Nat]
  BY <1>4 DEF RefreshRotate, TypeInv, StoreOK
<1>6. /\ InFlight(r) /\ q.new <= minted /\ redeemed[q.new] = 0
      /\ \A t \in sessions : t.ref # q.new /\ t.id # q.new
  BY DEF RefreshRotate, At, InFlight, NeedsToken, TokenInv, FreshInFlight
<1>7. redeemed[s.ref] = 0 /\ s.id <= minted /\ s.ref <= minted
  BY <1>1 DEF TokenInv, HeldOnce
<1>8. \A x \in RefreshId : x # s.ref => redeemed'[x] = redeemed[x]
  BY <1>5
<1>9. HeldOnce'
  <2>1. ASSUME NEW t \in sessions'
        PROVE  t.id <= minted' /\ t.ref <= minted' /\ redeemed'[t.ref] = 0
    <3>1. CASE t = n
      BY <1>2, <1>3, <1>4, <1>6, <1>7, <1>8, <3>1
    <3>2. CASE t \in sessions /\ t # s
      <4>1. t.ref # s.ref /\ t.ref \in RefreshId
        BY <1>1, <1>2, <3>2 DEF TokenInv, HeldOnce, Session
      <4> QED
        BY <1>4, <1>8, <3>2, <4>1 DEF TokenInv, HeldOnce
    <3> QED
      BY <1>4, <3>1, <3>2
  <2>2. ASSUME NEW t \in sessions', NEW v \in sessions', t.ref = v.ref \/ t.id = v.id
        PROVE  t = v
    BY <1>1, <1>3, <1>4, <1>6, <2>2 DEF TokenInv, HeldOnce
  <2> QED
    BY <2>1, <2>2 DEF HeldOnce
<1>10. \A p \in Requests : InFlight(p)' => p # r /\ InFlight(p) /\ req'[p] = req[p]
  BY IdleCall DEF RefreshRotate, End, InFlight, TypeInv, CallsOK, Idle, NeedsToken
<1>11. FreshInFlight'
  <2>1. ASSUME NEW p \in Requests, InFlight(p)'
        PROVE  /\ req'[p].new <= minted' /\ redeemed'[req'[p].new] = 0
               /\ \A t \in sessions' : t.ref # req'[p].new /\ t.id # req'[p].new
    <3>1. p # r /\ InFlight(p) /\ req'[p] = req[p] /\ req[p].new \in RefreshId
      BY <1>10, <2>1 DEF TypeInv, CallsOK, CallOK, InFlight
    <3>2. /\ req[p].new <= minted /\ redeemed[req[p].new] = 0 /\ req[p].new # q.new
          /\ \A t \in sessions : t.ref # req[p].new /\ t.id # req[p].new
      BY <1>6, <3>1 DEF TokenInv, FreshInFlight
    <3> QED
      BY <1>1, <1>3, <1>4, <1>8, <3>1, <3>2
  <2> QED
    BY <1>10, <2>1 DEF TokenInv, FreshInFlight
<1>12. UnmintedUnspent'
  BY <1>2, <1>4, <1>7, <1>8 DEF TokenInv, UnmintedUnspent, RefreshId
<1>13. RefreshOnce'
  BY <1>2, <1>5, <1>7, <1>8 DEF TokenInv, RefreshOnce
<1> QED
  BY <1>9, <1>11, <1>12, <1>13 DEF TokenInv

\* The handlers that neither mint, store nor rotate a token.
Others(r) ==
  \/ RefreshRefused(r)
  \/ CheckCached(r) \/ FetchActive(r) \/ FillCache(r) \/ CheckSession(r) \/ Serve(r)
  \/ BeginLogout(r) \/ LogoutSessions(r) \/ LogoutRevoke(r)
  \/ BeginPassword(r) \/ PasswordSessions(r) \/ PasswordCache(r) \/ PasswordRevoke(r)
  \/ BeginDelete(r) \/ EndUser(r) \/ EndSessions(r) \/ EndCache(r)

LEMMA OthersFacts ==
  ASSUME TypeInv, NEW r \in Requests, Others(r)
  PROVE  /\ minted' = minted /\ redeemed' = redeemed /\ refresh' = refresh
         /\ \A q \in Requests : req'[q].pc \in NeedsToken => q # r /\ req'[q] = req[q]
         /\ \E S \in SUBSET sessions : sessions' \subseteq Deactivate(S)
<1>0. req \in [Requests -> Call] /\ req[r] \in Call
  BY DEF TypeInv, CallsOK
<1>1. minted' = minted /\ redeemed' = redeemed /\ refresh' = refresh
  BY DEF Others, RefreshRefused, CheckCached, FetchActive, FillCache, CheckSession, Serve,
     BeginLogout, LogoutSessions, LogoutRevoke, BeginPassword, PasswordSessions,
     PasswordCache, PasswordRevoke, BeginDelete, EndUser, EndSessions, EndCache, hist
<1>2. ASSUME NEW pc \in PCs \ NeedsToken, Goto(r, pc)
      PROVE  \A q \in Requests : req'[q].pc \in NeedsToken => q # r /\ req'[q] = req[q]
  BY <1>0, <1>2 DEF Goto, Call
<1>3. ASSUME End(r)
      PROVE  \A q \in Requests : req'[q].pc \in NeedsToken => q # r /\ req'[q] = req[q]
  BY <1>0, <1>3, IdleCall DEF End, Idle, NeedsToken
<1>4. \A q \in Requests : req'[q].pc \in NeedsToken => q # r /\ req'[q] = req[q]
  <2>1. CASE RefreshRefused(r) \/ CheckCached(r) \/ FillCache(r) \/ CheckSession(r) \/ Serve(r)
    BY <1>2, <1>3, <2>1 DEF RefreshRefused, CheckCached, FillCache, CheckSession, Serve,
       PCs, NeedsToken
  <2>2. CASE \/ LogoutSessions(r) \/ LogoutRevoke(r) \/ PasswordSessions(r)
             \/ PasswordCache(r) \/ PasswordRevoke(r) \/ EndUser(r) \/ EndSessions(r)
             \/ EndCache(r)
    BY <1>2, <1>3, <2>2 DEF LogoutSessions, LogoutRevoke, PasswordSessions, PasswordCache,
       PasswordRevoke, EndUser, EndSessions, EndCache, PCs, NeedsToken
  <2>3. CASE FetchActive(r)
    BY <1>0, <2>3 DEF FetchActive, Call, NeedsToken
  <2>4. CASE BeginLogout(r) \/ BeginPassword(r) \/ BeginDelete(r)
    <3>1. \A q \in Requests \ {r} : req'[q] = req[q]
      BY <1>0, <2>4 DEF BeginLogout, BeginPassword, BeginDelete
    <3>2. req'[r].pc \in {"outSessions", "pwSessions", "endUser"}
      <4> DEFINE ids == Ids({s \in sessions : s.user = req[r].user})
      <4>1. CASE BeginLogout(r)
        BY <1>0, <4>1 DEF BeginLogout, Call
      <4>2. CASE BeginPassword(r) \/ BeginDelete(r)
        <5>1. \E pc \in {"pwSessions", "endUser"} :
                req' = [req EXCEPT ![r] = [req[r] EXCEPT !.pc = pc, !.snap = ids]]
          BY <4>2 DEF BeginPassword, BeginDelete
        <5> HIDE DEF ids
        <5> QED
          BY <1>0, <5>1 DEF Call
      <4> QED
        BY <2>4, <4>1, <4>2
    <3> QED
      BY <3>1, <3>2 DEF NeedsToken
  <2> QED
    BY <2>1, <2>2, <2>3, <2>4 DEF Others
<1>5. \E S \in SUBSET sessions : sessions' \subseteq Deactivate(S)
  <2>1. CASE LogoutSessions(r)
    BY <2>1 DEF LogoutSessions, OfDevice, Of
  <2>2. CASE PasswordSessions(r) \/ EndSessions(r)
    BY <2>2 DEF PasswordSessions, EndSessions, Of
  <2>3. CASE ~(LogoutSessions(r) \/ PasswordSessions(r) \/ EndSessions(r))
    <3>1. sessions' = sessions
      BY <2>3 DEF Others, RefreshRefused, CheckCached, FetchActive, FillCache, CheckSession,
         Serve, BeginLogout, LogoutRevoke, BeginPassword, PasswordCache, PasswordRevoke,
         BeginDelete, EndUser, EndCache
    <3> QED
      BY <3>1, DeactivateNothing
  <2> QED
    BY <2>1, <2>2, <2>3
<1> QED
  BY <1>1, <1>4, <1>5

LEMMA OthersTokens ==
  ASSUME TypeInv, TokenInv, NEW r \in Requests, Others(r)
  PROVE  TokenInv'
BY OthersFacts, QuietTokens DEF InFlight

\* Only a refresh mints its token at once.
LEMMA BeginFacts ==
  ASSUME TypeInv, NEW r \in Requests, Begin(r)
  PROVE  /\ sessions' = sessions /\ redeemed' = redeemed /\ refresh' = refresh
         /\ dead' = dead
         /\ \A q \in Requests \ {r} : req'[q] = req[q]
         /\ \/ /\ minted < MaxRefresh /\ minted' = minted + 1
               /\ req'[r].new = minted' /\ req'[r].snap = {}
            \/ /\ minted' = minted
               /\ \/ req'[r].pc \in {"loginDeactivate", "vCache"} /\ req'[r].snap = {}
                  \/ /\ req'[r].pc = "endUser"
                     /\ req'[r].snap = Ids({s \in sessions : s.user = req'[r].user})
<1>0. req \in [Requests -> Call]
  BY DEF TypeInv, CallsOK
<1>1. /\ sessions' = sessions /\ redeemed' = redeemed /\ refresh' = refresh /\ dead' = dead
      /\ \A q \in Requests \ {r} : req'[q] = req[q]
  BY <1>0 DEF Begin, BeginLogin, BeginAdminLogin, BeginRefresh, BeginRequest, BeginBan, hist
<1>2. ASSUME NEW t \in refresh, BeginRefresh(r, t)
      PROVE  /\ minted < MaxRefresh /\ minted' = minted + 1
             /\ req'[r].new = minted' /\ req'[r].snap = {}
  BY <1>0, <1>2 DEF BeginRefresh, Idle
<1>3. ASSUME NEW u \in Users, NEW d \in Devices, BeginLogin(r, u, d) \/ BeginAdminLogin(r, u, d)
      PROVE  minted' = minted /\ req'[r].pc = "loginDeactivate" /\ req'[r].snap = {}
  <2>1. PICK op \in {"login", "adminLogin"} :
          req' = [req EXCEPT ![r] = [Idle EXCEPT
            !.pc = "loginDeactivate", !.op = op, !.user = u, !.device = d]]
    BY <1>3 DEF BeginLogin, BeginAdminLogin
  <2> QED
    BY <1>0, <1>3, <2>1 DEF BeginLogin, BeginAdminLogin, Idle
<1>4. ASSUME NEW t \in access, NEW op \in Ops, BeginRequest(r, t, op)
      PROVE  minted' = minted /\ req'[r].pc = "vCache" /\ req'[r].snap = {}
  <2>1. PICK late \in BOOLEAN, out \in BOOLEAN : req' = [req EXCEPT ![r] = [Idle EXCEPT
          !.pc = "vCache", !.op = op, !.user = t.user, !.device = t.device,
          !.iat = t.iat, !.late = late, !.out = out]]
    <3> DEFINE late == t.user \in barred
    <3>1. late \in BOOLEAN
      OBVIOUS
    <3>2. \E out \in BOOLEAN : req' = [req EXCEPT ![r] = [Idle EXCEPT
            !.pc = "vCache", !.op = op, !.user = t.user, !.device = t.device,
            !.iat = t.iat, !.late = late, !.out = out]]
      BY <1>4 DEF BeginRequest
    <3> HIDE DEF late
    <3> QED
      BY <3>1, <3>2
  <2>2. minted' = minted
    BY <1>4 DEF BeginRequest
  <2> QED
    BY <1>0, <2>1, <2>2 DEF Idle
<1>5. ASSUME NEW u \in Users, BeginBan(r, u)
      PROVE  /\ minted' = minted /\ req'[r].pc = "endUser"
             /\ req'[r].snap = Ids({s \in sessions : s.user = req'[r].user})
  BY <1>0, <1>5 DEF BeginBan, Idle
<1> QED
  BY <1>1, <1>2, <1>3, <1>4, <1>5 DEF Begin

LEMMA BeginTokens ==
  ASSUME TypeInv, TokenInv, NEW r \in Requests, Begin(r)
  PROVE  TokenInv'
<1>1. sessions' \subseteq Deactivate({}) /\ redeemed' = redeemed
      /\ \A q \in Requests \ {r} : req'[q] = req[q]
  BY BeginFacts, DeactivateNothing
<1>2. CASE minted < MaxRefresh /\ minted' = minted + 1 /\ req'[r].new = minted'
  BY <1>1, <1>2, MintTokens
<1>3. CASE minted' = minted /\ req'[r].pc \in {"loginDeactivate", "vCache", "endUser"}
  BY <1>1, <1>3, QuietTokens DEF InFlight, NeedsToken
<1> QED
  BY <1>2, <1>3, BeginFacts

LEMMA EnvironmentFacts ==
  ASSUME TypeInv, Environment
  PROVE  /\ minted' = minted /\ redeemed' = redeemed /\ refresh' = refresh
         /\ sessions' \subseteq Deactivate({})
         /\ \A q \in Requests : req'[q].pc \in NeedsToken =>
              InFlight(q) /\ req'[q].new = req[q].new
<1>0. req \in [Requests -> Call]
  BY DEF TypeInv, CallsOK
<1>1. minted' = minted /\ redeemed' = redeemed /\ refresh' = refresh
      /\ sessions' \subseteq Deactivate({})
  BY DeactivateNothing DEF Environment, Unban, Tick, CacheExpire, CleanupExpired, Abort, hist
<1>2. ASSUME NEW q \in Requests, req'[q].pc \in NeedsToken
      PROVE  req[q].pc \in NeedsToken /\ req'[q].new = req[q].new
  <2>1. ASSUME NEW r \in Requests, Abort(r)
        PROVE  req'[q] = req[q]
    BY <1>0, <1>2, <2>1, IdleCall DEF Abort, End, Idle, NeedsToken
  <2>2. ASSUME NEW u \in Users, Unban(u)
        PROVE  req'[q].pc = req[q].pc /\ req'[q].new = req[q].new
    BY <1>0, <2>2 DEF Unban, Call
  <2>3. CASE req' = req
    BY <1>2, <2>3
  <2> QED
    BY <1>2, <2>1, <2>2, <2>3 DEF Environment, Tick, CacheExpire, CleanupExpired
<1> QED
  BY <1>1, <1>2 DEF InFlight

LEMMA EnvironmentTokens ==
  ASSUME TypeInv, TokenInv, Environment
  PROVE  TokenInv'
BY EnvironmentFacts, QuietTokens DEF InFlight

LEMMA TokenNext == TypeInv /\ TokenInv /\ [Next]_vars => TokenInv'
<1> SUFFICES ASSUME TypeInv, TokenInv, [Next]_vars
             PROVE  TokenInv'
  OBVIOUS
<1>1. ASSUME NEW r \in Requests, LoginDeactivate(r)
      PROVE  TokenInv'
  <2>1. /\ minted < MaxRefresh /\ minted' = minted + 1 /\ redeemed' = redeemed
        /\ sessions' = Deactivate(OfDevice(req[r].user, req[r].device))
        /\ req'[r].new = minted' /\ \A q \in Requests \ {r} : req'[q] = req[q]
    BY <1>1 DEF LoginDeactivate, TypeInv, CallsOK, Call
  <2>2. OfDevice(req[r].user, req[r].device) \in SUBSET sessions
    BY DEF OfDevice, Of
  <2> QED
    BY <2>1, <2>2, MintTokens
<1>2. ASSUME NEW r \in Requests, Step(r)
      PROVE  TokenInv'
  BY <1>1, <1>2, InsertTokens, RotateTokens, OthersTokens DEF Step, Others
<1>3. CASE UNCHANGED vars
  BY <1>3 DEF vars, TokenInv, HeldOnce, FreshInFlight, InFlight, UnmintedUnspent, RefreshOnce
<1> QED
  BY <1>2, <1>3, BeginTokens, EnvironmentTokens DEF Next

LEMMA TokenInvariance == Spec => []TokenInv
<1>1. Init /\ [][Next]_vars => [](TypeInv /\ TokenInv)
  BY TypeInit, TokenInit, NextType, TokenNext, PTL
<1> QED
  BY <1>1, PTL DEF Spec

\* Whatever clients and workers do, no refresh token is redeemed twice.
THEOREM RedeemedOnce == Spec => []RefreshOnce
<1>1. TokenInv => RefreshOnce
  BY DEF TokenInv
<1> QED
  BY <1>1, TokenInvariance, PTL

-----------------------------------------------------------------------------
(* A killed session stays dead                                                 *)

\* No dead id, and no id a handler is about to kill, can appear again.
DeadMinted ==
  /\ \A x \in dead : x <= minted
  /\ \A r \in Requests : \A x \in req[r].snap : x <= minted
  /\ \A r \in Requests : InFlight(r) =>
       /\ req[r].new \notin dead
       /\ \A q \in Requests : req[r].new \notin req[q].snap

\* Before its update_many a handler only knows whose sessions it will kill;
\* after it they are inactive.
Condemned == {"pwSessions", "endUser", "endSessions"}
Executed == {"pwCache", "pwRevoke", "endCache"}
SnapInv ==
  \A r \in Requests : \A s \in sessions : s.id \in req[r].snap =>
    /\ req[r].pc \in Condemned => s.user = req[r].user
    /\ req[r].pc \in Executed => ~s.active

DeadInv == DeadMinted /\ SnapInv /\ KilledStayDead

LEMMA DeadInit == Init => DeadInv
BY IdleCall DEF Init, Idle, DeadInv, DeadMinted, SnapInv, KilledStayDead, InFlight, NeedsToken

\* How one step may change what a handler is about to kill when it deactivates S.
SnapStep(q, S) ==
  \/ req'[q].snap = {}
  \/ /\ req'[q].pc \in Condemned
     /\ req'[q].snap = Ids({s \in sessions : s.user = req'[q].user})
  \/ /\ req'[q].snap = req[q].snap /\ req'[q].user = req[q].user
     /\ req'[q].pc \in Condemned => req[q].pc \in Condemned
     /\ req'[q].pc \in Executed =>
          \/ req[q].pc \in Executed
          \/ req[q].pc \in Condemned /\ S = Of(req[q].user)

LEMMA KillStep ==
  ASSUME TypeInv, TokenInv, DeadInv, minted' \in Nat, minted' >= minted,
         NEW S \in SUBSET sessions, sessions' \subseteq Deactivate(S),
         \A x \in dead' : \/ x \in dead \cup Ids(S)
                          \/ \E r \in Requests : req[r].pc \in Executed /\ x \in req[r].snap,
         \A r \in Requests : req'[r].pc \in NeedsToken =>
           \/ req'[r].new = minted + 1
           \/ InFlight(r) /\ req'[r].new = req[r].new,
         \A r \in Requests : SnapStep(r, S)
  PROVE  DeadInv'
<1>0. sessions \subseteq Session /\ minted \in Nat /\ dead \subseteq Nat
      /\ \A r \in Requests : req[r].snap \subseteq Nat
  BY DEF TypeInv, StoreOK, CallsOK, Call, RefreshId
<1>1. ASSUME NEW t \in sessions'
      PROVE  \E s \in sessions :
               /\ t.id = s.id /\ t.user = s.user
               /\ t.active => s.active
               /\ s \in S => ~t.active
  BY <1>0, DeactivateFacts
<1>2. \A s, t \in sessions : s.id = t.id => s = t
  BY DEF TokenInv, HeldOnce
<1>3. ASSUME NEW x \in Ids(sessions)
      PROVE  /\ x \in Nat /\ x <= minted
             /\ \A r \in Requests : InFlight(r) => req[r].new # x
  BY <1>0 DEF Ids, Session, RefreshId, TokenInv, HeldOnce, FreshInFlight
<1>4. ASSUME NEW r \in Requests, NEW x \in req'[r].snap
      PROVE  x \in Ids(sessions) \/ x \in req[r].snap
  BY <1>4 DEF SnapStep, Ids
<1>5. ASSUME NEW x \in dead'
      PROVE  \/ x \in dead \/ x \in Ids(sessions)
             \/ \E r \in Requests : req[r].pc \in Executed /\ x \in req[r].snap
  BY DEF Ids
<1>6. DeadMinted'
  <2>0. ASSUME NEW x \in dead'
        PROVE  x \in Nat /\ x <= minted
    <3>1. CASE x \in dead
      BY <1>0, <3>1 DEF DeadInv, DeadMinted
    <3>2. CASE x \in Ids(sessions)
      BY <1>3, <3>2
    <3>3. CASE \E r \in Requests : req[r].pc \in Executed /\ x \in req[r].snap
      BY <1>0, <3>3 DEF DeadInv, DeadMinted
    <3> QED
      BY <1>5, <3>1, <3>2, <3>3
  <2>1. \A x \in dead' : x \in Nat /\ x <= minted /\ x <= minted'
    BY <1>0, <2>0
  <2>2. \A r \in Requests : \A x \in req'[r].snap : x \in Nat /\ x <= minted /\ x <= minted'
    BY <1>0, <1>3, <1>4 DEF DeadInv, DeadMinted
  <2>3. ASSUME NEW r \in Requests, InFlight(r)'
        PROVE  req'[r].new \notin dead' /\ \A q \in Requests : req'[r].new \notin req'[q].snap
    <3>1. CASE req'[r].new = minted + 1
      BY <1>0, <2>1, <2>2, <3>1
    <3>2. CASE InFlight(r) /\ req'[r].new = req[r].new
      BY <1>3, <1>4, <1>5, <3>2 DEF DeadInv, DeadMinted
    <3> QED
      BY <2>3, <3>1, <3>2 DEF InFlight
  <2> QED
    BY <2>1, <2>2, <2>3 DEF DeadMinted
<1>7. KilledStayDead'
  <2> SUFFICES ASSUME NEW t \in sessions', t.id \in dead'
               PROVE  ~t.active
    BY DEF KilledStayDead
  <2>1. PICK s \in sessions : /\ t.id = s.id
                              /\ t.active => s.active
                              /\ s \in S => ~t.active
    BY <1>1
  <2>2. CASE t.id \in dead
    BY <2>1, <2>2 DEF DeadInv, KilledStayDead
  <2>3. CASE t.id \in Ids(S)
    BY <1>2, <2>1, <2>3 DEF Ids
  <2>4. CASE \E r \in Requests : req[r].pc \in Executed /\ t.id \in req[r].snap
    BY <2>1, <2>4 DEF DeadInv, SnapInv
  <2> QED
    BY <2>2, <2>3, <2>4
<1>8. SnapInv'
  <2> SUFFICES ASSUME NEW r \in Requests, NEW t \in sessions', t.id \in req'[r].snap
               PROVE  /\ req'[r].pc \in Condemned => t.user = req'[r].user
                      /\ req'[r].pc \in Executed => ~t.active
    BY DEF SnapInv
  <2>1. PICK s \in sessions : /\ t.id = s.id /\ t.user = s.user
                              /\ t.active => s.active
                              /\ s \in S => ~t.active
    BY <1>1
  <2>2. CASE /\ req'[r].pc \in Condemned
             /\ req'[r].snap = Ids({w \in sessions : w.user = req'[r].user})
    BY <1>2, <2>1, <2>2 DEF Ids, Condemned, Executed
  <2>3. CASE /\ req'[r].snap = req[r].snap /\ req'[r].user = req[r].user
             /\ req'[r].pc \in Condemned => req[r].pc \in Condemned
             /\ req'[r].pc \in Executed =>
                  \/ req[r].pc \in Executed
                  \/ req[r].pc \in Condemned /\ S = Of(req[r].user)
    <3>1. /\ req[r].pc \in Condemned => s.user = req[r].user
          /\ req[r].pc \in Executed => ~s.active
      BY <2>1, <2>3 DEF DeadInv, SnapInv
    <3>2. (s.user = req[r].user /\ s.active) => s \in Of(req[r].user)
      BY DEF Of
    <3> QED
      BY <2>1, <2>3, <3>1, <3>2
  <2> QED
    BY <2>2, <2>3 DEF SnapStep
<1> QED
  BY <1>6, <1>7, <1>8 DEF DeadInv

\* A step of handler r that lets the others stand.
LEMMA OneSnap ==
  ASSUME TypeInv, NEW r \in Requests, NEW S \in SUBSET sessions, SnapStep(r, S),
         \A q \in Requests \ {r} : req'[q] = req[q]
  PROVE  \A q \in Requests : SnapStep(q, S)
BY DEF SnapStep

LEMMA GotoFacts ==
  ASSUME TypeInv, NEW r \in Requests, NEW pc, Goto(r, pc)
  PROVE  /\ req'[r].pc = pc /\ req'[r].snap = req[r].snap /\ req'[r].user = req[r].user
         /\ \A q \in Requests \ {r} : req'[q] = req[q]
BY DEF Goto, TypeInv, CallsOK, Call

LEMMA EndFacts ==
  ASSUME TypeInv, NEW r \in Requests, End(r)
  PROVE  /\ req'[r].pc = "idle" /\ req'[r].snap = {}
         /\ \A q \in Requests \ {r} : req'[q] = req[q]
BY DEF End, TypeInv, CallsOK, Idle

\* A step of handler r that mints nothing and ends outside a token's flight.
LEMMA KillByOne ==
  ASSUME TypeInv, TokenInv, DeadInv, NEW r \in Requests, minted' = minted,
         NEW S \in SUBSET sessions, sessions' \subseteq Deactivate(S),
         dead' \subseteq dead \cup Ids(S) \/ (req[r].pc \in Executed /\ dead' = dead \cup req[r].snap),
         req'[r].pc \notin NeedsToken, SnapStep(r, S),
         \A q \in Requests \ {r} : req'[q] = req[q]
  PROVE  DeadInv'
<1>1. minted' \in Nat /\ minted' >= minted
  BY DEF TypeInv, StoreOK
<1>2. \A q \in Requests : SnapStep(q, S)
  BY OneSnap
<1>3. \A x \in dead' : \/ x \in dead \cup Ids(S)
                       \/ \E q \in Requests : req[q].pc \in Executed /\ x \in req[q].snap
  OBVIOUS
<1>4. \A q \in Requests : req'[q].pc \in NeedsToken => InFlight(q) /\ req'[q].new = req[q].new
  BY DEF InFlight
<1> QED
  BY <1>1, <1>2, <1>3, <1>4, KillStep

LEMMA OthersDead ==
  ASSUME TypeInv, TokenInv, DeadInv, NEW r \in Requests, Others(r)
  PROVE  DeadInv'
<1>0. req \in [Requests -> Call] /\ req[r] \in Call /\ minted' = minted
      /\ sessions \subseteq Deactivate({})
  BY DeactivateNothing
     DEF TypeInv, CallsOK, Others, RefreshRefused, CheckCached, FetchActive, FillCache,
     CheckSession, Serve, BeginLogout, LogoutSessions, LogoutRevoke, BeginPassword,
     PasswordSessions, PasswordCache, PasswordRevoke, BeginDelete, EndUser, EndSessions, EndCache
<1>1. CASE \/ RefreshRefused(r) \/ CheckCached(r) \/ FillCache(r) \/ CheckSession(r)
           \/ Serve(r) \/ LogoutRevoke(r)
  <2>1. sessions' = sessions /\ dead' = dead
    BY <1>1 DEF RefreshRefused, CheckCached, FillCache, CheckSession, Serve, LogoutRevoke, hist
  <2>2. End(r) \/ Goto(r, "vFetch") \/ Goto(r, "vSession") \/ Goto(r, "handler")
    BY <1>1 DEF RefreshRefused, CheckCached, FillCache, CheckSession, Serve, LogoutRevoke
  <2>3. /\ req'[r].pc \notin NeedsToken /\ SnapStep(r, {})
        /\ \A q \in Requests \ {r} : req'[q] = req[q]
    BY <2>2, EndFacts, GotoFacts DEF SnapStep, NeedsToken, Condemned, Executed
  <2> QED
    BY <1>0, <2>1, <2>3, KillByOne
<1>2. CASE FetchActive(r) \/ BeginLogout(r)
  <2>1. sessions' = sessions /\ dead' = dead /\ \A q \in Requests \ {r} : req'[q] = req[q]
    BY <1>0, <1>2 DEF FetchActive, BeginLogout, hist
  <2>2. /\ req'[r].pc \in {"vFill", "outSessions"}
        /\ req'[r].snap = req[r].snap /\ req'[r].user = req[r].user
    <3>1. CASE FetchActive(r)
      BY <1>0, <3>1 DEF FetchActive, Call
    <3>2. CASE BeginLogout(r)
      BY <1>0, <3>2 DEF BeginLogout, Call
    <3> QED
      BY <1>2, <3>1, <3>2
  <2>3. req'[r].pc \notin NeedsToken /\ SnapStep(r, {})
    BY <2>2 DEF SnapStep, NeedsToken, Condemned, Executed
  <2> QED
    BY <1>0, <2>1, <2>3, KillByOne
<1>3. CASE LogoutSessions(r)
  <2> DEFINE S == OfDevice(req[r].user, req[r].device)
  <2>1. sessions' = Deactivate(S) /\ dead' = dead \cup Ids(S) /\ Goto(r, "outRevoke")
    BY <1>3 DEF LogoutSessions
  <2>2. S \in SUBSET sessions
    BY DEF OfDevice, Of
  <2>3. /\ req'[r].pc \notin NeedsToken /\ SnapStep(r, S)
        /\ \A q \in Requests \ {r} : req'[q] = req[q]
    BY <2>1, GotoFacts DEF SnapStep, NeedsToken, Condemned, Executed
  <2> QED
    BY <1>0, <2>1, <2>2, <2>3, KillByOne
<1>4. CASE BeginPassword(r) \/ BeginDelete(r)
  <2> DEFINE ids == Ids({s \in sessions : s.user = req[r].user})
  <2>1. \E pc \in {"pwSessions", "endUser"} :
          req' = [req EXCEPT ![r] = [req[r] EXCEPT !.pc = pc, !.snap = ids]]
    BY <1>4 DEF BeginPassword, BeginDelete
  <2>2. sessions' = sessions /\ dead' = dead /\ \A q \in Requests \ {r} : req'[q] = req[q]
    BY <1>0, <1>4 DEF BeginPassword, BeginDelete, hist
  <2>3. req'[r].pc \in Condemned /\ req'[r].snap = ids /\ req'[r].user = req[r].user
    <3> HIDE DEF ids
    <3> QED
      BY <1>0, <2>1 DEF Call, Condemned
  <2>4. req'[r].pc \notin NeedsToken /\ SnapStep(r, {})
    BY <2>3 DEF SnapStep, NeedsToken, Condemned
  <2> QED
    BY <1>0, <2>2, <2>4, KillByOne
<1>5. CASE PasswordSessions(r) \/ EndSessions(r)
  <2> DEFINE S == Of(req[r].user)
  <2>1. /\ sessions' = Deactivate(S) /\ dead' = dead /\ req[r].pc \in Condemned
        /\ Goto(r, "pwCache") \/ Goto(r, "endCache")
    BY <1>5 DEF PasswordSessions, EndSessions, At, Condemned, hist
  <2>2. S \in SUBSET sessions
    BY DEF Of
  <2>3. /\ req'[r].pc \notin NeedsToken /\ SnapStep(r, S)
        /\ \A q \in Requests \ {r} : req'[q] = req[q]
    BY <2>1, GotoFacts DEF SnapStep, NeedsToken, Condemned, Executed
  <2> QED
    BY <1>0, <2>1, <2>2, <2>3, KillByOne
<1>6. CASE PasswordCache(r) \/ EndUser(r)
  <2>1. /\ sessions' = sessions /\ dead' = dead
        /\ \/ req[r].pc \in Executed /\ Goto(r, "pwRevoke")
           \/ req[r].pc \in Condemned /\ Goto(r, "endSessions")
    BY <1>6 DEF PasswordCache, EndUser, At, Condemned, Executed, hist
  <2>2. /\ req'[r].pc \notin NeedsToken /\ SnapStep(r, {})
        /\ \A q \in Requests \ {r} : req'[q] = req[q]
    BY <2>1, GotoFacts DEF SnapStep, NeedsToken, Condemned, Executed
  <2> QED
    BY <1>0, <2>1, <2>2, KillByOne
<1>7. CASE PasswordRevoke(r) \/ EndCache(r)
  <2>1. /\ sessions' = sessions /\ dead' = dead \cup req[r].snap
        /\ req[r].pc \in Executed /\ End(r)
    BY <1>7 DEF PasswordRevoke, EndCache, At, Executed
  <2>2. /\ req'[r].pc \notin NeedsToken /\ SnapStep(r, {})
        /\ \A q \in Requests \ {r} : req'[q] = req[q]
    BY <2>1, EndFacts DEF SnapStep, NeedsToken
  <2> QED
    BY <1>0, <2>1, <2>2, KillByOne
<1> QED
  BY <1>1, <1>2, <1>3, <1>4, <1>5, <1>6, <1>7 DEF Others

\* A step of handler r that stores n in place of S: a new session, or a rotated one.
LEMMA StoreOne ==
  ASSUME TypeInv, TokenInv, DeadInv, NEW r \in Requests, End(r), minted' = minted,
         dead' = dead, NEW S \in SUBSET sessions, NEW n, sessions' = (sessions \ S) \cup {n},
         n.id \notin dead,
         \A q \in Requests : n.id \in req[q].snap =>
           /\ req[q].pc \in Condemned => n.user = req[q].user
           /\ req[q].pc \notin Executed
  PROVE  DeadInv'
<1>1. /\ req'[r].pc = "idle" /\ req'[r].snap = {}
      /\ \A q \in Requests \ {r} : req'[q] = req[q]
  BY EndFacts
<1>2. DeadMinted'
  BY <1>1 DEF DeadInv, DeadMinted, InFlight, NeedsToken
<1>3. SnapInv'
  BY <1>1 DEF DeadInv, SnapInv
<1>4. KilledStayDead'
  BY DEF DeadInv, KilledStayDead
<1> QED
  BY <1>2, <1>3, <1>4 DEF DeadInv

LEMMA InsertDead ==
  ASSUME TypeInv, TokenInv, DeadInv, NEW r \in Requests, LoginInsert(r)
  PROVE  DeadInv'
<1> DEFINE q == req[r]
           n == [id |-> q.new, user |-> q.user, device |-> q.device, iat |-> q.iat,
                 ref |-> q.new, active |-> TRUE, exp |-> q.exp]
<1>1. /\ sessions' = sessions \cup {n} /\ n.id = q.new
      /\ minted' = minted /\ dead' = dead /\ End(r)
  BY DEF LoginInsert, hist
<1>2. q.new \notin dead /\ \A p \in Requests : q.new \notin req[p].snap
  BY DEF LoginInsert, At, InFlight, NeedsToken, DeadInv, DeadMinted
<1> HIDE DEF n
<1>3. sessions' = (sessions \ {}) \cup {n}
  BY <1>1
<1> QED
  BY <1>1, <1>2, <1>3, StoreOne

LEMMA RotateDead ==
  ASSUME TypeInv, TokenInv, DeadInv, NEW r \in Requests, RefreshRotate(r)
  PROVE  DeadInv'
<1>1. PICK s \in sessions : /\ Matches(s, req[r])
                            /\ sessions' = (sessions \ {s}) \cup {Rotated(s, req[r])}
  BY DEF RefreshRotate
<1> DEFINE n == Rotated(s, req[r])
<1>2. minted' = minted /\ dead' = dead /\ End(r) /\ s.active
  BY <1>1 DEF RefreshRotate, Matches
<1>3. n.id = s.id /\ n.user = s.user
  BY DEF Rotated, TypeInv, StoreOK, Session
<1>4. n.id \notin dead
  BY <1>2, <1>3 DEF DeadInv, KilledStayDead
<1>5. \A q \in Requests : n.id \in req[q].snap =>
        /\ req[q].pc \in Condemned => n.user = req[q].user
        /\ req[q].pc \notin Executed
  BY <1>2, <1>3 DEF DeadInv, SnapInv
<1> QED
  BY <1>1, <1>2, <1>4, <1>5, StoreOne

LEMMA LoginDead ==
  ASSUME TypeInv, TokenInv, DeadInv, NEW r \in Requests, LoginDeactivate(r)
  PROVE  DeadInv'
<1> DEFINE S == OfDevice(req[r].user, req[r].device)
<1>1. minted' = minted + 1 /\ minted \in Nat /\ S \in SUBSET sessions
  BY DEF LoginDeactivate, TypeInv, StoreOK, OfDevice, Of
<1>2. sessions' = Deactivate(S) /\ dead' = dead \cup Ids(S)
  BY DEF LoginDeactivate
<1>3. /\ req'[r].pc = "loginInsert" /\ req'[r].new = minted + 1
      /\ req'[r].snap = req[r].snap /\ req'[r].user = req[r].user
      /\ \A q \in Requests \ {r} : req'[q] = req[q]
  BY <1>1 DEF LoginDeactivate, TypeInv, CallsOK, Call
<1>4. \A q \in Requests : SnapStep(q, S)
  BY <1>1, <1>3, OneSnap DEF SnapStep, Condemned, Executed
<1>5. \A q \in Requests : req'[q].pc \in NeedsToken =>
        req'[q].new = minted + 1 \/ (InFlight(q) /\ req'[q].new = req[q].new)
  BY <1>3 DEF InFlight
<1> QED
  BY <1>1, <1>2, <1>4, <1>5, KillStep

LEMMA BeginDead ==
  ASSUME TypeInv, TokenInv, DeadInv, NEW r \in Requests, Begin(r)
  PROVE  DeadInv'
<1>0. minted \in Nat
  BY DEF TypeInv, StoreOK
<1>1. /\ sessions' \subseteq Deactivate({}) /\ dead' = dead
      /\ \A q \in Requests \ {r} : req'[q] = req[q]
  BY BeginFacts, DeactivateNothing
<1>2. SnapStep(r, {})
  BY BeginFacts DEF SnapStep, Condemned
<1>3. \A q \in Requests : SnapStep(q, {})
  BY <1>1, <1>2, OneSnap
<1>4. minted' \in Nat /\ minted' >= minted
  <2>1. minted' = minted + 1 \/ minted' = minted
    BY BeginFacts
  <2> QED
    BY <1>0, <2>1
<1>5. \A q \in Requests : req'[q].pc \in NeedsToken =>
        req'[q].new = minted + 1 \/ (InFlight(q) /\ req'[q].new = req[q].new)
  BY BeginFacts DEF InFlight, NeedsToken
<1> QED
  BY <1>0, <1>1, <1>3, <1>4, <1>5, KillStep

LEMMA EnvironmentDead ==
  ASSUME TypeInv, TokenInv, DeadInv, Environment
  PROVE  DeadInv'
<1>0. req \in [Requests -> Call] /\ minted \in Nat
  BY DEF TypeInv, CallsOK, StoreOK
<1>1. minted' = minted /\ dead' = dead /\ sessions' \subseteq Deactivate({})
  BY DeactivateNothing DEF Environment, Unban, Tick, CacheExpire, CleanupExpired, Abort, hist
<1>2. ASSUME NEW r \in Requests, Abort(r)
      PROVE  DeadInv'
  <2>1. /\ req'[r].pc = "idle" /\ req'[r].snap = {}
        /\ \A q \in Requests \ {r} : req'[q] = req[q]
    BY <1>2, EndFacts DEF Abort
  <2>2. req'[r].pc \notin NeedsToken /\ SnapStep(r, {})
    BY <2>1 DEF SnapStep, NeedsToken
  <2> QED
    BY <1>1, <2>1, <2>2, KillByOne
<1>3. ASSUME \A q \in Requests : /\ req'[q].pc = req[q].pc /\ req'[q].snap = req[q].snap
                                 /\ req'[q].new = req[q].new /\ req'[q].user = req[q].user
      PROVE  DeadInv'
  <2>1. \A q \in Requests : SnapStep(q, {})
    BY <1>3 DEF SnapStep
  <2>2. \A q \in Requests : req'[q].pc \in NeedsToken =>
          req'[q].new = minted + 1 \/ (InFlight(q) /\ req'[q].new = req[q].new)
    BY <1>3 DEF InFlight
  <2> QED
    BY <1>0, <1>1, <2>1, <2>2, KillStep
<1>4. ASSUME NEW u \in Users, Unban(u)
      PROVE  DeadInv'
  BY <1>0, <1>3, <1>4 DEF Unban, Call
<1> QED
  BY <1>2, <1>3, <1>4 DEF Environment, Tick, CacheExpire, CleanupExpired

LEMMA DeadNext == TypeInv /\ TokenInv /\ DeadInv /\ [Next]_vars => DeadInv'
<1> SUFFICES ASSUME TypeInv, TokenInv, DeadInv, [Next]_vars
             PROVE  DeadInv'
  OBVIOUS
<1>1. ASSUME NEW r \in Requests, Step(r)
      PROVE  DeadInv'
  BY <1>1, LoginDead, InsertDead, RotateDead, OthersDead DEF Step, Others
<1>2. CASE UNCHANGED vars
  BY <1>2 DEF vars, hist, DeadInv, DeadMinted, SnapInv, KilledStayDead, InFlight
<1> QED
  BY <1>1, <1>2, BeginDead, EnvironmentDead DEF Next

\* No refresh, login or cleanup revives a session that a logout, a login on its
\* device, a password change, a deletion or a ban has ended.
THEOREM NoRevival == Spec => []KilledStayDead
<1>1. DeadInv => KilledStayDead
  BY DEF DeadInv
<1>2. Init /\ [][Next]_vars => [](TypeInv /\ TokenInv /\ DeadInv)
  BY TypeInit, TokenInit, DeadInit, NextType, TokenNext, DeadNext, PTL
<1> QED
  BY <1>1, <1>2, PTL DEF Spec

-----------------------------------------------------------------------------
(* The session store implements the ledger of refresh-token chains             *)

Issued == {t.id : t \in refresh}
Opened == {[first |-> s.id, last |-> s.ref] : s \in {t \in sessions : t.active}}
Spent == {x \in RefreshId : redeemed[x] > 0}

\* Every session holds an issued token, and no token in flight is issued.
IssueInv ==
  /\ \A x \in Issued : x <= minted
  /\ \A s \in sessions : s.ref \in Issued
  /\ \A r \in Requests : InFlight(r) => req[r].new \notin Issued

LEMMA IssueInit == Init => IssueInv
BY IdleCall DEF Init, Idle, IssueInv, Issued, InFlight, NeedsToken

\* A step that hands out no token and mints at most one.
LEMMA IssueNothing ==
  ASSUME TypeInv, TokenInv, IssueInv, refresh' = refresh, minted' \in Nat, minted' >= minted,
         NEW S \in SUBSET sessions, sessions' \subseteq Deactivate(S),
         \A r \in Requests : req'[r].pc \in NeedsToken =>
           \/ req'[r].new = minted + 1
           \/ InFlight(r) /\ req'[r].new = req[r].new
  PROVE  IssueInv' /\ Opened' \subseteq Opened
<1>0. /\ sessions \subseteq Session /\ minted \in Nat /\ Issued' = Issued
      /\ Issued \subseteq Nat
  BY DEF TypeInv, StoreOK, Issued, RefreshId
<1>1. ASSUME NEW t \in sessions'
      PROVE  \E s \in sessions : /\ t.id = s.id /\ t.ref = s.ref
                                 /\ t.active => s.active
  BY <1>0, DeactivateFacts
<1>2. Opened' \subseteq Opened
  BY <1>1 DEF Opened
<1>3. \A x \in Issued' : x <= minted'
  BY <1>0 DEF IssueInv
<1>4. \A t \in sessions' : t.ref \in Issued'
  BY <1>0, <1>1 DEF IssueInv
<1>5. \A r \in Requests : InFlight(r)' => req'[r].new \notin Issued'
  BY <1>0 DEF IssueInv, InFlight
<1> QED
  BY <1>2, <1>3, <1>4, <1>5 DEF IssueInv

\* The steps that hand out no token.
LEMMA QuietLedger ==
  ASSUME TypeInv, TokenInv, IssueInv,
         \/ \E r \in Requests : Begin(r) \/ LoginDeactivate(r) \/ Others(r)
         \/ Environment
  PROVE  IssueInv' /\ Opened' \subseteq Opened /\ Issued' = Issued /\ Spent' = Spent
<1>0. req \in [Requests -> Call] /\ minted \in Nat
  BY DEF TypeInv, CallsOK, StoreOK
<1> DEFINE Flights == \A q \in Requests : req'[q].pc \in NeedsToken =>
             req'[q].new = minted + 1 \/ (InFlight(q) /\ req'[q].new = req[q].new)
           Facts == /\ refresh' = refresh /\ redeemed' = redeemed
                    /\ minted' \in {minted, minted + 1} /\ Flights
                    /\ \E S \in SUBSET sessions : sessions' \subseteq Deactivate(S)
<1>1. ASSUME NEW r \in Requests, Begin(r)
      PROVE  Facts
  BY <1>1, BeginFacts, DeactivateNothing DEF InFlight, NeedsToken
<1>2. ASSUME NEW r \in Requests, LoginDeactivate(r)
      PROVE  Facts
  <2>1. /\ refresh' = refresh /\ redeemed' = redeemed /\ minted' = minted + 1
        /\ sessions' = Deactivate(OfDevice(req[r].user, req[r].device))
        /\ req'[r].new = minted' /\ \A q \in Requests \ {r} : req'[q] = req[q]
    BY <1>0, <1>2 DEF LoginDeactivate, Call
  <2>2. OfDevice(req[r].user, req[r].device) \in SUBSET sessions
    BY DEF OfDevice, Of
  <2> QED
    BY <2>1, <2>2 DEF InFlight
<1>3. ASSUME NEW r \in Requests, Others(r)
      PROVE  Facts
  BY <1>3, OthersFacts DEF InFlight
<1>4. ASSUME Environment
      PROVE  Facts
  <2>1. \E S \in SUBSET sessions : sessions' \subseteq Deactivate(S)
    <3>1. sessions' \subseteq Deactivate({})
      BY <1>4, EnvironmentFacts
    <3>2. {} \in SUBSET sessions
      OBVIOUS
    <3> QED
      BY <3>1, <3>2
  <2>2. refresh' = refresh /\ redeemed' = redeemed /\ minted' = minted /\ Flights
    BY <1>4, EnvironmentFacts
  <2> HIDE DEF Flights
  <2> QED
    BY <2>1, <2>2
<1>5. Facts
  <2> HIDE DEF Facts
  <2> QED
    BY <1>1, <1>2, <1>3, <1>4
<1>6. minted' \in Nat /\ minted' >= minted
  BY <1>0, <1>5
<1>7. Issued' = Issued /\ Spent' = Spent
  BY <1>5 DEF Issued, Spent
<1> QED
  BY <1>5, <1>6, <1>7, IssueNothing

\* A handler that ends hands its token to the client; the session that holds
\* it takes the place of S.
LEMMA IssueOne ==
  ASSUME TypeInv, TokenInv, IssueInv, NEW r \in Requests, InFlight(r), End(r),
         minted' = minted, Issued' = Issued \cup {req[r].new},
         NEW S \in SUBSET sessions, NEW n, n.ref = req[r].new,
         sessions' = (sessions \ S) \cup {n}
  PROVE  IssueInv'
<1>1. \A q \in Requests : InFlight(q)' => q # r /\ InFlight(q) /\ req'[q] = req[q]
  BY EndFacts DEF InFlight, NeedsToken
<1>2. \A q \in Requests : InFlight(q)' => req'[q].new \notin Issued'
  BY <1>1 DEF IssueInv, TokenInv, FreshInFlight
<1>3. \A x \in Issued' : x <= minted'
  BY DEF IssueInv, TokenInv, FreshInFlight
<1> QED
  BY <1>2, <1>3 DEF IssueInv

LEMMA InsertLedger ==
  ASSUME TypeInv, TokenInv, IssueInv, NEW r \in Requests, LoginInsert(r)
  PROVE  IssueInv' /\ \E x \in RefreshId : Ledger!Open(x)
<1>0. PICK x \in RefreshId : x = req[r].new
  BY DEF LoginInsert, At, TypeInv, CallsOK, CallOK, NeedsToken
<1> DEFINE q == req[r]
           n == [id |-> q.new, user |-> q.user, device |-> q.device, iat |-> q.iat,
                 ref |-> q.new, active |-> TRUE, exp |-> q.exp]
           t == [id |-> q.new, user |-> q.user, device |-> q.device, exp |-> q.exp]
<1>1. /\ sessions' = (sessions \ {}) \cup {n} /\ refresh' = refresh \cup {t}
      /\ n.id = q.new /\ n.ref = q.new /\ n.active = TRUE /\ t.id = q.new
      /\ minted' = minted /\ redeemed' = redeemed /\ End(r)
  BY DEF LoginInsert, hist
<1>2. InFlight(r) /\ q.new \notin Issued
  BY DEF LoginInsert, At, InFlight, NeedsToken, IssueInv
<1> HIDE DEF n, t
<1>3. Issued' = Issued \cup {q.new}
  BY <1>1 DEF Issued
<1>4. IssueInv'
  BY <1>1, <1>2, <1>3, IssueOne
<1>5. Opened' = Opened \cup {[first |-> x, last |-> x]}
  BY <1>0, <1>1 DEF Opened
<1>6. Spent' = Spent
  BY <1>1 DEF Spent
<1>7. Ledger!Open(x)
  BY <1>0, <1>2, <1>3, <1>5, <1>6 DEF Ledger!Open, Issued, Opened, Spent
<1> QED
  BY <1>4, <1>7

LEMMA RotateLedger ==
  ASSUME TypeInv, TokenInv, IssueInv, NEW r \in Requests, RefreshRotate(r)
  PROVE  IssueInv' /\ \E c \in Opened, x \in RefreshId : Ledger!Redeem(c, x)
<1>0. PICK next \in RefreshId : next = req[r].new
  BY DEF RefreshRotate, At, TypeInv, CallsOK, CallOK, NeedsToken
<1> DEFINE q == req[r]
           t == [id |-> q.new, user |-> q.user, device |-> q.device, exp |-> q.exp]
<1>1. PICK s \in sessions : Matches(s, q) /\ sessions' = (sessions \ {s}) \cup {Rotated(s, q)}
  BY DEF RefreshRotate
<1> DEFINE n == Rotated(s, q)
           c == [first |-> s.id, last |-> s.ref]
           d == [first |-> s.id, last |-> q.new]
<1>2. /\ refresh' = refresh \cup {t} /\ t.id = q.new /\ minted' = minted /\ End(r)
      /\ s.active /\ s.ref = q.ref /\ redeemed' = [redeemed EXCEPT ![q.ref] = @ + 1]
  BY <1>1 DEF RefreshRotate, Matches
<1>3. /\ s \in Session /\ q.ref \in RefreshId /\ redeemed \in [RefreshId -> Nat]
      /\ sessions \subseteq Session
  BY <1>1, <1>2 DEF TypeInv, StoreOK, Session
<1>4. n.id = s.id /\ n.ref = q.new /\ n.active
  BY <1>2, <1>3 DEF Rotated, Session
<1>5. InFlight(r) /\ q.new \notin Issued /\ redeemed[q.ref] = 0 /\ s.ref \in Issued
  BY <1>1, <1>2 DEF RefreshRotate, At, InFlight, NeedsToken, IssueInv, TokenInv, HeldOnce
<1>6. sessions' = (sessions \ {s}) \cup {n}
  BY <1>1
<1> HIDE DEF n, t
<1>7. Issued' = Issued \cup {q.new}
  BY <1>2 DEF Issued
<1>8. IssueInv'
  BY <1>2, <1>4, <1>5, <1>6, <1>7, IssueOne
<1>9. c \in Opened /\ d = [c EXCEPT !.last = q.new]
  BY <1>2 DEF Opened
<1>10. Opened' = (Opened \ {c}) \cup {d}
  <2>1. ASSUME NEW v \in sessions, v.active, v # s
        PROVE  [first |-> v.id, last |-> v.ref] # c
    BY <1>1, <2>1 DEF TokenInv, HeldOnce
  <2>2. ASSUME NEW x \in Opened'
        PROVE  x \in (Opened \ {c}) \cup {d}
    <3>1. PICK v \in sessions' : v.active /\ x = [first |-> v.id, last |-> v.ref]
      BY DEF Opened
    <3>2. CASE v = n
      BY <1>4, <3>1, <3>2
    <3>3. CASE v \in sessions /\ v # s
      BY <2>1, <3>1, <3>3 DEF Opened
    <3> QED
      BY <1>6, <3>1, <3>2, <3>3
  <2>3. ASSUME NEW x \in (Opened \ {c}) \cup {d}
        PROVE  x \in Opened'
    <3>1. CASE x = d
      BY <1>4, <1>6, <3>1 DEF Opened
    <3>2. CASE x \in Opened \ {c}
      <4>1. PICK v \in sessions : v.active /\ x = [first |-> v.id, last |-> v.ref]
        BY <3>2 DEF Opened
      <4>2. v # s
        BY <3>2, <4>1
      <4> QED
        BY <1>6, <4>1, <4>2 DEF Opened
    <3> QED
      BY <2>3, <3>1, <3>2
  <2> QED
    BY <2>2, <2>3
<1>11. Spent' = Spent \cup {s.ref} /\ s.ref \notin Spent
  BY <1>2, <1>3, <1>5 DEF Spent
<1>12. PICK e \in Opened : e = c
  BY <1>9
<1>13. Ledger!Redeem(e, next)
  BY <1>0, <1>5, <1>7, <1>9, <1>10, <1>11, <1>12 DEF Ledger!Redeem, Issued, Opened, Spent
<1> QED
  BY <1>8, <1>13

LEMMA LedgerInit == Init => Ledger!Init
BY DEF Init, Ledger!Init

\* Every step opens a chain, redeems a token, or closes chains.
LEMMA LedgerStep ==
  ASSUME TypeInv, TokenInv, IssueInv, [Next]_vars
  PROVE  IssueInv' /\ [Ledger!Next]_(Ledger!ledger)
<1>1. ASSUME NEW r \in Requests, LoginInsert(r)
      PROVE  IssueInv' /\ Ledger!Next
  BY <1>1, InsertLedger DEF Ledger!Next
<1>2. ASSUME NEW r \in Requests, RefreshRotate(r)
      PROVE  IssueInv' /\ Ledger!Next
  BY <1>2, RotateLedger DEF Ledger!Next, Opened
<1>3. ASSUME \/ \E r \in Requests : Begin(r) \/ LoginDeactivate(r) \/ Others(r)
             \/ Environment
      PROVE  IssueInv' /\ Ledger!Next
  <2>1. IssueInv' /\ Opened' \subseteq Opened /\ Issued' = Issued /\ Spent' = Spent
    BY <1>3, QuietLedger
  <2>2. Ledger!Close
    BY <2>1 DEF Ledger!Close, Opened, Issued, Spent
  <2> QED
    BY <2>1, <2>2 DEF Ledger!Next
<1>4. CASE UNCHANGED vars
  BY <1>4 DEF vars, hist, IssueInv, Issued, InFlight, Ledger!ledger
<1>5. CASE Next
  BY <1>1, <1>2, <1>3, <1>5 DEF Next, Step, Others
<1> QED
  BY <1>4, <1>5

\* Handlers, clocks and caches aside, the session store is the ledger.
THEOREM ImplementsLedger == Spec => LedgerSpec
<1>1. TypeInv /\ TokenInv /\ IssueInv /\ [Next]_vars => IssueInv' /\ [Ledger!Next]_(Ledger!ledger)
  BY LedgerStep
<1>2. Init /\ [][Next]_vars => [](TypeInv /\ TokenInv /\ IssueInv)
  BY <1>1, TypeInit, TokenInit, IssueInit, NextType, TokenNext, PTL
<1>3. Init /\ [][Next]_vars => Ledger!Init /\ [][Ledger!Next]_(Ledger!ledger)
  BY <1>1, <1>2, LedgerInit, PTL
<1> QED
  BY <1>3 DEF Spec, LedgerSpec, Ledger!Spec

-----------------------------------------------------------------------------
(* A logout holds as long as the token's signature                             *)

\* Every stored logout has a key that lives as long as its token.
KeyFor(t) == \E k \in revoked : /\ k.user = t.user /\ k.iat = t.iat
                                /\ k.exp >= t.iat + AccessTTL
KeysLast == \A t \in loggedOut : KeyFor(t)
IssuedPast == \A t \in access : t.iat <= now
\* No request begins for a token whose logout it was told of.
CallsPast == \A r \in Requests : req[r].iat <= now /\ req[r].out = FALSE

OutInv == KeysLast /\ IssuedPast /\ CallsPast

LEMMA OutInit == Init => OutInv
BY DEF Init, OutInv, KeysLast, IssuedPast, CallsPast, Idle

\* Time passes and keys are added; tokens minted are of the present second.
LEMMA OutStep ==
  ASSUME TypeInv, OutInv, now' \in Nat, now' >= now,
         KeysLast',
         \A t \in access' : t \in access \/ (t.iat \in Nat /\ t.iat <= now),
         \A r \in Requests : req'[r].iat \in Nat /\ req'[r].iat <= now /\ req'[r].out = FALSE
  PROVE  OutInv'
<1>1. now \in Nat /\ access \subseteq [user : Users, device : Devices, iat : Nat]
  BY DEF TypeInv, StoreOK, Time
<1>3. ASSUME NEW t \in access' PROVE t.iat <= now'
  <2>1. CASE t \in access
    <3>1. t.iat \in Nat /\ t.iat <= now
      BY <1>1, <2>1 DEF OutInv, IssuedPast
    <3> QED BY <1>1, <3>1
  <2>2. CASE t.iat \in Nat /\ t.iat <= now
    BY <1>1, <2>2
  <2> QED BY <1>3, <2>1, <2>2
<1>4. CallsPast'
  BY <1>1 DEF CallsPast
<1> QED BY <1>3, <1>4 DEF OutInv, IssuedPast

\* A step of handler r that leaves clock, keys and tokens alone.
LEMMA OutQuiet ==
  ASSUME TypeInv, OutInv, NEW r \in Requests, UNCHANGED <<now, revoked, access, loggedOut>>,
         \A q \in Requests \ {r} : req'[q] = req[q],
         req'[r].iat \in Nat, req'[r].iat <= now, req'[r].out = FALSE
  PROVE  OutInv'
<1>1. now \in Nat /\ \A q \in Requests : req[q].iat \in Nat
  BY DEF TypeInv, StoreOK, CallsOK, Call, Time
<1>2. \A q \in Requests : req'[q].iat \in Nat /\ req'[q].iat <= now /\ req'[q].out = FALSE
  BY <1>1 DEF OutInv, CallsPast
<1>3. KeysLast'
  BY DEF OutInv, KeysLast, KeyFor
<1>4. now' \in Nat /\ now' >= now
  BY <1>1
<1> QED BY <1>2, <1>3, <1>4, OutStep

\* What a handler keeps when it goes on or ends.
LEMMA OutKept ==
  ASSUME TypeInv, OutInv, NEW r \in Requests, End(r) \/ \E pc \in PCs : Goto(r, pc)
  PROVE  /\ \A q \in Requests \ {r} : req'[q] = req[q]
         /\ req'[r].iat \in Nat /\ req'[r].iat <= now /\ req'[r].out = FALSE
<1>1. req \in [Requests -> Call] /\ now \in Nat
  BY DEF TypeInv, StoreOK, CallsOK, Time
<1>2. req[r] \in Call /\ req[r].iat \in Nat /\ req[r].iat <= now /\ req[r].out = FALSE
  BY <1>1 DEF OutInv, CallsPast, Call, Time
<1>3. CASE End(r)
  BY <1>1, <1>3 DEF End, Idle
<1>4. CASE \E pc \in PCs : Goto(r, pc)
  <2>1. PICK pc \in PCs : req' = [req EXCEPT ![r].pc = pc]
    BY <1>4 DEF Goto
  <2> QED BY <1>1, <1>2, <2>1 DEF Call
<1> QED BY <1>3, <1>4

\* An access token is only used while its signature is valid, and it was signed
\* no earlier than its key would run out.
LEMMA OutBegin ==
  ASSUME TypeInv, OutInv, NEW r \in Requests, Begin(r)
  PROVE  OutInv'
<1>0. /\ req \in [Requests -> Call] /\ now \in Nat
      /\ access \subseteq [user : Users, device : Devices, iat : Nat]
      /\ AccessTTL \in Nat
  BY ConstAssumption DEF TypeInv, StoreOK, CallsOK, Time
<1>1. UNCHANGED <<now, revoked, access, loggedOut>> /\ \A q \in Requests \ {r} : req'[q] = req[q]
  BY <1>0 DEF Begin, BeginLogin, BeginAdminLogin, BeginRefresh, BeginRequest, BeginBan, hist
<1>2. ASSUME NEW t \in refresh, BeginRefresh(r, t)
      PROVE  req'[r].iat = now /\ req'[r].out = FALSE
  BY <1>0, <1>2 DEF BeginRefresh, Idle
<1>3. ASSUME NEW u \in Users, NEW d \in Devices, BeginLogin(r, u, d) \/ BeginAdminLogin(r, u, d)
      PROVE  req'[r].iat = 0 /\ req'[r].out = FALSE
  <2>1. PICK op \in {"login", "adminLogin"} :
          req' = [req EXCEPT ![r] = [Idle EXCEPT
            !.pc = "loginDeactivate", !.op = op, !.user = u, !.device = d]]
    BY <1>3 DEF BeginLogin, BeginAdminLogin
  <2> QED BY <1>0, <2>1 DEF Idle
<1>4. ASSUME NEW t \in access, NEW op \in Ops, BeginRequest(r, t, op)
      PROVE  req'[r].iat \in Nat /\ req'[r].iat <= now /\ req'[r].out = FALSE
  <2>1. t.iat \in Nat /\ t.iat <= now /\ now <= t.iat + AccessTTL
    BY <1>0, <1>4 DEF OutInv, IssuedPast, BeginRequest
  <2>2. PICK answered \in BOOLEAN :
          /\ answered => ~Revoked(t.user, t.iat)
          /\ req' = [req EXCEPT ![r] = [Idle EXCEPT
               !.pc = "vCache", !.op = op, !.user = t.user, !.device = t.device,
               !.iat = t.iat, !.late = t.user \in barred,
               !.out = answered /\ [user |-> t.user, iat |-> t.iat] \in loggedOut]]
    BY <1>4 DEF BeginRequest, Answered
  <2>3. ASSUME [user |-> t.user, iat |-> t.iat] \in loggedOut
        PROVE  Revoked(t.user, t.iat)
    <3>1. PICK k \in revoked : k.user = t.user /\ k.iat = t.iat /\ k.exp >= t.iat + AccessTTL
      BY <2>3 DEF OutInv, KeysLast, KeyFor
    <3>2. k.exp \in Nat
      BY <3>1, ConstAssumption DEF TypeInv, StoreOK
    <3>3. now <= k.exp
      BY <1>0, <2>1, <3>1, <3>2
    <3> QED BY <3>1, <3>3 DEF Revoked
  <2>4. (answered /\ [user |-> t.user, iat |-> t.iat] \in loggedOut) = FALSE
    BY <2>2, <2>3
  <2>5. req' = [req EXCEPT ![r] = [Idle EXCEPT
               !.pc = "vCache", !.op = op, !.user = t.user, !.device = t.device,
               !.iat = t.iat, !.late = t.user \in barred, !.out = FALSE]]
    BY <2>2, <2>4
  <2> DEFINE late == t.user \in barred
  <2>6. req'[r] = [Idle EXCEPT
               !.pc = "vCache", !.op = op, !.user = t.user, !.device = t.device,
               !.iat = t.iat, !.late = late, !.out = FALSE]
    BY <1>0, <2>5
  <2> HIDE DEF late
  <2> QED BY <2>1, <2>6 DEF Idle
<1>5. ASSUME NEW u \in Users, BeginBan(r, u)
      PROVE  req'[r].iat = 0 /\ req'[r].out = FALSE
  BY <1>0, <1>5 DEF BeginBan, Idle
<1>6. req'[r].iat \in Nat /\ req'[r].iat <= now /\ req'[r].out = FALSE
  <2>0. now <= now /\ 0 \in Nat /\ 0 <= now
    BY <1>0
  <2>1. CASE \E t \in access, op \in Ops : BeginRequest(r, t, op)
    BY <1>4, <2>1
  <2>2. CASE \E t \in refresh : BeginRefresh(r, t)
    BY <1>0, <1>2, <2>0, <2>2, Zenon
  <2>3. CASE \/ \E u \in Users, d \in Devices : BeginLogin(r, u, d) \/ BeginAdminLogin(r, u, d)
             \/ \E u \in Users : BeginBan(r, u)
    BY <1>3, <1>5, <2>0, <2>3, Zenon
  <2> QED BY <2>1, <2>2, <2>3 DEF Begin
<1> QED BY <1>1, <1>6, OutQuiet

\* The revocation's key lives from now on as long as a token lives from its minting.
LEMMA OutRevoke ==
  ASSUME TypeInv, OutInv, NEW r \in Requests, LogoutRevoke(r) \/ PasswordRevoke(r)
  PROVE  OutInv'
<1>0. /\ req \in [Requests -> Call] /\ now \in Nat
      /\ req[r].iat \in Nat /\ req[r].iat <= now
      /\ AccessTTL \in Nat
      /\ \A q \in Requests : req[q].iat \in Nat
  BY ConstAssumption DEF TypeInv, StoreOK, CallsOK, Call, Time, OutInv, CallsPast
<1>1. now' = now /\ access' = access /\ End(r) /\ revoked \subseteq revoked'
  BY DEF LogoutRevoke, PasswordRevoke, Stored
<1>2. ASSUME NEW t \in loggedOut', t \notin loggedOut PROVE KeyFor(t)'
  <2>1. /\ revoked' = revoked \cup {Key(req[r])}
        /\ t = [user |-> req[r].user, iat |-> req[r].iat]
    BY <1>2 DEF LogoutRevoke, PasswordRevoke
  <2>2. Key(req[r]).exp >= t.iat + AccessTTL
    BY <1>0, <2>1 DEF Key
  <2>3. Key(req[r]).user = t.user /\ Key(req[r]).iat = t.iat
    BY <2>1 DEF Key
  <2>4. Key(req[r]) \in revoked'
    BY <2>1
  <2> QED BY <2>2, <2>3, <2>4 DEF KeyFor
<1>3. \A q \in Requests : req'[q].iat \in Nat /\ req'[q].iat <= now /\ req'[q].out = FALSE
  BY <1>0, <1>1, OutKept DEF OutInv, CallsPast
<1>4. KeysLast'
  BY <1>1, <1>2 DEF OutInv, KeysLast, KeyFor
<1>5. now' \in Nat /\ now' >= now
  BY <1>0, <1>1
<1> QED BY <1>1, <1>3, <1>4, <1>5, OutStep

LEMMA OutHandler ==
  ASSUME TypeInv, OutInv, NEW r \in Requests, Step(r)
  PROVE  OutInv'
<1>0. /\ req \in [Requests -> Call] /\ req[r] \in Call /\ now \in Nat
      /\ req[r].iat \in Nat /\ req[r].iat <= now /\ req[r].out = FALSE
      /\ \A q \in Requests : req[q].iat \in Nat
  BY DEF TypeInv, StoreOK, CallsOK, Call, Time, OutInv, CallsPast
<1>1. CASE LoginInsert(r) \/ RefreshRotate(r)
  <2>1. /\ UNCHANGED <<now, revoked, loggedOut>> /\ End(r)
        /\ access' = access \cup {[user |-> req[r].user, device |-> req[r].device,
                                   iat |-> req[r].iat]}
    BY <1>1 DEF LoginInsert, RefreshRotate, hist
  <2>2. \A q \in Requests : req'[q].iat \in Nat /\ req'[q].iat <= now /\ req'[q].out = FALSE
    BY <1>0, <2>1, OutKept DEF OutInv, CallsPast
  <2>3. \A t \in access' : t \in access \/ (t.iat \in Nat /\ t.iat <= now)
    BY <1>0, <2>1
  <2>4. KeysLast'
    BY <2>1 DEF OutInv, KeysLast, KeyFor
  <2>5. now' \in Nat /\ now' >= now
    BY <1>0, <2>1
  <2> QED BY <2>2, <2>3, <2>4, <2>5, OutStep
<1>2. CASE LoginDeactivate(r)
  <2>1. /\ UNCHANGED <<now, revoked, access, loggedOut>>
        /\ \A q \in Requests \ {r} : req'[q] = req[q]
    BY <1>0, <1>2 DEF LoginDeactivate
  <2>2. req'[r].iat = now /\ req'[r].out = FALSE
    <3> DEFINE new == minted'
               exp == now + SessionTTL
    <3>1. req' = [req EXCEPT ![r] = [@ EXCEPT !.pc = "loginInsert", !.iat = now,
                                              !.new = new, !.exp = exp]]
      BY <1>2 DEF LoginDeactivate
    <3> HIDE DEF new, exp
    <3> QED BY <1>0, <3>1 DEF Call
  <2>3. now <= now
    BY <1>0
  <2> QED BY <1>0, <2>1, <2>2, <2>3, OutQuiet
<1>3. CASE LogoutRevoke(r) \/ PasswordRevoke(r)
  BY <1>3, OutRevoke
<1>4. CASE FetchActive(r) \/ BeginLogout(r) \/ BeginPassword(r) \/ BeginDelete(r)
  <2>1. UNCHANGED <<now, revoked, access, loggedOut>>
    BY <1>4 DEF FetchActive, BeginLogout, BeginPassword, BeginDelete, hist
  <2>2. \A q \in Requests \ {r} : req'[q] = req[q]
    BY <1>0, <1>4 DEF FetchActive, BeginLogout, BeginPassword, BeginDelete
  <2>3. req'[r].iat = req[r].iat /\ req'[r].out = req[r].out
    <3> DEFINE ids == Ids({s \in sessions : s.user = req[r].user})
    <3>1. CASE FetchActive(r)
      <4>1. PICK v \in {users[req[r].user], FALSE} :
              req' = [req EXCEPT ![r] = [req[r] EXCEPT !.pc = "vFill", !.val = v]]
        BY <3>1 DEF FetchActive
      <4> QED BY <1>0, <4>1 DEF Call
    <3>3. CASE BeginLogout(r)
      <4>1. PICK d : req' = [req EXCEPT ![r] = [req[r] EXCEPT !.pc = "outSessions", !.device = d]]
        BY <3>3 DEF BeginLogout
      <4> QED BY <1>0, <4>1 DEF Call
    <3>2. CASE BeginPassword(r) \/ BeginDelete(r)
      <4>1. \E pc \in {"pwSessions", "endUser"} :
              req' = [req EXCEPT ![r] = [req[r] EXCEPT !.pc = pc, !.snap = ids]]
        BY <3>2 DEF BeginPassword, BeginDelete
      <4> HIDE DEF ids
      <4> QED BY <1>0, <4>1 DEF Call
    <3> QED BY <1>4, <3>1, <3>2, <3>3
  <2> QED BY <1>0, <2>1, <2>2, <2>3, OutQuiet
<1>5. CASE \/ RefreshRefused(r) \/ CheckCached(r) \/ FillCache(r) \/ CheckSession(r)
           \/ Serve(r) \/ LogoutSessions(r) \/ PasswordSessions(r) \/ PasswordCache(r)
           \/ EndUser(r) \/ EndSessions(r) \/ EndCache(r)
  <2>1. UNCHANGED <<now, revoked, access, loggedOut>>
    BY <1>5 DEF RefreshRefused, CheckCached, FillCache, CheckSession, Serve, LogoutSessions,
       PasswordSessions, PasswordCache, EndUser, EndSessions, EndCache, hist
  <2>2. End(r) \/ \E pc \in PCs : Goto(r, pc)
    BY <1>5 DEF RefreshRefused, CheckCached, FillCache, CheckSession, Serve, LogoutSessions,
       PasswordSessions, PasswordCache, EndUser, EndSessions, EndCache, PCs
  <2> QED BY <2>1, <2>2, OutKept, OutQuiet
<1> QED BY <1>1, <1>2, <1>3, <1>4, <1>5 DEF Step

LEMMA OutEnvironment ==
  ASSUME TypeInv, OutInv, Environment
  PROVE  OutInv'
<1>0. /\ req \in [Requests -> Call] /\ now \in Nat
      /\ \A q \in Requests : req[q].iat \in Nat /\ req[q].iat <= now /\ req[q].out = FALSE
  BY DEF TypeInv, StoreOK, CallsOK, Call, Time, OutInv, CallsPast
<1>1. UNCHANGED <<revoked, access, loggedOut>> /\ now' \in Nat /\ now' >= now
  BY <1>0 DEF Environment, Unban, Tick, CacheExpire, CleanupExpired, Abort, hist
<1>2. \A q \in Requests : req'[q].iat \in Nat /\ req'[q].iat <= now /\ req'[q].out = FALSE
  <2>1. ASSUME NEW r \in Requests, Abort(r)
        PROVE  \A q \in Requests : req'[q].iat \in Nat /\ req'[q].iat <= now
                                   /\ req'[q].out = FALSE
    BY <1>0, <2>1, OutKept DEF Abort
  <2>2. ASSUME NEW u \in Users, Unban(u)
        PROVE  \A q \in Requests : req'[q].iat = req[q].iat /\ req'[q].out = req[q].out
    BY <1>0, <2>2 DEF Unban, Call
  <2>3. CASE req' = req
    BY <1>0, <2>3
  <2> QED
    BY <1>0, <2>1, <2>2, <2>3 DEF Environment, Tick, CacheExpire, CleanupExpired
<1>3. KeysLast'
  BY <1>1 DEF OutInv, KeysLast, KeyFor
<1>4. \A t \in access' : t \in access
  BY <1>1
<1> QED BY <1>1, <1>2, <1>3, <1>4, OutStep

LEMMA OutNext == TypeInv /\ OutInv /\ [Next]_vars => OutInv'
<1>1. CASE UNCHANGED vars
  BY <1>1 DEF vars, hist, OutInv, KeysLast, KeyFor, IssuedPast, CallsPast
<1> QED
  BY <1>1, OutBegin, OutHandler, OutEnvironment DEF Next

\* Whoever has logged out is refused for as long as his token would be valid, unless
\* Redis does not answer, even if another session was given the very same token.
THEOREM LogoutLasts == Spec => []LogoutRevokes
<1>1. OutInv => LogoutRevokes
  BY DEF OutInv, CallsPast, LogoutRevokes
<1>2. Init /\ [][Next]_vars => [](TypeInv /\ OutInv)
  BY TypeInit, OutInit, NextType, OutNext, PTL
<1> QED
  BY <1>1, <1>2, PTL DEF Spec

-----------------------------------------------------------------------------
(* The one-time codes, for any identifiers, workers, limits, lifetimes and       *)
(* bounds: ranges.                                                               *)

\* A worker goes on or ends.
LEMMA WorkType ==
  ASSUME O!TypeOK, NEW w \in Workers, O!End(w) \/ O!Fail(w) \/ \E pc \in O!PCs : O!Goto(w, pc)
  PROVE  work' \in [Workers -> O!Work]
  <1>1. work \in [Workers -> O!Work]
    BY DEF O!TypeOK
  <1>2. O!Idle \in O!Work
    BY DEF O!Idle, O!Work, O!PCs
  <1>3. ASSUME NEW pc \in O!PCs PROVE [work[w] EXCEPT !.pc = pc] \in O!Work
    BY <1>1, <1>3 DEF O!Work
  <1>4. [O!Idle EXCEPT !.pc = "rollback", !.code = work[w].code] \in O!Work
    <2>1. work[w].code \in O!CodeId \cup {0}
      BY <1>1 DEF O!Work
    <2> QED BY <1>2, <2>1 DEF O!Work, O!PCs
  <1> QED BY <1>1, <1>2, <1>3, <1>4 DEF O!End, O!Goto, O!Fail

\* One code changes.
LEMMA CodeType ==
  ASSUME O!TypeOK, NEW c \in O!CodeId, NEW x \in O!Code, codes' = [codes EXCEPT ![c] = x]
  PROVE  codes' \in [O!CodeId -> O!Code]
  BY DEF O!TypeOK

LEMMA HeldType ==
  ASSUME O!TypeOK, NEW w \in Workers
  PROVE  /\ work[w] \in O!Work /\ work[w].code \in O!CodeId \cup {0}
         /\ work[w].of \in Idents \cup {0} /\ work[w].at \in O!Time \cup {O!Never}
  BY DEF O!TypeOK, O!Work

LEMMA CountType ==
  ASSUME NEW f \in [O!CodeId -> Nat], NEW c
  PROVE  [f EXCEPT ![c] = f[c] + 1] \in [O!CodeId -> Nat]
  <1>1. CASE c \in O!CodeId
    BY <1>1
  <1>2. CASE c \notin O!CodeId
    BY <1>2
  <1> QED BY <1>1, <1>2

LEMMA CodesBegin == O!OtpAssumption /\ O!Init => O!TypeOK
  <1> SUFFICES ASSUME O!OtpAssumption, O!Init PROVE O!TypeOK
    OBVIOUS
  <1>1. 1 \in O!Time
    BY DEF O!OtpAssumption, O!Time
  <1>2. O!NoCode \in O!Code /\ O!Idle \in O!Work
    BY DEF O!OtpAssumption, O!NoCode, O!Code, O!Idle, O!Work, O!PCs, O!Never
  <1> QED BY <1>1, <1>2 DEF O!Init, O!TypeOK, O!OtpAssumption, O!Time

\* The parts of TypeOK that an action touches are shown, the others are kept.
CodesStored ==
  /\ codeNow \in O!Time /\ codes \in [O!CodeId -> O!Code] /\ created \in 0 .. MaxCodes
LimitsOK == sent \in [Idents -> 0 .. SendLimit + 1] /\ budget \in 0 .. Budget + 1
HistOK ==
  /\ inbox \subseteq O!CodeId
  /\ compared \in [O!CodeId -> Nat] /\ logins \in [O!CodeId -> Nat]
  /\ obsolete \subseteq O!CodeId /\ unseen \subseteq O!CodeId
WorkOK == work \in [Workers -> O!Work]

LEMMA TypeParts == O!TypeOK <=> CodesStored /\ LimitsOK /\ HistOK /\ WorkOK
  BY DEF O!TypeOK, CodesStored, LimitsOK, HistOK, WorkOK
LEMMA TypeNow == CodesStored' /\ LimitsOK' /\ HistOK' /\ WorkOK' => O!TypeOK'
  BY DEF O!TypeOK, CodesStored, LimitsOK, HistOK, WorkOK

LEMMA Numbers ==
  ASSUME O!OtpAssumption, O!TypeOK
  PROVE  /\ O!CodeId \subseteq Nat \ {0} /\ created \in Nat /\ created <= MaxCodes
         /\ O!Time \subseteq Nat \ {0} /\ codeNow \in O!Time
  <1>1. created \in 0 .. MaxCodes /\ codeNow \in O!Time
    BY DEF O!TypeOK
  <1>2. MaxCodes \in Nat /\ MaxCodeTime \in Nat
    BY DEF O!OtpAssumption
  <1> QED BY <1>1, <1>2 DEF O!CodeId, O!Time

LEMMA StoreKept == CodesStored /\ UNCHANGED <<codeNow, codes, created>> => CodesStored'
  BY DEF CodesStored
LEMMA LimitsKept == LimitsOK /\ UNCHANGED <<sent, budget>> => LimitsOK'
  BY DEF LimitsOK
LEMMA HistKept == HistOK /\ UNCHANGED <<inbox, O!hist>> => HistOK'
  BY DEF HistOK, O!hist

LEMMA TypeSend ==
  ASSUME O!OtpAssumption, O!TypeOK, NEW w \in Workers, NEW i \in Idents,
         NEW g \in O!CodeId \cup {0}, O!BeginSend(w, i) \/ O!BeginVerify(w, i, g)
  PROVE  O!TypeOK'
  <1>1. ASSUME NEW pc \in O!PCs, NEW before \in SUBSET O!CodeId
        PROVE  /\ [O!Idle EXCEPT !.pc = pc, !.of = i, !.guess = g] \in O!Work
               /\ [O!Idle EXCEPT !.of = i, !.before = before, !.pc = pc] \in O!Work
    BY DEF O!Idle, O!Work
  <1>2. PICK q \in O!Work : UNCHANGED work \/ work' = [work EXCEPT ![w] = q]
    <2>1. CASE O!BeginVerify(w, i, g)
      <3>1. [O!Idle EXCEPT !.pc = "reserve", !.of = i, !.guess = g] \in O!Work
        BY <1>1 DEF O!PCs
      <3> QED BY <2>1, <3>1, Zenon DEF O!BeginVerify
    <2>2. CASE O!BeginSend(w, i)
      <3>1. PICK pc \in {"budget", "limit"} :
              \/ UNCHANGED work
              \/ work' = [work EXCEPT ![w] = [O!Idle EXCEPT !.of = i, !.before = O!Complete(i),
                                                          !.pc = pc]]
        BY <2>2 DEF O!BeginSend
      <3>2. [O!Idle EXCEPT !.of = i, !.before = O!Complete(i), !.pc = pc] \in O!Work
        <4>1. O!Complete(i) \in SUBSET O!CodeId /\ pc \in O!PCs
          BY DEF O!Complete, O!PCs
        <4> QED BY <1>1, <4>1
      <3> QED BY <3>1, <3>2, Zenon
    <2> QED BY <2>1, <2>2
  <1>3. WorkOK'
    BY <1>2, TypeParts DEF WorkOK
  <1>4. HistOK'
    BY TypeParts DEF O!BeginSend, O!BeginVerify, HistOK, O!hist
  <1>5. UNCHANGED <<codeNow, codes, created, sent, budget>>
    BY DEF O!BeginSend, O!BeginVerify
  <1> QED BY <1>3, <1>4, <1>5, TypeParts, TypeNow, StoreKept, LimitsKept

LEMMA TypeLimits ==
  ASSUME O!OtpAssumption, O!TypeOK, NEW w \in Workers,
         O!CheckBudget(w) \/ O!CheckRateLimit(w) \/ O!Compare(w) \/ O!ClearLimit(w)
  PROVE  O!TypeOK'
  <1>0. CodesStored /\ LimitsOK /\ HistOK /\ WorkOK
    BY TypeParts
  <1>1. WorkOK' /\ CodesStored'
    <2>1. O!End(w) \/ \E pc \in O!PCs : O!Goto(w, pc)
      BY DEF O!CheckBudget, O!CheckRateLimit, O!Compare, O!ClearLimit, O!PCs
    <2>2. UNCHANGED <<codeNow, codes, created>>
      BY DEF O!CheckBudget, O!CheckRateLimit, O!Compare, O!ClearLimit
    <2> QED BY <1>0, <2>1, <2>2, WorkType, StoreKept DEF WorkOK
  <1>2. LimitsOK'
    <2>0. Budget \in Nat /\ SendLimit \in Nat
      BY DEF O!OtpAssumption
    <2>1. CASE O!CheckBudget(w)
      BY <1>0, <2>0, <2>1 DEF O!CheckBudget, LimitsOK
    <2>2. CASE O!CheckRateLimit(w)
      BY <1>0, <2>0, <2>2 DEF O!CheckRateLimit, LimitsOK
    <2>3. CASE O!Compare(w) \/ O!ClearLimit(w)
      BY <1>0, <2>0, <2>3 DEF O!Compare, O!ClearLimit, LimitsOK
    <2> QED BY <2>1, <2>2, <2>3
  <1>3. HistOK'
    <2>1. CASE O!Compare(w)
      <3>1. compared' = [compared EXCEPT ![work[w].code] = compared[work[w].code] + 1]
        BY <2>1 DEF O!Compare
      <3>2. compared \in [O!CodeId -> Nat]
        BY <1>0 DEF HistOK
      <3>3. compared' \in [O!CodeId -> Nat]
        BY <3>1, <3>2, CountType, Zenon
      <3> QED BY <1>0, <2>1, <3>3 DEF O!Compare, HistOK
    <2>2. CASE ~O!Compare(w)
      BY <1>0, <2>2, HistKept DEF O!CheckBudget, O!CheckRateLimit, O!ClearLimit
    <2> QED BY <2>1, <2>2
  <1> QED BY <1>1, <1>2, <1>3, TypeNow

LEMMA TypeCreate ==
  ASSUME O!OtpAssumption, O!TypeOK, NEW w \in Workers, O!CreateOtp(w)
  PROVE  O!TypeOK'
  <1>0. CodesStored /\ LimitsOK /\ HistOK /\ WorkOK
    BY TypeParts
  <1>1. LimitsOK' /\ HistOK'
    BY <1>0, LimitsKept, HistKept DEF O!CreateOtp
  <1>2. CASE O!End(w) /\ UNCHANGED <<codes, created>>
    BY <1>0, <1>1, <1>2, WorkType, TypeNow, StoreKept DEF O!CreateOtp, WorkOK
  <1>3. CASE ~(O!End(w) /\ UNCHANGED <<codes, created>>)
    <2>1. PICK c \in O!CodeId : c = created + 1
      BY <1>0, <1>3 DEF O!CreateOtp, CodesStored, O!OtpAssumption, O!CodeId
    <2> DEFINE x == [O!NoCode EXCEPT !.stored = TRUE, !.of = work[w].of, !.expiresAt = codeNow + Lifetime]
               q == [work[w] EXCEPT !.pc = "provider", !.code = c]
    <2>2. /\ created' = c /\ codeNow' = codeNow
          /\ codes' = [codes EXCEPT ![c] = x] /\ work' = [work EXCEPT ![w] = q]
      BY <1>3, <2>1 DEF O!CreateOtp
    <2>3. x \in O!Code
      <3>1. codeNow + Lifetime \in 0 .. MaxCodeTime + Lifetime /\ 0 \in 0 .. MaxAttempts
        BY <1>0 DEF CodesStored, O!OtpAssumption, O!Time
      <3> QED BY <3>1, HeldType DEF O!NoCode, O!Code
    <2>4. q \in O!Work
      BY HeldType DEF O!Work, O!PCs
    <2>5. created' \in 0 .. MaxCodes
      BY <2>2 DEF O!CodeId, O!OtpAssumption
    <2> HIDE DEF x, q
    <2> QED BY <1>0, <1>1, <2>2, <2>3, <2>4, <2>5, TypeNow DEF CodesStored, WorkOK
  <1> QED BY <1>2, <1>3

\* A code keeps its shape when a field changes.
LEMMA FieldTypes ==
  ASSUME NEW x \in O!Code, NEW at \in O!Time \cup {O!Never}
  PROVE  /\ [x EXCEPT !.deliveredAt = at, !.superseded = FALSE] \in O!Code
         /\ [x EXCEPT !.superseded = TRUE] \in O!Code
         /\ [x EXCEPT !.stored = FALSE] \in O!Code
         /\ [x EXCEPT !.verified = TRUE] \in O!Code
  BY DEF O!Code

LEMMA AttemptType ==
  ASSUME O!OtpAssumption, NEW x \in O!Code, x.attempts < MaxAttempts
  PROVE  [x EXCEPT !.attempts = x.attempts + 1] \in O!Code
  <1>1. x.attempts + 1 \in 0 .. MaxAttempts
    BY DEF O!Code, O!OtpAssumption
  <1> QED BY <1>1 DEF O!Code

LEMMA TypeProvider ==
  ASSUME O!OtpAssumption, O!TypeOK, NEW w \in Workers, O!ProviderAnswers(w), work[w].code \in O!CodeId
  PROVE  O!TypeOK'
  <1>0. CodesStored /\ LimitsOK /\ HistOK /\ WorkOK
    BY TypeParts
  <1>1. CodesStored' /\ LimitsOK'
    BY <1>0, StoreKept, LimitsKept DEF O!ProviderAnswers
  <1>2. HistOK'
    <2>1. inbox' \subseteq O!CodeId
      BY <1>0 DEF O!ProviderAnswers, HistOK
    <2> QED BY <1>0, <2>1 DEF O!ProviderAnswers, HistOK, O!hist
  <1>3. WorkOK'
    <2>1. CASE O!Fail(w)
      BY <2>1, WorkType DEF WorkOK
    <2>2. CASE ~O!Fail(w)
      <3>1. work' = [work EXCEPT ![w] = [work[w] EXCEPT !.pc = "activate", !.at = codeNow]]
        BY <2>2 DEF O!ProviderAnswers
      <3>2. [work[w] EXCEPT !.pc = "activate", !.at = codeNow] \in O!Work
        BY <1>0 DEF WorkOK, O!Work, O!PCs, CodesStored
      <3> QED BY <1>0, <3>1, <3>2 DEF WorkOK
    <2> QED BY <2>1, <2>2
  <1> QED BY <1>1, <1>2, <1>3, TypeNow

LEMMA TypeDelivery ==
  ASSUME O!OtpAssumption, O!TypeOK, NEW w \in Workers, O!Activate(w) \/ O!Supersede(w) \/ O!Rollback(w),
         work[w].code \in O!CodeId
  PROVE  O!TypeOK'
  <1>0. CodesStored /\ LimitsOK /\ HistOK /\ WorkOK
    BY TypeParts
  <1>1. LimitsOK' /\ WorkOK'
    <2>1. WorkOK'
      <3>1. CASE O!End(w) \/ O!Fail(w)
        BY <3>1, WorkType DEF WorkOK
      <3>2. CASE ~(O!End(w) \/ O!Fail(w))
        <4>1. work' = [work EXCEPT ![w] = [work[w] EXCEPT !.pc = "supersede", !.at = O!Never]]
          BY <3>2 DEF O!Activate, O!Supersede, O!Rollback
        <4>2. [work[w] EXCEPT !.pc = "supersede", !.at = O!Never] \in O!Work
          BY <1>0 DEF WorkOK, O!Work, O!PCs
        <4> QED BY <1>0, <4>1, <4>2 DEF WorkOK
      <3> QED BY <3>1, <3>2
    <2> QED BY <1>0, <2>1, LimitsKept DEF O!Activate, O!Supersede, O!Rollback
  <1>2. PICK c \in O!CodeId : c = work[w].code
    BY Zenon
  <1>3. codes' \in [O!CodeId -> O!Code]
    <2>1. codes \in [O!CodeId -> O!Code] /\ work[w].at \in O!Time \cup {O!Never}
      BY <1>0, HeldType DEF CodesStored
    <2>2. CASE UNCHANGED codes
      BY <2>1, <2>2
    <2>3. CASE O!Supersede(w) /\ ~UNCHANGED codes
      <3>1. codes' = [d \in O!CodeId |-> IF O!Retires(c, d) THEN [codes[d] EXCEPT !.superseded = TRUE]
                                       ELSE codes[d]]
        BY <1>2, <2>3 DEF O!Supersede, O!Superseding
      <3>2. \A d \in O!CodeId : codes[d] \in O!Code /\ [codes[d] EXCEPT !.superseded = TRUE] \in O!Code
        BY <2>1, FieldTypes DEF O!Never
      <3> QED BY <3>1, <3>2
    <2>4. CASE (O!Activate(w) \/ O!Rollback(w)) /\ ~UNCHANGED codes
      <3>1. codes' \in {[codes EXCEPT ![c] = [codes[c] EXCEPT !.deliveredAt = work[w].at,
                                                             !.superseded = FALSE]],
                        [codes EXCEPT ![c] = [codes[c] EXCEPT !.stored = FALSE]]}
        BY <1>2, <2>4 DEF O!Activate, O!Rollback
      <3>2. codes[c] \in O!Code
        BY <2>1
      <3>3. /\ [codes[c] EXCEPT !.deliveredAt = work[w].at, !.superseded = FALSE] \in O!Code
            /\ [codes[c] EXCEPT !.stored = FALSE] \in O!Code
        BY <2>1, <3>2, FieldTypes
      <3> QED BY <3>1, <3>3, CodeType
    <2> QED BY <2>2, <2>3, <2>4
  <1>4. HistOK'
    <2>1. work[w].before \subseteq O!CodeId
      BY <1>0 DEF WorkOK, O!Work
    <2>2. obsolete' \subseteq O!CodeId /\ unseen' \subseteq O!CodeId
      BY <1>0, <1>2, <2>1 DEF O!Activate, O!Supersede, O!Rollback, HistOK, O!hist
    <2> QED BY <1>0, <2>2 DEF O!Activate, O!Supersede, O!Rollback, HistOK, O!hist
  <1>5. CodesStored'
    BY <1>0, <1>3 DEF CodesStored, O!Activate, O!Supersede, O!Rollback
  <1> QED BY <1>1, <1>4, <1>5, TypeNow

LEMMA TypeVerify ==
  ASSUME O!OtpAssumption, O!TypeOK, NEW w \in Workers, O!Reserve(w) \/ O!MarkAsVerified(w)
  PROVE  O!TypeOK'
  <1>0. CodesStored /\ LimitsOK /\ HistOK /\ WorkOK
    BY TypeParts
  <1>1. LimitsOK'
    BY <1>0, LimitsKept DEF O!Reserve, O!MarkAsVerified
  <1>2. CASE O!Reserve(w)
    <2>1. HistOK'
      BY <1>0, <1>2, HistKept DEF O!Reserve
    <2>2. CASE O!End(w) /\ UNCHANGED codes
      BY <1>0, <1>1, <1>2, <2>1, <2>2, WorkType, StoreKept, TypeNow DEF O!Reserve, WorkOK
    <2>3. CASE ~(O!End(w) /\ UNCHANGED codes)
      <3>1. PICK c \in O!CodeId :
              /\ codes[c].attempts < MaxAttempts
              /\ codes' = [codes EXCEPT ![c].attempts = codes[c].attempts + 1]
              /\ work' = [work EXCEPT ![w] = [work[w] EXCEPT !.pc = "compare", !.code = c]]
        BY <1>2, <2>3 DEF O!Reserve, O!Newest, O!Reservable
      <3> DEFINE x == [codes[c] EXCEPT !.attempts = codes[c].attempts + 1]
                 q == [work[w] EXCEPT !.pc = "compare", !.code = c]
      <3>2. codes[c] \in O!Code /\ codes' = [codes EXCEPT ![c] = x]
        BY <1>0, <3>1 DEF CodesStored
      <3>3. x \in O!Code
        BY <3>1, <3>2, AttemptType
      <3>4. q \in O!Work
        BY <1>0 DEF WorkOK, O!Work, O!PCs
      <3> HIDE DEF x, q
      <3>5. codes' \in [O!CodeId -> O!Code]
        BY <3>2, <3>3, CodeType
      <3>6. WorkOK'
        BY <1>0, <3>1, <3>4 DEF WorkOK, q
      <3> QED BY <1>0, <1>1, <1>2, <2>1, <3>5, <3>6, TypeNow DEF O!Reserve, CodesStored
    <2> QED BY <2>2, <2>3
  <1>3. CASE O!MarkAsVerified(w)
    <2>1. WorkOK'
      <3>1. O!End(w) \/ \E pc \in O!PCs : O!Goto(w, pc)
        BY <1>3 DEF O!MarkAsVerified, O!PCs
      <3> QED BY <3>1, WorkType DEF WorkOK
    <2>2. CASE UNCHANGED <<codes, logins>>
      <3>1. HistOK' /\ CodesStored'
        BY <1>0, <1>3, <2>2, HistKept, StoreKept DEF O!MarkAsVerified, O!hist
      <3> QED BY <1>1, <2>1, <3>1, TypeNow
    <2>3. CASE ~UNCHANGED <<codes, logins>>
      <3>1. /\ codes' = [codes EXCEPT ![work[w].code].verified = TRUE]
            /\ logins' = [logins EXCEPT ![work[w].code] = logins[work[w].code] + 1]
        BY <1>3, <2>3 DEF O!MarkAsVerified
      <3>2. logins' \in [O!CodeId -> Nat]
        <4>1. logins \in [O!CodeId -> Nat]
          BY <1>0 DEF HistOK
        <4> QED BY <3>1, <4>1, CountType, Zenon
      <3>3. codes' \in [O!CodeId -> O!Code]
        <4>0. codes \in [O!CodeId -> O!Code]
          BY <1>0 DEF CodesStored
        <4>1. CASE work[w].code \in O!CodeId
          <5>1. [codes[work[w].code] EXCEPT !.verified = TRUE] \in O!Code
            BY <4>0, <4>1, FieldTypes DEF O!Never
          <5>2. codes' = [codes EXCEPT ![work[w].code] = [codes[work[w].code] EXCEPT !.verified = TRUE]]
            BY <3>1
          <5> QED BY <4>1, <5>1, <5>2, CodeType
        <4>2. CASE work[w].code \notin O!CodeId
          BY <3>1, <4>0, <4>2
        <4> QED BY <4>1, <4>2
      <3>4. HistOK' /\ CodesStored'
        BY <1>0, <1>3, <3>2, <3>3 DEF O!MarkAsVerified, HistOK, CodesStored
      <3> QED BY <1>1, <2>1, <3>4, TypeNow
    <2> QED BY <2>2, <2>3
  <1> QED BY <1>2, <1>3

-----------------------------------------------------------------------------
(* Codes and the workers that send and verify them.                             *)

Sending == {"provider", "activate", "supersede", "rollback"}
Sends(w, c) == work[w].pc \in Sending /\ work[w].code = c

\* A code whose send has come to its end, with success.
Settled(c) ==
  /\ c \in O!CodeId /\ c <= created
  /\ codes[c].deliveredAt # O!Never
  /\ \A w \in Workers : ~Sends(w, c)

\* What a worker knows: it sends a code of its own, and the codes it saw completed
\* were delivered before.
WorkerOK(q) ==
  /\ q.pc \in Sending \cup {"compare", "mark"} => q.code \in O!CodeId /\ q.code <= created
  /\ q.pc \in {"provider", "activate", "supersede"} => codes[q.code].of = q.of
  /\ q.pc \in {"provider", "activate"} => codes[q.code].deliveredAt = O!Never
  /\ q.pc = "activate" => q.at \in O!Time /\ q.at <= codeNow
  /\ q.pc = "supersede" => codes[q.code].deliveredAt \in O!Time
  /\ \A d \in q.before :
       /\ Settled(d) /\ codes[d].of = q.of
       /\ q.pc = "activate" => codes[d].deliveredAt <= q.at
       /\ q.pc = "supersede" => codes[d].deliveredAt <= codes[q.code].deliveredAt

Fresh ==
  \A c \in O!CodeId : c > created => codes[c] = O!NoCode /\ compared[c] = 0 /\ logins[c] = 0
WorkersOK == \A w \in Workers : WorkerOK(work[w])
OneSender == \A w, v \in Workers, c \in O!CodeId : Sends(w, c) /\ Sends(v, c) => w = v
LoginsCounted == \A c \in O!CodeId : logins[c] = IF codes[c].verified THEN 1 ELSE 0
Past == \A c \in O!CodeId : codes[c].deliveredAt <= codeNow
Gone(c) == ~codes[c].stored \/ codes[c].verified \/ codes[c].superseded
ObsoleteGone == \A c \in obsolete : Settled(c) /\ Gone(c)

SafeInv == Fresh /\ WorkersOK /\ OneSender /\ LoginsCounted /\ Past /\ ObsoleteGone

LEMMA SafeInit == O!Init => SafeInv
  <1> SUFFICES ASSUME O!Init PROVE SafeInv
    OBVIOUS
  <1>1. /\ \A c \in O!CodeId : codes[c] = O!NoCode /\ compared[c] = 0 /\ logins[c] = 0
        /\ \A w \in Workers : work[w] = O!Idle
        /\ obsolete = {} /\ codeNow = 1
    BY DEF O!Init
  <1>2. O!Idle.pc = "idle" /\ O!Idle.before = {} /\ O!NoCode.verified = FALSE /\ O!NoCode.deliveredAt = 0
    BY DEF O!Idle, O!NoCode, O!Never
  <1>3. Fresh /\ LoginsCounted /\ Past /\ ObsoleteGone
    BY <1>1, <1>2 DEF Fresh, LoginsCounted, Past, ObsoleteGone
  <1>4. WorkersOK /\ OneSender
    BY <1>1, <1>2 DEF WorkersOK, WorkerOK, OneSender, Sends, Sending
  <1> QED BY <1>3, <1>4 DEF SafeInv

\* A step in which no code is created or delivered: worker w ends, goes on with its
\* code, or takes up something that is no send.
Aged ==
  /\ created' = created /\ codeNow' >= codeNow
  /\ \A c \in O!CodeId : /\ codes'[c].of = codes[c].of
                         /\ codes'[c].deliveredAt = codes[c].deliveredAt
                         /\ c > created => codes'[c] = codes[c]
Steady(w, q) ==
  /\ q \in O!Work /\ work' = [work EXCEPT ![w] = q]
  /\ Aged
  /\ q.pc \in Sending => Sends(w, q.code)

LEMMA SteadySettled ==
  ASSUME O!TypeOK, O!TypeOK', NEW w \in Workers, NEW q, Steady(w, q), NEW d, Settled(d)
  PROVE  Settled(d)' /\ codes'[d].of = codes[d].of /\ codes'[d].deliveredAt = codes[d].deliveredAt
  <1>1. work \in [Workers -> O!Work]
    BY TypeParts DEF WorkOK
  <1>2. ASSUME NEW v \in Workers, Sends(v, d)' PROVE Sends(v, d)
    BY <1>1, <1>2 DEF Steady, Sends
  <1> QED BY <1>2 DEF Steady, Aged, Settled

\* No settled code is taken up again.
SettledStay == \A d \in O!CodeId : Settled(d) => Settled(d)'

LEMMA SteadyKeeps ==
  ASSUME O!OtpAssumption, O!TypeOK, O!TypeOK', SafeInv, NEW w \in Workers, NEW q, Steady(w, q), WorkerOK(q)'
  PROVE  WorkersOK' /\ OneSender' /\ Past' /\ SettledStay
  <1>0. /\ work \in [Workers -> O!Work] /\ codeNow \in Nat /\ codeNow' \in Nat
        /\ codes \in [O!CodeId -> O!Code]
    <2>1. O!Time \subseteq Nat
      BY DEF O!OtpAssumption, O!Time
    <2>2. work \in [Workers -> O!Work] /\ codes \in [O!CodeId -> O!Code] /\ codeNow \in O!Time /\ codeNow' \in O!Time
      BY DEF O!TypeOK
    <2> QED BY <2>1, <2>2
  <1>1. ASSUME NEW v \in Workers, v # w PROVE WorkerOK(work[v])'
    <2>1. work'[v] = work[v] /\ WorkerOK(work[v]) /\ work[v] \in O!Work
      BY <1>0, <1>1 DEF Steady, SafeInv, WorkersOK
    <2>2. /\ work[v].pc \in Sending \cup {"compare", "mark"} => work[v].code \in O!CodeId /\ work[v].code <= created'
          /\ work[v].pc \in {"provider", "activate", "supersede"} => codes'[work[v].code].of = work[v].of
          /\ work[v].pc \in {"provider", "activate"} => codes'[work[v].code].deliveredAt = O!Never
          /\ work[v].pc = "supersede" =>
               /\ codes'[work[v].code].deliveredAt = codes[work[v].code].deliveredAt
               /\ codes[work[v].code].deliveredAt \in O!Time
      BY <2>1 DEF WorkerOK, Steady, Aged, Sending
    <2>3. work[v].pc = "activate" => work[v].at \in O!Time /\ work[v].at <= codeNow'
      BY <1>0, <2>1 DEF WorkerOK, Steady, Aged, O!Time
    <2>4. ASSUME NEW d \in work[v].before
          PROVE  /\ Settled(d)' /\ codes'[d].of = work[v].of
                 /\ work[v].pc = "activate" => codes'[d].deliveredAt <= work[v].at
                 /\ work[v].pc = "supersede" => codes'[d].deliveredAt <= codes'[work[v].code].deliveredAt
      BY <2>1, <2>2, <2>4, SteadySettled DEF WorkerOK
    <2>5. PICK x \in O!Work : x = work[v] /\ x = work'[v]
      BY <2>1
    <2>6. WorkerOK(x)'
      BY <2>2, <2>3, <2>4, <2>5 DEF WorkerOK
    <2> QED BY <2>5, <2>6 DEF WorkerOK
  <1>2. WorkersOK'
    <2>1. work'[w] = q
      BY <1>0 DEF Steady
    <2>2. WorkerOK(work[w])'
      BY <2>1 DEF WorkerOK
    <2> QED BY <1>1, <2>2 DEF WorkersOK
  <1>3. OneSender'
    BY <1>0 DEF OneSender, Sends, Steady, SafeInv
  <1>4. Past'
    <2>1. \A c \in O!CodeId : codes[c].deliveredAt \in Nat
      BY <1>0 DEF O!Code, O!Time, O!Never
    <2> QED BY <1>0, <2>1 DEF Past, Steady, Aged, SafeInv
  <1>5. SettledStay
    BY SteadySettled DEF SettledStay
  <1> QED BY <1>2, <1>3, <1>4, <1>5

\* A worker that ends or goes on with what it knows.
LEMMA Going ==
  ASSUME O!OtpAssumption, O!TypeOK, O!TypeOK', SafeInv, Aged, codeNow' = codeNow, NEW w \in Workers,
         \/ O!End(w)
         \/ O!Fail(w) /\ work[w].pc \in Sending
         \/ \E pc \in {"limit", "create", "mark", "clear"} :
              /\ O!Goto(w, pc)
              /\ pc = "mark" => work[w].pc = "compare"
  PROVE  WorkersOK' /\ OneSender' /\ Past' /\ SettledStay
  <1>0. work[w] \in O!Work /\ WorkerOK(work[w])
    BY HeldType DEF SafeInv, WorkersOK
  <1>1. CASE O!End(w)
    <2>1. PICK q \in O!Work : q = O!Idle
      BY DEF O!Idle, O!Work, O!PCs
    <2>2. q.pc = "idle" /\ q.before = {}
      BY <2>1 DEF O!Idle
    <2>3. Steady(w, q)
      BY <1>1, <2>1, <2>2 DEF Steady, Sending, O!End
    <2>4. WorkerOK(q)'
      BY <2>2 DEF WorkerOK, Sending
    <2> QED BY <2>3, <2>4, SteadyKeeps
  <1>3. CASE O!Fail(w) /\ work[w].pc \in Sending
    <2>1. [O!Idle EXCEPT !.pc = "rollback", !.code = work[w].code] \in O!Work
      <3>1. work[w].code \in O!CodeId \cup {0} /\ O!Idle \in O!Work
        BY <1>0 DEF O!Work, O!Idle, O!PCs
      <3> QED BY <3>1 DEF O!Work, O!PCs
    <2>2. PICK q \in O!Work : q = [O!Idle EXCEPT !.pc = "rollback", !.code = work[w].code]
      BY <2>1
    <2>3. q.pc = "rollback" /\ q.before = {} /\ q.code = work[w].code
      BY <2>2 DEF O!Idle
    <2>4. Steady(w, q)
      <3>1. work' = [work EXCEPT ![w] = q]
        BY <1>3, <2>2 DEF O!Fail
      <3>2. Sends(w, q.code)
        BY <1>3, <2>3 DEF Sends
      <3> QED BY <3>1, <3>2 DEF Steady
    <2>5. WorkerOK(q)'
      BY <1>0, <1>3, <2>3 DEF WorkerOK, Aged, Sending
    <2> QED BY <2>4, <2>5, SteadyKeeps
  <1>2. CASE ~O!End(w) /\ ~(O!Fail(w) /\ work[w].pc \in Sending)
    <2>1. PICK pc \in {"limit", "create", "mark", "clear"} :
              /\ O!Goto(w, pc)
              /\ pc = "mark" => work[w].pc = "compare"
      BY <1>2
    <2>2. [work[w] EXCEPT !.pc = pc] \in O!Work
      BY <1>0 DEF O!Work, O!PCs
    <2>3. PICK q \in O!Work : q = [work[w] EXCEPT !.pc = pc]
      BY <2>2
    <2>4. q.pc = pc /\ q.code = work[w].code /\ q.of = work[w].of /\ q.before = work[w].before
      BY <1>0, <2>3 DEF O!Work
    <2>5. Steady(w, q)
      <3>1. work' = [work EXCEPT ![w] = q]
        BY <2>1, <2>3 DEF O!Goto
      <3>2. q.pc \in Sending => Sends(w, q.code)
        BY <2>1, <2>4 DEF Sends, Sending
      <3> QED BY <3>1, <3>2 DEF Steady
    <2>6. WorkerOK(q)'
      <3>1. \A d \in q.before : Settled(d)' /\ codes'[d].of = q.of
        BY <1>0, <2>4, <2>5, SteadySettled DEF WorkerOK
      <3>2. q.pc \notin Sending
        BY <2>1, <2>4 DEF Sending
      <3>3. q.pc = "mark" => q.code \in O!CodeId /\ q.code <= created'
        BY <1>0, <2>1, <2>4 DEF WorkerOK, Aged
      <3>4. q.pc \notin {"provider", "activate", "supersede", "compare"}
        BY <2>1, <2>4
      <3> QED BY <3>1, <3>2, <3>3, <3>4 DEF WorkerOK
    <2> QED BY <2>5, <2>6, SteadyKeeps
  <1> QED BY <1>1, <1>2, <1>3

\* A send remembers the codes that are settled.
LEMMA Beginning ==
  ASSUME O!OtpAssumption, O!TypeOK, O!TypeOK', SafeInv, Aged, codeNow' = codeNow, NEW w \in Workers,
         NEW i \in Idents, NEW g,
         O!BeginSend(w, i) \/ O!BeginVerify(w, i, g)
  PROVE  WorkersOK' /\ OneSender' /\ Past' /\ SettledStay
  <1>1. ASSUME NEW d \in O!Complete(i) PROVE Settled(d) /\ codes[d].of = i
    <2>1. d \in O!CodeId /\ O!Delivered(d) /\ codes[d].of = i
      BY DEF O!Complete
    <2>2. d <= created
      <3>1. created \in Nat /\ d \in Nat
        BY <2>1, Numbers
      <3>2. CASE d > created
        BY <2>1, <3>2 DEF SafeInv, Fresh, O!NoCode, O!Delivered
      <3> QED BY <3>1, <3>2
    <2>3. ASSUME NEW v \in Workers PROVE ~Sends(v, d)
      <3>1. WorkerOK(work[v])
        BY DEF SafeInv, WorkersOK
      <3>2. work[v].code = d => work[v].pc \notin {"supersede", "rollback"}
        BY DEF O!Complete
      <3> QED BY <2>1, <3>1, <3>2 DEF Sends, Sending, WorkerOK, O!Delivered
    <2> QED BY <2>1, <2>2, <2>3 DEF Settled, O!Delivered
  <1>2. CASE UNCHANGED work
    <2>1. PICK q \in O!Work : q = work[w]
      BY HeldType
    <2>2. Steady(w, q)
      BY <1>2, <2>1 DEF Steady, Sends, O!TypeOK
    <2>3. WorkerOK(q)
      BY <2>1 DEF SafeInv, WorkersOK
    <2>4. \A d \in q.before : Settled(d)' /\ codes'[d].of = codes[d].of
                              /\ codes'[d].deliveredAt = codes[d].deliveredAt
      BY <2>2, <2>3, SteadySettled DEF WorkerOK
    <2>5. WorkerOK(q)'
      BY <2>3, <2>4 DEF WorkerOK, Aged, Sending
    <2> QED BY <2>2, <2>5, SteadyKeeps
  <1>3. CASE ~UNCHANGED work
    <2>1. PICK q : /\ work' = [work EXCEPT ![w] = q] /\ q \in O!Work
                   /\ q.pc \in {"budget", "limit", "reserve"} /\ q.of = i
                   /\ q.before \in {{}, O!Complete(i)}
      <3>1. work'[w] \in O!Work
        BY DEF O!TypeOK
      <3>2. /\ work' = [work EXCEPT ![w] = work'[w]]
            /\ work'[w].pc \in {"budget", "limit", "reserve"} /\ work'[w].of = i
            /\ work'[w].before \in {{}, O!Complete(i)}
        <4>1. work \in [Workers -> O!Work]
          BY DEF O!TypeOK
        <4>2. CASE O!BeginVerify(w, i, g)
          BY <4>1, <4>2 DEF O!BeginVerify, O!Idle
        <4>3. CASE O!BeginSend(w, i)
          <5>1. PICK pc \in {"budget", "limit"} :
                  work' = [work EXCEPT ![w] = [O!Idle EXCEPT !.of = i, !.before = O!Complete(i),
                                                           !.pc = pc]]
            BY <1>3, <4>3 DEF O!BeginSend
          <5> QED BY <4>1, <5>1 DEF O!Idle
        <4> QED BY <4>2, <4>3
      <3> QED BY <3>1, <3>2
    <2>2. Steady(w, q)
      BY <2>1 DEF Steady, Sending
    <2>3. \A d \in q.before : Settled(d)' /\ codes'[d].of = q.of
      BY <1>1, <2>1, <2>2, SteadySettled
    <2>4. WorkerOK(q)'
      BY <2>1, <2>3 DEF WorkerOK, Sending
    <2> QED BY <2>2, <2>4, SteadyKeeps
  <1> QED BY <1>2, <1>3

\* What is left of SafeInv, for codes that only age.
LEMMA Settling ==
  ASSUME O!TypeOK, SafeInv, SettledStay, \A c \in O!CodeId : Gone(c) => Gone(c)',
         obsolete' = obsolete
  PROVE  ObsoleteGone'
  <1>1. \A c \in obsolete : c \in O!CodeId /\ Settled(c) /\ Gone(c)
    BY DEF O!TypeOK, SafeInv, ObsoleteGone
  <1> QED BY <1>1 DEF ObsoleteGone, SettledStay

\* The codes, and who was let in, are left alone.
LEMMA CodesAlone ==
  ASSUME O!TypeOK, SafeInv, UNCHANGED <<codes, created, logins, obsolete>>,
         \A c \in O!CodeId : c > created => compared'[c] = compared[c],
         WorkersOK', OneSender', Past', SettledStay
  PROVE  SafeInv'
  <1>1. Fresh'
    BY DEF SafeInv, Fresh
  <1>2. LoginsCounted'
    BY DEF SafeInv, LoginsCounted
  <1>3. ObsoleteGone'
    BY Settling DEF Gone
  <1> QED BY <1>1, <1>2, <1>3 DEF SafeInv

LEMMA SafeQuiet ==
  ASSUME O!OtpAssumption, O!TypeOK, O!TypeOK', SafeInv, NEW w \in Workers,
         \/ \E i \in Idents, g \in O!CodeId \cup {0} :
              O!BeginSend(w, i) \/ O!BeginVerify(w, i, g)
         \/ O!CheckBudget(w) \/ O!CheckRateLimit(w) \/ O!ClearLimit(w)
         \/ O!Compare(w)
         \/ (O!CreateOtp(w) \/ O!Activate(w) \/ O!Supersede(w))
              /\ UNCHANGED <<codes, created, obsolete>> /\ (O!End(w) \/ O!Fail(w))
  PROVE  SafeInv'
  <1>1. UNCHANGED <<codeNow, codes, created, logins, obsolete>>
    BY DEF O!BeginSend, O!BeginVerify, O!CheckBudget, O!CheckRateLimit, O!ClearLimit, O!Compare,
       O!CreateOtp, O!Activate, O!Supersede, O!hist
  <1>2. Aged
    <2>1. codeNow \in Nat
      BY Numbers
    <2> QED BY <1>1, <2>1 DEF Aged
  <1>3. WorkersOK' /\ OneSender' /\ Past' /\ SettledStay
    <2>1. CASE \E i \in Idents, g \in O!CodeId \cup {0} :
                 O!BeginSend(w, i) \/ O!BeginVerify(w, i, g)
      BY <1>1, <1>2, <2>1, Beginning
    <2>2. CASE O!CheckBudget(w) \/ O!CheckRateLimit(w) \/ O!ClearLimit(w) \/ O!Compare(w)
      BY <1>1, <1>2, <2>2, Going DEF O!CheckBudget, O!CheckRateLimit, O!ClearLimit, O!Compare, O!At
    <2>3. CASE (O!CreateOtp(w) \/ O!Activate(w) \/ O!Supersede(w))
                 /\ UNCHANGED <<codes, created, obsolete>> /\ (O!End(w) \/ O!Fail(w))
      <3>1. O!End(w) \/ (O!Fail(w) /\ work[w].pc \in Sending)
        <4>1. CASE O!CreateOtp(w)
          <5>1. created' = created /\ created + 1 # created
            BY <1>1, Numbers
          <5> QED BY <4>1, <5>1 DEF O!CreateOtp
        <4>2. CASE O!Activate(w) \/ O!Supersede(w)
          BY <2>3, <4>2 DEF O!Activate, O!Supersede, O!At, Sending
        <4> QED BY <2>3, <4>1, <4>2
      <3> QED BY <1>1, <1>2, <3>1, Going
    <2> QED BY <2>1, <2>2, <2>3
  <1>4. ASSUME NEW c \in O!CodeId, c > created PROVE compared'[c] = compared[c]
    <2>1. CASE O!Compare(w)
      <3>1. WorkerOK(work[w]) /\ work[w].pc = "compare"
        BY <2>1 DEF SafeInv, WorkersOK, O!Compare, O!At
      <3>2. work[w].code # c
        BY <1>4, <3>1, Numbers DEF WorkerOK
      <3>3. compared \in [O!CodeId -> Nat]
        BY DEF O!TypeOK
      <3> QED BY <2>1, <3>2, <3>3 DEF O!Compare
    <2>2. CASE ~O!Compare(w)
      BY <2>2 DEF O!BeginSend, O!BeginVerify, O!CheckBudget, O!CheckRateLimit, O!ClearLimit,
         O!CreateOtp, O!Activate, O!Supersede, O!hist
    <2> QED BY <2>1, <2>2
  <1> QED BY <1>1, <1>3, <1>4, CodesAlone

LEMMA SafeProvider ==
  ASSUME O!OtpAssumption, O!TypeOK, O!TypeOK', SafeInv, NEW w \in Workers, O!ProviderAnswers(w)
  PROVE  SafeInv'
  <1>0. /\ UNCHANGED <<codeNow, codes, created, logins, obsolete, compared>> /\ codeNow \in Nat
        /\ codeNow \in O!Time
    BY Numbers DEF O!ProviderAnswers, O!hist
  <1>1. work[w] \in O!Work /\ WorkerOK(work[w]) /\ work[w].pc = "provider"
    BY HeldType DEF SafeInv, WorkersOK, O!ProviderAnswers, O!At
  <1>2. Aged
    BY <1>0 DEF Aged
  <1>3. CASE O!Fail(w)
    BY <1>0, <1>1, <1>2, <1>3, Going, CodesAlone DEF Sending
  <1>4. CASE ~O!Fail(w)
    <2>1. work' = [work EXCEPT ![w] = [work[w] EXCEPT !.pc = "activate", !.at = codeNow]]
      BY <1>4 DEF O!ProviderAnswers
    <2>2. [work[w] EXCEPT !.pc = "activate", !.at = codeNow] \in O!Work
      BY <1>0, <1>1 DEF O!Work, O!PCs
    <2>3. PICK q \in O!Work : q = [work[w] EXCEPT !.pc = "activate", !.at = codeNow]
      BY <2>2
    <2>4. /\ q.pc = "activate" /\ q.code = work[w].code /\ q.of = work[w].of
          /\ q.before = work[w].before /\ q.at = codeNow
      BY <1>1, <2>3 DEF O!Work
    <2>5. Steady(w, q)
      BY <1>1, <1>2, <2>1, <2>3, <2>4 DEF Steady, Sends, Sending
    <2>6. WorkerOK(q)'
      <3>1. ASSUME NEW d \in q.before
            PROVE  Settled(d)' /\ codes'[d].of = q.of /\ codes'[d].deliveredAt <= q.at
        <4>1. Settled(d) /\ codes[d].of = q.of
          BY <1>1, <2>4, <3>1 DEF WorkerOK
        <4>2. codes[d].deliveredAt <= codeNow
          BY <4>1 DEF Settled, SafeInv, Past
        <4> QED BY <1>0, <2>4, <2>5, <4>1, <4>2, SteadySettled
      <3>2. q.code \in O!CodeId /\ q.code <= created' /\ codes'[q.code].of = q.of
            /\ codes'[q.code].deliveredAt = O!Never
        BY <1>0, <1>1, <2>4 DEF WorkerOK, Sending
      <3>3. q.at \in O!Time /\ q.at <= codeNow'
        BY <1>0, <2>4
      <3> QED BY <2>4, <3>1, <3>2, <3>3 DEF WorkerOK
    <2> QED BY <1>0, <2>5, <2>6, SteadyKeeps, CodesAlone
  <1> QED BY <1>3, <1>4

\* A new code is nobody's but its sender's.
LEMMA SafeCreate ==
  ASSUME O!OtpAssumption, O!TypeOK, O!TypeOK', SafeInv, NEW w \in Workers,
         O!CreateOtp(w), ~(O!End(w) /\ UNCHANGED <<codes, created>>)
  PROVE  SafeInv'
  <1>0. /\ work[w] \in O!Work /\ WorkerOK(work[w]) /\ work[w].pc = "create"
        /\ work \in [Workers -> O!Work] /\ codes \in [O!CodeId -> O!Code]
        /\ created \in Nat /\ codeNow \in Nat /\ codeNow \in O!Time
    BY HeldType, Numbers DEF SafeInv, WorkersOK, O!CreateOtp, O!At, O!TypeOK
  <1>1. PICK n \in O!CodeId : n = created + 1
    BY <1>0 DEF O!CreateOtp, O!OtpAssumption, O!CodeId
  <1>2. /\ created' = n /\ codeNow' = codeNow
        /\ codes' = [codes EXCEPT ![n] = [O!NoCode EXCEPT !.stored = TRUE, !.of = work[w].of,
                                                        !.expiresAt = codeNow + Lifetime]]
        /\ work' = [work EXCEPT ![w] = [work[w] EXCEPT !.pc = "provider", !.code = n]]
        /\ UNCHANGED <<compared, logins, obsolete>>
    BY <1>1 DEF O!CreateOtp, O!hist
  <1>3. /\ codes'[n].of = work[w].of /\ codes'[n].deliveredAt = O!Never /\ codes'[n].verified = FALSE
        /\ \A c \in O!CodeId \ {n} : codes'[c] = codes[c]
    BY <1>0, <1>2 DEF O!NoCode
  <1>4. PICK q \in O!Work : q = work'[w]
    BY DEF O!TypeOK
  <1>5. /\ q.pc = "provider" /\ q.code = n /\ q.of = work[w].of /\ q.before = work[w].before
        /\ \A v \in Workers \ {w} : work'[v] = work[v]
    BY <1>0, <1>2, <1>4 DEF O!Work
  <1>6. \A v \in Workers : ~Sends(v, n)
    BY <1>0, <1>1 DEF SafeInv, WorkersOK, WorkerOK, Sends
  <1>7. ASSUME NEW d \in O!CodeId, Settled(d) PROVE d # n /\ Settled(d)'
    <2>1. d # n /\ d <= created'
      BY <1>0, <1>1, <1>2, <1>7, Numbers DEF Settled
    <2>2. \A v \in Workers : ~Sends(v, d)'
      BY <1>4, <1>5, <1>7, <2>1 DEF Settled, Sends
    <2> QED BY <1>3, <1>7, <2>1, <2>2 DEF Settled
  <1>8. WorkersOK'
    <2>1. WorkerOK(q)'
      <3>1. ASSUME NEW d \in q.before PROVE Settled(d)' /\ codes'[d].of = q.of
        BY <1>0, <1>3, <1>5, <1>7, <3>1 DEF WorkerOK, Settled
      <3>2. n <= created'
        BY <1>0, <1>1, <1>2
      <3> QED BY <1>3, <1>5, <3>1, <3>2 DEF WorkerOK
    <2>2. ASSUME NEW v \in Workers, v # w PROVE WorkerOK(work[v])'
      <3>1. PICK x \in O!Work : x = work[v] /\ x = work'[v]
        BY <1>0, <1>5, <2>2
      <3>2. WorkerOK(x)
        BY <3>1 DEF SafeInv, WorkersOK
      <3>3. x.pc \in Sending \cup {"compare", "mark"} =>
              x.code \in O!CodeId /\ x.code # n /\ x.code <= created'
        BY <1>0, <1>1, <1>2, <3>2, Numbers DEF WorkerOK
      <3>4. \A d \in x.before : Settled(d)' /\ codes'[d] = codes[d]
        BY <1>3, <1>7, <3>2 DEF WorkerOK, Settled
      <3>5. WorkerOK(x)'
        BY <1>2, <1>3, <3>2, <3>3, <3>4 DEF WorkerOK, Sending
      <3> QED BY <3>1, <3>5 DEF WorkerOK
    <2>3. WorkerOK(work[w])'
      BY <1>4, <2>1 DEF WorkerOK
    <2> QED BY <2>2, <2>3 DEF WorkersOK
  <1>9. OneSender'
    BY <1>4, <1>5, <1>6 DEF OneSender, Sends, SafeInv
  <1>10. Fresh' /\ LoginsCounted'
    <2>1. ASSUME NEW c \in O!CodeId, c > created' PROVE c > created /\ c # n
      BY <1>0, <1>1, <1>2, <2>1, Numbers
    <2>2. Fresh'
      BY <1>2, <1>3, <2>1 DEF SafeInv, Fresh
    <2>3. logins[n] = 0
      BY <1>0, <1>1 DEF SafeInv, Fresh
    <2> QED BY <1>2, <1>3, <2>2, <2>3 DEF SafeInv, LoginsCounted
  <1>11. Past'
    BY <1>0, <1>2, <1>3 DEF SafeInv, Past, O!Never
  <1>12. ObsoleteGone'
    <2>1. \A c \in obsolete : c \in O!CodeId /\ Settled(c) /\ Gone(c)
      BY DEF O!TypeOK, SafeInv, ObsoleteGone
    <2> QED BY <1>2, <1>3, <1>7, <2>1 DEF ObsoleteGone, Gone
  <1> QED BY <1>8, <1>9, <1>10, <1>11, <1>12 DEF SafeInv

\* The delivery touches its own code only, and that is in nobody's memory.
LEMMA SafeActivate ==
  ASSUME O!OtpAssumption, O!TypeOK, O!TypeOK', SafeInv, NEW w \in Workers, O!Activate(w),
         ~(O!Fail(w) /\ UNCHANGED codes)
  PROVE  SafeInv'
  <1>0. /\ work[w] \in O!Work /\ WorkerOK(work[w]) /\ work[w].pc = "activate"
        /\ work \in [Workers -> O!Work] /\ codes \in [O!CodeId -> O!Code]
        /\ created \in Nat /\ codeNow \in Nat /\ codeNow \in O!Time /\ O!Time \subseteq Nat \ {0}
    BY HeldType, Numbers DEF SafeInv, WorkersOK, O!Activate, O!At, O!TypeOK
  <1>1. PICK n \in O!CodeId : n = work[w].code /\ n <= created
    BY <1>0 DEF WorkerOK, Sending
  <1>2. /\ created' = created /\ codeNow' = codeNow
        /\ codes' = [codes EXCEPT ![n] = [codes[n] EXCEPT !.deliveredAt = work[w].at,
                                                          !.superseded = FALSE]]
        /\ work' = [work EXCEPT ![w] = [work[w] EXCEPT !.pc = "supersede", !.at = O!Never]]
        /\ UNCHANGED <<compared, logins, obsolete>>
    BY <1>1 DEF O!Activate, O!hist
  <1>3. /\ codes'[n].of = codes[n].of /\ codes'[n].deliveredAt = work[w].at
        /\ codes'[n].verified = codes[n].verified
        /\ \A c \in O!CodeId \ {n} : codes'[c] = codes[c]
    BY <1>0, <1>2 DEF O!Code
  <1>4. PICK q \in O!Work : q = work'[w]
    BY DEF O!TypeOK
  <1>5. /\ q.pc = "supersede" /\ q.code = n /\ q.of = work[w].of /\ q.before = work[w].before
        /\ \A v \in Workers \ {w} : work'[v] = work[v]
    BY <1>0, <1>1, <1>2, <1>4 DEF O!Work
  <1>6. Sends(w, n) /\ \A v \in Workers \ {w} : ~Sends(v, n)
    BY <1>0, <1>1 DEF SafeInv, OneSender, Sends, Sending
  <1>7. \A d \in O!CodeId : Settled(d) => d # n /\ Settled(d)'
    BY <1>2, <1>3, <1>4, <1>5, <1>6 DEF Settled, Sends
  <1>8. WorkersOK'
    <2>1. WorkerOK(q)'
      <3>1. ASSUME NEW d \in q.before
            PROVE  Settled(d)' /\ codes'[d].of = q.of /\ codes'[d].deliveredAt <= codes'[n].deliveredAt
        BY <1>0, <1>3, <1>5, <1>7, <3>1 DEF WorkerOK, Settled
      <3> QED BY <1>0, <1>1, <1>2, <1>3, <1>5, <3>1 DEF WorkerOK, Sending
    <2>2. ASSUME NEW v \in Workers, v # w PROVE WorkerOK(work[v])'
      <3>1. PICK x \in O!Work : x = work[v] /\ x = work'[v]
        BY <1>0, <1>5, <2>2
      <3>2. WorkerOK(x)
        BY <3>1 DEF SafeInv, WorkersOK
      <3>3. x.pc \in Sending => x.code # n
        BY <1>6, <2>2, <3>1 DEF Sends
      <3>4. \A d \in x.before : Settled(d)' /\ codes'[d] = codes[d]
        BY <1>3, <1>7, <3>2 DEF WorkerOK, Settled
      <3>5. WorkerOK(x)'
        BY <1>2, <1>3, <3>2, <3>3, <3>4 DEF WorkerOK, Sending
      <3> QED BY <3>1, <3>5 DEF WorkerOK
    <2>3. WorkerOK(work[w])'
      BY <1>4, <2>1 DEF WorkerOK
    <2> QED BY <2>2, <2>3 DEF WorkersOK
  <1>9. OneSender'
    BY <1>4, <1>5, <1>6 DEF OneSender, Sends, SafeInv
  <1>10. Fresh' /\ LoginsCounted'
    BY <1>0, <1>1, <1>2, <1>3, Numbers DEF SafeInv, Fresh, LoginsCounted
  <1>11. Past'
    BY <1>0, <1>2, <1>3 DEF SafeInv, Past, WorkerOK
  <1>12. ObsoleteGone'
    <2>1. \A c \in obsolete : c \in O!CodeId /\ Settled(c) /\ Gone(c)
      BY DEF O!TypeOK, SafeInv, ObsoleteGone
    <2> QED BY <1>2, <1>3, <1>7, <2>1 DEF ObsoleteGone, Gone
  <1> QED BY <1>8, <1>9, <1>10, <1>11, <1>12 DEF SafeInv

\* Codes age, and a worker goes on.
LEMMA AgedKeeps ==
  ASSUME O!TypeOK, SafeInv, Aged, WorkersOK', OneSender', Past', SettledStay, UNCHANGED compared,
         \A c \in O!CodeId : c > created => logins'[c] = logins[c],
         LoginsCounted', ObsoleteGone'
  PROVE  SafeInv'
  <1>1. Fresh'
    BY DEF SafeInv, Fresh, Aged
  <1> QED BY <1>1 DEF SafeInv

\* What a completed send retires are the codes it saw completed, and others.
LEMMA SafeSupersede ==
  ASSUME O!OtpAssumption, O!TypeOK, O!TypeOK', SafeInv, NEW w \in Workers, O!Supersede(w),
         ~(O!Fail(w) /\ UNCHANGED <<codes, obsolete>>)
  PROVE  SafeInv'
  <1>0. /\ work[w] \in O!Work /\ WorkerOK(work[w]) /\ work[w].pc = "supersede"
        /\ codes \in [O!CodeId -> O!Code] /\ created \in Nat /\ codeNow \in Nat
    BY HeldType, Numbers DEF SafeInv, WorkersOK, O!Supersede, O!At, O!TypeOK
  <1>1. PICK n \in O!CodeId : n = work[w].code /\ n <= created
    BY <1>0 DEF WorkerOK, Sending
  <1>2. /\ codes' = [d \in O!CodeId |->
             IF O!Retires(n, d) THEN [codes[d] EXCEPT !.superseded = TRUE] ELSE codes[d]]
        /\ obsolete' \in {obsolete, obsolete \cup work[w].before}
        /\ O!End(w) \/ O!Fail(w)
        /\ UNCHANGED <<codeNow, created, compared, logins>>
    BY <1>1 DEF O!Supersede, O!Superseding
  <1>3. \A d \in O!CodeId :
          /\ codes'[d].of = codes[d].of /\ codes'[d].deliveredAt = codes[d].deliveredAt
          /\ codes'[d].verified = codes[d].verified /\ codes'[d].stored = codes[d].stored
          /\ O!Retires(n, d) => codes'[d].superseded = TRUE
          /\ ~O!Retires(n, d) => codes'[d] = codes[d]
    <2>1. \A d \in O!CodeId : codes[d] \in O!Code
      BY <1>0
    <2> QED BY <1>2, <2>1 DEF O!Code
  <1>4. Aged
    <2>1. \A d \in O!CodeId : d > created => ~O!Retires(n, d)
      BY DEF O!Retires, SafeInv, Fresh, O!NoCode, O!Delivered
    <2> QED BY <1>0, <1>2, <1>3, <2>1 DEF Aged
  <1>5. WorkersOK' /\ OneSender' /\ Past' /\ SettledStay
    BY <1>0, <1>2, <1>4, Going DEF Sending
  <1>6. \A d \in O!CodeId : Gone(d) => Gone(d)'
    BY <1>3 DEF Gone
  <1>7. ASSUME NEW d \in obsolete' PROVE Settled(d)' /\ Gone(d)'
    <2>1. CASE d \in obsolete
      BY <1>5, <1>6, <2>1 DEF SafeInv, ObsoleteGone, SettledStay, O!TypeOK
    <2>2. CASE d \in work[w].before
      <3>1. /\ Settled(d) /\ codes[d].of = work[w].of
            /\ codes[d].deliveredAt <= codes[n].deliveredAt /\ codes[n].of = work[w].of
            /\ d \in O!CodeId
        BY <1>0, <1>1, <2>2 DEF WorkerOK, Sending, Settled
      <3>2. d # n
        BY <1>0, <1>1, <3>1 DEF Settled, Sends, Sending
      <3>3. Gone(d) \/ O!Retires(n, d)
        BY <3>1, <3>2 DEF Gone, O!Retires, O!Delivered, Settled
      <3>4. Gone(d)'
        BY <1>3, <1>6, <3>1, <3>3 DEF Gone
      <3> QED BY <1>5, <3>1, <3>4 DEF SettledStay
    <2> QED BY <1>2, <1>7, <2>1, <2>2
  <1>8. LoginsCounted'
    BY <1>2, <1>3 DEF SafeInv, LoginsCounted
  <1> QED BY <1>2, <1>4, <1>5, <1>7, <1>8, AgedKeeps DEF ObsoleteGone

\* A code that is deleted, by its sender or by the TTL index.
LEMMA DeletedAges ==
  ASSUME O!OtpAssumption, O!TypeOK, UNCHANGED <<codeNow, created>>, NEW n \in O!CodeId, n <= created,
         codes' = [codes EXCEPT ![n].stored = FALSE]
  PROVE  /\ Aged
         /\ \A c \in O!CodeId : (Gone(c) => Gone(c)') /\ codes'[c].verified = codes[c].verified
  <1>1. codes \in [O!CodeId -> O!Code] /\ codes[n] \in O!Code
    BY DEF O!TypeOK
  <1>2. /\ \A c \in O!CodeId \ {n} : codes'[c] = codes[c]
        /\ codes'[n].of = codes[n].of /\ codes'[n].deliveredAt = codes[n].deliveredAt
        /\ codes'[n].verified = codes[n].verified /\ codes'[n].stored = FALSE
    BY <1>1 DEF O!Code
  <1>3. ~(n > created) /\ codeNow' >= codeNow
    BY Numbers
  <1> QED BY <1>2, <1>3 DEF Aged, Gone

LEMMA SafeRollback ==
  ASSUME O!OtpAssumption, O!TypeOK, O!TypeOK', SafeInv, NEW w \in Workers, O!Rollback(w)
  PROVE  SafeInv'
  <1>0. WorkerOK(work[w]) /\ work[w].pc = "rollback" /\ created \in Nat /\ codeNow \in Nat
    BY Numbers DEF SafeInv, WorkersOK, O!Rollback, O!At
  <1>1. PICK n \in O!CodeId : n = work[w].code /\ n <= created
    BY <1>0 DEF WorkerOK, Sending
  <1>2. O!End(w) /\ UNCHANGED <<codeNow, created, compared, logins, obsolete>>
    BY DEF O!Rollback, O!hist
  <1>3. /\ Aged
        /\ \A c \in O!CodeId : (Gone(c) => Gone(c)') /\ codes'[c].verified = codes[c].verified
    <2>1. CASE UNCHANGED codes
      BY <1>0, <1>2, <2>1 DEF Aged, Gone
    <2>2. CASE ~UNCHANGED codes
      <3>1. codes' = [codes EXCEPT ![n].stored = FALSE]
        BY <1>1, <2>2 DEF O!Rollback
      <3> QED BY <1>0, <1>1, <1>2, <3>1, DeletedAges
    <2> QED BY <2>1, <2>2
  <1>4. WorkersOK' /\ OneSender' /\ Past' /\ SettledStay
    BY <1>2, <1>3, Going
  <1>5. LoginsCounted' /\ ObsoleteGone'
    BY <1>2, <1>3, <1>4, Settling DEF SafeInv, LoginsCounted
  <1> QED BY <1>2, <1>3, <1>4, <1>5, AgedKeeps

LEMMA SafeReserve ==
  ASSUME O!OtpAssumption, O!TypeOK, O!TypeOK', SafeInv, NEW w \in Workers, O!Reserve(w)
  PROVE  SafeInv'
  <1>0. /\ work[w] \in O!Work /\ WorkerOK(work[w]) /\ work[w].pc = "reserve"
        /\ created \in Nat /\ codeNow \in Nat /\ codes \in [O!CodeId -> O!Code]
    BY HeldType, Numbers DEF SafeInv, WorkersOK, O!Reserve, O!At, O!TypeOK
  <1>1. UNCHANGED <<codeNow, created, compared, logins, obsolete>>
    BY DEF O!Reserve, O!hist
  <1>2. CASE O!End(w) /\ UNCHANGED codes
    <2>1. Aged
      BY <1>0, <1>1, <1>2 DEF Aged
    <2> QED BY <1>1, <1>2, <2>1, Going, CodesAlone
  <1>3. CASE ~(O!End(w) /\ UNCHANGED codes)
    <2>1. PICK n \in O!CodeId :
            /\ O!Delivered(n)
            /\ codes' = [codes EXCEPT ![n].attempts = codes[n].attempts + 1]
            /\ work' = [work EXCEPT ![w] = [work[w] EXCEPT !.pc = "compare", !.code = n]]
      BY <1>3 DEF O!Reserve, O!Newest, O!Reservable, O!Eligible
    <2>2. n <= created
      <3>1. CASE n > created
        BY <2>1, <3>1 DEF SafeInv, Fresh, O!NoCode, O!Delivered
      <3> QED BY <1>0, <3>1, Numbers
    <2>3. /\ \A c \in O!CodeId \ {n} : codes'[c] = codes[c]
          /\ codes'[n].of = codes[n].of /\ codes'[n].deliveredAt = codes[n].deliveredAt
          /\ codes'[n].verified = codes[n].verified /\ codes'[n].stored = codes[n].stored
          /\ codes'[n].superseded = codes[n].superseded
      <3>1. codes[n] \in O!Code
        BY <1>0
      <3> QED BY <1>0, <2>1, <3>1 DEF O!Code
    <2>4. Aged /\ \A c \in O!CodeId : (Gone(c) => Gone(c)') /\ codes'[c].verified = codes[c].verified
      <3>1. ~(n > created) /\ codeNow' >= codeNow
        BY <1>0, <1>1, <2>2, Numbers
      <3> QED BY <1>1, <2>3, <3>1 DEF Aged, Gone
    <2>5. PICK q \in O!Work : q = work'[w]
      BY DEF O!TypeOK
    <2>6. /\ q.pc = "compare" /\ q.code = n /\ q.of = work[w].of /\ q.before = work[w].before
          /\ work' = [work EXCEPT ![w] = q]
      <3>1. work \in [Workers -> O!Work]
        BY DEF O!TypeOK
      <3> QED BY <1>0, <2>1, <2>5, <3>1 DEF O!Work
    <2>7. Steady(w, q)
      BY <2>4, <2>6 DEF Steady, Sending
    <2>8. WorkerOK(q)'
      <3>1. \A d \in q.before : Settled(d)' /\ codes'[d].of = q.of
        BY <1>0, <2>6, <2>7, SteadySettled DEF WorkerOK
      <3> QED BY <1>1, <2>2, <2>6, <3>1 DEF WorkerOK, Sending
    <2>9. WorkersOK' /\ OneSender' /\ Past' /\ SettledStay
      BY <2>7, <2>8, SteadyKeeps
    <2>10. LoginsCounted' /\ ObsoleteGone'
      BY <1>1, <2>4, <2>9, Settling DEF SafeInv, LoginsCounted
    <2> QED BY <1>1, <2>4, <2>9, <2>10, AgedKeeps
  <1> QED BY <1>2, <1>3

\* The update finds the code unverified, or the verification ends.
LEMMA SafeMark ==
  ASSUME O!OtpAssumption, O!TypeOK, O!TypeOK', SafeInv, NEW w \in Workers, O!MarkAsVerified(w)
  PROVE  SafeInv'
  <1>0. /\ WorkerOK(work[w]) /\ work[w].pc = "mark"
        /\ created \in Nat /\ codeNow \in Nat /\ codes \in [O!CodeId -> O!Code]
        /\ logins \in [O!CodeId -> Nat]
    BY Numbers DEF SafeInv, WorkersOK, O!MarkAsVerified, O!At, O!TypeOK
  <1>1. PICK n \in O!CodeId : n = work[w].code /\ n <= created
    BY <1>0 DEF WorkerOK
  <1>2. UNCHANGED <<codeNow, created, compared, obsolete>>
    BY DEF O!MarkAsVerified
  <1>3. CASE ~O!Eligible(n, work[w].of)
    <2>1. O!End(w) /\ UNCHANGED <<codes, logins>>
      BY <1>1, <1>3 DEF O!MarkAsVerified
    <2>2. Aged
      BY <1>0, <1>2, <2>1 DEF Aged
    <2> QED BY <1>2, <2>1, <2>2, Going, CodesAlone
  <1>4. CASE O!Eligible(n, work[w].of)
    <2>1. /\ codes' = [codes EXCEPT ![n].verified = TRUE]
          /\ logins' = [logins EXCEPT ![n] = logins[n] + 1]
          /\ O!Goto(w, "clear")
      BY <1>1, <1>4 DEF O!MarkAsVerified
    <2>2. /\ \A c \in O!CodeId \ {n} : codes'[c] = codes[c] /\ logins'[c] = logins[c]
          /\ codes'[n].of = codes[n].of /\ codes'[n].deliveredAt = codes[n].deliveredAt
          /\ codes'[n].verified = TRUE /\ logins'[n] = logins[n] + 1
      <3>1. codes[n] \in O!Code
        BY <1>0
      <3> QED BY <1>0, <2>1, <3>1 DEF O!Code
    <2>3. Aged /\ \A c \in O!CodeId : Gone(c) => Gone(c)'
      <3>1. ~(n > created) /\ codeNow' >= codeNow
        BY <1>0, <1>1, <1>2, Numbers
      <3> QED BY <1>2, <2>2, <3>1 DEF Aged, Gone
    <2>4. WorkersOK' /\ OneSender' /\ Past' /\ SettledStay
      BY <1>2, <2>1, <2>3, Going
    <2>5. logins[n] = 0
      BY <1>4 DEF SafeInv, LoginsCounted, O!Eligible
    <2>6. LoginsCounted' /\ ObsoleteGone'
      BY <1>2, <2>2, <2>3, <2>4, <2>5, Settling DEF SafeInv, LoginsCounted
    <2>7. \A c \in O!CodeId : c > created => logins'[c] = logins[c]
      BY <1>0, <1>1, <2>2, Numbers
    <2> QED BY <1>2, <2>3, <2>4, <2>6, <2>7, AgedKeeps
  <1> QED BY <1>3, <1>4

\* Time passes, codes expire and windows end while the workers rest.
LEMMA Resting ==
  ASSUME O!OtpAssumption, O!TypeOK, O!TypeOK', SafeInv, Aged, UNCHANGED work
  PROVE  WorkersOK' /\ OneSender' /\ Past' /\ SettledStay
  <1>1. CASE Workers = {}
    <2>1. \A c \in O!CodeId : codes[c].deliveredAt <= codeNow /\ codes[c].deliveredAt \in Nat
      <3>1. \A c \in O!CodeId : codes[c].deliveredAt <= codeNow
        BY DEF SafeInv, Past
      <3>2. \A c \in O!CodeId : codes[c].deliveredAt \in O!Time \cup {0}
        <4>1. \A c \in O!CodeId : codes[c] \in O!Code
          BY DEF O!TypeOK
        <4> QED BY <4>1 DEF O!Code, O!Never
      <3>3. \A t \in O!Time \cup {0} : t \in Nat
        BY Numbers
      <3> QED BY <3>1, <3>2, <3>3, Zenon
    <2>2. Past'
      <3>1. codeNow \in Nat /\ codeNow' \in Nat
        <4>1. codeNow \in O!Time /\ codeNow' \in O!Time
          BY DEF O!TypeOK
        <4> QED BY <4>1, Numbers
      <3> QED BY <2>1, <3>1 DEF Past, Aged
    <2> QED BY <1>1, <2>2 DEF WorkersOK, OneSender, SettledStay, Settled, Aged
  <1>2. CASE Workers # {}
    <2>1. PICK w \in Workers, q \in O!Work : q = work[w]
      BY <1>2, HeldType
    <2>2. Steady(w, q)
      BY <2>1 DEF Steady, Sends, O!TypeOK
    <2>3. WorkerOK(q)
      BY <2>1 DEF SafeInv, WorkersOK
    <2>4. \A d \in q.before : Settled(d)' /\ codes'[d].of = codes[d].of
                              /\ codes'[d].deliveredAt = codes[d].deliveredAt
      BY <2>2, <2>3, SteadySettled DEF WorkerOK
    <2>5. codeNow \in Nat /\ codeNow' \in Nat /\ O!Time \subseteq Nat
      <3>1. codeNow \in O!Time /\ codeNow' \in O!Time
        BY DEF O!TypeOK
      <3> QED BY <3>1, Numbers
    <2>6. WorkerOK(q)'
      <3>1. q.pc = "activate" => q.at \in O!Time /\ q.at <= codeNow'
        <4>1. q.pc = "activate" => q.at \in O!Time /\ q.at <= codeNow
          BY <2>3 DEF WorkerOK
        <4>2. codeNow' >= codeNow
          BY DEF Aged
        <4>3. \A t \in Nat : t <= codeNow => t <= codeNow'
          BY <2>5, <4>2
        <4> QED BY <2>5, <4>1, <4>3
      <3> QED BY <2>3, <2>4, <3>1 DEF WorkerOK, Aged, Sending
    <2> QED BY <2>2, <2>6, SteadyKeeps
  <1> QED BY <1>1, <1>2

LEMMA SafeEnvironment ==
  ASSUME O!OtpAssumption, O!TypeOK, O!TypeOK', SafeInv,
         \/ O!Tick
         \/ \E c \in O!CodeId : O!Purge(c)
         \/ \E i \in Idents : O!WindowEnds(i)
         \/ UNCHANGED O!vars
  PROVE  SafeInv'
  <1>1. UNCHANGED <<created, work, compared, logins, obsolete>>
    BY DEF O!Tick, O!Purge, O!WindowEnds, O!vars, O!hist
  <1>2. /\ Aged
        /\ \A c \in O!CodeId : (Gone(c) => Gone(c)') /\ codes'[c].verified = codes[c].verified
    <2>1. CASE \E c \in O!CodeId : O!Purge(c)
      <3>1. PICK c \in O!CodeId : O!Purge(c)
        BY <2>1
      <3>2. c <= created
        <4>1. CASE c > created
          BY <3>1, <4>1 DEF SafeInv, Fresh, O!NoCode, O!Purge
        <4> QED BY <4>1, Numbers
      <3> QED BY <3>1, <3>2, DeletedAges DEF O!Purge
    <2>2. CASE ~\E c \in O!CodeId : O!Purge(c)
      <3>1. codes' = codes /\ codeNow' >= codeNow
        BY <2>2, Numbers DEF O!Tick, O!WindowEnds, O!vars
      <3> QED BY <1>1, <3>1 DEF Aged, Gone
    <2> QED BY <2>1, <2>2
  <1>3. WorkersOK' /\ OneSender' /\ Past' /\ SettledStay
    BY <1>1, <1>2, Resting
  <1>4. LoginsCounted' /\ ObsoleteGone'
    BY <1>1, <1>2, <1>3, Settling DEF SafeInv, LoginsCounted
  <1> QED BY <1>1, <1>2, <1>3, <1>4, AgedKeeps

LEMMA TypeEnvironment ==
  ASSUME O!OtpAssumption, O!TypeOK,
         \/ O!Tick
         \/ \E c \in O!CodeId : O!Purge(c)
         \/ \E i \in Idents : O!WindowEnds(i)
         \/ UNCHANGED O!vars
  PROVE  O!TypeOK'
  <1>0. CodesStored /\ LimitsOK /\ HistOK /\ WorkOK
    BY TypeParts
  <1>1. WorkOK' /\ HistOK'
    BY <1>0, HistKept DEF WorkOK, O!Tick, O!Purge, O!WindowEnds, O!vars, O!hist
  <1>2. CASE O!Tick
    <2>1. codeNow' \in O!Time
      BY <1>2, Numbers DEF O!Tick, O!Time, O!OtpAssumption
    <2> QED BY <1>0, <1>1, <1>2, <2>1, LimitsKept, TypeNow DEF O!Tick, CodesStored
  <1>3. CASE \E c \in O!CodeId : O!Purge(c)
    <2>1. PICK c \in O!CodeId : O!Purge(c)
      BY <1>3
    <2>2. [codes[c] EXCEPT !.stored = FALSE] \in O!Code
      BY <1>0, FieldTypes DEF CodesStored, O!Never
    <2>3. codes' \in [O!CodeId -> O!Code]
      BY <2>1, <2>2, CodeType DEF O!Purge
    <2> QED BY <1>0, <1>1, <2>1, <2>3, LimitsKept, TypeNow DEF O!Purge, CodesStored
  <1>4. CASE \E i \in Idents : O!WindowEnds(i)
    <2>1. LimitsOK'
      BY <1>0, <1>4 DEF O!WindowEnds, LimitsOK, O!OtpAssumption
    <2> QED BY <1>0, <1>1, <1>4, <2>1, StoreKept, TypeNow DEF O!WindowEnds
  <1>5. CASE UNCHANGED O!vars
    BY <1>0, <1>1, <1>5, StoreKept, LimitsKept, TypeNow DEF O!vars
  <1> QED BY <1>2, <1>3, <1>4, <1>5

LEMMA TypeWorker ==
  ASSUME O!OtpAssumption, O!TypeOK, SafeInv, NEW w \in Workers,
         \/ O!CheckBudget(w) \/ O!CheckRateLimit(w) \/ O!CreateOtp(w) \/ O!ProviderAnswers(w)
         \/ O!Activate(w) \/ O!Supersede(w) \/ O!Rollback(w)
         \/ O!Reserve(w) \/ O!Compare(w) \/ O!MarkAsVerified(w) \/ O!ClearLimit(w)
  PROVE  O!TypeOK'
  <1>1. work[w].pc \in Sending => work[w].code \in O!CodeId
    BY DEF SafeInv, WorkersOK, WorkerOK
  <1>2. CASE O!ProviderAnswers(w) \/ O!Activate(w) \/ O!Supersede(w) \/ O!Rollback(w)
    <2>1. work[w].code \in O!CodeId
      BY <1>1, <1>2 DEF O!ProviderAnswers, O!Activate, O!Supersede, O!Rollback, O!At, Sending
    <2> QED BY <1>2, <2>1, TypeProvider, TypeDelivery
  <1>3. CASE O!CheckBudget(w) \/ O!CheckRateLimit(w) \/ O!Compare(w) \/ O!ClearLimit(w)
    BY <1>3, TypeLimits
  <1>4. CASE O!CreateOtp(w) \/ O!Reserve(w) \/ O!MarkAsVerified(w)
    BY <1>4, TypeCreate, TypeVerify
  <1> QED BY <1>2, <1>3, <1>4

LEMMA SafeWorker ==
  ASSUME O!OtpAssumption, O!TypeOK, O!TypeOK', SafeInv, NEW w \in Workers,
         \/ O!CheckBudget(w) \/ O!CheckRateLimit(w) \/ O!CreateOtp(w) \/ O!ProviderAnswers(w)
         \/ O!Activate(w) \/ O!Supersede(w) \/ O!Rollback(w)
         \/ O!Reserve(w) \/ O!Compare(w) \/ O!MarkAsVerified(w) \/ O!ClearLimit(w)
  PROVE  SafeInv'
  <1>1. CASE O!CreateOtp(w)
    <2>1. CASE O!End(w) /\ UNCHANGED <<codes, created>>
      <3>1. obsolete' = obsolete
        BY <1>1 DEF O!CreateOtp, O!hist
      <3> QED BY <1>1, <2>1, <3>1, SafeQuiet
    <2> QED BY <1>1, <2>1, SafeCreate
  <1>2. CASE O!Activate(w)
    <2>1. CASE O!Fail(w) /\ UNCHANGED codes
      <3>1. UNCHANGED <<created, obsolete>>
        BY <1>2 DEF O!Activate, O!hist
      <3> QED BY <1>2, <2>1, <3>1, SafeQuiet
    <2> QED BY <1>2, <2>1, SafeActivate
  <1>3. CASE O!Supersede(w)
    <2>1. CASE O!Fail(w) /\ UNCHANGED <<codes, obsolete>>
      <3>1. UNCHANGED created
        BY <1>3 DEF O!Supersede
      <3> QED BY <1>3, <2>1, <3>1, SafeQuiet
    <2> QED BY <1>3, <2>1, SafeSupersede
  <1>4. CASE O!CheckBudget(w) \/ O!CheckRateLimit(w) \/ O!Compare(w) \/ O!ClearLimit(w)
    BY <1>4, SafeQuiet
  <1> QED BY <1>1, <1>2, <1>3, <1>4, SafeProvider, SafeRollback, SafeReserve, SafeMark

\* Every step keeps the ranges and the invariant.
LEMMA StepKeeps ==
  ASSUME O!OtpAssumption, O!TypeOK, SafeInv, [O!Next]_(O!vars)
  PROVE  O!TypeOK' /\ SafeInv'
  <1>1. CASE \E w \in Workers, i \in Idents, g \in O!CodeId \cup {0} :
               O!BeginSend(w, i) \/ O!BeginVerify(w, i, g)
    <2>1. PICK w \in Workers, i \in Idents, g \in O!CodeId \cup {0} :
            O!BeginSend(w, i) \/ O!BeginVerify(w, i, g)
      BY <1>1
    <2>2. O!TypeOK'
      BY <2>1, TypeSend
    <2> QED BY <2>1, <2>2, SafeQuiet
  <1>2. CASE \E w \in Workers :
               \/ O!CheckBudget(w) \/ O!CheckRateLimit(w) \/ O!CreateOtp(w) \/ O!ProviderAnswers(w)
               \/ O!Activate(w) \/ O!Supersede(w) \/ O!Rollback(w)
               \/ O!Reserve(w) \/ O!Compare(w) \/ O!MarkAsVerified(w) \/ O!ClearLimit(w)
    <2>1. PICK w \in Workers :
            \/ O!CheckBudget(w) \/ O!CheckRateLimit(w) \/ O!CreateOtp(w) \/ O!ProviderAnswers(w)
            \/ O!Activate(w) \/ O!Supersede(w) \/ O!Rollback(w)
            \/ O!Reserve(w) \/ O!Compare(w) \/ O!MarkAsVerified(w) \/ O!ClearLimit(w)
      BY <1>2
    <2>2. O!TypeOK'
      BY <2>1, TypeWorker
    <2> QED BY <2>1, <2>2, SafeWorker
  <1>3. CASE \/ O!Tick
             \/ \E c \in O!CodeId : O!Purge(c)
             \/ \E i \in Idents : O!WindowEnds(i)
             \/ UNCHANGED O!vars
    BY <1>3, TypeEnvironment, SafeEnvironment
  <1>4. CASE O!Next
    <2>1. inbox \cup {0} \subseteq O!CodeId \cup {0} /\ 0 \in O!CodeId \cup {0}
      BY DEF O!TypeOK
    <2> QED BY <1>1, <1>2, <1>3, <1>4, <2>1, Zenon DEF O!Next
  <1> QED BY <1>3, <1>4

-----------------------------------------------------------------------------
(* The theorems.                                                                *)

LEMMA Always == ASSUME O!OtpAssumption PROVE O!Spec => [](O!TypeOK /\ SafeInv)
  <1>1. O!Init => O!TypeOK /\ SafeInv
    BY CodesBegin, SafeInit
  <1>2. O!TypeOK /\ SafeInv /\ [O!Next]_(O!vars) => (O!TypeOK /\ SafeInv)'
    BY StepKeeps
  <1> QED BY <1>1, <1>2, PTL DEF O!Spec

\* Every variable keeps its range: no code counts more attempts than it has, or
\* lives longer than otpExpiry after it was stored.
THEOREM CodesTyped == ASSUME O!OtpAssumption PROVE O!Spec => []O!TypeOK
  <1>1. O!Spec => [](O!TypeOK /\ SafeInv)
    BY Always
  <1> QED BY <1>1, PTL

\* However many verifications run at once with one code, markAsVerified lets one of
\* them in.
THEOREM OneLogin == ASSUME O!OtpAssumption PROVE O!Spec => []O!OneLoginPerCode
  <1>1. SafeInv => O!OneLoginPerCode
    BY DEF SafeInv, LoginsCounted, O!OneLoginPerCode
  <1>2. O!Spec => [](O!TypeOK /\ SafeInv)
    BY Always
  <1> QED BY <1>1, <1>2, PTL

\* What a step may not do to the codes that a completed send has made obsolete.
Kept == \A c \in obsolete : logins'[c] = logins[c]

LEMMA ObsoleteKept ==
  ASSUME O!OtpAssumption, O!TypeOK, SafeInv, [O!Next]_(O!vars)
  PROVE  [Kept]_(O!vars)
  <1>1. ASSUME NEW w \in Workers, O!MarkAsVerified(w) PROVE Kept
    <2>1. SUFFICES ASSUME NEW c \in obsolete PROVE logins'[c] = logins[c]
      BY DEF Kept
    <2>2. CASE O!Eligible(work[w].code, work[w].of)
      <3>1. PICK n : n = work[w].code /\ O!Eligible(n, work[w].of)
        BY <2>2
      <3>2. n # c
        <4>1. Gone(c)
          BY DEF SafeInv, ObsoleteGone
        <4> QED BY <3>1, <4>1 DEF Gone, O!Eligible, O!Delivered
      <3>3. logins' = [logins EXCEPT ![n] = logins[n] + 1]
        BY <1>1, <3>1 DEF O!MarkAsVerified
      <3>4. logins \in [O!CodeId -> Nat] /\ c \in O!CodeId
        <4>1. obsolete \subseteq O!CodeId
          BY DEF O!TypeOK
        <4> QED BY <2>1, <4>1 DEF O!TypeOK
      <3> QED BY <3>2, <3>3, <3>4
    <2>3. CASE ~O!Eligible(work[w].code, work[w].of)
      BY <1>1, <2>3 DEF O!MarkAsVerified
    <2> QED BY <2>2, <2>3
  <1>2. CASE ~\E w \in Workers : O!MarkAsVerified(w)
    <2>1. UNCHANGED logins
      BY <1>2 DEF O!Next, O!vars, O!hist, O!BeginSend, O!BeginVerify, O!CheckBudget,
         O!CheckRateLimit, O!CreateOtp, O!ProviderAnswers, O!Activate, O!Supersede, O!Rollback, O!Reserve,
         O!Compare, O!ClearLimit, O!Tick, O!Purge, O!WindowEnds
    <2> QED BY <2>1 DEF Kept
  <1> QED BY <1>1, <1>2

\* Once a send has completed, the codes completely sent before it began let nobody
\* in, whatever is under way with them.
THEOREM ObsoleteDead == ASSUME O!OtpAssumption PROVE O!Spec => O!ObsoleteStaysDead
  <1>1. O!TypeOK /\ SafeInv /\ [O!Next]_(O!vars) => [Kept]_(O!vars)
    BY ObsoleteKept
  <1>2. O!Spec => [](O!TypeOK /\ SafeInv)
    BY Always
  <1>3. O!Spec => [][Kept]_(O!vars)
    BY <1>1, <1>2, PTL DEF O!Spec
  <1> QED BY <1>3 DEF Kept, O!ObsoleteStaysDead

-----------------------------------------------------------------------------
(* Guesses: an attempt is counted before it is compared.                        *)

Comparing(c) == {w \in Workers : work[w].pc = "compare" /\ work[w].code = c}
GuessesCounted == \A c \in O!CodeId : compared[c] + Cardinality(Comparing(c)) <= codes[c].attempts

\* What a step does to the guesses of a code.
Untouched(c) ==
  /\ compared'[c] = compared[c] /\ Comparing(c)' \subseteq Comparing(c)
  /\ codes'[c].attempts = codes[c].attempts
Reserved(c) ==
  /\ compared'[c] = compared[c] /\ \E w \in Workers : Comparing(c)' = Comparing(c) \cup {w}
  /\ codes'[c].attempts = codes[c].attempts + 1
SpentCode(c) ==
  /\ compared'[c] = compared[c] + 1 /\ \E w \in Comparing(c) : Comparing(c)' = Comparing(c) \ {w}
  /\ codes'[c].attempts = codes[c].attempts

LEMMA GuessNumbers ==
  ASSUME O!OtpAssumption, O!TypeOK, NEW c \in O!CodeId
  PROVE  /\ compared[c] \in Nat /\ codes[c].attempts \in 0 .. MaxAttempts /\ MaxAttempts \in Nat
         /\ IsFiniteSet(Comparing(c)) /\ Cardinality(Comparing(c)) \in Nat
  <1>1. IsFiniteSet(Workers) /\ MaxAttempts \in Nat
    BY DEF O!OtpAssumption, O!IsFiniteSet, IsFiniteSet
  <1>2. Comparing(c) \subseteq Workers
    BY DEF Comparing
  <1>3. IsFiniteSet(Comparing(c)) /\ Cardinality(Comparing(c)) \in Nat
    BY <1>1, <1>2, FS_Subset, FS_CardinalityType
  <1>4. codes[c] \in O!Code /\ compared[c] \in Nat
    BY DEF O!TypeOK
  <1> QED BY <1>1, <1>3, <1>4 DEF O!Code

LEMMA Counting ==
  ASSUME O!OtpAssumption, O!TypeOK, GuessesCounted,
         \A c \in O!CodeId : Untouched(c) \/ Reserved(c) \/ SpentCode(c)
  PROVE  GuessesCounted'
  <1> SUFFICES ASSUME NEW c \in O!CodeId
               PROVE  compared'[c] + Cardinality(Comparing(c)') <= codes'[c].attempts
    BY DEF GuessesCounted
  <1>1. PICK W, V : W = Comparing(c) /\ V = Comparing(c)'
    OBVIOUS
  <1>2. /\ IsFiniteSet(W) /\ Cardinality(W) \in Nat
        /\ compared[c] \in Nat /\ codes[c].attempts \in Nat
        /\ compared[c] + Cardinality(W) <= codes[c].attempts
    BY <1>1, GuessNumbers DEF GuessesCounted
  <1>3. CASE Untouched(c)
    <2>1. V \subseteq W
      BY <1>1, <1>3 DEF Untouched
    <2>2. Cardinality(V) <= Cardinality(W) /\ Cardinality(V) \in Nat
      BY <1>2, <2>1, FS_Subset, FS_CardinalityType
    <2> QED BY <1>1, <1>2, <1>3, <2>2 DEF Untouched
  <1>4. CASE Reserved(c)
    <2>1. PICK w \in Workers : V = W \cup {w}
      BY <1>1, <1>4 DEF Reserved
    <2>2. Cardinality(V) <= Cardinality(W) + 1 /\ Cardinality(V) \in Nat
      <3>1. Cardinality(W \cup {w}) = IF w \in W THEN Cardinality(W) ELSE Cardinality(W) + 1
        BY <1>2, FS_AddElement
      <3> QED BY <1>2, <2>1, <3>1
    <2> QED BY <1>1, <1>2, <1>4, <2>2 DEF Reserved
  <1>5. CASE SpentCode(c)
    <2>1. PICK w \in W : V = W \ {w}
      BY <1>1, <1>5 DEF SpentCode
    <2>2. Cardinality(V) = Cardinality(W) - 1 /\ Cardinality(V) \in Nat
      BY <1>2, <2>1, FS_RemoveElement, FS_CardinalityType
    <2> QED BY <1>1, <1>2, <1>5, <2>2 DEF SpentCode
  <1> QED BY <1>3, <1>4, <1>5

\* A worker that does not take up a comparison leaves the others at theirs.
LEMMA NoneComes ==
  ASSUME O!TypeOK, NEW w \in Workers, NEW q, q.pc # "compare",
         work' = [work EXCEPT ![w] = q], NEW c \in O!CodeId
  PROVE  Comparing(c)' = Comparing(c) \ {w}
  <1>1. work \in [Workers -> O!Work]
    BY DEF O!TypeOK
  <1>2. \A v \in Workers : v # w => work'[v] = work[v]
    BY <1>1
  <1>3. work'[w].pc # "compare"
    BY <1>1
  <1> QED BY <1>2, <1>3 DEF Comparing

LEMMA NoneComesOn ==
  ASSUME O!TypeOK, NEW w \in Workers, NEW c \in O!CodeId,
         O!End(w) \/ O!Fail(w) \/ \E pc \in O!PCs \ {"compare"} : O!Goto(w, pc)
  PROVE  Comparing(c)' = Comparing(c) \ {w}
  <1>1. CASE O!End(w)
    <2>1. O!Idle.pc # "compare"
      BY DEF O!Idle
    <2> QED BY <1>1, <2>1, NoneComes DEF O!End
  <1>2. CASE \E pc \in O!PCs \ {"compare"} : O!Goto(w, pc)
    <2>1. PICK pc \in O!PCs \ {"compare"} : O!Goto(w, pc)
      BY <1>2
    <2>2. PICK q : q = [work[w] EXCEPT !.pc = pc]
      OBVIOUS
    <2>3. q.pc # "compare"
      <3>1. work[w] \in O!Work
        BY HeldType
      <3> QED BY <2>1, <2>2, <3>1 DEF O!Work
    <2>4. work' = [work EXCEPT ![w] = q]
      BY <2>1, <2>2 DEF O!Goto
    <2> QED BY <2>3, <2>4, NoneComes
  <1>3. CASE O!Fail(w)
    <2>1. PICK q : q = [O!Idle EXCEPT !.pc = "rollback", !.code = work[w].code]
      OBVIOUS
    <2>2. q.pc # "compare"
      BY <2>1 DEF O!Idle
    <2> QED BY <1>3, <2>1, <2>2, NoneComes DEF O!Fail
  <1> QED BY <1>1, <1>2, <1>3

LEMMA SpentOne ==
  ASSUME O!OtpAssumption, O!TypeOK, SafeInv, NEW w \in Workers, O!Compare(w), NEW c \in O!CodeId
  PROVE  Untouched(c) \/ SpentCode(c)
  <1>1. Comparing(c)' = Comparing(c) \ {w}
    BY NoneComesOn DEF O!Compare, O!PCs
  <1>2. PICK n : n = work[w].code
    OBVIOUS
  <1>3. compared' = [compared EXCEPT ![n] = compared[n] + 1] /\ codes' = codes
    BY <1>2 DEF O!Compare
  <1>4. compared \in [O!CodeId -> Nat]
    BY DEF O!TypeOK
  <1>5. CASE c = n
    <2>1. w \in Comparing(c)
      BY <1>2, <1>5 DEF O!Compare, O!At, Comparing
    <2>2. compared'[c] = compared[c] + 1
      BY <1>3, <1>4, <1>5
    <2> QED BY <1>1, <1>3, <2>1, <2>2 DEF SpentCode
  <1>6. CASE c # n
    <2>1. compared'[c] = compared[c]
      BY <1>3, <1>4, <1>6
    <2> QED BY <1>1, <1>3, <2>1 DEF Untouched
  <1> QED BY <1>5, <1>6

LEMMA ReservedOne ==
  ASSUME O!OtpAssumption, O!TypeOK, NEW w \in Workers, O!Reserve(w), NEW c \in O!CodeId
  PROVE  Untouched(c) \/ Reserved(c)
  <1>0. work \in [Workers -> O!Work] /\ codes \in [O!CodeId -> O!Code] /\ UNCHANGED compared
    BY DEF O!TypeOK, O!Reserve, O!hist
  <1>1. CASE O!End(w) /\ UNCHANGED codes
    BY <1>0, <1>1, NoneComesOn DEF Untouched
  <1>2. CASE ~(O!End(w) /\ UNCHANGED codes)
    <2>1. PICK n \in O!CodeId :
            /\ codes' = [codes EXCEPT ![n].attempts = codes[n].attempts + 1]
            /\ work' = [work EXCEPT ![w] = [work[w] EXCEPT !.pc = "compare", !.code = n]]
      BY <1>2 DEF O!Reserve, O!Newest, O!Reservable, O!Eligible
    <2>2. /\ \A v \in Workers : v # w => work'[v] = work[v]
          /\ work'[w] = [work[w] EXCEPT !.pc = "compare", !.code = n] /\ work[w] \in O!Work
      BY <1>0, <2>1
    <2>3. work'[w].pc = "compare" /\ work'[w].code = n /\ work[w].pc = "reserve"
      BY <2>2 DEF O!Work, O!Reserve, O!At
    <2>4. CASE c = n
      <3>1. Comparing(c)' = Comparing(c) \cup {w}
        BY <2>2, <2>3, <2>4 DEF Comparing
      <3>2. codes'[c].attempts = codes[c].attempts + 1
        <4>1. codes[c] \in O!Code
          BY <1>0
        <4> QED BY <1>0, <2>1, <2>4, <4>1 DEF O!Code
      <3> QED BY <1>0, <3>1, <3>2 DEF Reserved
    <2>5. CASE c # n
      <3>1. Comparing(c)' = Comparing(c)
        BY <2>2, <2>3, <2>5 DEF Comparing
      <3>2. codes'[c] = codes[c]
        BY <1>0, <2>1, <2>5
      <3> QED BY <1>0, <3>1, <3>2 DEF Untouched
    <2> QED BY <2>4, <2>5
  <1> QED BY <1>1, <1>2

\* Every other step of a worker leaves the attempts alone.
LEMMA UntouchedBegin ==
  ASSUME O!OtpAssumption, O!TypeOK, NEW w \in Workers, NEW i \in Idents, NEW g \in O!CodeId \cup {0},
         O!BeginSend(w, i) \/ O!BeginVerify(w, i, g), NEW c \in O!CodeId
  PROVE  Untouched(c)
  <1>1. UNCHANGED <<compared, codes>>
    BY DEF O!BeginSend, O!BeginVerify, O!hist
  <1>2. CASE UNCHANGED work
    BY <1>1, <1>2 DEF Untouched, Comparing
  <1>3. CASE ~UNCHANGED work
    <2>1. PICK q : q.pc # "compare" /\ work' = [work EXCEPT ![w] = q]
      <3>1. CASE O!BeginVerify(w, i, g)
        <4>1. PICK q : q = [O!Idle EXCEPT !.pc = "reserve", !.of = i, !.guess = g]
          OBVIOUS
        <4>2. q.pc = "reserve"
          BY <4>1 DEF O!Idle
        <4> QED BY <3>1, <4>1, <4>2 DEF O!BeginVerify
      <3>2. CASE O!BeginSend(w, i)
        <4>1. PICK pc \in {"budget", "limit"} :
                work' = [work EXCEPT ![w] = [O!Idle EXCEPT !.of = i, !.before = O!Complete(i),
                                                         !.pc = pc]]
          BY <1>3, <3>2 DEF O!BeginSend
        <4>2. PICK q : q = [O!Idle EXCEPT !.of = i, !.before = O!Complete(i), !.pc = pc]
          OBVIOUS
        <4>3. q.pc = pc
          BY <4>2 DEF O!Idle
        <4> QED BY <4>1, <4>2, <4>3
      <3> QED BY <3>1, <3>2
    <2>2. Comparing(c)' = Comparing(c) \ {w}
      BY <2>1, NoneComes
    <2> QED BY <1>1, <2>2 DEF Untouched
  <1> QED BY <1>2, <1>3

LEMMA UntouchedWork ==
  ASSUME O!OtpAssumption, O!TypeOK, NEW w \in Workers, NEW c \in O!CodeId,
         \/ O!CheckBudget(w) \/ O!CheckRateLimit(w) \/ O!CreateOtp(w) \/ O!ProviderAnswers(w)
         \/ O!Activate(w) \/ O!Supersede(w) \/ O!Rollback(w) \/ O!MarkAsVerified(w) \/ O!ClearLimit(w)
  PROVE  Comparing(c)' \subseteq Comparing(c) /\ compared' = compared
  <1>1. compared' = compared
    BY DEF O!CheckBudget, O!CheckRateLimit, O!CreateOtp, O!ProviderAnswers, O!Activate, O!Supersede, O!Rollback,
       O!MarkAsVerified, O!ClearLimit, O!hist
  <1>2. CASE O!End(w) \/ O!Fail(w) \/ \E pc \in O!PCs \ {"compare"} : O!Goto(w, pc)
    BY <1>1, <1>2, NoneComesOn
  <1>3. CASE ~(O!End(w) \/ O!Fail(w) \/ \E pc \in O!PCs \ {"compare"} : O!Goto(w, pc))
    <2>1. PICK q : q.pc # "compare" /\ work' = [work EXCEPT ![w] = q]
      <3>1. work[w] \in O!Work
        BY HeldType
      <3>2. CASE O!CreateOtp(w)
        <4>1. PICK q : q = [work[w] EXCEPT !.pc = "provider", !.code = created']
          OBVIOUS
        <4>2. q.pc = "provider"
          BY <3>1, <4>1 DEF O!Work
        <4> QED BY <1>3, <3>2, <4>1, <4>2 DEF O!CreateOtp
      <3>3. CASE O!ProviderAnswers(w)
        <4>1. PICK q : q = [work[w] EXCEPT !.pc = "activate", !.at = codeNow]
          OBVIOUS
        <4>2. q.pc = "activate"
          BY <3>1, <4>1 DEF O!Work
        <4> QED BY <1>3, <3>3, <4>1, <4>2 DEF O!ProviderAnswers
      <3>4. CASE O!Activate(w)
        <4>1. PICK q : q = [work[w] EXCEPT !.pc = "supersede", !.at = O!Never]
          OBVIOUS
        <4>2. q.pc = "supersede"
          BY <3>1, <4>1 DEF O!Work
        <4> QED BY <1>3, <3>4, <4>1, <4>2 DEF O!Activate
      <3> QED BY <1>3, <3>2, <3>3, <3>4 DEF O!CheckBudget, O!CheckRateLimit, O!Activate, O!Supersede, O!Rollback,
         O!MarkAsVerified, O!ClearLimit, O!PCs
    <2> QED BY <1>1, <2>1, NoneComes
  <1> QED BY <1>2, <1>3

LEMMA AttemptsKept ==
  ASSUME O!OtpAssumption, O!TypeOK, SafeInv, NEW w \in Workers, NEW c \in O!CodeId,
         \/ O!CheckBudget(w) \/ O!CheckRateLimit(w) \/ O!CreateOtp(w) \/ O!ProviderAnswers(w)
         \/ O!Activate(w) \/ O!Supersede(w) \/ O!Rollback(w) \/ O!MarkAsVerified(w) \/ O!ClearLimit(w)
  PROVE  codes'[c].attempts = codes[c].attempts
  <1>1. codes \in [O!CodeId -> O!Code] /\ codes[c] \in O!Code
    BY DEF O!TypeOK
  <1>2. CASE O!CheckBudget(w) \/ O!CheckRateLimit(w) \/ O!ProviderAnswers(w) \/ O!ClearLimit(w)
    BY <1>2 DEF O!CheckBudget, O!CheckRateLimit, O!ProviderAnswers, O!ClearLimit
  <1>3. CASE O!CreateOtp(w)
    <2>1. CASE UNCHANGED codes
      BY <2>1
    <2>2. CASE ~UNCHANGED codes
      <3>1. PICK n, x : n = created + 1
              /\ x = [O!NoCode EXCEPT !.stored = TRUE, !.of = work[w].of, !.expiresAt = codeNow + Lifetime]
        OBVIOUS
      <3>2. codes' = [codes EXCEPT ![n] = x]
        BY <1>3, <2>2, <3>1 DEF O!CreateOtp
      <3>3. x.attempts = 0 /\ O!NoCode.attempts = 0
        BY <3>1 DEF O!NoCode
      <3>4. CASE c = n
        <4>1. c > created
          BY <3>1, <3>4, Numbers
        <4>2. codes[c] = O!NoCode
          BY <4>1 DEF SafeInv, Fresh
        <4> QED BY <1>1, <3>2, <3>3, <3>4, <4>2
      <3>5. CASE c # n
        BY <1>1, <3>2, <3>5
      <3> QED BY <3>4, <3>5
    <2> QED BY <2>1, <2>2
  <1>4. CASE O!Supersede(w)
    <2>1. CASE UNCHANGED codes
      BY <2>1
    <2>2. CASE ~UNCHANGED codes
      <3>1. codes'[c] = IF O!Retires(work[w].code, c)
                        THEN [codes[c] EXCEPT !.superseded = TRUE] ELSE codes[c]
        BY <1>4, <2>2, Zenon DEF O!Supersede, O!Superseding
      <3> QED BY <1>1, <3>1 DEF O!Code
    <2> QED BY <2>1, <2>2
  <1>5. CASE O!Activate(w) \/ O!Rollback(w) \/ O!MarkAsVerified(w)
    <2>1. PICK n, t : n = work[w].code /\ t = work[w].at
      OBVIOUS
    <2>2. \/ UNCHANGED codes
          \/ codes' = [codes EXCEPT ![n] = [codes[n] EXCEPT !.deliveredAt = t, !.superseded = FALSE]]
          \/ codes' = [codes EXCEPT ![n] = [codes[n] EXCEPT !.stored = FALSE]]
          \/ codes' = [codes EXCEPT ![n] = [codes[n] EXCEPT !.verified = TRUE]]
      BY <1>5, <2>1 DEF O!Activate, O!Rollback, O!MarkAsVerified
    <2>3. CASE c = n
      BY <1>1, <2>2, <2>3 DEF O!Code
    <2>4. CASE c # n
      BY <1>1, <2>2, <2>4
    <2> QED BY <2>3, <2>4
  <1> QED BY <1>2, <1>3, <1>4, <1>5

LEMMA UntouchedEnvironment ==
  ASSUME O!OtpAssumption, O!TypeOK, NEW c \in O!CodeId,
         \/ O!Tick
         \/ \E d \in O!CodeId : O!Purge(d)
         \/ \E i \in Idents : O!WindowEnds(i)
         \/ UNCHANGED O!vars
  PROVE  Untouched(c)
  <1>1. UNCHANGED <<work, compared>>
    BY DEF O!Tick, O!Purge, O!WindowEnds, O!vars, O!hist
  <1>2. codes \in [O!CodeId -> O!Code] /\ codes[c] \in O!Code
    BY DEF O!TypeOK
  <1>3. codes'[c].attempts = codes[c].attempts
    <2>1. CASE \E d \in O!CodeId : O!Purge(d)
      <3>1. PICK d \in O!CodeId : codes' = [codes EXCEPT ![d] = [codes[d] EXCEPT !.stored = FALSE]]
        BY <2>1 DEF O!Purge
      <3>2. CASE c = d
        BY <1>2, <3>1, <3>2 DEF O!Code
      <3>3. CASE c # d
        BY <1>2, <3>1, <3>3
      <3> QED BY <3>2, <3>3
    <2>2. CASE ~\E d \in O!CodeId : O!Purge(d)
      BY <2>2 DEF O!Tick, O!WindowEnds, O!vars
    <2> QED BY <2>1, <2>2
  <1> QED BY <1>1, <1>3 DEF Untouched, Comparing

LEMMA GuessStep ==
  ASSUME O!OtpAssumption, O!TypeOK, SafeInv, GuessesCounted, [O!Next]_(O!vars)
  PROVE  GuessesCounted'
  <1> SUFFICES ASSUME NEW c \in O!CodeId PROVE Untouched(c) \/ Reserved(c) \/ SpentCode(c)
    BY Counting
  <1>1. CASE \/ O!Tick
             \/ \E d \in O!CodeId : O!Purge(d)
             \/ \E i \in Idents : O!WindowEnds(i)
             \/ UNCHANGED O!vars
    BY <1>1, UntouchedEnvironment
  <1>2. ASSUME NEW w \in Workers, NEW i \in Idents, NEW g \in O!CodeId \cup {0},
               O!BeginSend(w, i) \/ O!BeginVerify(w, i, g)
        PROVE  Untouched(c)
    BY <1>2, UntouchedBegin
  <1>3. ASSUME NEW w \in Workers, O!Reserve(w) PROVE Untouched(c) \/ Reserved(c)
    BY <1>3, ReservedOne
  <1>4. ASSUME NEW w \in Workers, O!Compare(w) PROVE Untouched(c) \/ SpentCode(c)
    BY <1>4, SpentOne
  <1>5. ASSUME NEW w \in Workers,
               \/ O!CheckBudget(w) \/ O!CheckRateLimit(w) \/ O!CreateOtp(w) \/ O!ProviderAnswers(w)
               \/ O!Activate(w) \/ O!Supersede(w) \/ O!Rollback(w) \/ O!MarkAsVerified(w) \/ O!ClearLimit(w)
        PROVE  Untouched(c)
    BY <1>5, UntouchedWork, AttemptsKept DEF Untouched
  <1>6. inbox \cup {0} \subseteq O!CodeId \cup {0} /\ 0 \in O!CodeId \cup {0}
    BY DEF O!TypeOK
  <1> QED BY <1>1, <1>2, <1>3, <1>4, <1>5, <1>6, Zenon DEF O!Next

\* Of the guesses that run at once, no more than maxAttempts are compared with one
\* code: those compared and those on their way each took an attempt of it.
THEOREM GuessesLimited == ASSUME O!OtpAssumption PROVE O!Spec => []O!GuessesBounded
  <1>1. O!Init => GuessesCounted
    <2> SUFFICES ASSUME O!Init, NEW c \in O!CodeId
                 PROVE  compared[c] + Cardinality(Comparing(c)) <= codes[c].attempts
      BY DEF GuessesCounted
    <2>1. compared[c] = 0 /\ codes[c].attempts = 0 /\ \A w \in Workers : work[w].pc = "idle"
      BY DEF O!Init, O!NoCode, O!Idle
    <2>2. Comparing(c) = {}
      BY <2>1 DEF Comparing
    <2> QED BY <2>1, <2>2, FS_EmptySet
  <1>2. O!TypeOK /\ GuessesCounted => O!GuessesBounded
    <2> SUFFICES ASSUME O!TypeOK, GuessesCounted, NEW c \in O!CodeId
                 PROVE  compared[c] <= MaxAttempts
      BY DEF O!GuessesBounded
    <2>1. compared[c] + Cardinality(Comparing(c)) <= codes[c].attempts
      BY DEF GuessesCounted
    <2> QED BY <2>1, GuessNumbers
  <1>3. O!TypeOK /\ SafeInv /\ GuessesCounted /\ [O!Next]_(O!vars) => GuessesCounted'
    BY GuessStep
  <1>4. O!Spec => [](O!TypeOK /\ SafeInv)
    BY Always
  <1> QED BY <1>1, <1>2, <1>3, <1>4, PTL DEF O!Spec

-----------------------------------------------------------------------------
(* The codes that retired others.                                               *)

Expired(c) == codes[c].expiresAt <= codeNow
Undelivered == \A c \in O!CodeId : codes[c].deliveredAt = O!Never => ~codes[c].superseded
Retiring(w, c) == work[w].pc = "supersede" /\ work[w].code = c
RetirersLive ==
  \A w \in Workers, c \in O!CodeId : Retiring(w, c) => codes[c].stored \/ Expired(c)

\* A code nothing retires or deletes while it lasts; or one of the two exceptions.
Usable(d) == Settled(d) /\ ~codes[d].superseded /\ (codes[d].stored \/ Expired(d))
Excepted(d) == d \in unseen \/ \E e \in O!CodeId : O!Tied(d, e)

\* The code that keeps the retired c from mattering.
Heir(c, d) ==
  /\ codes[d].of = codes[c].of
  /\ codes[c].deliveredAt <= codes[d].deliveredAt
  /\ Usable(d) \/ Excepted(d)
Heirs == \A c \in O!CodeId : codes[c].superseded => \E d \in O!CodeId : Heir(c, d)

NewInv == Undelivered /\ RetirersLive /\ Heirs

LEMMA NewNumbers ==
  ASSUME O!OtpAssumption, O!TypeOK
  PROVE  /\ codeNow \in Nat /\ created \in Nat
         /\ \A c \in O!CodeId : /\ c \in Nat /\ codes[c] \in O!Code
                                /\ codes[c].deliveredAt \in Nat /\ codes[c].expiresAt \in Nat
  <1>1. Lifetime \in Nat /\ MaxCodeTime \in Nat
    BY DEF O!OtpAssumption
  <1>2. \A t \in O!Time \cup {0} : t \in Nat
    BY Numbers
  <1>3. \A t \in 0 .. MaxCodeTime + Lifetime : t \in Nat
    BY <1>1
  <1>4. ASSUME NEW c \in O!CodeId
        PROVE  codes[c] \in O!Code /\ codes[c].deliveredAt \in Nat /\ codes[c].expiresAt \in Nat
    <2>1. codes[c] \in O!Code
      BY DEF O!TypeOK
    <2>2. codes[c].deliveredAt \in O!Time \cup {0} /\ codes[c].expiresAt \in 0 .. MaxCodeTime + Lifetime
      BY <2>1 DEF O!Code, O!Never
    <2> QED BY <1>2, <1>3, <2>1, <2>2
  <1>5. codeNow \in Nat /\ created \in Nat /\ \A c \in O!CodeId : c \in Nat
    BY Numbers
  <1> QED BY <1>4, <1>5

\* A step that delivers and retires no code, and deletes none that counts.
QuietCodes ==
  /\ codeNow' >= codeNow /\ created' >= created
  /\ \A c \in O!CodeId :
       /\ codes'[c].deliveredAt = codes[c].deliveredAt
       /\ codes'[c].superseded = codes[c].superseded
       /\ codes[c].deliveredAt # O!Never =>
            codes'[c].of = codes[c].of /\ codes'[c].expiresAt = codes[c].expiresAt
       /\ codes[c].stored /\ ~codes'[c].stored =>
            Expired(c) \/ (~Settled(c) /\ \A w \in Workers : ~Retiring(w, c))
QuietWork ==
  \A w \in Workers, c \in O!CodeId : /\ Retiring(w, c)' => Retiring(w, c)
                                     /\ Sends(w, c)' => Sends(w, c) \/ c > created

LEMMA QuietSettled ==
  ASSUME O!OtpAssumption, O!TypeOK, O!TypeOK', QuietCodes, QuietWork, NEW d \in O!CodeId, Settled(d)
  PROVE  Settled(d)'
  <1>1. /\ d <= created /\ codes[d].deliveredAt # O!Never /\ \A w \in Workers : ~Sends(w, d)
    BY DEF Settled
  <1>2. created \in Nat /\ created' \in Nat /\ d \in Nat
    <2>1. MaxCodes \in Nat /\ created' \in 0 .. MaxCodes
      BY DEF O!OtpAssumption, O!TypeOK
    <2> QED BY <2>1, NewNumbers
  <1>3. d <= created' /\ ~(d > created)
    BY <1>1, <1>2 DEF QuietCodes
  <1>4. codes'[d].deliveredAt # O!Never
    BY <1>1 DEF QuietCodes
  <1>5. \A w \in Workers : ~Sends(w, d)'
    BY <1>1, <1>3 DEF QuietWork
  <1> QED BY <1>3, <1>4, <1>5 DEF Settled

LEMMA NowNumber ==
  ASSUME O!OtpAssumption, O!TypeOK' PROVE codeNow' \in Nat
  <1>1. codeNow' \in O!Time /\ MaxCodeTime \in Nat
    BY DEF O!TypeOK, O!OtpAssumption
  <1> QED BY <1>1 DEF O!Time

\* What counted as alive stays so.
LEMMA QuietAlive ==
  ASSUME O!OtpAssumption, O!TypeOK, O!TypeOK', QuietCodes, NEW c \in O!CodeId,
         codes[c].deliveredAt # O!Never, codes[c].stored \/ Expired(c),
         Settled(c) \/ \E w \in Workers : Retiring(w, c)
  PROVE  codes'[c].stored \/ Expired(c)'
  <1>1. codes'[c].expiresAt = codes[c].expiresAt /\ codeNow' >= codeNow
    BY DEF QuietCodes
  <1>2. CASE Expired(c)
    BY <1>1, <1>2, NewNumbers, NowNumber DEF Expired
  <1>3. CASE ~Expired(c)
    BY <1>3 DEF QuietCodes
  <1> QED BY <1>2, <1>3

LEMMA ExceptedStays ==
  ASSUME NEW d \in O!CodeId, Excepted(d), unseen \subseteq unseen', codes[d].deliveredAt # O!Never,
         \A e \in O!CodeId :
           /\ codes'[e].deliveredAt = codes[e].deliveredAt \/ codes[e].deliveredAt = O!Never
           /\ codes[e].deliveredAt # O!Never => codes'[e].of = codes[e].of
  PROVE  Excepted(d)'
  BY DEF Excepted, O!Tied

LEMMA QuietKeeps ==
  ASSUME O!OtpAssumption, O!TypeOK, O!TypeOK', SafeInv, NewInv, QuietCodes, QuietWork,
         unseen \subseteq unseen'
  PROVE  Undelivered' /\ RetirersLive' /\ Heirs'
  <1>1. Undelivered'
    BY DEF NewInv, Undelivered, QuietCodes
  <1>2. RetirersLive'
    <2> SUFFICES ASSUME NEW w \in Workers, NEW c \in O!CodeId, Retiring(w, c)'
                 PROVE  codes'[c].stored \/ Expired(c)'
      BY DEF RetirersLive
    <2>1. Retiring(w, c)
      BY DEF QuietWork
    <2>2. codes[c].stored \/ Expired(c)
      BY <2>1 DEF NewInv, RetirersLive
    <2>3. codes[c].deliveredAt # O!Never
      <3>1. codes[c].deliveredAt \in O!Time
        BY <2>1 DEF SafeInv, WorkersOK, WorkerOK, Retiring
      <3> QED BY <3>1, Numbers DEF O!Never
    <2> QED BY <2>1, <2>2, <2>3, QuietAlive
  <1>3. Heirs'
    <2> SUFFICES ASSUME NEW c \in O!CodeId, codes'[c].superseded
                 PROVE  \E d \in O!CodeId : Heir(c, d)'
      BY DEF Heirs
    <2>1. codes[c].superseded /\ codes[c].deliveredAt # O!Never
      BY DEF NewInv, Undelivered, QuietCodes
    <2>2. PICK d \in O!CodeId : Heir(c, d)
      BY <2>1 DEF NewInv, Heirs
    <2>3. codes[d].deliveredAt # O!Never
      BY <2>1, <2>2, NewNumbers DEF Heir, O!Never
    <2>4. /\ codes'[d].superseded = codes[d].superseded
          /\ codes'[d].of = codes[d].of /\ codes'[c].of = codes[c].of
          /\ codes'[d].deliveredAt = codes[d].deliveredAt
          /\ codes'[c].deliveredAt = codes[c].deliveredAt
      BY <2>1, <2>3 DEF QuietCodes
    <2>5. CASE Usable(d)
      <3>1. Settled(d)' /\ (codes'[d].stored \/ Expired(d)')
        BY <2>3, <2>5, QuietSettled, QuietAlive DEF Usable
      <3> QED BY <2>2, <2>4, <2>5, <3>1 DEF Heir, Usable
    <2>6. CASE Excepted(d)
      <3>1. Excepted(d)'
        BY <2>3, <2>6, ExceptedStays DEF QuietCodes
      <3> QED BY <2>2, <2>4, <3>1 DEF Heir
    <2> QED BY <2>2, <2>5, <2>6 DEF Heir
  <1> QED BY <1>1, <1>2, <1>3

LEMMA TakesQuiet ==
  ASSUME O!TypeOK, NEW w \in Workers, NEW q, work' = [work EXCEPT ![w] = q],
         q.pc \notin {"activate", "supersede"},
         \A c \in O!CodeId : q.pc \in Sending /\ q.code = c => Sends(w, c) \/ c > created
  PROVE  QuietWork
  <1>1. work \in [Workers -> O!Work]
    BY DEF O!TypeOK
  <1>2. work'[w] = q /\ \A v \in Workers : v # w => work'[v] = work[v]
    BY <1>1
  <1> QED BY <1>2 DEF QuietWork, Retiring, Sends

LEMMA MovesQuiet ==
  ASSUME O!TypeOK, NEW w \in Workers,
         \/ O!End(w)
         \/ O!Fail(w) /\ work[w].pc \in Sending
         \/ \E pc \in O!PCs \ Sending : O!Goto(w, pc)
  PROVE  QuietWork
  <1>1. CASE O!End(w)
    <2>1. O!Idle.pc = "idle"
      BY DEF O!Idle
    <2> QED BY <1>1, <2>1, TakesQuiet DEF O!End, Sending
  <1>2. CASE O!Fail(w) /\ work[w].pc \in Sending
    <2>1. PICK q : q = [O!Idle EXCEPT !.pc = "rollback", !.code = work[w].code]
      OBVIOUS
    <2>2. q.pc = "rollback" /\ q.code = work[w].code
      BY <2>1 DEF O!Idle
    <2>3. work' = [work EXCEPT ![w] = q]
      BY <1>2, <2>1 DEF O!Fail
    <2>4. Sends(w, q.code)
      BY <1>2, <2>2 DEF Sends
    <2> QED BY <2>2, <2>3, <2>4, TakesQuiet
  <1>3. CASE \E pc \in O!PCs \ Sending : O!Goto(w, pc)
    <2>1. PICK pc \in O!PCs \ Sending : O!Goto(w, pc)
      BY <1>3
    <2>2. PICK q : q = [work[w] EXCEPT !.pc = pc]
      OBVIOUS
    <2>3. q.pc = pc
      <3>1. work[w] \in O!Work
        BY HeldType
      <3> QED BY <2>2, <3>1 DEF O!Work
    <2>4. work' = [work EXCEPT ![w] = q]
      BY <2>1, <2>2 DEF O!Goto
    <2> QED BY <2>1, <2>3, <2>4, TakesQuiet DEF Sending
  <1> QED BY <1>1, <1>2, <1>3

LEMMA StillStays == UNCHANGED work => QuietWork
  BY DEF QuietWork, Retiring, Sends

LEMMA BeginStays ==
  ASSUME O!TypeOK, NEW w \in Workers, NEW i \in Idents, NEW g \in O!CodeId \cup {0},
         O!BeginSend(w, i) \/ O!BeginVerify(w, i, g)
  PROVE  QuietWork
  <1>1. CASE O!BeginVerify(w, i, g)
    <2>1. PICK q : q = [O!Idle EXCEPT !.pc = "reserve", !.of = i, !.guess = g]
      OBVIOUS
    <2>2. q.pc = "reserve"
      BY <2>1 DEF O!Idle
    <2>3. work' = [work EXCEPT ![w] = q]
      BY <1>1, <2>1 DEF O!BeginVerify
    <2> QED BY <2>2, <2>3, TakesQuiet DEF Sending
  <1>2. CASE O!BeginSend(w, i)
    <2>1. CASE UNCHANGED work
      BY <2>1, StillStays
    <2>2. CASE ~UNCHANGED work
      <3>1. PICK pc \in {"budget", "limit"} :
              work' = [work EXCEPT ![w] = [O!Idle EXCEPT !.of = i, !.before = O!Complete(i),
                                                       !.pc = pc]]
        BY <1>2, <2>2 DEF O!BeginSend
      <3>2. PICK q : q = [O!Idle EXCEPT !.of = i, !.before = O!Complete(i), !.pc = pc]
        OBVIOUS
      <3>3. q.pc = pc
        BY <3>2 DEF O!Idle
      <3> QED BY <3>1, <3>2, <3>3, TakesQuiet DEF Sending
    <2> QED BY <2>1, <2>2
  <1> QED BY <1>1, <1>2

LEMMA StepStays ==
  ASSUME O!OtpAssumption, O!TypeOK, NEW w \in Workers,
         \/ O!CheckBudget(w) \/ O!CheckRateLimit(w) \/ O!CreateOtp(w) \/ O!Rollback(w)
         \/ O!Reserve(w) \/ O!Compare(w) \/ O!MarkAsVerified(w) \/ O!ClearLimit(w)
         \/ (O!ProviderAnswers(w) \/ O!Activate(w) \/ O!Supersede(w)) /\ (O!Fail(w) \/ O!End(w))
  PROVE  QuietWork
  <1>0. work[w] \in O!Work
    BY HeldType
  <1>1. CASE O!CreateOtp(w) /\ ~O!End(w)
    <2>1. PICK q : q = [work[w] EXCEPT !.pc = "provider", !.code = created + 1]
      OBVIOUS
    <2>2. q.pc = "provider" /\ q.code = created + 1
      BY <1>0, <2>1 DEF O!Work
    <2>3. work' = [work EXCEPT ![w] = q]
      BY <1>1, <2>1 DEF O!CreateOtp
    <2>4. created + 1 > created
      BY NewNumbers
    <2> QED BY <2>2, <2>3, <2>4, TakesQuiet
  <1>2. CASE O!Reserve(w) /\ ~O!End(w)
    <2>1. PICK q, n : /\ q = [work[w] EXCEPT !.pc = "compare", !.code = n]
                      /\ work' = [work EXCEPT ![w] = q]
      BY <1>2 DEF O!Reserve
    <2>2. q.pc = "compare"
      BY <1>0, <2>1 DEF O!Work
    <2> QED BY <2>1, <2>2, TakesQuiet DEF Sending
  <1>3. CASE O!End(w)
    BY <1>3, MovesQuiet
  <1>4. CASE O!Fail(w) /\ (O!ProviderAnswers(w) \/ O!Activate(w) \/ O!Supersede(w))
    <2>1. work[w].pc \in Sending
      BY <1>4 DEF O!ProviderAnswers, O!Activate, O!Supersede, O!At, Sending
    <2> QED BY <1>4, <2>1, MovesQuiet
  <1>5. CASE O!Goto(w, "limit") \/ O!Goto(w, "create") \/ O!Goto(w, "mark") \/ O!Goto(w, "clear")
    BY <1>5, MovesQuiet DEF O!PCs, Sending
  <1>6. CASE O!CheckBudget(w) \/ O!CheckRateLimit(w) \/ O!Compare(w)
    BY <1>3, <1>5, <1>6 DEF O!CheckBudget, O!CheckRateLimit, O!Compare
  <1>7. CASE O!Rollback(w) \/ O!MarkAsVerified(w) \/ O!ClearLimit(w)
    BY <1>3, <1>5, <1>7 DEF O!Rollback, O!MarkAsVerified, O!ClearLimit
  <1> QED BY <1>1, <1>2, <1>3, <1>4, <1>6, <1>7

LEMMA SameQuiet ==
  ASSUME O!OtpAssumption, O!TypeOK, codes' = codes, created' = created, codeNow' = codeNow \/ codeNow' = codeNow + 1
  PROVE  QuietCodes
  BY NewNumbers DEF QuietCodes

\* A step that changes one code, in nothing that matters here or in its presence.
LEMMA OneQuiet ==
  ASSUME O!OtpAssumption, O!TypeOK, UNCHANGED <<codeNow, created>>, NEW n \in O!CodeId, NEW x,
         codes' = [codes EXCEPT ![n] = x],
         x.of = codes[n].of, x.expiresAt = codes[n].expiresAt,
         x.deliveredAt = codes[n].deliveredAt, x.superseded = codes[n].superseded,
         \/ x.stored = codes[n].stored
         \/ Expired(n)
         \/ ~Settled(n) /\ \A w \in Workers : ~Retiring(w, n)
  PROVE  QuietCodes
  <1>1. codes \in [O!CodeId -> O!Code]
    BY DEF O!TypeOK
  <1>2. codes'[n] = x /\ \A c \in O!CodeId : c # n => codes'[c] = codes[c]
    BY <1>1
  <1>3. codeNow' >= codeNow /\ created' >= created
    BY NewNumbers
  <1> QED BY <1>2, <1>3 DEF QuietCodes

LEMMA StepCodes ==
  ASSUME O!OtpAssumption, O!TypeOK, SafeInv, NEW w \in Workers,
         \/ O!CheckBudget(w) \/ O!CheckRateLimit(w) \/ O!CreateOtp(w) \/ O!Rollback(w)
         \/ O!Reserve(w) \/ O!Compare(w) \/ O!MarkAsVerified(w) \/ O!ClearLimit(w)
         \/ O!ProviderAnswers(w)
         \/ (O!Activate(w) \/ O!Supersede(w)) /\ UNCHANGED codes
  PROVE  QuietCodes
  <1>0. \A c \in O!CodeId : codes[c] \in O!Code
    BY NewNumbers
  <1>1. CASE \/ O!CheckBudget(w) \/ O!CheckRateLimit(w) \/ O!Compare(w) \/ O!ClearLimit(w)
             \/ O!ProviderAnswers(w)
             \/ (O!Activate(w) \/ O!Supersede(w)) /\ UNCHANGED codes
    <2>1. UNCHANGED <<codes, created, codeNow>>
      BY <1>1 DEF O!CheckBudget, O!CheckRateLimit, O!Compare, O!ClearLimit, O!ProviderAnswers, O!Activate,
         O!Supersede
    <2> QED BY <2>1, SameQuiet
  <1>2. CASE O!CreateOtp(w)
    <2>1. CASE UNCHANGED <<codes, created>>
      BY <1>2, <2>1, SameQuiet DEF O!CreateOtp
    <2>2. CASE ~UNCHANGED <<codes, created>>
      <3>1. PICK n, x : /\ n = created + 1
              /\ x = [O!NoCode EXCEPT !.stored = TRUE, !.of = work[w].of, !.expiresAt = codeNow + Lifetime]
        OBVIOUS
      <3>2. codes' = [codes EXCEPT ![n] = x] /\ created' = created + 1 /\ codeNow' = codeNow
        BY <1>2, <2>2, <3>1 DEF O!CreateOtp
      <3>3. /\ x.deliveredAt = O!NoCode.deliveredAt /\ x.superseded = O!NoCode.superseded
            /\ O!NoCode.deliveredAt = O!Never /\ ~O!NoCode.stored
        BY <3>1 DEF O!NoCode
      <3>4. n \in O!CodeId => codes[n] = O!NoCode
        BY <3>1, NewNumbers DEF SafeInv, Fresh
      <3>5. codes \in [O!CodeId -> O!Code]
        BY DEF O!TypeOK
      <3>6. /\ n \in O!CodeId => codes'[n] = x
            /\ \A c \in O!CodeId : c # n => codes'[c] = codes[c]
        BY <3>2, <3>5
      <3>7. codeNow' >= codeNow /\ created' >= created
        BY <3>2, NewNumbers
      <3> QED BY <3>3, <3>4, <3>6, <3>7 DEF QuietCodes
    <2> QED BY <2>1, <2>2
  <1>3. CASE O!Rollback(w)
    <2>1. work[w].code \in O!CodeId /\ work[w].pc = "rollback"
      BY <1>3 DEF SafeInv, WorkersOK, WorkerOK, Sending, O!Rollback, O!At
    <2>2. PICK n \in O!CodeId : n = work[w].code
      BY <2>1
    <2>3. UNCHANGED <<codeNow, created>>
      BY <1>3 DEF O!Rollback
    <2>4. CASE UNCHANGED codes
      BY <2>3, <2>4, SameQuiet
    <2>5. CASE ~UNCHANGED codes
      <3>1. PICK x : x = [codes[n] EXCEPT !.stored = FALSE]
        OBVIOUS
      <3>2. codes' = [codes EXCEPT ![n] = x]
        BY <1>3, <2>2, <2>5, <3>1 DEF O!Rollback
      <3>3. /\ x.of = codes[n].of /\ x.expiresAt = codes[n].expiresAt
            /\ x.deliveredAt = codes[n].deliveredAt /\ x.superseded = codes[n].superseded
        BY <1>0, <3>1 DEF O!Code
      <3>4. Sends(w, n) /\ ~Settled(n)
        BY <2>1, <2>2 DEF Sends, Sending, Settled
      <3>5. \A v \in Workers : ~Retiring(v, n)
        BY <2>1, <3>4 DEF SafeInv, OneSender, Sends, Retiring, Sending
      <3> QED BY <2>3, <3>2, <3>3, <3>4, <3>5, OneQuiet
    <2> QED BY <2>4, <2>5
  <1>4. CASE O!Reserve(w) \/ O!MarkAsVerified(w)
    <2>1. UNCHANGED <<codeNow, created>>
      BY <1>4 DEF O!Reserve, O!MarkAsVerified
    <2>2. CASE UNCHANGED codes
      BY <2>1, <2>2, SameQuiet
    <2>3. CASE ~UNCHANGED codes
      <3>1. \E n \in O!CodeId :
              \E x \in {[codes[n] EXCEPT !.attempts = codes[n].attempts + 1],
                        [codes[n] EXCEPT !.verified = TRUE]} : codes' = [codes EXCEPT ![n] = x]
        <4>1. CASE O!Reserve(w)
          <5>1. PICK n \in O!CodeId : codes' = [codes EXCEPT ![n].attempts = codes[n].attempts + 1]
            BY <2>3, <4>1 DEF O!Reserve, O!Newest, O!Reservable
          <5> QED BY <5>1
        <4>2. CASE O!MarkAsVerified(w)
          <5>1. work[w].code \in O!CodeId
            BY <4>2 DEF SafeInv, WorkersOK, WorkerOK, O!MarkAsVerified, O!At
          <5>2. PICK n \in O!CodeId : n = work[w].code
            BY <5>1
          <5>3. codes' = [codes EXCEPT ![n].verified = TRUE]
            BY <2>3, <4>2, <5>2 DEF O!MarkAsVerified
          <5> QED BY <5>3
        <4> QED BY <1>4, <4>1, <4>2
      <3>2. PICK n \in O!CodeId :
              \E x \in {[codes[n] EXCEPT !.attempts = codes[n].attempts + 1],
                        [codes[n] EXCEPT !.verified = TRUE]} : codes' = [codes EXCEPT ![n] = x]
        BY <3>1
      <3>3. PICK x : /\ codes' = [codes EXCEPT ![n] = x]
                     /\ \/ x = [codes[n] EXCEPT !.attempts = codes[n].attempts + 1]
                        \/ x = [codes[n] EXCEPT !.verified = TRUE]
        BY <3>2
      <3>4. /\ x.of = codes[n].of /\ x.expiresAt = codes[n].expiresAt
            /\ x.deliveredAt = codes[n].deliveredAt /\ x.superseded = codes[n].superseded
            /\ x.stored = codes[n].stored
        BY <1>0, <3>3 DEF O!Code
      <3> QED BY <2>1, <3>3, <3>4, OneQuiet
    <2> QED BY <2>2, <2>3
  <1> QED BY <1>1, <1>2, <1>3, <1>4

LEMMA EnvironmentCodes ==
  ASSUME O!OtpAssumption, O!TypeOK,
         \/ O!Tick
         \/ \E c \in O!CodeId : O!Purge(c)
         \/ \E i \in Idents : O!WindowEnds(i)
         \/ UNCHANGED O!vars
  PROVE  QuietCodes
  <1>1. CASE \E c \in O!CodeId : O!Purge(c)
    <2>1. PICK n \in O!CodeId : O!Purge(n)
      BY <1>1
    <2>2. PICK x : x = [codes[n] EXCEPT !.stored = FALSE]
      OBVIOUS
    <2>3. /\ codes' = [codes EXCEPT ![n] = x] /\ UNCHANGED <<codeNow, created>> /\ Expired(n)
      BY <2>1, <2>2 DEF O!Purge, Expired
    <2>4. codes[n] \in O!Code
      BY NewNumbers
    <2>5. /\ x.of = codes[n].of /\ x.expiresAt = codes[n].expiresAt
          /\ x.deliveredAt = codes[n].deliveredAt /\ x.superseded = codes[n].superseded
      BY <2>2, <2>4 DEF O!Code
    <2> QED BY <2>3, <2>5, OneQuiet
  <1>2. CASE ~\E c \in O!CodeId : O!Purge(c)
    BY <1>2, SameQuiet DEF O!Tick, O!WindowEnds, O!vars
  <1> QED BY <1>1, <1>2

\* A worker whose provider accepted knows no more than before of the codes.
LEMMA NewAccept ==
  ASSUME O!OtpAssumption, O!TypeOK, O!TypeOK', SafeInv, NewInv, NEW w \in Workers,
         O!ProviderAnswers(w), ~O!Fail(w), unseen \subseteq unseen'
  PROVE  NewInv'
  <1>1. /\ work' = [work EXCEPT ![w] = [work[w] EXCEPT !.pc = "activate", !.at = codeNow]]
        /\ work[w].pc = "provider"
    BY DEF O!ProviderAnswers, O!At
  <1>2. work[w] \in O!Work /\ work \in [Workers -> O!Work]
    BY DEF O!TypeOK
  <1>3. PICK q : q = [work[w] EXCEPT !.pc = "activate", !.at = codeNow]
    OBVIOUS
  <1>4. q.pc = "activate" /\ q.code = work[w].code
    BY <1>2, <1>3 DEF O!Work
  <1>5. work'[w] = q /\ \A v \in Workers : v # w => work'[v] = work[v]
    BY <1>1, <1>2, <1>3
  <1>6. QuietWork
    BY <1>1, <1>4, <1>5 DEF QuietWork, Retiring, Sends, Sending
  <1>7. QuietCodes
    BY StepCodes
  <1> QED BY <1>6, <1>7, QuietKeeps DEF NewInv

LEMMA NewActivate ==
  ASSUME O!OtpAssumption, O!TypeOK, O!TypeOK', SafeInv, NewInv, NEW w \in Workers,
         O!Activate(w), ~(O!Fail(w) /\ UNCHANGED codes), unseen \subseteq unseen'
  PROVE  NewInv'
  <1>1. /\ codes' = [codes EXCEPT ![work[w].code] =
              [codes[work[w].code] EXCEPT !.deliveredAt = work[w].at, !.superseded = FALSE]]
        /\ codes[work[w].code].stored
        /\ work[w].pc = "activate" /\ UNCHANGED <<codeNow, created>>
        /\ work' = [work EXCEPT ![w] = [work[w] EXCEPT !.pc = "supersede", !.at = O!Never]]
    BY DEF O!Activate, O!At
  <1>2. /\ work[w].code \in O!CodeId /\ work[w].at \in O!Time
        /\ codes[work[w].code].deliveredAt = O!Never
    BY <1>1 DEF SafeInv, WorkersOK, WorkerOK, Sending
  <1>3. PICK n \in O!CodeId, t \in O!Time : n = work[w].code /\ t = work[w].at
    BY <1>2
  <1>4. PICK x, q : /\ x = [codes[n] EXCEPT !.deliveredAt = t, !.superseded = FALSE]
                    /\ q = [work[w] EXCEPT !.pc = "supersede", !.at = O!Never]
    OBVIOUS
  <1>5. work[w] \in O!Work /\ work \in [Workers -> O!Work] /\ codes[n] \in O!Code /\ codes \in [O!CodeId -> O!Code]
    BY DEF O!TypeOK
  <1>6. /\ x.deliveredAt = t /\ ~x.superseded /\ x.of = codes[n].of /\ x.stored = codes[n].stored
        /\ x.expiresAt = codes[n].expiresAt
        /\ q.pc = "supersede" /\ q.code = n
    BY <1>3, <1>4, <1>5 DEF O!Code, O!Work
  <1>7. /\ codes'[n] = x /\ \A c \in O!CodeId : c # n => codes'[c] = codes[c]
        /\ work'[w] = q /\ \A v \in Workers : v # w => work'[v] = work[v]
    BY <1>1, <1>3, <1>4, <1>5
  <1>8. t # O!Never
    BY Numbers DEF O!Never
  <1>10. Undelivered'
    BY <1>6, <1>7 DEF NewInv, Undelivered
  <1>11. RetirersLive'
    <2> SUFFICES ASSUME NEW v \in Workers, NEW c \in O!CodeId, Retiring(v, c)'
                 PROVE  codes'[c].stored \/ Expired(c)'
      BY DEF RetirersLive
    <2>1. CASE c = n
      BY <1>1, <1>3, <1>6, <1>7, <2>1
    <2>2. CASE c # n
      <3>1. Retiring(v, c)
        BY <1>6, <1>7, <2>2 DEF Retiring
      <3>2. codes[c].stored \/ Expired(c)
        BY <3>1 DEF NewInv, RetirersLive
      <3> QED BY <1>1, <1>7, <2>2, <3>2 DEF Expired
    <2> QED BY <2>1, <2>2
  <1>12. Heirs'
    <2> SUFFICES ASSUME NEW c \in O!CodeId, codes'[c].superseded
                 PROVE  \E d \in O!CodeId : Heir(c, d)'
      BY DEF Heirs
    <2>1. c # n /\ codes'[c] = codes[c] /\ codes[c].superseded
      BY <1>6, <1>7
    <2>2. PICK d \in O!CodeId : Heir(c, d)
      BY <2>1 DEF NewInv, Heirs
    <2>3. codes[c].deliveredAt # O!Never
      BY <2>1 DEF NewInv, Undelivered
    <2>4. codes[d].deliveredAt # O!Never
      BY <2>2, <2>3, NewNumbers DEF Heir, O!Never
    <2>5. d # n /\ codes'[d] = codes[d]
      BY <1>2, <1>3, <1>7, <2>4
    <2>6. CASE Usable(d)
      <3>1. Settled(d)
        BY <2>6 DEF Usable
      <3>2. \A v \in Workers : ~Sends(v, d)'
        BY <1>6, <1>7, <2>5, <3>1 DEF Settled, Sends
      <3>3. Usable(d)'
        BY <1>1, <2>5, <2>6, <3>1, <3>2 DEF Settled, Usable, Expired
      <3> QED BY <2>1, <2>2, <2>5, <3>3 DEF Heir
    <2>7. CASE Excepted(d)
      <3>1. Excepted(d)'
        <4>1. \A e \in O!CodeId :
                /\ codes'[e].deliveredAt = codes[e].deliveredAt \/ codes[e].deliveredAt = O!Never
                /\ codes[e].deliveredAt # O!Never => codes'[e].of = codes[e].of
          BY <1>2, <1>3, <1>7
        <4> QED BY <2>4, <2>7, <4>1, ExceptedStays
      <3> QED BY <2>1, <2>2, <2>5, <3>1 DEF Heir
    <2> QED BY <2>2, <2>6, <2>7 DEF Heir
  <1> QED BY <1>10, <1>11, <1>12 DEF NewInv

LEMMA NewSupersede ==
  ASSUME O!OtpAssumption, O!TypeOK, O!TypeOK', SafeInv, NewInv, NEW w \in Workers,
         O!Supersede(w), ~(O!Fail(w) /\ UNCHANGED <<codes, obsolete>>), unseen \subseteq unseen'
  PROVE  NewInv'
  <1>1. /\ work[w].pc = "supersede" /\ UNCHANGED <<codeNow, created>>
        /\ O!End(w) \/ (O!Fail(w) /\ (codes' # codes => work[w].code \in unseen'))
        /\ codes' = [d \in O!CodeId |-> IF O!Retires(work[w].code, d)
                       THEN [codes[d] EXCEPT !.superseded = TRUE] ELSE codes[d]]
    BY DEF O!Supersede, O!Superseding, O!At
  <1>2. /\ work[w].code \in O!CodeId /\ work[w].code <= created
        /\ codes[work[w].code].deliveredAt \in O!Time
    BY <1>1 DEF SafeInv, WorkersOK, WorkerOK, Sending
  <1>3. PICK n \in O!CodeId : n = work[w].code
    BY <1>2
  <1>4. /\ n <= created /\ codes[n].deliveredAt # O!Never
        /\ Sends(w, n) /\ (codes[n].stored \/ Expired(n))
    <2>1. codes[n].deliveredAt # O!Never
      BY <1>2, <1>3, Numbers DEF O!Never
    <2>2. Retiring(w, n) /\ Sends(w, n)
      BY <1>1, <1>3 DEF Retiring, Sends, Sending
    <2> QED BY <1>2, <1>3, <2>1, <2>2 DEF NewInv, RetirersLive
  <1>5. \A d \in O!CodeId :
          /\ codes'[d].of = codes[d].of /\ codes'[d].deliveredAt = codes[d].deliveredAt
          /\ codes'[d].stored = codes[d].stored /\ codes'[d].expiresAt = codes[d].expiresAt
          /\ codes'[d].superseded = IF O!Retires(n, d) THEN TRUE ELSE codes[d].superseded
    <2>1. ASSUME NEW d \in O!CodeId
          PROVE  /\ codes[d] \in O!Code
                 /\ codes'[d] = IF O!Retires(n, d) THEN [codes[d] EXCEPT !.superseded = TRUE]
                                ELSE codes[d]
      BY <1>1, <1>3, NewNumbers, Zenon
    <2> QED BY <2>1 DEF O!Code
  <1>6. QuietWork
    BY <1>1, StepStays
  <1>7. \A d \in O!CodeId : Settled(d) => Settled(d)'
    <2> SUFFICES ASSUME NEW d \in O!CodeId, Settled(d) PROVE Settled(d)'
      OBVIOUS
    <2>1. d <= created /\ codes[d].deliveredAt # O!Never /\ \A v \in Workers : ~Sends(v, d)
      BY DEF Settled
    <2>2. ~(d > created)
      BY <2>1, NewNumbers
    <2>3. \A v \in Workers : ~Sends(v, d)'
      BY <1>6, <2>1, <2>2 DEF QuietWork
    <2> QED BY <1>1, <1>5, <2>1, <2>3 DEF Settled
  <1>8. O!End(w) => Settled(n)'
    <2> SUFFICES ASSUME O!End(w) PROVE Settled(n)'
      OBVIOUS
    <2>1. work \in [Workers -> O!Work] /\ O!Idle.pc = "idle"
      BY DEF O!TypeOK, O!Idle
    <2>2. ASSUME NEW v \in Workers, Sends(v, n)' PROVE FALSE
      <3>1. v # w
        BY <2>1, <2>2 DEF O!End, Sends, Sending
      <3>2. work'[v] = work[v]
        BY <2>1, <3>1 DEF O!End
      <3>3. Sends(v, n)
        BY <2>2, <3>2 DEF Sends
      <3>4. OneSender
        BY DEF SafeInv
      <3> QED BY <1>4, <3>1, <3>3, <3>4 DEF OneSender
    <2> QED BY <1>1, <1>4, <1>5, <2>2 DEF Settled
  <1>9. \A d \in O!CodeId : codes[d].deliveredAt \in Nat
    BY NewNumbers
  <1>10. \A d \in O!CodeId : (codes[d].stored \/ Expired(d)) => codes'[d].stored \/ Expired(d)'
    BY <1>1, <1>5 DEF Expired
  <1>11. \A d \in O!CodeId : (Usable(d) /\ ~O!Retires(n, d)) => Usable(d)'
    BY <1>5, <1>7, <1>10 DEF Usable
  <1>12. \A d \in O!CodeId : (Excepted(d) /\ codes[d].deliveredAt # O!Never) => Excepted(d)'
    BY <1>5, ExceptedStays
  \* The code that keeps those retired in this step from mattering.
  <1>13. ASSUME codes' # codes
         PROVE  \E m \in O!CodeId : /\ codes[m].of = codes[n].of
                                     /\ codes[n].deliveredAt <= codes[m].deliveredAt
                                     /\ (Usable(m)' \/ Excepted(m)')
    <2>1. codes[n].deliveredAt <= codes[n].deliveredAt
      BY <1>9
    <2>2. CASE ~O!End(w)
      <3>1. Excepted(n)'
        BY <1>1, <1>3, <1>13, <2>2 DEF Excepted
      <3> QED BY <2>1, <3>1
    <2>3. CASE O!End(w) /\ ~codes[n].superseded
      <3>1. Usable(n)'
        BY <1>4, <1>5, <1>8, <1>10, <2>3 DEF O!Retires, Usable
      <3> QED BY <2>1, <3>1
    <2>4. CASE codes[n].superseded
      <3>1. PICK d \in O!CodeId : Heir(n, d)
        BY <2>4 DEF NewInv, Heirs
      <3>2. codes[d].of = codes[n].of /\ codes[n].deliveredAt <= codes[d].deliveredAt
        BY <3>1 DEF Heir
      <3>3. codes[d].deliveredAt # O!Never
        BY <1>4, <1>9, <3>2 DEF O!Never
      <3>4. CASE Usable(d) /\ O!Retires(n, d)
        <4>1. codes[d].deliveredAt = codes[n].deliveredAt /\ d # n
          BY <1>9, <3>2, <3>4 DEF O!Retires
        <4>2. Excepted(d)
          BY <3>2, <4>1 DEF Excepted, O!Tied
        <4> QED BY <1>12, <3>2, <3>3, <4>2
      <3>5. CASE Usable(d) /\ ~O!Retires(n, d)
        BY <1>11, <3>2, <3>5
      <3>6. CASE Excepted(d)
        BY <1>12, <3>2, <3>3, <3>6
      <3> QED BY <3>1, <3>4, <3>5, <3>6 DEF Heir
    <2> QED BY <2>2, <2>3, <2>4
  <1>14. Heirs'
    <2> SUFFICES ASSUME NEW c \in O!CodeId, codes'[c].superseded
                 PROVE  \E d \in O!CodeId : Heir(c, d)'
      BY DEF Heirs
    <2>1. ASSUME NEW d \in O!CodeId, codes[c].of = codes[d].of,
                 codes[c].deliveredAt <= codes[d].deliveredAt, O!Retires(n, d), ~codes[d].superseded
          PROVE  \E m \in O!CodeId : Heir(c, m)'
      <3>1. codes'[d].superseded /\ codes' # codes
        BY <1>5, <2>1
      <3>2. PICK m \in O!CodeId : /\ codes[m].of = codes[n].of
                                  /\ codes[n].deliveredAt <= codes[m].deliveredAt
                                  /\ (Usable(m)' \/ Excepted(m)')
        BY <1>13, <3>1, Zenon
      <3>3. codes[d].of = codes[n].of /\ codes[d].deliveredAt <= codes[n].deliveredAt
        BY <2>1 DEF O!Retires
      <3>4. codes[c].deliveredAt <= codes[m].deliveredAt
        BY <1>9, <2>1, <3>2, <3>3
      <3> QED BY <1>5, <2>1, <3>2, <3>3, <3>4 DEF Heir
    <2>2. CASE ~codes[c].superseded
      <3>1. O!Retires(n, c)
        BY <1>5, <2>2, Zenon
      <3>2. codes[c].deliveredAt <= codes[c].deliveredAt
        BY <1>9
      <3> QED BY <2>1, <2>2, <3>1, <3>2
    <2>3. CASE codes[c].superseded
      <3>1. PICK d \in O!CodeId : Heir(c, d)
        BY <2>3 DEF NewInv, Heirs
      <3>2. codes[d].of = codes[c].of /\ codes[c].deliveredAt <= codes[d].deliveredAt
        BY <3>1 DEF Heir
      <3>3. codes[c].deliveredAt # O!Never
        BY <2>3 DEF NewInv, Undelivered
      <3>4. codes[d].deliveredAt # O!Never
        BY <1>9, <3>2, <3>3 DEF O!Never
      <3>5. CASE Excepted(d)
        BY <1>5, <1>12, <3>2, <3>4, <3>5 DEF Heir
      <3>6. CASE Usable(d) /\ ~O!Retires(n, d)
        BY <1>5, <1>11, <3>2, <3>6 DEF Heir
      <3>7. CASE Usable(d) /\ O!Retires(n, d)
        BY <2>1, <3>2, <3>7 DEF Usable
      <3> QED BY <3>1, <3>5, <3>6, <3>7 DEF Heir
    <2> QED BY <2>2, <2>3
  <1>15. Undelivered'
    BY <1>5 DEF NewInv, Undelivered, O!Retires, O!Delivered
  <1>16. RetirersLive'
    <2>1. \A v \in Workers, c \in O!CodeId : Retiring(v, c)' => Retiring(v, c)
      BY <1>6 DEF QuietWork
    <2> QED BY <1>10, <2>1 DEF NewInv, RetirersLive
  <1> QED BY <1>14, <1>15, <1>16 DEF NewInv

LEMMA UnseenStay ==
  ASSUME [O!Next]_(O!vars)
  PROVE  unseen \subseteq unseen'
  BY DEF O!Next, O!vars, O!hist, O!BeginSend, O!BeginVerify, O!CheckBudget, O!CheckRateLimit, O!CreateOtp,
     O!ProviderAnswers, O!Activate, O!Supersede, O!Rollback, O!Reserve, O!Compare, O!MarkAsVerified,
     O!ClearLimit, O!Tick, O!Purge, O!WindowEnds

LEMMA NewStep ==
  ASSUME O!OtpAssumption, O!TypeOK, O!TypeOK', SafeInv, NewInv, [O!Next]_(O!vars)
  PROVE  NewInv'
  <1>0. ASSUME QuietCodes, QuietWork PROVE NewInv'
    BY <1>0, QuietKeeps, UnseenStay DEF NewInv
  <1>1. CASE \/ O!Tick
             \/ \E c \in O!CodeId : O!Purge(c)
             \/ \E i \in Idents : O!WindowEnds(i)
             \/ UNCHANGED O!vars
    <2>1. UNCHANGED work
      BY <1>1 DEF O!Tick, O!Purge, O!WindowEnds, O!vars
    <2> QED BY <1>0, <1>1, <2>1, StillStays, EnvironmentCodes
  <1>2. ASSUME NEW w \in Workers, NEW i \in Idents, NEW g \in O!CodeId \cup {0},
               O!BeginSend(w, i) \/ O!BeginVerify(w, i, g)
        PROVE  NewInv'
    <2>1. UNCHANGED <<codes, created, codeNow>>
      BY <1>2 DEF O!BeginSend, O!BeginVerify
    <2> QED BY <1>0, <1>2, <2>1, BeginStays, SameQuiet
  <1>3. ASSUME NEW w \in Workers,
               \/ O!CheckBudget(w) \/ O!CheckRateLimit(w) \/ O!CreateOtp(w) \/ O!Rollback(w)
               \/ O!Reserve(w) \/ O!Compare(w) \/ O!MarkAsVerified(w) \/ O!ClearLimit(w)
        PROVE  NewInv'
    BY <1>0, <1>3, StepStays, StepCodes
  <1>4. ASSUME NEW w \in Workers, O!ProviderAnswers(w) \/ O!Activate(w) \/ O!Supersede(w)
        PROVE  NewInv'
    <2>1. CASE O!Fail(w) /\ UNCHANGED codes
      BY <1>0, <1>4, <2>1, StepStays, StepCodes
    <2>2. CASE O!ProviderAnswers(w) /\ ~O!Fail(w)
      BY <2>2, NewAccept, UnseenStay
    <2>3. CASE O!Activate(w) /\ ~(O!Fail(w) /\ UNCHANGED codes)
      BY <2>3, NewActivate, UnseenStay
    <2>4. CASE O!Supersede(w) /\ ~(O!Fail(w) /\ UNCHANGED codes)
      BY <2>4, NewSupersede, UnseenStay
    <2>5. O!ProviderAnswers(w) => UNCHANGED codes
      BY DEF O!ProviderAnswers
    <2> QED BY <1>4, <2>1, <2>2, <2>3, <2>4, <2>5
  <1>5. inbox \cup {0} \subseteq O!CodeId \cup {0} /\ 0 \in O!CodeId \cup {0}
    BY DEF O!TypeOK
  <1> QED BY <1>1, <1>2, <1>3, <1>4, <1>5, Zenon DEF O!Next

\* Whoever retires a code was delivered no earlier and leaves the user a code that no
\* other send has retired and no rollback can take, until it expires; unless two
\* providers answered in one millisecond, or the reply to the retiring update was lost.
THEOREM NewestStaysUsable ==
  ASSUME O!OtpAssumption
  PROVE  O!Spec => []O!NewestUsable
  <1>1. O!Init => NewInv
    <2> SUFFICES ASSUME O!Init PROVE NewInv
      OBVIOUS
    <2>1. /\ \A c \in O!CodeId : codes[c].deliveredAt = O!Never /\ ~codes[c].superseded
          /\ \A w \in Workers : work[w].pc = "idle"
      BY DEF O!Init, O!NoCode, O!Idle
    <2> QED BY <2>1 DEF NewInv, Undelivered, RetirersLive, Retiring, Heirs
  <1>2. O!TypeOK /\ NewInv => O!NewestUsable
    <2> SUFFICES ASSUME O!TypeOK, NewInv, NEW c \in O!CodeId, codes[c].superseded
                 PROVE  \E d \in O!CodeId :
                          /\ codes[d].of = codes[c].of
                          /\ codes[d].deliveredAt >= codes[c].deliveredAt
                          /\ \/ ~codes[d].superseded /\ (O!Delivered(d) \/ codes[d].expiresAt <= codeNow)
                             \/ d \in unseen
                             \/ \E e \in O!CodeId : O!Tied(d, e)
      BY DEF O!NewestUsable
    <2>1. PICK d \in O!CodeId : Heir(c, d)
      BY DEF NewInv, Heirs
    <2>2. codes[d].deliveredAt >= codes[c].deliveredAt
      BY <2>1, NewNumbers DEF Heir
    <2> QED BY <2>1, <2>2 DEF Heir, Usable, Excepted, Settled, O!Delivered, Expired
  <1>3. O!TypeOK /\ O!TypeOK' /\ SafeInv /\ NewInv /\ [O!Next]_(O!vars) => NewInv'
    BY NewStep
  <1>4. O!Spec => [](O!TypeOK /\ SafeInv)
    BY Always
  <1> QED BY <1>1, <1>2, <1>3, <1>4, PTL DEF O!Spec

-----------------------------------------------------------------------------
(* The codes next to the sessions.  A step of the whole is one of a single        *)
(* component, or leaves that component as it is.                                  *)

LEMMA CodesRun == MCSpec => O!OtpAssumption /\ O!Spec
<1>1. MCInit => O!Init
  BY DEF MCInit
<1>2. [MCNext]_<<part, ofSessions, ofCodes, ofSignup>> => [O!Next]_(O!vars)
  BY DEF MCNext, RestrictedCodes, ofCodes, O!vars
<1> QED BY <1>1, <1>2, CodeBounds, PTL DEF MCSpec, O!Spec

\* No more guesses are compared with a code than it has attempts, a code lets one
\* verification in, and whoever retires a code leaves a usable one, ties in one
\* millisecond and lost replies excepted (CustomOTPService).
THEOREM CodesHeld == MCSpec => []CodesHold
<1>1. O!Spec => []O!TypeOK
  BY CodeBounds, CodesTyped
<1>2. O!Spec => []O!GuessesBounded
  BY CodeBounds, GuessesLimited
<1>3. O!Spec => []O!OneLoginPerCode
  BY CodeBounds, OneLogin
<1>4. O!Spec => []O!NewestUsable
  BY CodeBounds, NewestStaysUsable
<1> QED BY <1>1, <1>2, <1>3, <1>4, CodesRun, PTL DEF CodesHold

\* What a completed send has retired lets nobody in (CustomOTPService).
THEOREM ObsoleteHeld == MCSpec => ObsoleteStaysDead
<1>1. O!Spec => O!ObsoleteStaysDead
  BY CodeBounds, ObsoleteDead
<1> QED
  BY <1>1, CodesRun, PTL DEF ObsoleteStaysDead

-----------------------------------------------------------------------------
(* Sign-up.                                                                      *)

Account == [there : BOOLEAN, active : BOOLEAN, ident : Idents \cup {None}, methods : SUBSET Idents,
            name : Names \cup {None} \cup {N!Tombstone(a) : a \in N!Accounts}]
Handler == [pc : N!PCs, ident : Idents \cup {None}, purpose : N!Purposes, acc : N!Accounts \cup {0},
            name : Names \cup {None}]

SignStored ==
  /\ sUsers \in [N!Accounts -> Account]
  /\ sReq \in [Workers -> Handler]
  /\ sCodes \subseteq Idents \X N!Purposes /\ sTemps \subseteq N!Accounts /\ sIn \subseteq N!Accounts
  /\ sGone \subseteq N!Accounts /\ sCalls \in 0 .. MaxSignCalls
  /\ sWon \in [N!Accounts -> SUBSET Names]

\* An account before it is made, while it is somebody's, and once it is deleted.
AccountOK(a) ==
  /\ ~sUsers[a].there => sUsers[a] = N!NoUser /\ a \notin sGone
  /\ sUsers[a].there /\ a \notin sGone =>
       sUsers[a].ident \in Idents /\ sUsers[a].methods = {sUsers[a].ident}
  /\ sUsers[a].name \in Names \cup {None, N!Tombstone(a)}
  /\ a \in sGone => sUsers[a].name = N!Tombstone(a)
  /\ a \in sGone \ sRaced => sUsers[a].ident = None /\ sUsers[a].methods = {}
  /\ a \notin sGone => sUsers[a].name # N!Tombstone(a)
  /\ sWon[a] = {} \/ \E n \in Names : sWon[a] = {n}
  /\ a \notin sGone => sWon[a] = {sUsers[a].name} \ {None}

\* The two unique indexes.
Indexed ==
  \A a, b \in N!Accounts : a # b =>
    /\ sUsers[a].ident = sUsers[b].ident => sUsers[a].ident = None
    /\ sUsers[a].name = sUsers[b].name => sUsers[a].name = None

\* What a handler that has found or made an account knows of it.
Finders == {"match", "push", "shortcut"}
HandlerKnows(r) ==
  LET q == sReq[r] IN
  /\ q.pc \in {"send", "code", "provider", "find", "insert"} \cup Finders => q.ident \in Idents
  /\ q.pc \in Finders \cup {"reload", "available", "setName", "session"} => q.acc \in N!Accounts
  /\ q.pc \in {"available", "setName"} => q.name \in Names
  /\ q.pc \in Finders \cup {"reload"} => sUsers[q.acc].there
  /\ q.pc \in Finders /\ q.acc \in sGone => q.acc \in sRaced
  /\ q.pc \in Finders /\ q.acc \notin sGone => q.ident = sUsers[q.acc].ident
  /\ q.pc = "session" => sUsers[q.acc].name # None

SignupInv ==
  /\ SignStored /\ Indexed
  /\ \A a \in N!Accounts : AccountOK(a)
  /\ \A r \in Workers : HandlerKnows(r)
  /\ \A a \in sIn : sUsers[a].name # None

LEMMA StoneFacts ==
  /\ None \notin Idents /\ None \notin Names
  /\ \A a \in N!Accounts : N!Tombstone(a) \notin Names /\ N!Tombstone(a) # None
  /\ \A a, b \in N!Accounts : N!Tombstone(a) = N!Tombstone(b) => a = b
  /\ 0 \notin N!Accounts
  BY SignupBounds DEF N!SignupAssumption, N!Tombstone, N!Accounts

LEMMA AccountTyped ==
  ASSUME SignStored, NEW a \in N!Accounts
  PROVE  /\ sUsers[a].there \in BOOLEAN /\ sUsers[a].active \in BOOLEAN
         /\ sUsers[a].ident \in Idents \cup {None} /\ sUsers[a].methods \in SUBSET Idents
         /\ sUsers[a] \in Account
  BY DEF SignStored, Account

LEMMA HandlerTyped ==
  ASSUME SignStored, NEW r \in Workers
  PROVE  /\ sReq[r].pc \in N!PCs /\ sReq[r].ident \in Idents \cup {None} /\ sReq[r].purpose \in N!Purposes
         /\ sReq[r].acc \in N!Accounts \cup {0} /\ sReq[r].name \in Names \cup {None}
         /\ sReq[r] \in Handler
  BY DEF SignStored, Handler

\* Where a handler goes.
OthersStay(r) == \A s \in Workers \ {r} : sReq'[s] = sReq[s]
LEMMA Went ==
  ASSUME SignStored, NEW r \in Workers, NEW pc \in N!PCs, N!Goto(r, pc)
  PROVE  /\ sReq' \in [Workers -> Handler] /\ OthersStay(r)
         /\ sReq'[r].pc = pc /\ sReq'[r].ident = sReq[r].ident /\ sReq'[r].acc = sReq[r].acc
         /\ sReq'[r].name = sReq[r].name
  BY DEF N!Goto, SignStored, Handler, OthersStay

LEMMA Ended ==
  ASSUME SignStored, NEW r \in Workers, N!End(r)
  PROVE  sReq' \in [Workers -> Handler] /\ OthersStay(r) /\ HandlerKnows(r)'
  <1>1. N!Idle \in Handler
    BY DEF N!Idle, Handler, N!PCs, N!Purposes
  <1>2. sReq' \in [Workers -> Handler] /\ OthersStay(r) /\ sReq'[r] = N!Idle
    BY <1>1 DEF N!End, SignStored, OthersStay
  <1> QED BY <1>2 DEF HandlerKnows, N!Idle, Finders

\* A handler keeps its knowledge while accounts only go forward.
Forward ==
  /\ \A a \in N!Accounts :
       /\ sUsers[a].there => sUsers'[a].there
       /\ a \notin sGone' /\ sUsers[a].there => sUsers'[a].ident = sUsers[a].ident
       /\ sUsers[a].name # None => sUsers'[a].name # None
  /\ sGone \subseteq sGone' /\ sRaced \subseteq sRaced'

LEMMA Knows ==
  ASSUME SignupInv, NEW r \in Workers, sReq'[r] = sReq[r], Forward,
         \A a \in sGone' \ sGone : sReq[r].pc \in Finders /\ sReq[r].acc = a => a \in sRaced'
  PROVE  HandlerKnows(r)'
  <1>1. HandlerKnows(r)
    BY DEF SignupInv
  <1> DEFINE q == sReq[r]
  <1>2. sReq'[r] = q
    OBVIOUS
  <1>3. q.pc \in Finders \cup {"reload", "available", "setName", "session"} => q.acc \in N!Accounts
    BY <1>1 DEF HandlerKnows
  <1>4. q.pc \in Finders \cup {"reload"} => sUsers'[q.acc].there
    BY <1>1, <1>3 DEF HandlerKnows, Forward
  <1>5. q.pc \in Finders /\ q.acc \in sGone' => q.acc \in sRaced'
    BY <1>1 DEF HandlerKnows, Forward
  <1>6. q.pc \in Finders /\ q.acc \notin sGone' => q.ident = sUsers'[q.acc].ident
    BY <1>1, <1>3 DEF HandlerKnows, Forward
  <1>7. q.pc = "session" => sUsers'[q.acc].name # None
    BY <1>1, <1>3 DEF HandlerKnows, Forward
  <1> QED BY <1>1, <1>2, <1>4, <1>5, <1>6, <1>7 DEF HandlerKnows

\* A step that leaves the accounts alone.
LEMMA OnlyHandler ==
  ASSUME SignupInv, NEW r \in Workers, sReq' \in [Workers -> Handler], OthersStay(r), HandlerKnows(r)',
         UNCHANGED sUsers, UNCHANGED sGone, UNCHANGED sRaced, UNCHANGED sWon,
         sCodes' \subseteq Idents \X N!Purposes, sTemps' \subseteq N!Accounts, sCalls' \in 0 .. MaxSignCalls,
         sIn' \subseteq N!Accounts, \A a \in sIn' : sUsers[a].name # None
  PROVE  SignupInv'
  <1>1. SignStored' /\ Indexed' /\ \A a \in N!Accounts : AccountOK(a)'
    BY DEF SignupInv, SignStored, Indexed, AccountOK
  <1>2. Forward /\ sGone' \ sGone = {}
    BY DEF Forward
  <1>3. \A s \in Workers : HandlerKnows(s)'
    BY <1>2, Knows DEF OthersStay
  <1> QED BY <1>1, <1>3 DEF SignupInv

\* One account changes, and with it perhaps one handler.
LEMMA AccountMoves ==
  ASSUME SignupInv, NEW a \in N!Accounts, NEW u \in Account, sUsers' = [sUsers EXCEPT ![a] = u],
         AccountOK(a)', sGone' \subseteq sGone \cup {a}, sGone \subseteq sGone', sRaced \subseteq sRaced',
         sWon' \in [N!Accounts -> SUBSET Names], \A b \in N!Accounts \ {a} : sWon'[b] = sWon[b],
         \A b \in N!Accounts \ {a} : /\ u.ident = sUsers[b].ident => u.ident = None
                                     /\ u.name = sUsers[b].name => u.name = None,
         UNCHANGED sCodes, UNCHANGED sTemps, UNCHANGED sIn, sCalls' \in 0 .. MaxSignCalls,
         sUsers[a].name # None => u.name # None,
         sReq' \in [Workers -> Handler], \A r \in Workers : HandlerKnows(r)'
  PROVE  SignupInv'
  <1>1. sUsers' \in [N!Accounts -> Account] /\ sUsers'[a] = u
        /\ \A b \in N!Accounts \ {a} : sUsers'[b] = sUsers[b]
    BY DEF SignupInv, SignStored
  <1>2. SignStored'
    BY <1>1 DEF SignupInv, SignStored
  <1>3. Indexed'
    BY <1>1 DEF SignupInv, Indexed
  <1>4. ASSUME NEW b \in N!Accounts PROVE AccountOK(b)'
    <2>1. CASE b = a
      BY <2>1
    <2>2. CASE b # a
      <3>1. AccountOK(b) /\ sUsers'[b] = sUsers[b] /\ sWon'[b] = sWon[b] /\ (b \in sGone' <=> b \in sGone)
        BY <1>1, <2>2 DEF SignupInv
      <3> QED BY <3>1 DEF AccountOK
    <2> QED BY <2>1, <2>2
  <1>5. \A b \in sIn' : sUsers'[b].name # None
    BY <1>1 DEF SignupInv, SignStored
  <1> QED BY <1>2, <1>3, <1>4, <1>5 DEF SignupInv

-----------------------------------------------------------------------------
(* The handlers.                                                                *)

LEMMA FoundFacts ==
  ASSUME SignupInv, NEW i \in Idents, NEW a \in N!FindByAuthMethod(i)
  PROVE  /\ a \in N!Accounts /\ sUsers[a].there
         /\ a \in sGone => a \in sRaced
         /\ a \notin sGone => i = sUsers[a].ident
  <1>1. a \in N!Accounts /\ sUsers[a].active /\ i \in sUsers[a].methods \cup {sUsers[a].ident}
        /\ AccountOK(a)
    BY DEF N!FindByAuthMethod, SignupInv
  <1>2. sUsers[a].there
    BY <1>1 DEF AccountOK, N!NoUser
  <1>3. i # None
    BY StoneFacts
  <1> QED BY <1>1, <1>2, <1>3 DEF AccountOK

LEMMA CallSpent == ASSUME SignupInv, N!Spend PROVE sCalls' \in 0 .. MaxSignCalls
  BY SignupBounds DEF SignupInv, SignStored, N!Spend, N!SignupAssumption

\* A handler begins.
LEMMA Begins ==
  ASSUME SignupInv, NEW r \in Workers, N!Spend, N!OnlyReq, NEW q \in Handler,
         sReq' = [sReq EXCEPT ![r] = q],
         \/ q.pc \in {"send", "code", "provider"} /\ q.ident \in Idents
         \/ q.pc = "available" /\ q.acc \in N!Accounts /\ q.name \in Names
  PROVE  SignupInv'
  <1>1. sReq' \in [Workers -> Handler] /\ OthersStay(r) /\ sReq'[r] = q
    BY DEF SignupInv, SignStored, OthersStay
  <1>2. HandlerKnows(r)'
    BY <1>1 DEF HandlerKnows, Finders
  <1>3. sCalls' \in 0 .. MaxSignCalls
    BY CallSpent
  <1> QED BY <1>1, <1>2, <1>3, OnlyHandler DEF N!OnlyReq, SignupInv, SignStored

LEMMA BeginnersKnow ==
  ASSUME SignupInv, NEW r \in Workers,
         \/ \E i \in Idents : N!Initiate(r, i) \/ N!Verify(r, i) \/ N!FederatedLogin(r, i)
         \/ \E a \in N!Accounts, n \in Names : N!CreateUsername(r, a, n)
  PROVE  SignupInv'
  <1>1. ASSUME NEW i \in Idents, NEW pc \in {"send", "code"}, N!Spend, N!OnlyReq,
               sReq' = [sReq EXCEPT ![r] = [N!Idle EXCEPT !.pc = pc, !.ident = i, !.purpose = N!Purpose(i)]]
        PROVE  SignupInv'
    <2>1. PICK p \in N!Purposes : p = N!Purpose(i)
      BY DEF N!Purpose, N!Purposes
    <2>2. PICK q : q = [N!Idle EXCEPT !.pc = pc, !.ident = i, !.purpose = p]
      OBVIOUS
    <2>3. q \in Handler /\ q.pc = pc /\ q.ident = i
      BY <2>2 DEF N!Idle, Handler, N!PCs, N!Purposes
    <2>4. sReq' = [sReq EXCEPT ![r] = q]
      BY <1>1, <2>1, <2>2
    <2> QED BY <1>1, <2>3, <2>4, Begins
  <1>2. ASSUME NEW i \in Idents, N!FederatedLogin(r, i) PROVE SignupInv'
    <2>1. PICK q : q = [N!Idle EXCEPT !.pc = "provider", !.ident = i]
      OBVIOUS
    <2>2. q \in Handler /\ q.pc = "provider" /\ q.ident = i
      BY <2>1 DEF N!Idle, Handler, N!PCs, N!Purposes
    <2>3. sReq' = [sReq EXCEPT ![r] = q] /\ N!Spend /\ N!OnlyReq
      BY <1>2, <2>1 DEF N!FederatedLogin
    <2> QED BY <2>2, <2>3, Begins
  <1>3. ASSUME NEW a \in N!Accounts, NEW n \in Names, N!CreateUsername(r, a, n) PROVE SignupInv'
    <2>1. N!Spend /\ N!OnlyReq
      BY <1>3 DEF N!CreateUsername
    <2>2. CASE sReq' = sReq
      <3>1. OthersStay(r) /\ sReq' \in [Workers -> Handler] /\ Forward /\ sGone' \ sGone = {}
        BY <2>1, <2>2 DEF OthersStay, SignupInv, SignStored, Forward, N!OnlyReq
      <3>2. HandlerKnows(r)'
        BY <2>2, <3>1, Knows
      <3>3. sCalls' \in 0 .. MaxSignCalls
        BY <2>1, CallSpent
      <3> QED BY <2>1, <3>1, <3>2, <3>3, OnlyHandler DEF N!OnlyReq, SignupInv, SignStored
    <2>3. CASE sReq' = [sReq EXCEPT ![r] = [N!Idle EXCEPT !.pc = "available", !.acc = a, !.name = n]]
      <3>1. PICK q : q = [N!Idle EXCEPT !.pc = "available", !.acc = a, !.name = n]
        OBVIOUS
      <3>2. q \in Handler /\ q.pc = "available" /\ q.acc = a /\ q.name = n
        BY <3>1 DEF N!Idle, Handler, N!PCs, N!Purposes
      <3> QED BY <2>1, <2>3, <3>1, <3>2, Begins
    <2> QED BY <1>3, <2>2, <2>3 DEF N!CreateUsername
  <1>4. ASSUME NEW i \in Idents, N!Initiate(r, i) \/ N!Verify(r, i) PROVE SignupInv'
    BY <1>1, <1>4 DEF N!Initiate, N!Verify
  <1> QED BY <1>2, <1>3, <1>4

\* A handler goes on with what it has.
LEMMA GoesOn ==
  ASSUME SignupInv, NEW r \in Workers, NEW pc \in {"find", "insert", "setName"}, N!Goto(r, pc),
         sReq[r].pc \in {"code", "provider", "find", "available"},
         pc = "setName" <=> sReq[r].pc = "available"
  PROVE  sReq' \in [Workers -> Handler] /\ OthersStay(r) /\ HandlerKnows(r)'
  <1>1. pc \in N!PCs
    BY DEF N!PCs
  <1>2. HandlerKnows(r) /\ SignStored
    BY DEF SignupInv
  <1>3. /\ sReq' \in [Workers -> Handler] /\ OthersStay(r)
        /\ sReq'[r].pc = pc /\ sReq'[r].ident = sReq[r].ident /\ sReq'[r].acc = sReq[r].acc
        /\ sReq'[r].name = sReq[r].name
    BY <1>1, <1>2, Went
  <1> QED BY <1>2, <1>3 DEF HandlerKnows, Finders

LEMMA CodesKnow ==
  ASSUME SignupInv, NEW r \in Workers,
         N!SendCode(r) \/ N!VerifyCode(r) \/ N!ProviderAnswers(r) \/ N!Available(r) \/ N!Die(r)
  PROVE  SignupInv'
  <1>1. UNCHANGED sUsers /\ UNCHANGED sTemps /\ UNCHANGED sCalls /\ UNCHANGED sIn /\ UNCHANGED sGone
        /\ UNCHANGED sRaced /\ UNCHANGED sWon
    BY DEF N!SendCode, N!VerifyCode, N!ProviderAnswers, N!Available, N!Die, N!OnlyReq
  <1>2. sCodes' \subseteq Idents \X N!Purposes
    <2>1. CASE N!SendCode(r)
      <3>1. HandlerKnows(r) /\ SignStored /\ sReq[r].pc = "send"
        BY <2>1 DEF SignupInv, N!SendCode, N!At
      <3>2. sReq[r].ident \in Idents /\ sReq[r].purpose \in N!Purposes
        BY <3>1, HandlerTyped DEF HandlerKnows
      <3> QED BY <2>1, <3>1, <3>2 DEF N!SendCode, SignStored
    <2>2. CASE N!VerifyCode(r)
      BY <2>2 DEF N!VerifyCode, SignupInv, SignStored
    <2>3. CASE N!ProviderAnswers(r) \/ N!Available(r) \/ N!Die(r)
      BY <2>3 DEF N!ProviderAnswers, N!Available, N!Die, N!OnlyReq, SignupInv, SignStored
    <2> QED BY <2>1, <2>2, <2>3
  <1>3. sReq' \in [Workers -> Handler] /\ OthersStay(r) /\ HandlerKnows(r)'
    <2>1. CASE N!End(r)
      BY <2>1, Ended DEF SignupInv
    <2>2. CASE N!Goto(r, "find") /\ sReq[r].pc \in {"code", "provider"}
      BY <2>2, GoesOn
    <2>3. CASE N!Goto(r, "setName") /\ sReq[r].pc = "available"
      BY <2>3, GoesOn
    <2> QED BY <2>1, <2>2, <2>3 DEF N!SendCode, N!VerifyCode, N!ProviderAnswers, N!Available, N!Die, N!At
  <1>4. sTemps' \subseteq N!Accounts /\ sCalls' \in 0 .. MaxSignCalls /\ sIn' \subseteq N!Accounts
        /\ \A a \in sIn' : sUsers[a].name # None
    BY <1>1 DEF SignupInv, SignStored
  <1> QED BY <1>1, <1>2, <1>3, <1>4, OnlyHandler

LEMMA FindKnows ==
  ASSUME SignupInv, NEW r \in Workers, N!FindAgain(r) \/ N!Match(r)
  PROVE  SignupInv'
  <1>1. N!OnlyReq /\ UNCHANGED sCalls /\ SignStored /\ HandlerKnows(r)
    BY DEF N!FindAgain, N!Match, SignupInv
  <1>2. sReq' \in [Workers -> Handler] /\ OthersStay(r) /\ HandlerKnows(r)'
    <2>1. CASE N!Match(r)
      <3>1. PICK pc \in {"shortcut", "push"} : N!Goto(r, pc)
        BY <2>1 DEF N!Match
      <3>2. pc \in N!PCs /\ sReq[r].pc = "match"
        BY <2>1 DEF N!PCs, N!Match, N!At
      <3>3. /\ sReq' \in [Workers -> Handler] /\ OthersStay(r)
            /\ sReq'[r].pc = pc /\ sReq'[r].ident = sReq[r].ident /\ sReq'[r].acc = sReq[r].acc
        BY <1>1, <3>1, <3>2, Went
      <3> QED BY <1>1, <3>2, <3>3 DEF HandlerKnows, Finders, N!OnlyReq
    <2>2. CASE N!FindAgain(r) /\ N!Goto(r, "insert")
      BY <2>2, GoesOn DEF N!FindAgain, N!At
    <2>3. CASE /\ N!FindAgain(r)
               /\ \E a \in N!FindByAuthMethod(sReq[r].ident) :
                    sReq' = [sReq EXCEPT ![r].pc = "match", ![r].acc = a]
      <3>1. PICK i \in Idents : i = sReq[r].ident
        BY <1>1, <2>3 DEF N!FindAgain, N!At, HandlerKnows
      <3>2. PICK a \in N!FindByAuthMethod(i) : sReq' = [sReq EXCEPT ![r].pc = "match", ![r].acc = a]
        BY <2>3, <3>1
      <3>3. /\ a \in N!Accounts /\ sUsers[a].there
            /\ a \in sGone => a \in sRaced
            /\ a \notin sGone => i = sUsers[a].ident
        BY FoundFacts
      <3>4. sReq' \in [Workers -> Handler] /\ OthersStay(r)
        <4>1. PICK q : q = [sReq[r] EXCEPT !.pc = "match", !.acc = a]
          OBVIOUS
        <4>2. q \in Handler
          BY ZenonT(30), <1>1, <3>3, <4>1, HandlerTyped DEF Handler, N!PCs
        <4>3. sReq' = [sReq EXCEPT ![r] = q]
          BY <1>1, <3>2, <4>1 DEF SignStored
        <4> QED BY <1>1, <4>2, <4>3 DEF SignStored, OthersStay
      <3>5. sReq'[r].pc = "match" /\ sReq'[r].acc = a /\ sReq'[r].ident = i
        BY <1>1, <3>1, <3>2, HandlerTyped DEF SignStored, Handler
      <3> QED BY <1>1, <3>3, <3>4, <3>5 DEF HandlerKnows, Finders, N!OnlyReq
    <2> QED BY <2>1, <2>2, <2>3 DEF N!FindAgain
  <1> QED BY <1>1, <1>2, OnlyHandler DEF N!OnlyReq, SignupInv, SignStored

LEMMA LetIn ==
  ASSUME SignupInv, NEW r \in Workers, N!Reload(r) \/ N!Session(r)
  PROVE  SignupInv'
  <1>1. UNCHANGED sUsers /\ UNCHANGED sCodes /\ UNCHANGED sCalls /\ UNCHANGED sGone
        /\ UNCHANGED sRaced /\ UNCHANGED sWon /\ SignStored /\ HandlerKnows(r)
    BY DEF N!Reload, N!Session, SignupInv
  <1>2. sReq[r].acc \in N!Accounts /\ sReq[r].pc \in {"reload", "session"}
    BY <1>1 DEF N!Reload, N!Session, N!At, HandlerKnows
  <1>3. CASE N!Session(r)
    <2>1. sUsers[sReq[r].acc].name # None
      BY <1>1, <1>3 DEF HandlerKnows, N!Session, N!At
    <2>2. sIn' \subseteq N!Accounts /\ (\A a \in sIn' : sUsers[a].name # None) /\ UNCHANGED sTemps
      BY <1>2, <1>3, <2>1 DEF N!Session, SignupInv, SignStored
    <2>3. sReq' \in [Workers -> Handler] /\ OthersStay(r) /\ HandlerKnows(r)'
      BY <1>1, <1>3, Ended DEF N!Session
    <2> QED BY <1>1, <2>2, <2>3, OnlyHandler DEF SignStored
  <1>4. CASE N!Reload(r)
    <2>1. sTemps' \subseteq N!Accounts /\ UNCHANGED sIn
      BY <1>1, <1>2, <1>4 DEF N!Reload, SignStored
    <2>2. sReq' \in [Workers -> Handler] /\ OthersStay(r) /\ HandlerKnows(r)'
      <3>1. CASE N!End(r)
        BY <1>1, <3>1, Ended
      <3>2. CASE sUsers[sReq[r].acc].name # None /\ N!Goto(r, "session")
        <4>1. "session" \in N!PCs
          BY DEF N!PCs
        <4>2. /\ sReq' \in [Workers -> Handler] /\ OthersStay(r)
              /\ sReq'[r].pc = "session" /\ sReq'[r].acc = sReq[r].acc
          BY <1>1, <3>2, <4>1, Went
        <4> QED BY <1>1, <1>2, <3>2, <4>2 DEF HandlerKnows, Finders
      <3> QED BY <1>4, <3>1, <3>2 DEF N!Reload
    <2> QED BY <1>1, <2>1, <2>2, OnlyHandler DEF SignupInv, SignStored
  <1> QED BY <1>3, <1>4

-----------------------------------------------------------------------------
(* The accounts.                                                                *)

LEMMA InsertKnows ==
  ASSUME SignupInv, NEW r \in Workers, N!Insert(r)
  PROVE  SignupInv'
  <1>1. UNCHANGED sCodes /\ UNCHANGED sTemps /\ UNCHANGED sCalls /\ UNCHANGED sIn /\ UNCHANGED sGone
        /\ UNCHANGED sRaced /\ UNCHANGED sWon /\ SignStored /\ HandlerKnows(r)
    BY DEF N!Insert, SignupInv
  <1>2. PICK i \in Idents : i = sReq[r].ident
    BY <1>1 DEF N!Insert, N!At, HandlerKnows
  <1>3. CASE N!End(r) /\ UNCHANGED sUsers
    <2>1. sReq' \in [Workers -> Handler] /\ OthersStay(r) /\ HandlerKnows(r)'
      BY <1>1, <1>3, Ended
    <2> QED BY <1>1, <1>3, <2>1, OnlyHandler DEF SignupInv, SignStored
  <1>4. CASE /\ N!HeldBy(i) = {}
             /\ \E a \in N!Accounts :
                  /\ ~sUsers[a].there
                  /\ sUsers' = [sUsers EXCEPT ![a] = N!NewUser(i)]
                  /\ sReq' = [sReq EXCEPT ![r].pc = "reload", ![r].acc = a]
    <2>1. PICK a \in N!Accounts : /\ ~sUsers[a].there
                                  /\ sUsers' = [sUsers EXCEPT ![a] = N!NewUser(i)]
                                  /\ sReq' = [sReq EXCEPT ![r].pc = "reload", ![r].acc = a]
      BY <1>4
    <2>2. PICK q : q = [sReq[r] EXCEPT !.pc = "reload", !.acc = a]
      OBVIOUS
    <2>3. q \in Handler /\ q.pc = "reload" /\ q.acc = a
      BY <1>1, <2>2, HandlerTyped DEF Handler, N!PCs
    <2>4. sReq' = [sReq EXCEPT ![r] = q]
      BY <1>1, <2>1, <2>2 DEF SignStored
    <2>5. sReq' \in [Workers -> Handler] /\ OthersStay(r) /\ sReq'[r] = q
      BY <1>1, <2>3, <2>4 DEF SignStored, OthersStay
    <2>6. PICK u : u = N!NewUser(i)
      OBVIOUS
    <2>7. u \in Account /\ u.there /\ u.ident = i /\ u.methods = {i} /\ u.name = None
      BY <2>6 DEF N!NewUser, Account
    <2>8. sUsers' = [sUsers EXCEPT ![a] = u] /\ sUsers'[a] = u
          /\ \A b \in N!Accounts \ {a} : sUsers'[b] = sUsers[b]
      BY <1>1, <2>1, <2>6 DEF SignStored
    <2>9. sUsers[a] = N!NoUser /\ a \notin sGone /\ sWon[a] = {}
      <3>1. AccountOK(a)
        BY DEF SignupInv
      <3> QED BY <2>1, <3>1 DEF AccountOK, N!NoUser
    <2>10. AccountOK(a)'
      BY <1>1, <2>7, <2>8, <2>9, StoneFacts DEF AccountOK
    <2>11. \A b \in N!Accounts \ {a} : u.ident # sUsers[b].ident
      <3> SUFFICES ASSUME NEW b \in N!Accounts, sUsers[b].ident = i PROVE FALSE
        BY <2>7
      <3>1. ~sUsers[b].there
        BY <1>4 DEF N!HeldBy
      <3>2. sUsers[b].ident = None
        BY <3>1 DEF SignupInv, AccountOK, N!NoUser
      <3> QED BY <3>2, StoneFacts
    <2>12. Forward /\ sGone' \ sGone = {}
      BY <1>1, <2>1, <2>8, <2>9 DEF Forward, N!NoUser
    <2>13. HandlerKnows(r)'
      BY <2>3, <2>5, <2>7, <2>8 DEF HandlerKnows, Finders
    <2>14. \A s \in Workers : HandlerKnows(s)'
      BY <2>5, <2>12, <2>13, Knows DEF OthersStay
    <2>15. sUsers[a].name = None
      BY <2>9 DEF N!NoUser
    <2>16. sCalls' \in 0 .. MaxSignCalls /\ sWon' \in [N!Accounts -> SUBSET Names]
      BY <1>1 DEF SignStored
    <2> QED BY <1>1, <2>5, <2>7, <2>8, <2>10, <2>11, <2>14, <2>15, <2>16, AccountMoves
  <1> QED BY <1>2, <1>3, <1>4 DEF N!Insert

\* A handler that has found an account completes it: the ways of entering it, or its
\* shortcut.
LEMMA Completed ==
  ASSUME SignupInv, NEW r \in Workers, NEW a \in N!Accounts, NEW u \in Account,
         sReq[r].pc \in {"push", "shortcut"}, a = sReq[r].acc, u.there,
         sUsers' = [sUsers EXCEPT ![a] = u],
         \/ u.ident = sUsers[a].ident /\ u.methods = sUsers[a].methods \cup {sReq[r].ident}
         \/ /\ sUsers[a].ident = None /\ u.ident = sReq[r].ident /\ N!HeldBy(sReq[r].ident) = {}
            /\ u.methods = sUsers[a].methods,
         u.name = sUsers[a].name,
         NEW pc \in {"shortcut", "reload"}, N!Goto(r, pc),
         UNCHANGED sCodes, UNCHANGED sTemps, UNCHANGED sCalls, UNCHANGED sIn, UNCHANGED sGone,
         UNCHANGED sRaced, UNCHANGED sWon
  PROVE  SignupInv'
  <1>1. SignStored /\ HandlerKnows(r) /\ AccountOK(a) /\ pc \in N!PCs
    BY DEF SignupInv, N!PCs
  <1>2. /\ sReq[r].ident \in Idents /\ sUsers[a].there
        /\ a \in sGone => a \in sRaced
        /\ a \notin sGone => sReq[r].ident = sUsers[a].ident
    BY <1>1 DEF HandlerKnows, Finders
  <1>3. sUsers'[a] = u /\ \A b \in N!Accounts \ {a} : sUsers'[b] = sUsers[b]
    BY <1>1 DEF SignStored
  <1>4. sReq[r].ident # None
    BY <1>2, StoneFacts
  <1>5. a \notin sGone => u.ident = sUsers[a].ident /\ u.methods = {u.ident}
    BY <1>1, <1>2, <1>4 DEF AccountOK
  <1>6. AccountOK(a)'
    BY SMTT(30), <1>1, <1>2, <1>3, <1>5 DEF AccountOK
  <1>7. ASSUME NEW b \in N!Accounts \ {a}, u.ident = sUsers[b].ident PROVE u.ident = None
    <2>1. CASE u.ident = sUsers[a].ident
      BY <1>7, <2>1 DEF SignupInv, Indexed
    <2>2. CASE u.ident = sReq[r].ident /\ N!HeldBy(sReq[r].ident) = {}
      <3>1. ~sUsers[b].there
        BY <1>7, <2>2 DEF N!HeldBy
      <3>2. sUsers[b].ident = None
        BY <3>1 DEF SignupInv, AccountOK, N!NoUser
      <3> QED BY <1>7, <3>2
    <2> QED BY <2>1, <2>2
  <1>8. \A b \in N!Accounts \ {a} : u.name = sUsers[b].name => u.name = None
    BY DEF SignupInv, Indexed
  <1>9. Forward /\ sGone' \ sGone = {}
    BY <1>3, <1>5 DEF Forward
  <1>10. /\ sReq' \in [Workers -> Handler] /\ OthersStay(r)
         /\ sReq'[r].pc = pc /\ sReq'[r].ident = sReq[r].ident /\ sReq'[r].acc = a
    BY <1>1, Went
  <1>11. HandlerKnows(r)'
    BY <1>2, <1>3, <1>5, <1>10 DEF HandlerKnows, Finders
  <1>12. \A s \in Workers : HandlerKnows(s)'
    BY <1>9, <1>10, <1>11, Knows DEF OthersStay
  <1>13. sCalls' \in 0 .. MaxSignCalls /\ sWon' \in [N!Accounts -> SUBSET Names]
    BY <1>1 DEF SignStored
  <1> QED BY <1>6, <1>7, <1>8, <1>10, <1>12, <1>13, AccountMoves

LEMMA PushKnows ==
  ASSUME SignupInv, NEW r \in Workers, N!Push(r)
  PROVE  SignupInv'
  <1>1. SignStored /\ HandlerKnows(r) /\ sReq[r].pc = "push"
    BY DEF SignupInv, N!Push, N!At
  <1>2. PICK a \in N!Accounts : a = sReq[r].acc
    BY <1>1 DEF HandlerKnows, Finders
  <1>3. sReq[r].ident \in Idents /\ sUsers[a].there
    BY <1>1, <1>2 DEF HandlerKnows, Finders
  <1>4. PICK ms \in SUBSET Idents : ms = sUsers[a].methods \cup {sReq[r].ident}
    BY <1>1, <1>3, AccountTyped
  <1>5. PICK u : u = [sUsers[a] EXCEPT !.methods = ms]
    OBVIOUS
  <1>6. u \in Account /\ u.methods = ms /\ u.there /\ u.ident = sUsers[a].ident
        /\ u.name = sUsers[a].name
    BY <1>1, <1>3, <1>5, AccountTyped DEF Account
  <1>7. sUsers' = [sUsers EXCEPT ![a] = u]
    BY <1>1, <1>2, <1>4, <1>5 DEF N!Push, SignStored
  <1> QED BY <1>1, <1>2, <1>4, <1>6, <1>7, Completed DEF N!Push

LEMMA FillKnows ==
  ASSUME SignupInv, NEW r \in Workers, N!FillShortcut(r)
  PROVE  SignupInv'
  <1>1. SignStored /\ HandlerKnows(r) /\ sReq[r].pc = "shortcut"
    BY DEF SignupInv, N!FillShortcut, N!At
  <1>2. PICK a \in N!Accounts : a = sReq[r].acc
    BY <1>1 DEF HandlerKnows, Finders
  <1>3. sReq[r].ident \in Idents /\ sUsers[a].there
    BY <1>1, <1>2 DEF HandlerKnows, Finders
  <1>4. UNCHANGED sCodes /\ UNCHANGED sTemps /\ UNCHANGED sCalls /\ UNCHANGED sIn /\ UNCHANGED sGone
        /\ UNCHANGED sRaced /\ UNCHANGED sWon
    BY DEF N!FillShortcut
  <1>5. CASE (N!End(r) \/ N!Goto(r, "reload")) /\ UNCHANGED sUsers
    <2>1. sReq' \in [Workers -> Handler] /\ OthersStay(r) /\ HandlerKnows(r)'
      <3>1. CASE N!End(r)
        BY <1>1, <3>1, Ended
      <3>2. CASE N!Goto(r, "reload")
        <4>1. "reload" \in N!PCs
          BY DEF N!PCs
        <4>2. /\ sReq' \in [Workers -> Handler] /\ OthersStay(r)
              /\ sReq'[r].pc = "reload" /\ sReq'[r].acc = sReq[r].acc
          BY <1>1, <3>2, <4>1, Went
        <4> QED BY <1>2, <1>3, <1>5, <4>2 DEF HandlerKnows, Finders
      <3> QED BY <1>5, <3>1, <3>2
    <2> QED BY <1>1, <1>4, <1>5, <2>1, OnlyHandler DEF SignupInv, SignStored
  <1>6. CASE /\ sUsers[a].ident = None /\ N!HeldBy(sReq[r].ident) = {}
             /\ sUsers' = [sUsers EXCEPT ![a].ident = sReq[r].ident]
             /\ N!Goto(r, "reload")
    <2>1. PICK u : u = [sUsers[a] EXCEPT !.ident = sReq[r].ident]
      OBVIOUS
    <2>2. u \in Account /\ u.methods = sUsers[a].methods /\ u.there /\ u.ident = sReq[r].ident
          /\ u.name = sUsers[a].name
      BY <1>1, <1>3, <2>1, AccountTyped DEF Account
    <2>3. sUsers' = [sUsers EXCEPT ![a] = u]
      BY <1>1, <1>6, <2>1 DEF SignStored
    <2> QED BY <1>1, <1>2, <1>4, <1>6, <2>2, <2>3, Completed
  <1> QED BY <1>2, <1>5, <1>6 DEF N!FillShortcut

LEMMA SetNameKnows ==
  ASSUME SignupInv, NEW r \in Workers, N!SetName(r)
  PROVE  SignupInv'
  <1>1. SignStored /\ HandlerKnows(r) /\ sReq[r].pc = "setName"
    BY DEF SignupInv, N!SetName, N!At
  <1>2. PICK a \in N!Accounts : a = sReq[r].acc
    BY <1>1 DEF HandlerKnows
  <1>3. PICK n \in Names : n = sReq[r].name
    BY <1>1 DEF HandlerKnows
  <1>4. UNCHANGED sCodes /\ UNCHANGED sTemps /\ UNCHANGED sCalls /\ UNCHANGED sIn /\ UNCHANGED sGone
        /\ UNCHANGED sRaced
    BY DEF N!SetName
  <1>5. CASE N!End(r) /\ UNCHANGED sUsers /\ UNCHANGED sWon
    <2>1. sReq' \in [Workers -> Handler] /\ OthersStay(r) /\ HandlerKnows(r)'
      BY <1>1, <1>5, Ended
    <2> QED BY <1>1, <1>4, <1>5, <2>1, OnlyHandler DEF SignupInv, SignStored
  <1>6. CASE /\ N!Nameable(sUsers[a]) /\ N!NameHeldBy(n) = {}
             /\ sUsers' = [sUsers EXCEPT ![a].name = n]
             /\ sWon' = [sWon EXCEPT ![a] = @ \cup {n}]
             /\ N!Goto(r, "session")
    <2>1. PICK u : u = [sUsers[a] EXCEPT !.name = n]
      OBVIOUS
    <2>2. u \in Account /\ u.name = n /\ u.methods = sUsers[a].methods /\ u.ident = sUsers[a].ident
          /\ u.there = sUsers[a].there /\ n # None
      BY <1>1, <2>1, AccountTyped, StoneFacts DEF Account
    <2>3. sUsers' = [sUsers EXCEPT ![a] = u] /\ sUsers'[a] = u
          /\ \A b \in N!Accounts \ {a} : sUsers'[b] = sUsers[b]
      BY <1>1, <1>6, <2>1 DEF SignStored
    <2>4. AccountOK(a) /\ sUsers[a].active /\ sUsers[a].name = None
      BY <1>6 DEF SignupInv, N!Nameable
    <2>5. sUsers[a].there /\ a \notin sGone
      BY <2>4, StoneFacts DEF AccountOK, N!NoUser
    <2>6. sWon[a] = {}
      BY <2>4, <2>5 DEF AccountOK
    <2>7. sWon' = [sWon EXCEPT ![a] = {n}]
      BY <1>1, <1>6, <2>6 DEF SignStored
    <2>8. sWon' \in [N!Accounts -> SUBSET Names] /\ sWon'[a] = {n}
          /\ \A b \in N!Accounts \ {a} : sWon'[b] = sWon[b]
      BY <1>1, <2>7 DEF SignStored
    <2>9. AccountOK(a)'
      <3>1. n # N!Tombstone(a)
        BY StoneFacts
      <3>2. /\ ~sUsers[a].there => sUsers[a] = N!NoUser /\ a \notin sGone
            /\ sUsers[a].ident \in Idents /\ sUsers[a].methods = {sUsers[a].ident}
        BY <2>4, <2>5 DEF AccountOK
      <3>3. sWon'[a] = {sUsers'[a].name} \ {None}
        BY <2>2, <2>3, <2>8
      <3>4. sUsers'[a].there /\ a \notin sGone'
        BY <1>4, <2>2, <2>3, <2>5
      <3>5. sUsers'[a].ident \in Idents /\ sUsers'[a].methods = {sUsers'[a].ident}
        BY <2>2, <2>3, <3>2
      <3>6. sUsers'[a].name = n /\ sWon'[a] = {n}
        BY <2>2, <2>3, <2>8
      <3> QED BY <3>1, <3>3, <3>4, <3>5, <3>6 DEF AccountOK
    <2>10. \A b \in N!Accounts \ {a} : /\ u.ident = sUsers[b].ident => u.ident = None
                                       /\ u.name # sUsers[b].name
      BY <1>6, <2>2 DEF SignupInv, Indexed, N!NameHeldBy
    <2>11. Forward /\ sGone' \ sGone = {}
      BY <1>4, <2>2, <2>3 DEF Forward
    <2>12. "session" \in N!PCs
      BY DEF N!PCs
    <2>13. /\ sReq' \in [Workers -> Handler] /\ OthersStay(r)
           /\ sReq'[r].pc = "session" /\ sReq'[r].acc = a
      BY <1>1, <1>2, <1>6, <2>12, Went
    <2>14. HandlerKnows(r)'
      BY <2>2, <2>3, <2>13 DEF HandlerKnows, Finders
    <2>15. \A s \in Workers : HandlerKnows(s)'
      BY <2>11, <2>13, <2>14, Knows DEF OthersStay
    <2>16. sCalls' \in 0 .. MaxSignCalls
      BY <1>1, <1>4 DEF SignStored
    <2>17. /\ u \in Account /\ sUsers' = [sUsers EXCEPT ![a] = u]
           /\ sUsers[a].name # None => u.name # None
           /\ \A b \in N!Accounts \ {a} : /\ u.ident = sUsers[b].ident => u.ident = None
                                          /\ u.name = sUsers[b].name => u.name = None
      BY <2>2, <2>3, <2>10
    <2>18. /\ sGone' \subseteq sGone \cup {a} /\ sGone \subseteq sGone' /\ sRaced \subseteq sRaced'
           /\ \A s \in Workers : HandlerKnows(s)'
      BY <1>4, <2>15
    <2> QED BY <1>2, <1>4, <2>8, <2>9, <2>13, <2>16, <2>17, <2>18, AccountMoves
  <1> QED BY <1>2, <1>3, <1>5, <1>6 DEF N!SetName

LEMMA StatusKnows ==
  ASSUME SignupInv, NEW a \in N!Accounts, NEW active \in BOOLEAN, N!SetStatus(a, active)
  PROVE  SignupInv'
  <1>1. SignStored /\ AccountOK(a) /\ sUsers[a].there
    BY DEF SignupInv, N!SetStatus
  <1>2. UNCHANGED sCodes /\ UNCHANGED sTemps /\ UNCHANGED sReq /\ UNCHANGED sIn /\ UNCHANGED sGone
        /\ UNCHANGED sRaced /\ UNCHANGED sWon
    BY DEF N!SetStatus
  <1>3. PICK u : u = [sUsers[a] EXCEPT !.active = active]
    OBVIOUS
  <1>4. u \in Account /\ u.there /\ u.ident = sUsers[a].ident /\ u.methods = sUsers[a].methods
        /\ u.name = sUsers[a].name
    BY <1>1, <1>3, AccountTyped DEF Account
  <1>5. sUsers' = [sUsers EXCEPT ![a] = u] /\ sUsers'[a] = u
        /\ \A b \in N!Accounts \ {a} : sUsers'[b] = sUsers[b]
    BY <1>1, <1>3 DEF N!SetStatus, SignStored
  <1>6. AccountOK(a)'
    BY <1>1, <1>2, <1>4, <1>5 DEF AccountOK
  <1>7. \A b \in N!Accounts \ {a} : /\ u.ident = sUsers[b].ident => u.ident = None
                                    /\ u.name = sUsers[b].name => u.name = None
    BY <1>4 DEF SignupInv, Indexed
  <1>8. Forward /\ sGone' \ sGone = {}
    BY <1>2, <1>4, <1>5 DEF Forward
  <1>9. \A s \in Workers : HandlerKnows(s)'
    BY <1>2, <1>8, Knows
  <1>10. sCalls' \in 0 .. MaxSignCalls
    BY CallSpent DEF N!SetStatus
  <1>11. sReq' \in [Workers -> Handler] /\ sWon' \in [N!Accounts -> SUBSET Names]
    BY <1>1, <1>2 DEF SignStored
  <1> QED BY <1>2, <1>4, <1>5, <1>6, <1>7, <1>9, <1>10, <1>11, AccountMoves

LEMMA DeleteKnows ==
  ASSUME SignupInv, NEW a \in N!Accounts, N!DeleteAccount(a)
  PROVE  SignupInv'
  <1>1. SignStored /\ AccountOK(a) /\ sUsers[a].active
    BY DEF SignupInv, N!DeleteAccount
  <1>2. UNCHANGED sCodes /\ UNCHANGED sTemps /\ UNCHANGED sReq /\ UNCHANGED sIn /\ UNCHANGED sWon
        /\ sGone' = sGone \cup {a} /\ sRaced \subseteq sRaced'
    BY DEF N!DeleteAccount
  <1>3. PICK u : u = [there |-> TRUE, active |-> FALSE, ident |-> None, methods |-> {},
                      name |-> N!Tombstone(a)]
    OBVIOUS
  <1>4. u \in Account /\ u.there /\ u.ident = None /\ u.methods = {} /\ u.name = N!Tombstone(a)
    BY <1>3 DEF Account
  <1>5. sUsers' = [sUsers EXCEPT ![a] = u] /\ sUsers'[a] = u
        /\ \A b \in N!Accounts \ {a} : sUsers'[b] = sUsers[b]
    BY <1>1, <1>3 DEF N!DeleteAccount, SignStored
  <1>6. AccountOK(a)'
    BY <1>1, <1>2, <1>4, <1>5 DEF AccountOK
  <1>7. ASSUME NEW b \in N!Accounts \ {a} PROVE u.name # sUsers[b].name
    <2>1. sUsers[b].name \in Names \cup {None, N!Tombstone(b)}
      BY DEF SignupInv, AccountOK
    <2> QED BY <1>4, <2>1, StoneFacts
  <1>8. Forward
    BY <1>2, <1>4, <1>5, StoneFacts DEF Forward
  <1>9. \A r \in Workers : sReq[r].acc = a /\ sReq[r].pc \in Finders => a \in sRaced'
    BY DEF N!DeleteAccount, Finders
  <1>10. \A s \in Workers : HandlerKnows(s)'
    <2> TAKE s \in Workers
    <2>1. \A b \in sGone' \ sGone : sReq[s].pc \in Finders /\ sReq[s].acc = b => b \in sRaced'
      BY <1>2, <1>9
    <2> QED BY <1>2, <1>8, <2>1, Knows
  <1>11. sCalls' \in 0 .. MaxSignCalls
    BY CallSpent DEF N!DeleteAccount
  <1>12. sReq' \in [Workers -> Handler] /\ sWon' \in [N!Accounts -> SUBSET Names] /\ u.name # None
    BY <1>1, <1>2, <1>4, StoneFacts DEF SignStored
  <1> QED BY <1>2, <1>4, <1>5, <1>6, <1>7, <1>10, <1>11, <1>12, AccountMoves

-----------------------------------------------------------------------------

LEMMA SignupInit == N!Init => SignupInv
  <1> SUFFICES ASSUME N!Init PROVE SignupInv
    OBVIOUS
  <1>1. N!NoUser \in Account /\ N!Idle \in Handler
    BY DEF N!NoUser, Account, N!Idle, Handler, N!PCs, N!Purposes
  <1>2. 0 \in 0 .. MaxSignCalls
    BY SignupBounds DEF N!SignupAssumption
  <1>3. \A a \in N!Accounts : sUsers[a] = N!NoUser /\ sWon[a] = {}
    BY DEF N!Init
  <1>4. \A r \in Workers : sReq[r] = N!Idle
    BY DEF N!Init
  <1>5. SignStored
    BY <1>1, <1>2 DEF N!Init, SignStored
  <1>6. Indexed
    BY <1>3 DEF Indexed, N!NoUser
  <1>7. \A a \in N!Accounts : AccountOK(a)
    BY <1>3, StoneFacts DEF N!Init, AccountOK, N!NoUser
  <1>8. \A r \in Workers : HandlerKnows(r)
    BY <1>4 DEF HandlerKnows, N!Idle, Finders
  <1> QED BY <1>5, <1>6, <1>7, <1>8 DEF N!Init, SignupInv

LEMMA SignupStep == SignupInv /\ [N!Next]_ofSignup => SignupInv'
  <1> SUFFICES ASSUME SignupInv, [N!Next]_ofSignup PROVE SignupInv'
    OBVIOUS
  <1>1. CASE UNCHANGED ofSignup
    BY <1>1 DEF ofSignup, SignupInv, SignStored, Indexed, AccountOK, HandlerKnows
  <1>2. CASE N!Next
    BY <1>2, BeginnersKnow, CodesKnow, FindKnows, LetIn, InsertKnows, PushKnows, FillKnows,
       SetNameKnows, StatusKnows, DeleteKnows DEF N!Next
  <1> QED BY <1>1, <1>2

\* The instance's Cardinality is the library's.
LEMMA SameCardinality == \A S : N!Cardinality(S) = Cardinality(S)
  BY DEF Cardinality, IsFiniteSet, N!Cardinality, N!IsFiniteSet

LEMMA SignupImplies == SignupInv => N!TypeOK /\ N!SignupsHold
  <1> SUFFICES ASSUME SignupInv PROVE N!TypeOK /\ N!SignupsHold
    OBVIOUS
  <1>1. N!TypeOK
    <2>1. \A r \in Workers : sReq[r].pc \in N!PCs /\ sReq[r].acc \in N!Accounts \cup {0}
      BY HandlerTyped DEF SignupInv
    <2>2. \A a \in N!Accounts : sUsers[a].ident \in Idents \cup {None} /\ sUsers[a].methods \subseteq Idents
      BY AccountTyped DEF SignupInv
    <2>3. \A a \in N!Accounts : /\ sUsers[a].name \in Names \cup {None, N!Tombstone(a)}
                                /\ ~sUsers[a].there => sUsers[a] = N!NoUser
      BY DEF SignupInv, AccountOK
    <2> QED BY <2>1, <2>2, <2>3 DEF N!TypeOK, SignupInv, SignStored
  <1>2. \A a \in N!Accounts \ sGone : N!Holds(a) = {sUsers[a].ident} \ {None}
    <2> TAKE a \in N!Accounts \ sGone
    <2>1. AccountOK(a)
      BY DEF SignupInv
    <2>2. CASE sUsers[a].there
      BY <2>1, <2>2 DEF AccountOK, N!Holds
    <2>3. CASE ~sUsers[a].there
      BY <2>1, <2>3 DEF AccountOK, N!Holds, N!NoUser
    <2> QED BY <2>2, <2>3
  <1>3. N!OneOwner
    BY <1>2 DEF N!OneOwner, SignupInv, Indexed
  <1>4. N!FreedAtDeletion
    BY DEF N!FreedAtDeletion, SignupInv, SignStored, AccountOK, N!Holds
  <1>5. N!NamedOnce
    <2>1. ASSUME NEW a \in N!Accounts PROVE N!Cardinality(sWon[a]) <= 1
      <3>1. sWon[a] = {} \/ \E n \in Names : sWon[a] = {n}
        BY DEF SignupInv, AccountOK
      <3>2. CASE sWon[a] = {}
        <4>1. N!Cardinality({}) = 0
          BY FS_EmptySet, SameCardinality
        <4> QED BY <3>2, <4>1
      <3>3. CASE \E n \in Names : sWon[a] = {n}
        <4>1. PICK n \in Names : sWon[a] = {n}
          BY <3>3
        <4>2. N!Cardinality({n}) = 1
          BY FS_Singleton, SameCardinality
        <4>3. N!Cardinality(sWon[a]) = 1
          BY <4>1, <4>2, Zenon
        <4> QED BY <4>3
      <3> QED BY <3>1, <3>2, <3>3
    <2> QED BY <2>1 DEF N!NamedOnce, SignupInv, Indexed, AccountOK
  <1>6. N!SignedInNamed
    BY DEF N!SignedInNamed, SignupInv
  <1> QED BY <1>1, <1>3, <1>4, <1>5, <1>6 DEF N!SignupsHold

\* Two accounts never hold one identifier, a deleted one holds none unless a sign-in
\* had found it before, and the name an account was told it has is the name it keeps,
\* and its alone (verifyOTPAndAuth, loginWithFirebase, createUsernameAndPassword).
THEOREM SignupsHeld == MCSpec => []SignupsHold
  <1>1. MCInit => SignupInv
    BY SignupInit DEF MCInit
  <1>2. SignupInv /\ [MCNext]_<<part, ofSessions, ofCodes, ofSignup>> => SignupInv'
    BY SignupStep DEF MCNext
  <1>3. SignupInv => SignupsHold
    BY SignupImplies DEF SignupsHold
  <1> QED BY <1>1, <1>2, <1>3, PTL DEF MCSpec
=============================================================================
