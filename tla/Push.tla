--------------------------------- MODULE Push ---------------------------------
(* The push tokens of the users' devices: registerToken, unregisterToken and     *)
(* sendToUser of PushService.  The provider, Expo or FCM, is external.           *)
EXTENDS Integers, Sequences, FiniteSets

CONSTANTS
  Owners,
  Tokens,
  Devices,
  Workers,     \* handlers
  None,
  MaxDevices,  \* kMaxRegisteredDevices
  MaxPushes    \* bound: calls

\* No device's token is nothing.
PushAssumption == None \notin Tokens /\ MaxDevices \in Nat /\ MaxPushes \in Nat

VARIABLES
  pTokens,     \* fcmTokens of a user, newest first
  pOn,         \* settings.pushNotifications
  pJob,        \* handlers
  pCalls,      \* what MaxPushes bounds
  pClaims      \* history: who registered a token last, and who was at it when he began

pVars == <<pTokens, pOn, pJob, pCalls, pClaims>>

Entry == [token : Tokens, device : Devices]
Idle == [pc |-> "idle", user |-> None, token |-> None, device |-> None, list |-> <<>>,
         invalid |-> {}]
At(w, pc) == pJob[w].pc = pc
Registering(t) == {pJob[w].user : w \in {w \in Workers : pJob[w].token = t}}
HasToken(u, t) == \E i \in DOMAIN pTokens[u] : pTokens[u][i].token = t
\* What of a list is in a set, in its order.
Kept(list, entries) ==
  LET kept[i \in 0 .. Len(list)] ==
        IF i = 0 THEN <<>>
        ELSE IF list[i] \in entries THEN Append(kept[i - 1], list[i]) ELSE kept[i - 1]
  IN kept[Len(list)]
Without(list, token, device) == Kept(list, {e \in Entry : e.token # token /\ e.device # device})

Begin(w, pc, u, t, d, list) ==
  /\ At(w, "idle")
  /\ pCalls < MaxPushes
  /\ pCalls' = pCalls + 1
  /\ pJob' = [pJob EXCEPT ![w] = [pc |-> pc, user |-> u, token |-> t, device |-> d,
                                  list |-> list, invalid |-> {}]]

-----------------------------------------------------------------------------
(* registerToken.                                                               *)
\* Mutant: the token stays with its user of before.
TakeFromNone(w, u, t, d) ==
  /\ Begin(w, "device", u, t, d, <<>>)
  /\ pClaims' = [pClaims EXCEPT ![t] = {u} \cup Registering(t)]
  /\ UNCHANGED <<pTokens, pOn>>

TakeFromOthers(w, u, t, d) ==
  /\ Begin(w, "device", u, t, d, <<>>)
  /\ pTokens' = [v \in Owners |-> IF v = u THEN pTokens[v] ELSE Without(pTokens[v], t, None)]
  /\ pClaims' = [pClaims EXCEPT ![t] = {u} \cup Registering(t)]
  /\ UNCHANGED pOn

DropDevice(w) ==
  LET q == pJob[w] IN
  /\ At(w, "device")
  /\ pTokens' = [pTokens EXCEPT ![q.user] = Without(@, None, q.device)]
  /\ pJob' = [pJob EXCEPT ![w].pc = "push"]
  /\ UNCHANGED <<pOn, pCalls, pClaims>>

\* In front, and the list cut to its bound, in one update.
PushToken(w) ==
  LET q == pJob[w]
      list == <<[token |-> q.token, device |-> q.device]>> \o pTokens[q.user] IN
  /\ At(w, "push")
  /\ pTokens' = [pTokens EXCEPT ![q.user] =
                   SubSeq(list, 1, IF Len(list) < MaxDevices THEN Len(list) ELSE MaxDevices)]
  /\ pJob' = [pJob EXCEPT ![w] = Idle]
  /\ UNCHANGED <<pOn, pCalls, pClaims>>

UnregisterToken(u, d) ==
  /\ pTokens' = [pTokens EXCEPT ![u] = Without(@, None, d)]
  /\ UNCHANGED <<pOn, pJob, pCalls, pClaims>>

-----------------------------------------------------------------------------
(* sendToUser.                                                                  *)
\* The user is read with the tokens; one who wants no pushes, or has no token, is
\* answered at once.
SendFind(w, u) ==
  /\ pOn[u] /\ pTokens[u] # <<>>
  /\ Begin(w, "send", u, None, None, pTokens[u])
  /\ UNCHANGED <<pTokens, pOn, pClaims>>

\* The tokens that were read, one after the other; the provider takes the message,
\* fails, or answers that the token is unknown or its argument invalid, which it may
\* say of a token in use as well.
SendToToken(w) ==
  LET q == pJob[w] IN
  /\ At(w, "send")
  /\ q.list # <<>>
  /\ \E invalid \in {{}, {Head(q.list).token}} :
       pJob' = [pJob EXCEPT ![w].list = Tail(@), ![w].invalid = @ \cup invalid]
  /\ UNCHANGED <<pTokens, pOn, pCalls, pClaims>>

\* What was called invalid is pulled out of the list as it is by now.
RemoveInvalid(w) ==
  LET q == pJob[w] IN
  /\ At(w, "send")
  /\ q.list = <<>>
  /\ pTokens' = [pTokens EXCEPT ![q.user] = Kept(@, {e \in Entry : e.token \notin q.invalid})]
  /\ pJob' = [pJob EXCEPT ![w] = Idle]
  /\ UNCHANGED <<pOn, pCalls, pClaims>>

-----------------------------------------------------------------------------
\* The process dies, or a command throws, between two commands.
BreakOff(w) ==
  /\ ~At(w, "idle")
  /\ pJob' = [pJob EXCEPT ![w] = Idle]
  /\ UNCHANGED <<pTokens, pOn, pCalls, pClaims>>

\* The user's settings (UserController).
Switch(u) ==
  /\ pCalls < MaxPushes
  /\ pCalls' = pCalls + 1
  /\ pOn' = [pOn EXCEPT ![u] = ~@]
  /\ UNCHANGED <<pTokens, pJob, pClaims>>

Init ==
  /\ pTokens = [u \in Owners |-> <<>>]
  /\ pOn = [u \in Owners |-> TRUE]
  /\ pJob = [w \in Workers |-> Idle]
  /\ pCalls = 0
  /\ pClaims = [t \in Tokens |-> {}]

Next ==
  \/ \E w \in Workers, u \in Owners :
       \/ \E t \in Tokens, d \in Devices : TakeFromOthers(w, u, t, d)
       \/ SendFind(w, u)
  \/ \E w \in Workers :
       DropDevice(w) \/ PushToken(w) \/ SendToToken(w) \/ RemoveInvalid(w) \/ BreakOff(w)
  \/ \E u \in Owners : Switch(u) \/ \E d \in Devices : UnregisterToken(u, d)

Spec == Init /\ [][Next]_pVars

-----------------------------------------------------------------------------
TypeOK ==
  /\ \A u \in Owners : \A i \in DOMAIN pTokens[u] : pTokens[u][i] \in Entry
  /\ pOn \in [Owners -> BOOLEAN]
  /\ pCalls \in 0 .. MaxPushes
  /\ pClaims \in [Tokens -> SUBSET Owners]

\* A device's token is where the last registration of it put it, or with a user
\* whose own registration was under way when that one began, so that nobody else's
\* calls ring on a device that has been taken over (registerToken, "token transfer
\* on login"); registrations that did not overlap leave it with one user, and the
\* next one makes good what an overlap left; and no user ever has more devices
\* than the bound, however registrations and sends overlap.
TokensOwned ==
  /\ \A u \in Owners, t \in Tokens : HasToken(u, t) => u \in pClaims[t]
  /\ \A u \in Owners : Len(pTokens[u]) <= MaxDevices
=============================================================================
