-------------------------------- MODULE Calls --------------------------------
(* Calls between two members of a conversation: the call controller, which      *)
(* keeps what it needs to know of a call in Redis for two minutes and hands out  *)
(* the tokens of the media room, and the socket events by which the clients tell *)
(* each other (relayCallEvent).  Members come and go meanwhile; the media        *)
(* themselves and the clients are outside.                                       *)
EXTENDS Naturals, FiniteSets

CONSTANTS
  Users,
  Requests,
  CallIds,
  Events,       \* what a party may signal, "ended" among it: all are relayed alike
  None,
  MaxChanges,   \* bound: changes of the membership
  MaxSignals    \* bound: handlers begun

\* No call has nothing for its id.
CallsAssumption == None \notin CallIds /\ MaxChanges \in Nat /\ MaxSignals \in Nat

VARIABLES
  cMembers,    \* participants of the conversation
  cState,      \* Redis call:<id>: <<caller, callee>> while it is there, or None
  cParties,    \* history: the parties of every call there ever was, or None
  cTokens,     \* history: the tokens handed out, <<call, user>>
  cHeard,      \* history: frames delivered, <<call, event, from, to>>
  cReq,        \* handlers
  cStood,      \* history: who was a member at some moment of a handler
  cChanges,    \* what MaxChanges bounds
  cSignals     \* what MaxSignals bounds

seen == <<cParties, cTokens, cHeard, cStood>>
cVars == <<cMembers, cState, seen, cReq, cChanges, cSignals>>

Idle == [pc |-> "idle", user |-> None, call |-> None, event |-> None]
Parties(c) == {cParties[c][1], cParties[c][2]}
IsParty(c, u) == cState[c] # None /\ u \in {cState[c][1], cState[c][2]}
Peer(c, u) == CHOOSE v \in Parties(c) : v # u

At(r, pc) == cReq[r].pc = pc
End(r) == cReq' = [cReq EXCEPT ![r] = Idle]

Begin(r, pc, u, c, event) ==
  /\ At(r, "idle")
  /\ cSignals < MaxSignals
  /\ cSignals' = cSignals + 1
  /\ cReq' = [cReq EXCEPT ![r] = [pc |-> pc, user |-> u, call |-> c, event |-> event]]
  /\ cStood' = [cStood EXCEPT ![r] = cMembers]

-----------------------------------------------------------------------------
(* /calls/initiate: it reads the conversation, chooses the callee (the given    *)
(* one, or the first other participant), mints the caller's token and stores     *)
(* the call; without the store it fails, and the caller is not told the token.   *)
InitiateFind(r, u, v, c) ==
  /\ cParties[c] = None
  /\ \A q \in Requests : cReq[q].call # c
  /\ u \in cMembers
  /\ v \in cMembers \ {u}
  /\ Begin(r, "store", u, c, v)
  /\ UNCHANGED <<cMembers, cState, cParties, cTokens, cHeard, cChanges>>

InitiateStore(r) ==
  LET q == cReq[r]
      parties == <<q.user, q.event>> IN
  /\ At(r, "store")
  /\ \/ /\ cState' = [cState EXCEPT ![q.call] = parties]
        /\ cParties' = [cParties EXCEPT ![q.call] = parties]
        /\ cTokens' = cTokens \cup {<<q.call, q.user>>}
     \/ UNCHANGED <<cState, cParties, cTokens>>
  /\ End(r)
  /\ UNCHANGED <<cMembers, cHeard, cStood, cChanges, cSignals>>

-----------------------------------------------------------------------------
(* /calls/token: the call, then the conversation, then the token.               *)
TokenLoad(r, u, c) ==
  /\ IsParty(c, u)
  /\ Begin(r, "member", u, c, None)
  /\ UNCHANGED <<cMembers, cState, cParties, cTokens, cHeard, cChanges>>

\* Mutant: the token is minted on the invitation alone.
TokenMintTrusting(r) ==
  /\ At(r, "member")
  /\ cTokens' = cTokens \cup {<<cReq[r].call, cReq[r].user>>}
  /\ End(r)
  /\ UNCHANGED <<cMembers, cState, cParties, cHeard, cStood, cChanges, cSignals>>

TokenMint(r) ==
  LET q == cReq[r] IN
  /\ At(r, "member")
  /\ cTokens' = IF q.user \in cMembers THEN cTokens \cup {<<q.call, q.user>>} ELSE cTokens
  /\ End(r)
  /\ UNCHANGED <<cMembers, cState, cParties, cHeard, cStood, cChanges, cSignals>>

\* /calls/end: the call, then its deletion.
EndLoad(r, u, c) ==
  /\ IsParty(c, u)
  /\ Begin(r, "delete", u, c, None)
  /\ UNCHANGED <<cMembers, cState, cParties, cTokens, cHeard, cChanges>>

EndDelete(r) ==
  /\ At(r, "delete")
  /\ cState' = [cState EXCEPT ![cReq[r].call] = None]
  /\ End(r)
  /\ UNCHANGED <<cMembers, seen, cChanges, cSignals>>

-----------------------------------------------------------------------------
(* relayCallEvent: the call, then the conversation, then the peer's room.  What *)
(* an unknown call or a stranger sends is dropped without a word.                *)
RelayLoad(r, u, c, event) ==
  /\ cParties[c] # None
  /\ IsParty(c, u)
  /\ Begin(r, "relay", u, c, event)
  /\ UNCHANGED <<cMembers, cState, cParties, cTokens, cHeard, cChanges>>

RelaySend(r) ==
  LET q == cReq[r]
      to == Peer(q.call, q.user) IN
  /\ At(r, "relay")
  /\ cHeard' = IF {q.user, to} \subseteq cMembers
               THEN cHeard \cup {<<q.call, q.event, q.user, to>>} ELSE cHeard
  /\ End(r)
  /\ UNCHANGED <<cMembers, cState, cParties, cTokens, cStood, cChanges, cSignals>>

-----------------------------------------------------------------------------
\* Redis lets the call go two minutes after it was stored.
Expire(c) ==
  /\ cState[c] # None
  /\ cState' = [cState EXCEPT ![c] = None]
  /\ UNCHANGED <<cMembers, seen, cReq, cChanges, cSignals>>

\* A member is taken out of the conversation, or put into it (Conversation).
ChangeMember(u) ==
  /\ cChanges < MaxChanges
  /\ cChanges' = cChanges + 1
  /\ cMembers' = IF u \in cMembers THEN cMembers \ {u} ELSE cMembers \cup {u}
  /\ cStood' = [r \in Requests |-> cStood[r] \cup cMembers']
  /\ UNCHANGED <<cState, cParties, cTokens, cHeard, cReq, cSignals>>

Init ==
  /\ cMembers = Users
  /\ cState = [c \in CallIds |-> None]
  /\ cParties = [c \in CallIds |-> None]
  /\ cTokens = {}
  /\ cHeard = {}
  /\ cReq = [r \in Requests |-> Idle]
  /\ cStood = [r \in Requests |-> {}]
  /\ cChanges = 0
  /\ cSignals = 0

Next ==
  \/ \E r \in Requests, c \in CallIds, u \in Users :
       \/ \E v \in Users : InitiateFind(r, u, v, c)
       \/ TokenLoad(r, u, c)
       \/ EndLoad(r, u, c)
       \/ \E event \in Events : RelayLoad(r, u, c, event)
  \/ \E r \in Requests : InitiateStore(r) \/ TokenMint(r) \/ EndDelete(r) \/ RelaySend(r)
  \/ \E c \in CallIds : Expire(c)
  \/ \E u \in Users : ChangeMember(u)

Spec == Init /\ [][Next]_cVars

-----------------------------------------------------------------------------
TypeOK ==
  /\ cMembers \subseteq Users
  /\ cState \in [CallIds -> (Users \X Users) \cup {None}]
  /\ cParties \in [CallIds -> (Users \X Users) \cup {None}]
  /\ cTokens \subseteq CallIds \X Users
  /\ cHeard \subseteq CallIds \X Events \X Users \X Users
  /\ cReq \in [Requests -> [pc : {"idle", "store", "member", "delete", "relay"},
                            user : Users \cup {None}, call : CallIds \cup {None},
                            event : Events \cup Users \cup {None}]]
  /\ cStood \in [Requests -> SUBSET Users]
  /\ cChanges \in 0 .. MaxChanges
  /\ cSignals \in 0 .. MaxSignals

\* Nobody gets the token of a call, or has a frame of it relayed, who is no party
\* of it or was no member at any moment of the request: a user taken out of the
\* conversation after the invitation cannot join any more (call_controller.cc:366,
\* "Re-check current conversation membership in case the user was removed after
\* the invitation was created").  Frames included: realtime_controller.cc:1412 says "We
\* do not authorize against the conversation here", but relayCallEvent does.
OnlyPartiesJoin ==
  [][\A c \in CallIds, u \in Users :
       \/ <<c, u>> \in cTokens' \ cTokens
       \/ \E h \in cHeard' \ cHeard : h[1] = c /\ u \in {h[3], h[4]}
       =>
         /\ u \in {cParties'[c][1], cParties'[c][2]}
         /\ \E r \in Requests :
              /\ cReq[r].call = c /\ cReq'[r] # cReq[r]
              /\ u \in cStood[r]]_cVars
=============================================================================
