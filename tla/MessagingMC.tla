----------------------------- MODULE MessagingMC -----------------------------
(* Conversations, rooms and calls for TLC.  A behaviour is one of:             *)
(*   groups   the group handlers, with no socket connected;                    *)
(*   rooms    the sockets of a live group that no handler changes;             *)
(*   mixed    one call of the group controller, which spells its ids as the    *)
(*            store does, while the sockets act;                                *)
(*   calls    the calls of a conversation;                                     *)
(*   notices, pushes, snaps   what else reaches a user;                         *)
(*   direct   conversations of two, opened, listed and paged.                   *)
(* What a part leaves out has its bound spent at the start.                     *)
EXTENDS Realtime

CONSTANTS Other, CallIds, Events, MaxChanges, MaxSignals,
          Recipient, Senders, Kinds, Makers, MaxNotices,
          Owners, Tokens, Devices, Workers, MaxDevices, MaxPushes,
          Maker, Fans, MaxViewers, MaxSnaps,
          Talks, TalkOne, TalkTwo, Groups, Texts, TextOne, TextTwo, PageSize, MaxTalk

VARIABLES part, cMembers, cState, cParties, cTokens, cHeard, cReq, cStood,
          cChanges, cSignals,
          nBox, nMaker, nCalls, nLapped,
          pTokens, pOn, pJob, pCalls, pClaims,
          sSnap, sFollows, sJob, sCalls, sSeen, sHad, sShown, sTwice, sBroken,
          dPair, dLast, dIn, dText, dNow, dReq, dCalls, dRaced, dStray, dShown, dScroll, dList

C == INSTANCE Calls
N == INSTANCE Notices
P == INSTANCE Push
S == INSTANCE Snaps WITH sReq <- sJob
D == INSTANCE Direct WITH Reader <- Creator, Callers <- Workers

ASSUME CallBounds == C!CallsAssumption
ASSUME TalkBounds == D!DirectAssumption
ASSUME NoticeBounds == N!NoticesAssumption
ASSUME PushBounds == P!PushAssumption
ASSUME SnapBounds == S!SnapsAssumption

ofCalls == <<cMembers, cState, cParties, cTokens, cHeard, cReq, cStood, cChanges,
             cSignals>>
ofNotices == <<nBox, nMaker, nCalls, nLapped>>
ofPushes == <<pTokens, pOn, pJob, pCalls, pClaims>>
ofSnaps == <<sSnap, sFollows, sJob, sCalls, sSeen, sHad, sShown, sTwice, sBroken>>
ofDirect == <<dPair, dLast, dIn, dText, dNow, dReq, dCalls, dRaced, dStray, dShown, dScroll, dList>>

\* A socket is its user and its process.
ProcessesMC == {"p1", "p2"}
SocketsMC == {<<Creator, "p1">>, <<Other, "p2">>}
OwnerMC(s) == s[1]
HostMC(s) == s[2]

\* A group of everybody, as CreateGroup and PromoteUpdate leave it.
Gathered(promoted) ==
  /\ group = "live"
  /\ participants = Users
  /\ admins = {Creator} \cup promoted
  /\ oddAdds = {} /\ oddDemotes = {}
  /\ unread = [u \in Users |-> 0]
  /\ messages = [m \in Messages |-> "unsent"]
  /\ announced = 0
  /\ gReq = [r \in Requests |-> Idle]
  /\ up = Sockets

Quiet ==
  /\ sender = [m \in Messages |-> Creator]
  /\ last = None
  /\ reacted = [m \in Messages |-> {}]
  /\ readBy = [m \in Messages |-> {}]
  /\ hears = Processes
  /\ queue = [p \in Processes |-> <<>>]
  /\ sReq = [s \in Sockets |-> AtRest]
  /\ got = [s \in Sockets |-> [m \in Messages |-> 0]]
  /\ audience = [m \in Messages |-> {}]

Third == CHOOSE u \in Users : u \notin {Creator, Other}

\* Where the bound of a part is spent but for a few steps, it is at least these.
ASSUME PartBounds == MaxCalls \in Nat \ {0} /\ MaxEvents \in Nat \ {0, 1}

ASSUME TalkingBounds ==
  /\ {Creator, Other} \subseteq Users /\ Creator # Other /\ Users # {Creator, Other}
  /\ TalkOne \in Talks /\ TalkTwo \in Talks \ {TalkOne}
  /\ \A k, l \in Talks \ {TalkOne, TalkTwo} : k = l
  /\ TextOne \in Texts /\ TextTwo \in Texts \ {TextOne}

\* Three conversations of the reader, one with himself and one with a message and a
\* reply to it, and his groups above them; one more call.
Talking ==
  /\ dPair = [k \in Talks |-> CASE k = TalkOne -> <<Creator, Other>>
                                [] k = TalkTwo -> <<Third, Creator>> [] OTHER -> <<Creator, Creator>>]
  /\ dLast = [k \in Talks \cup Groups |->
               CASE k \in Groups -> 3 [] k = TalkOne -> 2 [] k = TalkTwo -> 1 [] OTHER -> 0]
  /\ dIn = Groups
  /\ dText = [m \in Texts |->
       CASE m = TextOne -> [talk |-> TalkOne, at |-> 1, quotes |-> D!No, hidden |-> FALSE]
         [] m = TextTwo -> [talk |-> TalkOne, at |-> 2, quotes |-> TextOne, hidden |-> FALSE]
         [] OTHER -> D!Unsent]
  /\ dNow = 3
  /\ dReq = [r \in Workers |-> D!Resting]
  /\ dCalls = MaxTalk - 1
  /\ dRaced = {}
  /\ dStray = {}
  /\ dShown = {}
  /\ dScroll = D!NoScroll
  /\ dList = D!NoList

MCInit ==
  /\ C!Init /\ N!Init /\ P!Init /\ S!Init
  /\ Quiet
  /\ \/ part = "groups" /\ GroupInit /\ up = {} /\ joined = {} /\ sEvents = MaxEvents
     \/ part = "groups" /\ Gathered({Other}) /\ joined = {} /\ gCalls = 0
        /\ sEvents = MaxEvents
     \/ part = "rooms" /\ Gathered({}) /\ joined \in SUBSET Sockets /\ gCalls = MaxCalls
        /\ sEvents = 0
     \/ part = "mixed" /\ Gathered({}) /\ joined = Sockets /\ gCalls = MaxCalls - 1
        /\ sEvents = MaxEvents - 2
     \/ part \in {"calls", "notices", "pushes", "snaps", "direct"} /\ GroupInit
        /\ up = {} /\ joined = {} /\ sEvents = MaxEvents
  /\ D!Init \/ (part = "direct" /\ Talking)

MCNext ==
  /\ \/ part \in {"groups", "rooms", "mixed"} /\ Next
        /\ (part = "mixed" => \A r \in Requests : gReq'[r].odd = {})
        /\ UNCHANGED <<ofCalls, ofNotices, ofPushes, ofSnaps, ofDirect>>
     \/ part = "calls" /\ C!Next /\ UNCHANGED <<vars, ofNotices, ofPushes, ofSnaps, ofDirect>>
     \/ part = "notices" /\ N!Next /\ UNCHANGED <<vars, ofCalls, ofPushes, ofSnaps, ofDirect>>
     \/ part = "pushes" /\ P!Next /\ UNCHANGED <<vars, ofCalls, ofNotices, ofSnaps, ofDirect>>
     \/ part = "snaps" /\ S!Next /\ UNCHANGED <<vars, ofCalls, ofNotices, ofPushes, ofDirect>>
     \/ part = "direct" /\ D!Next
        /\ UNCHANGED <<vars, ofCalls, ofNotices, ofPushes, ofSnaps>>
  /\ UNCHANGED part

MCSpec == MCInit /\ [][MCNext]_<<part, vars, ofCalls, ofNotices, ofPushes, ofSnaps, ofDirect>>

-----------------------------------------------------------------------------
\* Every variable of every component is in its range.
AllTypesOK == TypeOK /\ C!TypeOK /\ N!TypeOK /\ P!TypeOK /\ S!TypeOK
\* Only the parties of a call who are members take part in it (Calls).
OnlyPartiesJoin == C!OnlyPartiesJoin
\* One notice of one thing within a minute, unless two were made at once (Notices);
\* a device's token is of who registered it last or was at it meanwhile (Push); views
\* count once but where they overlapped, reactions are of those who had access, and
\* nothing expired or without its media is shown (Snaps).
RecipientsHonest == N!NoticeOnce /\ P!TokensOwned /\ S!SnapHonest
\* One conversation of a pair unless two were created at once; pages that skip nothing
\* which kept its place, but what slips when another leaves the list; replies of one's
\* own conversation (Direct).
DirectHolds == D!DirectHolds
=============================================================================
