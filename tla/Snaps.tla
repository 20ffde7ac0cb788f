-------------------------------- MODULE Snaps --------------------------------
(* A snap of Maker, to his followers or to the users he names: the handlers of    *)
(* SnapController and the two queries of snap.cc.  The media store is external.   *)
EXTENDS Integers, Sequences, FiniteSets, SequencesExt

CONSTANTS
  Maker,
  Fans,        \* the other users
  Requests,    \* handlers
  None,
  MaxViewers,  \* kMaxViewers
  MaxSnaps     \* bound: requests

\* The bounds are numbers.
SnapsAssumption == MaxViewers \in Nat /\ MaxSnaps \in Nat

VARIABLES
  sSnap,       \* the snap
  sFollows,    \* followers of Maker (SocialGraph)
  sReq,        \* handlers
  sCalls,      \* what MaxSnaps bounds
  sSeen,       \* history: who has viewed the snap
  sHad,        \* history: who has had access to it
  sShown,      \* history: the last answer of the rail or the inbox
  sTwice,      \* history: how many views were begun while one of the same user was under
               \* way, or after he had dropped out of the list
  sBroken      \* history: a deletion broke off when the media was gone

sVars == <<sSnap, sFollows, sReq, sCalls, sSeen, sHad, sShown, sTwice, sBroken>>

People == Fans \cup {Maker}
NoSnap == [there |-> FALSE, direct |-> FALSE, recipients |-> {}, viewers |-> <<>>, count |-> 0,
           reactions |-> {}, expired |-> FALSE, media |-> FALSE]
Idle == [pc |-> "idle", user |-> None, fans |-> {}]
NotShown == [user |-> None, expired |-> FALSE, media |-> TRUE]

At(r, pc) == sReq[r].pc = pc
Active == sSnap.there /\ ~sSnap.expired
Viewed(u) == u \in ToSet(sSnap.viewers)

\* Mutant: a direct snap is taken for a story.
CanAccessSnapAsStory(u) == u = Maker \/ u \in sFollows
CanAccessSnap(u) == u = Maker \/ (IF sSnap.direct THEN u \in sSnap.recipients ELSE u \in sFollows)

Begin(r, pc, u, fans) ==
  /\ At(r, "idle")
  /\ sCalls < MaxSnaps
  /\ sCalls' = sCalls + 1
  /\ sReq' = [sReq EXCEPT ![r] = [pc |-> pc, user |-> u, fans |-> fans]]
Finish(r) == sReq' = [sReq EXCEPT ![r] = Idle]

\* The media is uploaded first, so that a stored snap has it.  A direct snap needs
\* recipients, and whom it names is not checked.
CreateSnap(direct, recipients) ==
  /\ sHad = {} /\ sCalls < MaxSnaps   \* one snap, made once
  /\ direct <=> recipients # {}
  /\ sCalls' = sCalls + 1
  /\ sSnap' = [NoSnap EXCEPT !.there = TRUE, !.media = TRUE, !.direct = direct,
                             !.recipients = recipients]
  /\ sHad' = {Maker} \cup (IF direct THEN recipients ELSE sFollows)
  /\ UNCHANGED <<sFollows, sReq, sSeen, sShown, sTwice, sBroken>>

-----------------------------------------------------------------------------
\* Who may view a direct snap is checked; a story may be viewed by anybody who
\* knows its id.  Whether he has viewed it already is read here.
ViewFind(r, u) ==
  /\ sSnap.there
  /\ sSnap.direct => u \in sSnap.recipients
  /\ ~Viewed(u)
  /\ Begin(r, "view", u, {})
  /\ sTwice' = IF u \in sSeen \/ \E k \in Requests : At(k, "view") /\ sReq[k].user = u
               THEN sTwice + 1 ELSE sTwice
  /\ UNCHANGED <<sSnap, sFollows, sSeen, sHad, sShown, sBroken>>

\* One update: to the end of the list, the front cut off, and the count.
ViewPush(r) ==
  LET all == Append(sSnap.viewers, sReq[r].user)
      cut == Len(all) - MaxViewers IN
  /\ At(r, "view")
  /\ IF sSnap.there
     THEN /\ sSnap' = [sSnap EXCEPT !.count = @ + 1,
                         !.viewers = IF cut > 0 THEN SubSeq(all, cut + 1, Len(all)) ELSE all]
          /\ sSeen' = sSeen \cup {sReq[r].user}
     ELSE UNCHANGED <<sSnap, sSeen>>
  /\ Finish(r)
  /\ UNCHANGED <<sFollows, sCalls, sHad, sShown, sTwice, sBroken>>

-----------------------------------------------------------------------------
ReactFind(r, u) ==
  /\ Active
  /\ CanAccessSnap(u)
  /\ Begin(r, "react", u, {})
  /\ UNCHANGED <<sSnap, sFollows, sSeen, sHad, sShown, sTwice, sBroken>>

\* An empty reaction takes the user's own away.
ReactUpdate(r, empty) ==
  LET u == sReq[r].user IN
  /\ At(r, "react")
  /\ sSnap' = IF ~Active THEN sSnap
              ELSE [sSnap EXCEPT !.reactions = IF empty THEN @ \ {u} ELSE @ \cup {u}]
  /\ Finish(r)
  /\ UNCHANGED <<sFollows, sCalls, sSeen, sHad, sShown, sTwice, sBroken>>

-----------------------------------------------------------------------------
\* By its id and the maker.
DeleteFind(r) ==
  /\ sSnap.there
  /\ Begin(r, "destroy", Maker, {})
  /\ UNCHANGED <<sSnap, sFollows, sSeen, sHad, sShown, sTwice, sBroken>>

\* The media goes first, and what the media store answers is not looked at.
DestroyMedia(r) ==
  /\ At(r, "destroy")
  /\ \E gone \in BOOLEAN : sSnap' = [sSnap EXCEPT !.media = @ /\ ~gone]
  /\ sReq' = [sReq EXCEPT ![r].pc = "delete"]
  /\ UNCHANGED <<sFollows, sCalls, sSeen, sHad, sShown, sTwice, sBroken>>

DeleteSnap(r) ==
  /\ At(r, "delete")
  /\ sSnap' = [sSnap EXCEPT !.there = FALSE]
  /\ Finish(r)
  /\ UNCHANGED <<sFollows, sCalls, sSeen, sHad, sShown, sTwice, sBroken>>

-----------------------------------------------------------------------------
\* The rail: the ids the user follows, then the stories of those and of himself.
RailFollowing(r, u) ==
  /\ Begin(r, "rail", u, sFollows)
  /\ UNCHANGED <<sSnap, sFollows, sSeen, sHad, sShown, sTwice, sBroken>>

Show(u) == sShown' = [user |-> u, expired |-> sSnap.expired,
                      media |-> sSnap.media \/ \E k \in Requests : At(k, "delete")]

RailShow(r) ==
  /\ At(r, "rail")
  /\ IF Active /\ ~sSnap.direct /\ sReq[r].user \in sReq[r].fans \cup {Maker}
     THEN Show(sReq[r].user) ELSE UNCHANGED sShown
  /\ Finish(r)
  /\ UNCHANGED <<sSnap, sFollows, sCalls, sSeen, sHad, sTwice, sBroken>>

GetDirectInbox(u) ==
  /\ Active /\ sSnap.direct /\ u \in sSnap.recipients
  /\ Show(u)
  /\ UNCHANGED <<sSnap, sFollows, sReq, sCalls, sSeen, sHad, sTwice, sBroken>>

-----------------------------------------------------------------------------
\* Users follow Maker and leave him.
Follow(u) ==
  /\ sFollows' = IF u \in sFollows THEN sFollows \ {u} ELSE sFollows \cup {u}
  /\ sHad' = IF sSnap.there /\ ~sSnap.direct THEN sHad \cup sFollows' ELSE sHad
  /\ sCalls < MaxSnaps /\ sCalls' = sCalls + 1
  /\ UNCHANGED <<sSnap, sReq, sSeen, sShown, sTwice, sBroken>>

\* The day is over; the TTL index removes the snap some time later, and never its
\* media.
Expire ==
  /\ Active
  /\ sSnap' = [sSnap EXCEPT !.expired = TRUE]
  /\ UNCHANGED <<sFollows, sReq, sCalls, sSeen, sHad, sShown, sTwice, sBroken>>
SnapTTL ==
  /\ sSnap.there /\ sSnap.expired
  /\ sSnap' = [sSnap EXCEPT !.there = FALSE]
  /\ UNCHANGED <<sFollows, sReq, sCalls, sSeen, sHad, sShown, sTwice, sBroken>>

\* The process dies, or a command throws, between two commands.
BreakOff(r) ==
  /\ ~At(r, "idle")
  /\ Finish(r)
  /\ sBroken' = (sBroken \/ At(r, "delete"))
  /\ UNCHANGED <<sSnap, sFollows, sCalls, sSeen, sHad, sShown, sTwice>>

Init ==
  /\ sSnap = NoSnap
  /\ sFollows = {}
  /\ sReq = [r \in Requests |-> Idle]
  /\ sCalls = 0
  /\ sSeen = {}
  /\ sHad = {}
  /\ sShown = NotShown
  /\ sTwice = 0
  /\ sBroken = FALSE

Next ==
  \/ \E recipients \in SUBSET Fans, direct \in BOOLEAN : CreateSnap(direct, recipients)
  \/ \E r \in Requests, u \in Fans : ViewFind(r, u)
  \/ \E r \in Requests, u \in People : ReactFind(r, u) \/ RailFollowing(r, u)
  \/ \E r \in Requests, empty \in BOOLEAN : ReactUpdate(r, empty)
  \/ \E r \in Requests :
       ViewPush(r) \/ DeleteFind(r) \/ DestroyMedia(r) \/ DeleteSnap(r) \/ RailShow(r) \/ BreakOff(r)
  \/ \E u \in Fans : GetDirectInbox(u) \/ Follow(u)
  \/ Expire \/ SnapTTL

Spec == Init /\ [][Next]_sVars

-----------------------------------------------------------------------------
TypeOK ==
  /\ sSnap.recipients \subseteq Fans /\ sSnap.reactions \subseteq People
  /\ Len(sSnap.viewers) <= MaxViewers
  /\ sFollows \subseteq Fans
  /\ \A r \in Requests : sReq[r].user \in People \cup {None} /\ sReq[r].fans \subseteq Fans
  /\ sCalls \in 0 .. MaxSnaps
  /\ sSeen \subseteq Fans /\ sTwice \in 0 .. sCalls

\* Whether a user has viewed a snap, and may react to it, is read before it is
\* written: everybody who has viewed it counts, and counts once, but for the views
\* he began while one of his was under way or after he had dropped out of the list
\* of the last viewers, each of which may count once more; a reaction is of a user
\* the snap has been open to; and the rail and the inbox never show it once it has
\* expired, and with its media gone only while it is being deleted or after a
\* deletion broke off.
SnapHonest ==
  /\ sSnap.count \in Cardinality(sSeen) .. Cardinality(sSeen) + sTwice
  /\ sSnap.reactions \subseteq sHad
  /\ ~sShown.expired
  /\ sShown.media \/ sBroken
=============================================================================
