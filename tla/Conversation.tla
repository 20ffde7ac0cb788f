----------------------------- MODULE Conversation -----------------------------
(* One group conversation and the HTTP handlers that change it: the group      *)
(* controller (members, roles, deletion) and the chat controller (marking read, *)
(* deleting a message).  A handler of the group controller reads the group,     *)
(* refuses or decides, and then updates it with a filter of its own: the read   *)
(* and the update are steps of their own, and so is the system message that     *)
(* follows.  A call that is refused at its read changes nothing and has no      *)
(* action.  A request may name a user in another spelling of his id, in upper   *)
(* case: it is the same user to the database and another string to the code.    *)
EXTENDS Integers, FiniteSets

CONSTANTS
  Users,
  Creator,      \* createdBy
  Requests,     \* HTTP requests under way at once
  Messages,     \* ids of the user messages ever sent
  MaxMembers,   \* kMaxGroupMembers
  MaxCalls      \* bound: calls of the group controller

ASSUME CreatorAssumption == Creator \in Users

VARIABLES
  group,         \* "none", "live" or "deleted"
  participants,
  admins,
  oddAdds,       \* history: members who came in, when last added, under another spelling
  oddDemotes,    \* history: who was demoted under another spelling, and not promoted since
  unread,        \* unreadCounts: a count, or Unset where the map has no key
  messages,      \* per id: unsent, stored, hidden (isDeleted) or erased
  announced,     \* system messages in the collection
  gReq,          \* handlers
  gCalls         \* what MaxCalls bounds

members == <<group, participants, admins, oddAdds, oddDemotes>>
gVars == <<members, unread, messages, announced, gReq, gCalls>>

Unset == -1
Idle == [pc |-> "idle", by |-> Creator, who |-> {}, odd |-> {}]
Handler == [pc : {"idle", "add", "remove", "leave", "info", "promote", "demote", "wipe",
                  "drop", "announce"},
            by : Users, who : SUBSET Users, odd : SUBSET Users]

At(r, pc) == gReq[r].pc = pc
End(r) == gReq' = [gReq EXCEPT ![r] = Idle]
\* What is left to do needs the group alone.
Goto(r, pc) == gReq' = [gReq EXCEPT ![r] = [Idle EXCEPT !.pc = pc]]

Live == group = "live"
IsAdmin(u) == Live /\ u \in admins
IsMember(u) == Live /\ u \in participants

\* A call may begin.
Free(r) == At(r, "idle") /\ gCalls < MaxCalls

\* What a handler does up to its first command: it has read the group.  `odd` are
\* those of `who` the request names in another spelling.
Begin(r, pc, by, who, odd) ==
  /\ Free(r)
  /\ gCalls' = gCalls + 1
  /\ gReq' = [gReq EXCEPT ![r] = [pc |-> pc, by |-> by, who |-> who, odd |-> odd]]
  /\ UNCHANGED <<members, unread, messages, announced>>

\* A handler's update: it changes the group if the filter of the update finds
\* it, and the call ends with a conflict if it does not.
Update(r, pc, found, effect, next) ==
  /\ At(r, pc)
  /\ IF found THEN effect /\ Goto(r, next)
              ELSE End(r) /\ UNCHANGED <<members, unread>>
  /\ UNCHANGED <<messages, announced, gCalls>>

-----------------------------------------------------------------------------
(* The group controller.                                                        *)
\* The counts are made of the strings of the request; under another spelling the
\* creator can be invited to his own group.
CreateGroup(r, invited, odd) ==
  /\ group = "none"
  /\ Cardinality(invited) \in 2 .. MaxMembers - 1
  /\ Creator \in invited => Creator \in odd
  /\ Free(r)
  /\ gCalls' = gCalls + 1
  /\ group' = "live"
  /\ participants' = {Creator} \cup invited
  /\ admins' = {Creator}
  /\ unread' = [u \in Users |-> IF u \in {Creator} \cup (invited \ odd) THEN 0 ELSE Unset]
  /\ oddAdds' = odd
  /\ Goto(r, "announce")
  /\ UNCHANGED <<oddDemotes, messages, announced>>

\* Who is a member already is looked up by the string.
AddFind(r, by, ids, odd) ==
  LET new == (ids \ participants) \cup odd IN
  /\ IsAdmin(by)
  /\ new # {}
  /\ Cardinality(participants) + Cardinality(new) <= MaxMembers
  /\ Begin(r, "add", by, new, odd)

\* The members by their ids, the counts under the strings.
AddUpdate(r) ==
  LET q == gReq[r] IN
  Update(r, "add", IsAdmin(q.by),
         /\ participants' = participants \cup q.who
         /\ unread' = [u \in Users |-> IF u \in q.who \ q.odd THEN 0 ELSE unread[u]]
         /\ oddAdds' = (oddAdds \ q.who) \cup q.odd
         /\ UNCHANGED <<group, admins, oddDemotes>>,
         "announce")

\* $pull from both arrays and $unset of the count under the string, in one update.
TakeOut(who, odd) ==
  /\ participants' = participants \ who
  /\ admins' = admins \ who
  /\ unread' = [u \in Users |-> IF u \in who \ odd THEN Unset ELSE unread[u]]
  /\ UNCHANGED <<group, oddAdds, oddDemotes>>

\* That it is not the creator is asked of the string here, of the id by the update.
RemoveFind(r, by, u, odd) ==
  /\ IsAdmin(by)
  /\ u = Creator => u \in odd
  /\ Begin(r, "remove", by, {u}, odd)

\* Mutant: the update trusts the pre-check for the admin's right.
RemoveUpdateTrusting(r) ==
  LET q == gReq[r] IN
  Update(r, "remove", Live /\ q.who \subseteq participants \ {Creator},
         TakeOut(q.who, q.odd), "announce")

RemoveUpdate(r) ==
  LET q == gReq[r] IN
  Update(r, "remove", IsAdmin(q.by) /\ q.who \subseteq participants \ {Creator},
         TakeOut(q.who, q.odd), "announce")

LeaveFind(r, u) ==
  /\ IsMember(u)
  /\ u # Creator
  /\ Begin(r, "leave", u, {u}, {})

LeaveUpdate(r) ==
  LET q == gReq[r] IN
  Update(r, "leave", IsMember(q.by), TakeOut(q.who, {}), "announce")

\* The name, the description and the avatar are not kept: what is left is
\* whether the new name is another one and is announced.
InfoFind(r, by) == IsAdmin(by) /\ Begin(r, "info", by, {}, {})

InfoUpdate(r) ==
  \E next \in {"announce", "idle"} :
    Update(r, "info", IsAdmin(gReq[r].by), UNCHANGED <<members, unread>>, next)

\* Membership is looked up by the string: another spelling is refused.
PromoteFind(r, u) ==
  /\ IsMember(u)
  /\ Begin(r, "promote", Creator, {u}, {})

\* Mutant: the update does not ask again whether the new admin is a member.
PromoteUpdateTrusting(r) ==
  LET q == gReq[r] IN
  Update(r, "promote", Live,
         /\ admins' = admins \cup q.who
         /\ oddDemotes' = oddDemotes \ q.who
         /\ UNCHANGED <<group, participants, oddAdds, unread>>,
         "announce")

PromoteUpdate(r) ==
  LET q == gReq[r] IN
  Update(r, "promote", Live /\ q.who \subseteq participants \ admins,
         /\ admins' = admins \cup q.who
         /\ oddDemotes' = oddDemotes \ q.who
         /\ UNCHANGED <<group, participants, oddAdds, unread>>,
         "announce")

\* That it is not the creator is asked of the string alone.
DemoteFind(r, u, odd) ==
  /\ Live
  /\ u = Creator => u \in odd
  /\ Begin(r, "demote", Creator, {u}, odd)

DemoteUpdate(r) ==
  LET q == gReq[r] IN
  Update(r, "demote", Live /\ q.who \subseteq admins,
         /\ admins' = admins \ q.who
         /\ oddDemotes' = oddDemotes \cup q.odd
         /\ UNCHANGED <<group, participants, oddAdds, unread>>,
         "announce")

\* deleteGroup: the messages first, the conversation second.
DeleteFind(r) == Live /\ Begin(r, "wipe", Creator, {}, {})

WipeMessages(r) ==
  /\ At(r, "wipe")
  /\ messages' = [m \in Messages |->
                    IF messages[m] = "unsent" THEN "unsent" ELSE "erased"]
  /\ announced' = 0
  /\ Goto(r, "drop")
  /\ UNCHANGED <<members, unread, gCalls>>

DropGroup(r) ==
  /\ At(r, "drop")
  /\ group' = "deleted"
  /\ participants' = {}
  /\ admins' = {}
  /\ unread' = [u \in Users |-> Unset]
  /\ End(r)
  /\ UNCHANGED <<oddAdds, oddDemotes, messages, announced, gCalls>>

\* createSystemMessage: whatever has become of the group meanwhile.
Announce(r) ==
  /\ At(r, "announce")
  /\ announced' = announced + 1
  /\ End(r)
  /\ UNCHANGED <<members, unread, messages, gCalls>>

\* The process dies, or a command throws, between two steps of a handler.
Abandon(r) ==
  /\ ~At(r, "idle")
  /\ End(r)
  /\ UNCHANGED <<members, unread, messages, announced, gCalls>>

-----------------------------------------------------------------------------
(* The chat controller.  Both are one command that decides by its filter; the  *)
(* deletion reads the message before, but a message never changes its sender.  *)
MarkRead(u) ==
  /\ IsMember(u)
  /\ unread' = [unread EXCEPT ![u] = 0]
  /\ UNCHANGED <<members, messages, announced, gReq, gCalls>>

\* Soft deletion; `sentBy` is whoever sent it.
Hide(m, u, sentBy) ==
  /\ messages[m] \in {"stored", "hidden"}
  /\ u = sentBy
  /\ messages' = [messages EXCEPT ![m] = "hidden"]
  /\ UNCHANGED <<members, unread, announced, gCalls>>

-----------------------------------------------------------------------------
GroupInit ==
  /\ group = "none"
  /\ participants = {}
  /\ admins = {}
  /\ oddAdds = {}
  /\ oddDemotes = {}
  /\ unread = [u \in Users |-> Unset]
  /\ messages = [m \in Messages |-> "unsent"]
  /\ announced = 0
  /\ gReq = [r \in Requests |-> Idle]
  /\ gCalls = 0

BeginCall(r) ==
  \/ \E ids \in SUBSET Users : \E odd \in SUBSET ids :
       CreateGroup(r, ids, odd) \/ \E by \in Users : AddFind(r, by, ids, odd)
  \/ \E u \in Users : \E odd \in SUBSET {u} :
       DemoteFind(r, u, odd) \/ \E by \in Users : RemoveFind(r, by, u, odd)
  \/ \E u \in Users : LeaveFind(r, u) \/ PromoteFind(r, u) \/ InfoFind(r, u)
  \/ DeleteFind(r)

GroupStep(r) ==
  \/ Free(r) /\ BeginCall(r)
  \/ AddUpdate(r) \/ RemoveUpdate(r) \/ LeaveUpdate(r) \/ InfoUpdate(r)
  \/ PromoteUpdate(r) \/ DemoteUpdate(r) \/ WipeMessages(r) \/ DropGroup(r)
  \/ Announce(r) \/ Abandon(r)

-----------------------------------------------------------------------------
GroupTypeOK ==
  /\ group \in {"none", "live", "deleted"}
  /\ participants \subseteq Users
  /\ admins \subseteq Users
  /\ oddAdds \subseteq Users /\ oddDemotes \subseteq Users
  /\ unread \in [Users -> Nat \cup {Unset}]
  /\ messages \in [Messages -> {"unsent", "stored", "hidden", "erased"}]
  /\ announced \in Nat
  /\ gReq \in [Requests -> Handler]
  /\ gCalls \in 0 .. MaxCalls

\* Whatever the handlers that had read an older group write, a live group keeps
\* its creator as a member; whoever is an admin is a member; the creator is an admin
\* unless he had himself demoted under another spelling of his id, which the code
\* does not recognise (group_controller.cc:895 says "Cannot remove creator as
\* admin"), and has not been promoted since; and every member has an unread count
\* unless he was added under another spelling (the pre-checks are stale when the
\* updates run, and only the filters of the updates hold).
RolesHold ==
  Live =>
    /\ Creator \in participants
    /\ admins \subseteq participants
    /\ Creator \in admins \cup oddDemotes
    /\ \A u \in participants \ oddAdds : unread[u] # Unset

\* Nobody changes the group on a right he has lost: whoever comes in is let in by
\* a handler of an admin of that moment, and whoever goes out goes by himself or
\* by an admin of that moment (group_controller.cc:596, "a stale pre-check cannot
\* remove a user after the requester loses admin access").
RightsNow ==
  [][\A u \in Users :
       Live /\ group' = "live" /\ (u \in participants') # (u \in participants) =>
         \E r \in Requests :
           /\ gReq'[r] # gReq[r]
           /\ u \in gReq[r].who
           /\ gReq[r].by \in admins \/ (gReq[r].by = u /\ u \notin participants')]_gVars
=============================================================================
