----------------------------- MODULE RealtimeProofs -----------------------------
(* Theorems about a group and the sockets of its members, for any users, sockets *)
(* and processes, any number of handlers and any bounds; and of what MessagingMC *)
(* puts next to it: direct messages, notices, snaps, push tokens, calls; at the   *)
(* end, the ranges of all their variables.                                       *)
EXTENDS MessagingMC, WellFoundedInduction, FiniteSetTheorems, TLAPS

-----------------------------------------------------------------------------
(* The group's handlers                                                        *)

\* Whoever leaves takes himself out, and is not the creator; the creator is demoted
\* under another spelling only.
HandlerOK(q) ==
  /\ q.pc = "leave" => q.who = {q.by} /\ Creator \notin q.who
  /\ q.pc = "demote" => (Creator \in q.who => Creator \in q.odd)
HandlersInv == gReq \in [Requests -> Handler] /\ \A r \in Requests : HandlerOK(gReq[r])

GroupTyped ==
  /\ participants \subseteq Users /\ admins \subseteq Users
  /\ oddAdds \subseteq Users /\ oddDemotes \subseteq Users
  /\ unread \in [Users -> Nat \cup {Unset}]

GroupInv == GroupTyped /\ RolesHold /\ HandlersInv

LEMMA HandlersInit == GroupInit => GroupInv
  BY CreatorAssumption DEF GroupInit, GroupInv, GroupTyped, RolesHold, HandlersInv, HandlerOK,
     Live, Idle, Handler, Unset

\* A handler begins, goes on or ends.
LEMMA SetHandler ==
  ASSUME HandlersInv, NEW r \in Requests, NEW q \in Handler, HandlerOK(q),
         gReq' = [gReq EXCEPT ![r] = q]
  PROVE  HandlersInv'
  BY DEF HandlersInv

LEMMA MoveHandler ==
  ASSUME HandlersInv, NEW r \in Requests, gReq[r].pc # "idle",
         NEW pc \in {"idle", "drop", "announce"}, Goto(r, pc) \/ End(r)
  PROVE  /\ HandlersInv'
         /\ gReq[r].pc \notin {"drop", "announce"} => gReq'[r] # gReq[r]
  <1>0. gReq[r] \in Handler /\ gReq \in [Requests -> Handler]
    BY DEF HandlersInv
  <1>1. PICK q : /\ q = Idle \/ q = [Idle EXCEPT !.pc = pc]
                 /\ gReq' = [gReq EXCEPT ![r] = q]
    BY DEF Goto, End
  <1>2. q \in Handler /\ HandlerOK(q) /\ q.pc \in {"idle", "drop", "announce"}
    BY <1>1, CreatorAssumption DEF Idle, Handler, HandlerOK
  <1> QED BY <1>0, <1>1, <1>2 DEF HandlersInv

\* What a step of the group controller may do to the members: who comes in is let
\* in by an admin, who goes out goes by an admin or by himself.
Entry(r) ==
  /\ Live /\ gReq[r].by \in admins /\ gReq'[r] # gReq[r]
  /\ participants' = participants \cup gReq[r].who
  /\ unread' = [u \in Users |-> IF u \in gReq[r].who \ gReq[r].odd THEN 0 ELSE unread[u]]
  /\ oddAdds' = (oddAdds \ gReq[r].who) \cup gReq[r].odd
  /\ UNCHANGED <<group, admins, oddDemotes>>
Exit(r) ==
  /\ Live /\ gReq'[r] # gReq[r] /\ Creator \notin gReq[r].who
  /\ gReq[r].by \in admins \/ gReq[r].who = {gReq[r].by}
  /\ TakeOut(gReq[r].who, gReq[r].odd) \/ TakeOut(gReq[r].who, {})
Rise(r) ==
  /\ gReq[r].who \subseteq participants
  /\ admins' = admins \cup gReq[r].who
  /\ oddDemotes' = oddDemotes \ gReq[r].who
  /\ UNCHANGED <<group, participants, oddAdds, unread>>
Fall(r) ==
  /\ Creator \in gReq[r].who => Creator \in gReq[r].odd
  /\ admins' = admins \ gReq[r].who
  /\ oddDemotes' = oddDemotes \cup gReq[r].odd
  /\ UNCHANGED <<group, participants, oddAdds, unread>>
Founding ==
  /\ group # "live"
  /\ \E invited \in SUBSET Users : \E odd \in SUBSET invited :
       /\ participants' = {Creator} \cup invited
       /\ admins' = {Creator}
       /\ unread' = [u \in Users |-> IF u \in {Creator} \cup (invited \ odd) THEN 0 ELSE Unset]
       /\ oddAdds' = odd /\ oddDemotes' = oddDemotes
Ending ==
  /\ group' = "deleted" /\ participants' = {} /\ admins' = {}
  /\ unread' = [u \in Users |-> Unset]
  /\ UNCHANGED <<oddAdds, oddDemotes>>

\* A call that begins reads the group and changes nothing but its handler.
LEMMA GroupCallBegins ==
  ASSUME HandlersInv, NEW r \in Requests, BeginCall(r)
  PROVE  /\ HandlersInv'
         /\ UNCHANGED <<members, unread>> \/ Founding
  <1>1. ASSUME NEW pc \in {"add", "remove", "leave", "info", "promote", "demote", "wipe"},
               NEW by \in Users, NEW who \in SUBSET Users, NEW odd \in SUBSET who,
               pc = "leave" => who = {by} /\ Creator \notin who,
               pc = "demote" => (Creator \in who => Creator \in odd),
               Begin(r, pc, by, who, odd)
        PROVE  HandlersInv' /\ UNCHANGED <<members, unread>>
    <2>1. PICK q : /\ q = [pc |-> pc, by |-> by, who |-> who, odd |-> odd]
                   /\ gReq' = [gReq EXCEPT ![r] = q]
      BY <1>1 DEF Begin
    <2>2. q \in Handler /\ HandlerOK(q)
      BY <1>1, <2>1 DEF Handler, HandlerOK
    <2> QED BY <1>1, <2>1, <2>2, SetHandler DEF Begin
  <1>2. ASSUME NEW ids \in SUBSET Users, NEW odd \in SUBSET ids, CreateGroup(r, ids, odd)
        PROVE  HandlersInv' /\ Founding
    <2>1. PICK q : /\ q = [Idle EXCEPT !.pc = "announce"]
                   /\ gReq' = [gReq EXCEPT ![r] = q]
      BY <1>2 DEF CreateGroup, Goto
    <2>2. q \in Handler /\ HandlerOK(q)
      BY <2>1, CreatorAssumption DEF Idle, Handler, HandlerOK
    <2> QED BY <1>2, <2>1, <2>2, SetHandler DEF CreateGroup, Founding
  <1>3. ASSUME NEW ids \in SUBSET Users, NEW odd \in SUBSET ids, NEW by \in Users,
               AddFind(r, by, ids, odd)
        PROVE  HandlersInv' /\ UNCHANGED <<members, unread>>
    <2>1. PICK who \in SUBSET Users : odd \subseteq who /\ Begin(r, "add", by, who, odd)
      BY <1>3 DEF AddFind
    <2> QED BY <1>1, <1>3, <2>1
  <1>4. ASSUME NEW u \in Users, NEW odd \in SUBSET {u}, DemoteFind(r, u, odd)
        PROVE  HandlersInv' /\ UNCHANGED <<members, unread>>
    <2>1. Begin(r, "demote", Creator, {u}, odd) /\ (u = Creator => u \in odd)
      BY <1>4 DEF DemoteFind
    <2> QED BY <1>1, <1>4, <2>1, CreatorAssumption
  <1>5. ASSUME NEW u \in Users, NEW odd \in SUBSET {u}, NEW by \in Users, RemoveFind(r, by, u, odd)
        PROVE  HandlersInv' /\ UNCHANGED <<members, unread>>
    <2>1. Begin(r, "remove", by, {u}, odd)
      BY <1>5 DEF RemoveFind
    <2> QED BY <1>1, <1>5, <2>1
  <1>6. ASSUME NEW u \in Users, LeaveFind(r, u) PROVE HandlersInv' /\ UNCHANGED <<members, unread>>
    <2>1. Begin(r, "leave", u, {u}, {}) /\ u # Creator
      BY <1>6 DEF LeaveFind
    <2> QED BY <1>1, <1>6, <2>1
  <1>7. ASSUME NEW u \in Users, PromoteFind(r, u) \/ InfoFind(r, u)
        PROVE  HandlersInv' /\ UNCHANGED <<members, unread>>
    <2>1. Begin(r, "promote", Creator, {u}, {}) \/ Begin(r, "info", u, {}, {})
      BY <1>7 DEF PromoteFind, InfoFind
    <2> QED BY <1>1, <1>7, <2>1, CreatorAssumption
  <1>8. ASSUME DeleteFind(r) PROVE HandlersInv' /\ UNCHANGED <<members, unread>>
    <2>1. Begin(r, "wipe", Creator, {}, {})
      BY <1>8 DEF DeleteFind
    <2> QED BY <1>1, <2>1, CreatorAssumption
  <1> QED BY <1>2, <1>3, <1>4, <1>5, <1>6, <1>7, <1>8 DEF BeginCall

LEMMA GroupEffect ==
  ASSUME GroupInv, NEW r \in Requests, GroupStep(r)
  PROVE  /\ HandlersInv'
         /\ \/ UNCHANGED <<members, unread>>
            \/ Entry(r) \/ Exit(r) \/ Rise(r) \/ Fall(r) \/ Founding \/ Ending
  <1> DEFINE q == gReq[r]
  <1>0. HandlersInv /\ q \in Handler /\ HandlerOK(q) /\ Creator \in Users
    BY CreatorAssumption DEF GroupInv, HandlersInv
  <1>1. ASSUME BeginCall(r) PROVE HandlersInv' /\ (UNCHANGED <<members, unread>> \/ Founding)
    BY <1>0, <1>1, GroupCallBegins
  <1>3. ASSUME AddUpdate(r) PROVE HandlersInv' /\ (UNCHANGED <<members, unread>> \/ Entry(r))
    <2>1. q.pc = "add" /\ (Goto(r, "announce") \/ End(r))
      BY <1>3 DEF AddUpdate, Update, At
    <2>2. HandlersInv' /\ gReq'[r] # gReq[r]
      BY <1>0, <2>1, MoveHandler
    <2> QED BY <1>3, <2>2 DEF AddUpdate, Update, Entry, IsAdmin
  <1>4. ASSUME RemoveUpdate(r) \/ LeaveUpdate(r)
        PROVE  HandlersInv' /\ (UNCHANGED <<members, unread>> \/ Exit(r))
    <2>1. q.pc \in {"remove", "leave"} /\ (Goto(r, "announce") \/ End(r))
      BY <1>4 DEF RemoveUpdate, LeaveUpdate, Update, At
    <2>2. HandlersInv' /\ gReq'[r] # gReq[r]
      BY <1>0, <2>1, MoveHandler
    <2>3. q.pc = "leave" => Creator \notin q.who /\ q.who = {q.by}
      BY <1>0, <2>1 DEF HandlerOK
    <2>4. \/ UNCHANGED <<members, unread>>
          \/ /\ Live /\ (TakeOut(q.who, q.odd) \/ TakeOut(q.who, {}))
             /\ (q.by \in admins /\ Creator \notin q.who) \/ q.pc = "leave"
      BY <1>4 DEF RemoveUpdate, LeaveUpdate, Update, At, IsAdmin, IsMember
    <2> QED BY <2>2, <2>3, <2>4 DEF Exit
  <1>5. ASSUME InfoUpdate(r) PROVE HandlersInv' /\ UNCHANGED <<members, unread>>
    <2>1. \E pc \in {"announce", "idle"} :
            q.pc = "info" /\ (Goto(r, pc) \/ End(r)) /\ UNCHANGED <<members, unread>>
      BY <1>5 DEF InfoUpdate, Update, At
    <2> QED BY <1>0, <2>1, MoveHandler
  <1>6. ASSUME PromoteUpdate(r) PROVE HandlersInv' /\ (UNCHANGED <<members, unread>> \/ Rise(r))
    <2>1. q.pc = "promote" /\ (Goto(r, "announce") \/ End(r))
      BY <1>6 DEF PromoteUpdate, Update, At
    <2>2. HandlersInv'
      BY <1>0, <2>1, MoveHandler
    <2> QED BY <1>6, <2>2 DEF PromoteUpdate, Update, Rise
  <1>7. ASSUME DemoteUpdate(r) PROVE HandlersInv' /\ (UNCHANGED <<members, unread>> \/ Fall(r))
    <2>1. q.pc = "demote" /\ (Goto(r, "announce") \/ End(r))
      BY <1>7 DEF DemoteUpdate, Update, At
    <2>2. HandlersInv'
      BY <1>0, <2>1, MoveHandler
    <2>3. Creator \in q.who => Creator \in q.odd
      BY <1>0, <2>1 DEF HandlerOK
    <2> QED BY <1>7, <2>2, <2>3 DEF DemoteUpdate, Update, Fall
  <1>8. ASSUME WipeMessages(r) \/ Announce(r) \/ Abandon(r)
        PROVE  HandlersInv' /\ UNCHANGED <<members, unread>>
    <2>1. q.pc # "idle" /\ (Goto(r, "drop") \/ End(r))
      BY <1>8 DEF WipeMessages, Announce, Abandon, At
    <2>2. HandlersInv'
      BY <1>0, <2>1, MoveHandler
    <2> QED BY <1>8, <2>2 DEF WipeMessages, Announce, Abandon
  <1>9. ASSUME DropGroup(r) PROVE HandlersInv' /\ Ending
    <2>1. q.pc # "idle" /\ End(r)
      BY <1>9 DEF DropGroup, At
    <2>2. HandlersInv'
      BY <1>0, <2>1, MoveHandler
    <2> QED BY <1>9, <2>2 DEF DropGroup, Ending
  <1> QED BY <1>1, <1>3, <1>4, <1>5, <1>6, <1>7, <1>8, <1>9 DEF GroupStep

LEMMA GroupKept ==
  ASSUME GroupInv, NEW r \in Requests, GroupStep(r)
  PROVE  GroupInv'
  <1>0. /\ HandlersInv' /\ gReq[r].who \subseteq Users /\ gReq[r].odd \subseteq Users
        /\ GroupTyped /\ RolesHold /\ Creator \in Users
    BY GroupEffect, CreatorAssumption DEF GroupInv, HandlersInv, Handler
  <1>1. CASE UNCHANGED <<members, unread>>
    BY <1>0, <1>1 DEF GroupInv, GroupTyped, RolesHold, members, Live
  <1>2. CASE Entry(r)
    BY <1>0, <1>2 DEF GroupInv, GroupTyped, RolesHold, Live, Entry, Unset
  <1>3. CASE Exit(r)
    BY <1>0, <1>3 DEF GroupInv, GroupTyped, RolesHold, Live, Exit, TakeOut, Unset
  <1>4. CASE Rise(r) \/ Fall(r)
    BY <1>0, <1>4 DEF GroupInv, GroupTyped, RolesHold, Live, Rise, Fall, Unset
  <1>5. CASE Founding
    BY <1>0, <1>5 DEF GroupInv, GroupTyped, RolesHold, Live, Founding, Unset
  <1>6. CASE Ending
    BY <1>0, <1>6 DEF GroupInv, GroupTyped, RolesHold, Live, Ending, Unset
  <1> QED BY <1>1, <1>2, <1>3, <1>4, <1>5, <1>6, GroupEffect

\* The sockets' handlers and the chat controller only count.
LEMMA CountsKept ==
  ASSUME GroupInv, UNCHANGED <<members, gReq>>,
         unread' \in [Users -> Nat \cup {Unset}],
         \A u \in Users : unread'[u] = Unset => unread[u] = Unset
  PROVE  GroupInv'
  BY DEF GroupInv, GroupTyped, RolesHold, Live, members, HandlersInv

LEMMA SocketCounts ==
  ASSUME GroupInv, NEW s \in Sockets, SocketStep(s)
  PROVE  /\ UNCHANGED <<members, gReq>>
         /\ unread' \in [Users -> Nat \cup {Unset}]
         /\ \A u \in Users : unread'[u] = Unset => unread[u] = Unset
  <1>0. unread \in [Users -> Nat \cup {Unset}] /\ Owner(s) \in Users
    BY RealtimeAssumption DEF GroupInv, GroupTyped
  <1>1. UNCHANGED <<members, gReq>>
    BY DEF SocketStep, Connect, Close, Fail, JoinFind, JoinRoom, LeaveRoom, SendFind, Summarise,
       Broadcast, MarkSeenCount, MarkSeenMessage, AddReaction, RemoveReaction, InsertMessage,
       MarkSeenFind, ReactFind, UnreactFind, DeleteMessage, StartAuthorized, Start, Mark, Hide,
       gVars
  <1>2. CASE Summarise(s) /\ unread' # unread
    <2>1. unread' = [u \in Users |->
                        IF u \notin sReq[s].seen \ {Owner(s)} THEN unread[u]
                        ELSE IF unread[u] = Unset THEN 1 ELSE unread[u] + 1]
      BY <1>2 DEF Summarise
    <2> QED BY <1>0, <1>1, <2>1 DEF Unset
  <1>3. CASE MarkSeenCount(s)
    BY <1>0, <1>1, <1>3 DEF MarkSeenCount, Unset
  <1>4. CASE unread' = unread
    BY <1>0, <1>1, <1>4
  <1>5. Summarise(s) \/ MarkSeenCount(s) \/ unread' = unread
    BY DEF SocketStep, Connect, Close, Fail, JoinFind, JoinRoom, LeaveRoom, SendFind,
       Broadcast, MarkSeenMessage, AddReaction, RemoveReaction, InsertMessage,
       MarkSeenFind, ReactFind, UnreactFind, DeleteMessage, StartAuthorized, Start, Mark, Hide,
       gVars
  <1> QED BY <1>2, <1>3, <1>4, <1>5

LEMMA OthersCount ==
  ASSUME GroupInv,
         \/ ChatController
         \/ \E p \in Processes : OnRedisRoomMessage(p) \/ LoseSubscription(p) \/ Subscribe(p)
         \/ UNCHANGED vars
  PROVE  /\ UNCHANGED <<members, gReq>>
         /\ unread' \in [Users -> Nat \cup {Unset}]
         /\ \A u \in Users : unread'[u] = Unset => unread[u] = Unset
  <1>0. unread \in [Users -> Nat \cup {Unset}]
    BY DEF GroupInv, GroupTyped
  <1>1. CASE \E u \in Users : MarkRead(u)
    BY <1>0, <1>1 DEF MarkRead, Unset
  <1>2. CASE ~\E u \in Users : MarkRead(u)
    <2>1. UNCHANGED <<members, gReq, unread>>
      BY <1>2 DEF ChatController, Hide, OnRedisRoomMessage, LoseSubscription, Subscribe, vars,
         gVars
    <2> QED BY <1>0, <2>1
  <1> QED BY <1>1, <1>2

LEMMA GroupNext == GroupInv /\ [Next]_vars => GroupInv'
  BY GroupKept, SocketCounts, OthersCount, CountsKept DEF Next

\* A live group keeps its creator as member, its admins as members, the creator as one of
\* them unless he was demoted under another spelling of his id, and a count for every member
\* who was not added under one, whatever handlers that read an older group still write
\* (addGroupMembers, removeGroupMember, makeAdmin, removeAdmin, leaveGroup).
THEOREM RolesKept == Spec => []RolesHold
  <1>1. GroupInv => RolesHold
    BY DEF GroupInv
  <1>2. Init => GroupInv
    BY HandlersInit DEF Init
  <1> QED BY <1>1, <1>2, GroupNext, PTL DEF Spec

\* Nobody enters or leaves a group on a right that its holder has lost meanwhile.
THEOREM RightsKept == Spec => RightsNow
  <1> DEFINE Rightly ==
        \A u \in Users :
          Live /\ group' = "live" /\ (u \in participants') # (u \in participants) =>
            \E r \in Requests :
              /\ gReq'[r] # gReq[r]
              /\ u \in gReq[r].who
              /\ gReq[r].by \in admins \/ (gReq[r].by = u /\ u \notin participants')
  <1>1. ASSUME GroupInv, [Next]_vars PROVE [Rightly]_gVars
    <2>1. ASSUME NEW r \in Requests, GroupStep(r) PROVE Rightly
      <3>1. CASE Entry(r)
        BY <3>1 DEF Entry
      <3>2. CASE Exit(r)
        BY <3>2 DEF Exit, TakeOut
      <3>3. CASE \/ UNCHANGED <<members, unread>> \/ Rise(r) \/ Fall(r) \/ Founding \/ Ending
        BY <3>3 DEF members, Rise, Fall, Founding, Ending, Live
      <3> QED BY <1>1, <2>1, <3>1, <3>2, <3>3, GroupEffect
    <2>2. ASSUME UNCHANGED members PROVE Rightly
      BY <2>2 DEF members
    <2>3. UNCHANGED members \/ \E r \in Requests : GroupStep(r)
      BY <1>1, SocketCounts, OthersCount DEF Next
    <2> QED BY <2>1, <2>2, <2>3
  <1>2. Init => GroupInv
    BY HandlersInit DEF Init
  <1>3. Init /\ [][Next]_vars => [][Rightly]_gVars
    BY <1>1, <1>2, GroupNext, PTL
  <1> QED BY <1>3 DEF Spec, RightsNow

-----------------------------------------------------------------------------
(* Messages on their way to the sockets                                        *)

\* A socket's handler holds a message it inserted and has not broadcast yet.
Sending(s, m) == sReq[s].pc \in {"summary", "broadcast"} /\ sReq[s].msg = m
Queued(p, m) == \E i \in DOMAIN queue[p] : queue[p][i].msg = m
OnWay(s, m) ==
  \E i \in DOMAIN queue[Host(s)] :
    queue[Host(s)][i].msg = m /\ queue[Host(s)][i].origin # Host(s)
Untouched(m) ==
  /\ \A s \in Sockets : got[s][m] = 0
  /\ \A p \in Processes : ~Queued(p, m)
  /\ audience[m] = {}

WayTyped ==
  /\ DOMAIN sReq = Sockets /\ sReq = [s \in Sockets |-> sReq[s]]
  /\ messages = [m \in Messages |-> messages[m]]
  /\ queue \in [Processes -> Seq(Frame)]
  /\ got \in [Sockets -> [Messages -> {0, 1}]]
  /\ audience \in [Messages -> SUBSET Sockets]
  /\ joined \subseteq Sockets

\* One handler has a message, and only of a message no handler has any more has
\* anything gone out.
OneSender ==
  /\ \A s \in Sockets : sReq[s].pc \in {"summary", "broadcast"} =>
       sReq[s].msg \in Messages /\ Sent(sReq[s].msg)
  /\ \A s, t \in Sockets, m \in Messages : Sending(s, m) /\ Sending(t, m) => s = t
NewUntouched ==
  \A m \in Messages : ~Sent(m) \/ (\E s \in Sockets : Sending(s, m)) => Untouched(m)
\* A queue holds a message once, and for none that has it already.
QueuedOnce ==
  \A p \in Processes : \A i, j \in DOMAIN queue[p] : queue[p][i].msg = queue[p][j].msg => i = j
NotTwice == \A s \in Sockets, m \in Messages : OnWay(s, m) => got[s][m] = 0
Reached ==
  \A m \in Messages : \A s \in audience[m] : s \in joined /\ (got[s][m] = 1 \/ OnWay(s, m))

WayInv == WayTyped /\ OneSender /\ NewUntouched /\ QueuedOnce /\ NotTwice /\ Reached

LEMMA WayInit == Init => WayInv
  <1> SUFFICES ASSUME Init PROVE WayInv
    OBVIOUS
  <1>1. /\ sReq = [s \in Sockets |-> AtRest]
        /\ messages = [m \in Messages |-> "unsent"]
        /\ queue = [p \in Processes |-> <<>>]
        /\ got = [s \in Sockets |-> [m \in Messages |-> 0]]
        /\ audience = [m \in Messages |-> {}]
        /\ joined = {}
    BY DEF Init, GroupInit
  <1>2. \A s \in Sockets : sReq[s].pc = "idle"
    BY <1>1 DEF AtRest
  <1>3. \A p \in Processes : queue[p] = <<>> /\ DOMAIN queue[p] = {}
    BY <1>1
  <1>4. WayTyped
    BY <1>1 DEF WayTyped
  <1> QED BY <1>1, <1>2, <1>3, <1>4 DEF WayInv, OneSender, NewUntouched, Untouched, Queued,
        QueuedOnce, NotTwice, OnWay, Reached, Sending

\* A step that sends nothing: handlers may end and sockets may leave.
Calm ==
  /\ DOMAIN sReq' = Sockets /\ sReq' = [s \in Sockets |-> sReq'[s]]
  /\ messages' = [m \in Messages |-> messages'[m]]
  /\ \A m \in Messages : Sent(m) => Sent(m)'
  /\ \A s \in Sockets : sReq'[s].pc \in {"summary", "broadcast"} =>
       sReq[s].pc \in {"summary", "broadcast"} /\ sReq'[s].msg = sReq[s].msg
  /\ UNCHANGED <<queue, got>>
  /\ audience' \in [Messages -> SUBSET Sockets] /\ joined' \subseteq Sockets
  /\ \A m \in Messages : audience'[m] \subseteq audience[m] \cap joined'

LEMMA CalmKeeps == ASSUME WayInv, Calm PROVE WayInv'
  <1>1. WayTyped' /\ QueuedOnce' /\ NotTwice' /\ Reached'
    BY DEF WayInv, Calm, WayTyped, QueuedOnce, NotTwice, OnWay, Reached
  <1>2. OneSender'
    BY DEF WayInv, Calm, OneSender, Sending
  <1>3. \A m \in Messages : Untouched(m) => Untouched(m)'
    BY DEF Calm, Untouched, Queued
  <1>4. \A s \in Sockets, m \in Messages : Sending(s, m)' => Sending(s, m)
    BY DEF Calm, Sending
  <1>5. NewUntouched'
    BY <1>3, <1>4 DEF WayInv, Calm, NewUntouched
  <1> QED BY <1>1, <1>2, <1>5 DEF WayInv

LEMMA InsertKeeps ==
  ASSUME WayInv, NEW s \in Sockets, NEW m \in Messages, InsertMessage(s, m)
  PROVE  WayInv'
  <1> DEFINE q == [pc |-> "summary", seen |-> sReq[s].seen, msg |-> m]
  <1>0. q.pc = "summary" /\ q.msg = m
    OBVIOUS
  <1>1. /\ sReq' = [sReq EXCEPT ![s] = q]
        /\ messages' = [messages EXCEPT ![m] = "stored"]
        /\ UNCHANGED <<queue, got, audience, joined>>
        /\ ~Sent(m)
    BY DEF InsertMessage, SGoto, rooms, redis
  <1> HIDE DEF q
  <1>2. WayTyped'
    BY <1>1 DEF WayInv, WayTyped
  <1>3. QueuedOnce' /\ NotTwice' /\ Reached'
    BY <1>1 DEF WayInv, QueuedOnce, NotTwice, OnWay, Reached
  <1>4. /\ sReq'[s] = q /\ \A t \in Sockets \ {s} : sReq'[t] = sReq[t]
        /\ messages'[m] = "stored" /\ \A n \in Messages \ {m} : messages'[n] = messages[n]
    BY <1>1 DEF WayInv, WayTyped
  <1>5. \A t \in Sockets : ~Sending(t, m)
    BY <1>1 DEF WayInv, OneSender, Sending
  <1>6. OneSender'
    BY <1>0, <1>4, <1>5 DEF WayInv, OneSender, Sending, Sent
  <1>7. ASSUME NEW n \in Messages, ~Sent(n)' \/ (\E t \in Sockets : Sending(t, n)')
        PROVE  Untouched(n)'
    <2>1. ~Sent(n) \/ \E t \in Sockets : Sending(t, n)
      BY <1>0, <1>1, <1>4, <1>7 DEF Sending, Sent
    <2>2. Untouched(n)
      BY <2>1 DEF WayInv, NewUntouched
    <2> QED BY <1>1, <2>2 DEF Untouched, Queued
  <1> QED BY <1>2, <1>3, <1>6, <1>7 DEF WayInv, NewUntouched

\* The room of the process gets it at once, the others by the queue.
LEMMA BroadcastKeeps ==
  ASSUME WayInv, NEW s \in Sockets, Broadcast(s)
  PROVE  WayInv'
  <1>1. PICK m \in Messages, home \in Processes, heard \in {hears, {}} :
          /\ Sending(s, m) /\ Untouched(m) /\ Sent(m) /\ home = Host(s)
          /\ got' = [t \in Sockets |->
                      IF t \in joined /\ Host(t) = home THEN [got[t] EXCEPT ![m] = got[t][m] + 1]
                      ELSE got[t]]
          /\ queue' = [p \in Processes |->
                        IF p \in heard THEN Append(queue[p], [msg |-> m, origin |-> home])
                        ELSE queue[p]]
          /\ audience' = [audience EXCEPT ![m] =
                            {t \in joined : Host(t) \in heard \cup {home}}]
    <2>1. sReq[s].msg \in Messages /\ Sending(s, sReq[s].msg) /\ Sent(sReq[s].msg)
      BY DEF WayInv, OneSender, Sending, Broadcast, SAt
    <2>2. Untouched(sReq[s].msg)
      BY <2>1 DEF WayInv, NewUntouched
    <2>3. Host(s) \in Processes
      BY RealtimeAssumption
    <2>4. PICK m \in Messages, home \in Processes : m = sReq[s].msg /\ home = Host(s)
      BY <2>1, <2>3
    <2>5. PICK heard \in {hears, {}} :
            /\ queue' = [p \in Processes |->
                          IF p \in heard THEN Append(queue[p], [msg |-> m, origin |-> home])
                          ELSE queue[p]]
            /\ audience' = [audience EXCEPT ![m] =
                              {t \in joined : Host(t) \in heard \cup {home}}]
      <3>1. PICK heard \in {hears, {}} :
              /\ Publish(heard, sReq[s].msg, Host(s))
              /\ audience' = [audience EXCEPT ![sReq[s].msg] =
                                {t \in joined : Host(t) \in heard \cup {Host(s)}}]
        BY Zenon DEF Broadcast
      <3> QED BY <2>4, <3>1 DEF Publish
    <2>6. got' = [t \in Sockets |->
                   IF t \in joined /\ Host(t) = home THEN [got[t] EXCEPT ![m] = got[t][m] + 1]
                   ELSE got[t]]
      BY <2>4 DEF Broadcast, Deliver, RoomOf
    <2> QED BY ZenonT(30), <2>1, <2>2, <2>4, <2>5, <2>6
  <1>2. /\ UNCHANGED <<messages, joined>> /\ sReq' = [sReq EXCEPT ![s] = AtRest]
        /\ WayTyped /\ OneSender /\ NewUntouched /\ QueuedOnce /\ NotTwice /\ Reached
    BY DEF Broadcast, SEnd, gVars, rooms, WayInv
  <1>3. PICK frame \in Frame : frame.msg = m /\ frame.origin = home
                               /\ frame = [msg |-> m, origin |-> home]
    BY DEF Frame
  <1>4. \A p \in Processes :
          queue'[p] = IF p \in heard THEN Append(queue[p], frame) ELSE queue[p]
    BY <1>1, <1>3
  <1>5. queue' \in [Processes -> Seq(Frame)]
    <2>1. \A p \in Processes : queue[p] \in Seq(Frame)
      BY <1>2 DEF WayTyped
    <2> QED BY <1>1, <1>3, <2>1
  <1>6. \A t \in Sockets, n \in Messages :
          got'[t][n] = IF n = m /\ t \in joined /\ Host(t) = home THEN 1 ELSE got[t][n]
    <2>1. \A t \in Sockets : got[t] \in [Messages -> {0, 1}] /\ got[t][m] = 0
      BY <1>1, <1>2 DEF WayTyped, Untouched
    <2> QED BY <1>1, <2>1
  <1>7. got' \in [Sockets -> [Messages -> {0, 1}]]
    <2>1. \A t \in Sockets : got[t] \in [Messages -> {0, 1}] /\ got[t][m] = 0
      BY <1>1, <1>2 DEF WayTyped, Untouched
    <2> QED BY <1>1, <2>1
  <1>8. WayTyped'
    <2>1. audience' \in [Messages -> SUBSET Sockets]
      BY <1>1, <1>2 DEF WayTyped
    <2> QED BY <1>2, <1>5, <1>7, <2>1 DEF WayTyped
  <1>9. /\ AtRest.pc = "idle" /\ sReq'[s] = AtRest
        /\ \A t \in Sockets \ {s} : sReq'[t] = sReq[t]
    BY <1>2 DEF AtRest, WayTyped
  <1>10. OneSender'
    BY <1>2, <1>9 DEF OneSender, Sending, Sent
  \* What queues hold besides the new frame.
  <1>11. ASSUME NEW p \in Processes
         PROVE  /\ DOMAIN queue[p] = 1 .. Len(queue[p]) /\ Len(queue[p]) \in Nat
                /\ DOMAIN queue'[p] \subseteq 1 .. Len(queue[p]) + 1
                /\ p \notin heard => queue'[p] = queue[p]
                /\ p \in heard => DOMAIN queue'[p] = 1 .. Len(queue[p]) + 1
                /\ \A i \in DOMAIN queue[p] : i \in DOMAIN queue'[p] /\ queue'[p][i] = queue[p][i]
                /\ p \in heard => queue'[p][Len(queue[p]) + 1] = frame
    <2>1. queue[p] \in Seq(Frame)
      BY <1>2 DEF WayTyped
    <2>2. CASE p \in heard
      <3>1. queue'[p] = Append(queue[p], frame)
        BY <1>4, <2>2
      <3> QED BY <1>3, <2>1, <2>2, <3>1
    <2>3. CASE p \notin heard
      BY <1>4, <2>1, <2>3
    <2> QED BY <2>2, <2>3
  <1>12. ASSUME NEW p \in Processes, NEW i \in DOMAIN queue'[p]
         PROVE  \/ i \in DOMAIN queue[p] /\ queue'[p][i] = queue[p][i]
                \/ p \in heard /\ i = Len(queue[p]) + 1 /\ queue'[p][i] = frame
    BY <1>11
  <1>13. \A p \in Processes : \A i \in DOMAIN queue[p] : queue[p][i].msg # m
    BY <1>1 DEF Untouched, Queued
  <1>14. QueuedOnce'
    <2> SUFFICES ASSUME NEW p \in Processes, NEW i \in DOMAIN queue'[p], NEW j \in DOMAIN queue'[p],
                        queue'[p][i].msg = queue'[p][j].msg
                 PROVE  i = j
      BY DEF QueuedOnce
    <2> QED BY <1>2, <1>3, <1>12, <1>13 DEF QueuedOnce
  <1>15. \A t \in Sockets, n \in Messages : n # m => (OnWay(t, n)' <=> OnWay(t, n))
    <2> SUFFICES ASSUME NEW t \in Sockets, NEW n \in Messages, n # m
                 PROVE  OnWay(t, n)' <=> OnWay(t, n)
      OBVIOUS
    <2>1. Host(t) \in Processes
      BY RealtimeAssumption
    <2> QED BY <1>3, <1>11, <1>12, <2>1 DEF OnWay
  <1>16. \A t \in Sockets : OnWay(t, m)' <=> Host(t) \in heard /\ Host(t) # home
    <2> SUFFICES ASSUME NEW t \in Sockets
                 PROVE  OnWay(t, m)' <=> Host(t) \in heard /\ Host(t) # home
      OBVIOUS
    <2>1. Host(t) \in Processes
      BY RealtimeAssumption
    <2>2. ASSUME OnWay(t, m)' PROVE Host(t) \in heard /\ Host(t) # home
      BY <1>3, <1>12, <1>13, <2>1, <2>2 DEF OnWay
    <2>3. ASSUME Host(t) \in heard, Host(t) # home PROVE OnWay(t, m)'
      BY <1>3, <1>11, <2>1, <2>3 DEF OnWay
    <2> QED BY <2>2, <2>3
  <1>17. NotTwice'
    BY <1>1, <1>2, <1>6, <1>15, <1>16 DEF NotTwice, Untouched
  <1>18. Reached'
    <2> SUFFICES ASSUME NEW n \in Messages, NEW t \in audience'[n]
                 PROVE  t \in joined' /\ (got'[t][n] = 1 \/ OnWay(t, n)')
      BY DEF Reached
    <2>1. t \in Sockets
      BY <1>8 DEF WayTyped
    <2>2. CASE n = m
      BY <1>1, <1>2, <1>6, <1>16, <2>1, <2>2 DEF WayTyped
    <2>3. CASE n # m
      BY <1>1, <1>2, <1>6, <1>15, <2>1, <2>3 DEF WayTyped, Reached
    <2> QED BY <2>2, <2>3
  <1>19. ASSUME NEW n \in Messages, ~Sent(n)' \/ (\E t \in Sockets : Sending(t, n)')
         PROVE  Untouched(n)'
    <2>1. ~Sent(n) \/ \E t \in Sockets \ {s} : Sending(t, n)
      BY <1>2, <1>9, <1>19 DEF Sending, Sent
    <2>2. n # m /\ Untouched(n)
      BY <1>1, <1>2, <2>1 DEF OneSender, NewUntouched
    <2>3. audience'[n] = {} /\ \A t \in Sockets : got'[t][n] = 0
      BY <1>1, <1>2, <1>6, <2>2 DEF Untouched, WayTyped
    <2>4. \A p \in Processes : ~Queued(p, n)'
      BY <1>3, <1>12, <2>2 DEF Untouched, Queued
    <2> QED BY <2>3, <2>4 DEF Untouched
  <1> QED BY <1>8, <1>10, <1>14, <1>17, <1>18, <1>19 DEF WayInv, NewUntouched

\* The first frame goes to the room of the process, unless it is its own.
LEMMA ConsumeKeeps ==
  ASSUME WayInv, NEW p \in Processes, OnRedisRoomMessage(p)
  PROVE  WayInv'
  <1>1. PICK frame \in Frame :
          /\ frame = Head(queue[p]) /\ queue[p] # <<>>
          /\ queue' = [queue EXCEPT ![p] = Tail(queue[p])]
          /\ IF frame.origin = p THEN got' = got
             ELSE got' = [t \in Sockets |->
                           IF t \in joined /\ Host(t) = p
                           THEN [got[t] EXCEPT ![frame.msg] = got[t][frame.msg] + 1]
                           ELSE got[t]]
    <2>1. queue[p] \in Seq(Frame)
      BY DEF WayInv, WayTyped
    <2>2. queue[p] # <<>>
      BY DEF OnRedisRoomMessage
    <2> QED BY <2>1, <2>2 DEF OnRedisRoomMessage, Deliver, RoomOf
  <1>2. /\ UNCHANGED <<messages, joined, audience, sReq>>
        /\ WayTyped /\ OneSender /\ NewUntouched /\ QueuedOnce /\ NotTwice /\ Reached
    BY DEF OnRedisRoomMessage, gVars, rooms, WayInv
  <1>3. PICK m \in Messages : m = frame.msg
    BY DEF Frame
  <1>4. /\ \A q \in Processes \ {p} : queue'[q] = queue[q]
        /\ 1 \in DOMAIN queue[p] /\ queue[p][1] = frame
        /\ \A i \in DOMAIN queue'[p] : i + 1 \in DOMAIN queue[p] /\ queue'[p][i] = queue[p][i + 1]
        /\ \A i \in DOMAIN queue[p] : i # 1 =>
             i - 1 \in DOMAIN queue'[p] /\ queue'[p][i - 1] = queue[p][i]
        /\ DOMAIN queue[p] \subseteq Nat /\ DOMAIN queue'[p] \subseteq Nat \ {0}
    <2>1. queue[p] \in Seq(Frame) /\ queue'[p] = Tail(queue[p]) /\ queue[p] # <<>>
      BY <1>1, <1>2 DEF WayTyped
    <2>2. \A q \in Processes \ {p} : queue'[q] = queue[q]
      BY <1>1, <1>2 DEF WayTyped
    <2>3. PICK c \in Seq(Frame), d \in Seq(Frame) : c = queue[p] /\ d = queue'[p] /\ d = Tail(c)
      <3>1. Tail(queue[p]) \in Seq(Frame)
        BY <2>1
      <3> QED BY <2>1, <3>1
    <2>4. /\ 1 \in DOMAIN c /\ c[1] = Head(c)
          /\ \A i \in DOMAIN d : i + 1 \in DOMAIN c /\ d[i] = c[i + 1]
          /\ \A i \in DOMAIN c : i # 1 => i - 1 \in DOMAIN d /\ d[i - 1] = c[i]
          /\ DOMAIN c \subseteq Nat /\ DOMAIN d \subseteq Nat \ {0}
      BY <2>1, <2>3
    <2> QED BY <1>1, <2>2, <2>3, <2>4
  <1>5. \A i \in DOMAIN queue'[p] : queue'[p][i].msg # m
    BY <1>2, <1>3, <1>4 DEF QueuedOnce
  \* The room had no such message.
  <1>6. ASSUME NEW t \in Sockets, Host(t) = p, frame.origin # p PROVE got[t][m] = 0
    BY <1>2, <1>3, <1>4, <1>6 DEF NotTwice, OnWay
  <1>7. \A t \in Sockets, n \in Messages :
          got'[t][n] = IF n = m /\ t \in joined /\ Host(t) = p /\ frame.origin # p THEN 1
                       ELSE got[t][n]
    <2>1. \A t \in Sockets : got[t] \in [Messages -> {0, 1}]
      BY <1>2 DEF WayTyped
    <2> QED BY <1>1, <1>3, <1>6, <2>1
  <1>8. WayTyped'
    <2>1. got' \in [Sockets -> [Messages -> {0, 1}]]
      <3>1. \A t \in Sockets : got[t] \in [Messages -> {0, 1}]
        BY <1>2 DEF WayTyped
      <3>2. CASE frame.origin = p
        BY <1>1, <1>2, <3>2 DEF WayTyped
      <3>3. CASE frame.origin # p
        BY <1>1, <1>3, <1>6, <3>1, <3>3
      <3> QED BY <3>2, <3>3
    <2>2. queue' \in [Processes -> Seq(Frame)]
      <3>1. queue[p] \in Seq(Frame) /\ queue[p] # <<>>
        BY <1>1, <1>2 DEF WayTyped
      <3>2. Tail(queue[p]) \in Seq(Frame)
        BY <3>1
      <3> QED BY <1>1, <1>2, <3>2 DEF WayTyped
    <2> QED BY <1>2, <2>1, <2>2 DEF WayTyped
  <1>9. OneSender'
    BY <1>2 DEF OneSender, Sending, Sent
  <1>10. QueuedOnce'
    <2> SUFFICES ASSUME NEW q \in Processes, NEW i \in DOMAIN queue'[q], NEW j \in DOMAIN queue'[q],
                        queue'[q][i].msg = queue'[q][j].msg
                 PROVE  i = j
      BY DEF QueuedOnce
    <2>1. CASE q = p
      <3>1. i + 1 = j + 1
        BY <1>2, <1>4, <2>1 DEF QueuedOnce
      <3> QED BY <1>4, <2>1, <3>1
    <2>2. CASE q # p
      BY <1>2, <1>4, <2>2 DEF QueuedOnce
    <2> QED BY <2>1, <2>2
  \* What a queue holds now, it held before.
  <1>11. \A q \in Processes, n \in Messages : Queued(q, n)' => Queued(q, n)
    <2> SUFFICES ASSUME NEW q \in Processes, NEW n \in Messages, Queued(q, n)'
                 PROVE  Queued(q, n)
      OBVIOUS
    <2>1. CASE q = p
      BY <1>4, <2>1 DEF Queued
    <2>2. CASE q # p
      BY <1>4, <2>2 DEF Queued
    <2> QED BY <2>1, <2>2
  <1>12. ASSUME NEW t \in Sockets, NEW n \in Messages
         PROVE  /\ OnWay(t, n)' => OnWay(t, n)
                /\ Host(t) = p => ~OnWay(t, m)'
                /\ Host(t) # p \/ n # m \/ frame.origin = p => (OnWay(t, n) => OnWay(t, n)')
    <2>0. Host(t) \in Processes
      BY RealtimeAssumption
    <2>1. CASE Host(t) # p
      BY <1>4, <2>0, <2>1 DEF OnWay
    <2>2. CASE Host(t) = p
      <3>1. OnWay(t, n)' => OnWay(t, n)
        BY <1>4, <2>2 DEF OnWay
      <3>2. ~OnWay(t, m)'
        BY <1>5, <2>2 DEF OnWay
      <3>3. ASSUME n # m \/ frame.origin = p, OnWay(t, n) PROVE OnWay(t, n)'
        <4>1. PICK i \in DOMAIN queue[p] : queue[p][i].msg = n /\ queue[p][i].origin # p
          BY <2>2, <3>3 DEF OnWay
        <4>2. i # 1
          BY <1>3, <1>4, <3>3, <4>1
        <4> QED BY <1>4, <2>2, <4>1, <4>2 DEF OnWay
      <3> QED BY <2>2, <3>1, <3>2, <3>3
    <2> QED BY <2>1, <2>2
  <1>13. NotTwice'
    BY <1>2, <1>7, <1>12 DEF NotTwice
  <1>14. Reached'
    BY <1>2, <1>7, <1>12, RealtimeAssumption DEF Reached, WayTyped
  <1>15. ASSUME NEW n \in Messages, ~Sent(n)' \/ (\E t \in Sockets : Sending(t, n)')
         PROVE  Untouched(n)'
    <2>1. Untouched(n)
      BY <1>2, <1>15 DEF NewUntouched, Sending, Sent
    <2>2. n # m
      BY <1>3, <1>4, <2>1 DEF Untouched, Queued
    <2> QED BY <1>2, <1>7, <1>11, <2>1, <2>2 DEF Untouched
  <1> QED BY <1>8, <1>9, <1>10, <1>13, <1>14, <1>15 DEF WayInv, NewUntouched

\* What was on its way to the process is lost, and nobody is owed it any more.
LEMMA LoseKeeps ==
  ASSUME WayInv, NEW p \in Processes, LoseSubscription(p)
  PROVE  WayInv'
  <1>1. /\ UNCHANGED <<messages, joined, sReq, got>>
        /\ queue' = [queue EXCEPT ![p] = <<>>]
        /\ audience' = [m \in Messages |-> {s \in audience[m] : Host(s) = p => got[s][m] > 0}]
        /\ WayTyped /\ OneSender /\ NewUntouched /\ QueuedOnce /\ NotTwice /\ Reached
    BY DEF LoseSubscription, gVars, rooms, WayInv
  <1>2. queue'[p] = <<>> /\ DOMAIN queue'[p] = {} /\ \A q \in Processes \ {p} : queue'[q] = queue[q]
    BY <1>1 DEF WayTyped
  <1>3. WayTyped'
    BY <1>1 DEF WayTyped
  <1>4. OneSender'
    BY <1>1 DEF OneSender, Sending, Sent
  <1>5. \A q \in Processes, m \in Messages : Queued(q, m)' => Queued(q, m)
    BY <1>2 DEF Queued
  <1>6. QueuedOnce'
    BY <1>1, <1>2 DEF QueuedOnce
  <1>7. \A s \in Sockets, m \in Messages : OnWay(s, m)' <=> Host(s) # p /\ OnWay(s, m)
    BY <1>2, RealtimeAssumption DEF OnWay
  <1>8. NotTwice'
    BY <1>1, <1>7 DEF NotTwice
  <1>9. Reached'
    <2> SUFFICES ASSUME NEW m \in Messages, NEW s \in audience'[m]
                 PROVE  s \in joined' /\ (got'[s][m] = 1 \/ OnWay(s, m)')
      BY DEF Reached
    <2>1. s \in audience[m] /\ (Host(s) = p => got[s][m] > 0) /\ s \in Sockets
          /\ got[s][m] \in {0, 1}
      BY <1>1 DEF WayTyped
    <2> QED BY <1>1, <1>7, <2>1 DEF Reached
  <1>10. NewUntouched'
    <2> SUFFICES ASSUME NEW m \in Messages, ~Sent(m)' \/ (\E s \in Sockets : Sending(s, m)')
                 PROVE  Untouched(m)'
      BY DEF NewUntouched
    <2>1. Untouched(m)
      BY <1>1 DEF NewUntouched, Sending, Sent
    <2> QED BY <1>1, <1>5, <2>1 DEF Untouched
  <1> QED BY <1>3, <1>4, <1>6, <1>8, <1>9, <1>10 DEF WayInv

\* A step that leaves the rooms alone.
LEMMA CalmRooms ==
  ASSUME WayInv, UNCHANGED <<queue, got, audience>>, joined \subseteq joined',
         joined' \subseteq Sockets,
         DOMAIN sReq' = Sockets, sReq' = [s \in Sockets |-> sReq'[s]],
         messages' = [m \in Messages |-> messages'[m]],
         \A m \in Messages : Sent(m) => Sent(m)',
         \A s \in Sockets : sReq'[s].pc \in {"summary", "broadcast"} =>
           sReq[s].pc \in {"summary", "broadcast"} /\ sReq'[s].msg = sReq[s].msg
  PROVE  Calm
  BY DEF WayInv, WayTyped, Reached, Calm

LEMMA CalmMessages ==
  ASSUME WayInv,
         \/ UNCHANGED messages
         \/ \E r \in Requests : WipeMessages(r)
         \/ \E m \in Messages, u \in Users : Hide(m, u, sender[m])
  PROVE  /\ messages' = [m \in Messages |-> messages'[m]]
         /\ \A m \in Messages : Sent(m) => Sent(m)'
  BY DEF WayInv, WayTyped, WipeMessages, Hide, Sent

LEMMA CalmSockets ==
  ASSUME WayInv, NEW s \in Sockets, SocketStep(s),
         ~Broadcast(s), ~\E m \in Messages : InsertMessage(s, m)
  PROVE  Calm
  <1>0. /\ DOMAIN sReq = Sockets /\ sReq = [t \in Sockets |-> sReq[t]] /\ joined \subseteq Sockets
        /\ audience \in [Messages -> SUBSET Sockets]
    BY DEF WayInv, WayTyped
  <1>1. Owner(s) \in Users
    BY RealtimeAssumption
  <1>2. /\ messages' = [m \in Messages |-> messages'[m]]
        /\ \A m \in Messages : Sent(m) => Sent(m)'
    <2>1. UNCHANGED messages \/ \E m \in Messages : DeleteMessage(s, m)
      BY DEF SocketStep, Connect, Close, Fail, JoinFind, JoinRoom, LeaveRoom, SendFind, Summarise,
         MarkSeenCount, MarkSeenMessage, AddReaction, RemoveReaction, MarkSeenFind, ReactFind,
         UnreactFind, StartAuthorized, Start, Mark, gVars
    <2> QED BY <1>1, <2>1, CalmMessages DEF DeleteMessage
  <1>3. CASE Close(s) \/ LeaveRoom(s)
    <2>1. UNCHANGED <<sReq, queue, got>> /\ Out(s)
      BY <1>3 DEF Close, LeaveRoom, redis
    <2>2. audience' \in [Messages -> SUBSET Sockets] /\ joined' \subseteq Sockets
          /\ \A m \in Messages : audience'[m] \subseteq audience[m] \cap joined'
      BY <1>0, <2>1 DEF Out, WayInv, Reached
    <2> QED BY <1>0, <1>2, <2>1, <2>2 DEF Calm
  <1>4. CASE ~(Close(s) \/ LeaveRoom(s))
    <2>1. UNCHANGED <<queue, got, audience>>
      BY <1>4 DEF SocketStep, Connect, Fail, JoinFind, JoinRoom, SendFind, Summarise,
         MarkSeenCount, MarkSeenMessage, AddReaction, RemoveReaction, MarkSeenFind, ReactFind,
         UnreactFind, StartAuthorized, Start, Mark, DeleteMessage, redis
    <2>2. joined \subseteq joined' /\ joined' \subseteq Sockets
      BY <1>0, <1>4 DEF SocketStep, Connect, Fail, JoinFind, JoinRoom, SendFind, Summarise,
         MarkSeenCount, MarkSeenMessage, AddReaction, RemoveReaction, MarkSeenFind, ReactFind,
         UnreactFind, StartAuthorized, Start, Mark, DeleteMessage, rooms
    <2>3. \/ UNCHANGED sReq
          \/ /\ Summarise(s)
             /\ sReq' = [sReq EXCEPT ![s] = [pc |-> "broadcast", seen |-> {}, msg |-> sReq[s].msg]]
          \/ SEnd(s)
          \/ \E pc \in {"join", "insert", "seen", "readBy", "react", "unreact"},
               seen \in {participants, {}}, m \in Messages \cup {None, sReq[s].msg} :
               sReq' = [sReq EXCEPT ![s] = [pc |-> pc, seen |-> seen, msg |-> m]]
      BY <1>4 DEF SocketStep, Connect, Fail, JoinFind, JoinRoom, SendFind, Summarise,
         MarkSeenCount, MarkSeenMessage, AddReaction, RemoveReaction, MarkSeenFind, ReactFind,
         UnreactFind, StartAuthorized, Start, Mark, DeleteMessage, SGoto
    <2>4. \A t \in Sockets : sReq'[t].pc \in {"summary", "broadcast"} =>
            sReq[t].pc \in {"summary", "broadcast"} /\ sReq'[t].msg = sReq[t].msg
      BY <1>0, <2>3 DEF Summarise, SAt, SEnd, AtRest
    <2>5. DOMAIN sReq' = Sockets /\ sReq' = [t \in Sockets |-> sReq'[t]]
      BY <1>0, <2>3 DEF SEnd
    <2> QED BY <1>2, <2>1, <2>2, <2>4, <2>5, CalmRooms
  <1> QED BY <1>3, <1>4

LEMMA CalmOthers ==
  ASSUME WayInv,
         \/ (\E r \in Requests : GroupStep(r)) /\ UNCHANGED rVars
         \/ ChatController /\ UNCHANGED rVars
         \/ \E p \in Processes : Subscribe(p)
         \/ UNCHANGED vars
  PROVE  Calm
  <1>1. UNCHANGED <<queue, got, audience, joined, sReq>>
    BY DEF rVars, vars, rooms, redis, Subscribe
  <1>2. \/ UNCHANGED messages
        \/ \E r \in Requests : WipeMessages(r)
        \/ \E m \in Messages, u \in Users : Hide(m, u, sender[m])
    <2>1. CASE \E r \in Requests : GroupStep(r)
      <3>1. PICK r \in Requests : GroupStep(r)
        BY <2>1
      <3>2. CASE BeginCall(r)
        BY <3>2 DEF BeginCall, CreateGroup, AddFind, RemoveFind, LeaveFind, PromoteFind, DemoteFind,
           InfoFind, DeleteFind, Begin
      <3>3. CASE AddUpdate(r) \/ RemoveUpdate(r) \/ LeaveUpdate(r) \/ InfoUpdate(r)
                   \/ PromoteUpdate(r) \/ DemoteUpdate(r)
        BY <3>3 DEF AddUpdate, RemoveUpdate, LeaveUpdate, InfoUpdate, PromoteUpdate, DemoteUpdate, Update
      <3>4. CASE WipeMessages(r) \/ DropGroup(r) \/ Announce(r) \/ Abandon(r)
        BY <3>4 DEF DropGroup, Announce, Abandon
      <3> QED BY <3>1, <3>2, <3>3, <3>4 DEF GroupStep
    <2>2. CASE ChatController
      BY <2>2 DEF ChatController, MarkRead
    <2>3. CASE (\E p \in Processes : Subscribe(p)) \/ UNCHANGED vars
      BY <2>3 DEF Subscribe, vars, gVars
    <2> QED BY <2>1, <2>2, <2>3
  <1>3. /\ messages' = [m \in Messages |-> messages'[m]]
        /\ \A m \in Messages : Sent(m) => Sent(m)'
    BY <1>2, CalmMessages
  <1>4. DOMAIN sReq = Sockets /\ sReq = [s \in Sockets |-> sReq[s]] /\ joined \subseteq Sockets
    BY DEF WayInv, WayTyped
  <1> QED BY <1>1, <1>3, <1>4, CalmRooms

LEMMA WayNext == WayInv /\ [Next]_vars => WayInv'
  <1> SUFFICES ASSUME WayInv, [Next]_vars PROVE WayInv'
    OBVIOUS
  <1>1. CASE \E s \in Sockets : SocketStep(s)
    BY <1>1, BroadcastKeeps, InsertKeeps, CalmSockets, CalmKeeps
  <1>2. CASE \E p \in Processes : OnRedisRoomMessage(p) \/ LoseSubscription(p)
    BY <1>2, ConsumeKeeps, LoseKeeps
  <1>3. CASE \/ (\E r \in Requests : GroupStep(r)) /\ UNCHANGED rVars
             \/ ChatController /\ UNCHANGED rVars
             \/ \E p \in Processes : Subscribe(p)
             \/ UNCHANGED vars
    BY <1>3, CalmOthers, CalmKeeps
  <1> QED BY <1>1, <1>2, <1>3 DEF Next

LEMMA OnWayOnce == ASSUME WayInv PROVE ExactlyOnce
  <1> SUFFICES ASSUME NEW s \in Sockets, NEW m \in Messages
               PROVE  /\ got[s][m] <= 1
                      /\ s \in audience[m] => got[s][m] + Waiting(s, m) = 1
    BY DEF ExactlyOnce
  <1> DEFINE W == {i \in DOMAIN queue[Host(s)] :
                     queue[Host(s)][i].msg = m /\ queue[Host(s)][i].origin # Host(s)}
  <1>1. got[s][m] \in {0, 1} /\ Host(s) \in Processes
    BY RealtimeAssumption DEF WayInv, WayTyped
  <1>2. Waiting(s, m) = Cardinality(W)
    BY DEF Waiting
  <1>3. ASSUME s \in audience[m] PROVE got[s][m] + Waiting(s, m) = 1
    <2>1. CASE OnWay(s, m)
      <3>1. got[s][m] = 0
        BY <2>1 DEF WayInv, NotTwice
      <3>2. \E i : W = {i}
        <4>1. PICK i \in W : TRUE
          BY <2>1 DEF OnWay
        <4>2. \A j \in W : j = i
          BY <1>1, <4>1 DEF WayInv, QueuedOnce
        <4> QED BY <4>1, <4>2
      <3>3. Cardinality(W) = 1
        BY <3>2, FS_Singleton
      <3> QED BY <1>2, <3>1, <3>3
    <2>2. CASE ~OnWay(s, m)
      <3>1. W = {}
        BY <2>2 DEF OnWay
      <3>2. Cardinality(W) = 0
        BY <3>1, FS_EmptySet
      <3>3. got[s][m] = 1
        BY <1>3, <2>2 DEF WayInv, Reached
      <3> QED BY <1>2, <3>2, <3>3
    <2> QED BY <2>1, <2>2
  <1> QED BY <1>1, <1>3

\* Whoever was in the room when a message went out, and stayed, has it or it waits in
\* the queue of his process, and never both; nobody gets it twice.
THEOREM DeliveredOnce == Spec => []ExactlyOnce
  BY WayInit, WayNext, OnWayOnce, PTL DEF Spec
-----------------------------------------------------------------------------
(* What runs next to groups: conversations of two, for any users, conversations    *)
(* and messages, any number of handlers, any size of a page and any bound.  One     *)
(* conversation of a pair, replies of one's own, and pages that miss nothing.        *)

LEMMA DirectSizes == \A A : D!Cardinality(A) = Cardinality(A) /\ (D!IsFiniteSet(A) <=> IsFiniteSet(A))
  BY DEF Cardinality, IsFiniteSet, D!Cardinality, D!IsFiniteSet

LEMMA FirstIn == ASSUME NEW A, A # {} PROVE D!FirstOf(A) \in A
  BY Zenon DEF D!FirstOf

\* A set of natural numbers has a least one, and D!Min is it.
LEMMA LeastIn ==
  ASSUME NEW A, A \subseteq Nat, A # {}
  PROVE  D!Min(A) \in A /\ \A x \in A : D!Min(A) <= x
  <1> DEFINE Less == {ss \in Nat \X Nat : ss[1] < ss[2]}
  <1>1. IsWellFoundedOn(Less, Nat)
    BY NatLessThanWellFounded, Zenon DEF OpToRel
  <1>2. \A x, y \in Nat : <<y, x>> \notin Less => x <= y
    OBVIOUS
  <1> HIDE DEF Less
  <1>3. PICK x \in A : \A y \in A : <<y, x>> \notin Less
    BY <1>1, WFMin
  <1>4. \A y \in A : x <= y
    BY <1>2, <1>3, Zenon
  <1> QED BY <1>4, Zenon DEF D!Min

\* The newest n of a collection are no more than n; and if they leave one out,
\* they are n, all at least as new as that one.
LEMMA NewestFull ==
  ASSUME NEW A, D!IsFiniteSet(A), NEW time, NEW n \in Nat, NEW B \in D!Newest(A, time, n)
  PROVE  /\ B \subseteq A /\ D!IsFiniteSet(B)
         /\ D!Cardinality(B) \in Nat /\ D!Cardinality(B) <= n
         /\ \A m \in A \ B : D!Cardinality(B) = n /\ \A x \in B : time[x] >= time[m]
  <1>1. /\ B \in SUBSET A
        /\ D!Cardinality(B) = IF D!Cardinality(A) < n THEN D!Cardinality(A) ELSE n
        /\ \A x \in B, y \in A \ B : time[x] >= time[y]
    BY DEF D!Newest, D!kSubset
  <1>2. D!IsFiniteSet(B) /\ (D!Cardinality(A) = D!Cardinality(B) => A = B)
    BY <1>1, DirectSizes, FS_Subset
  <1>3. D!Cardinality(A) \in Nat
    BY DirectSizes, FS_CardinalityType
  <1> QED BY <1>1, <1>2, <1>3

-----------------------------------------------------------------------------
(* Types.                                                                       *)

DirectCall ==
  [pc : {"idle"}] \cup [pc : {"create"}, by : Users, who : Users]
  \cup [pc : {"send", "preview", "sum"}, talk : Talks, quotes : Texts \cup {D!No}]
DirectText == [talk : Talks \cup {D!No}, at : Nat, quotes : Texts \cup {D!No}, hidden : BOOLEAN]
Scroll == [talk : Talks \cup {D!No}, before : Nat, ends : BOOLEAN, seen : SUBSET Texts,
           pending : SUBSET Texts, gone : SUBSET Texts, due : SUBSET Texts,
           quoted : SUBSET [text : Texts, gone : BOOLEAN]]
\* What a list of conversations may hold.
Rows == Talks \cup Groups
Listing == [by : Users \cup {D!No}, page : Nat, ends : BOOLEAN, seen : SUBSET Rows,
            moved : SUBSET Rows, slipped : SUBSET Rows, due : SUBSET Rows]

DirectTyped ==
  /\ dPair \in [Talks -> (Users \X Users) \cup {<< >>}]
  /\ dLast \in [Rows -> Nat]
  /\ dIn \subseteq Groups
  /\ dText \in [Texts -> DirectText]
  /\ dNow \in Nat
  /\ dReq \in [Workers -> DirectCall]
  /\ dScroll \in Scroll
  /\ dList \in Listing

LEMMA InitTyped == ASSUME D!DirectAssumption, D!Init PROVE DirectTyped
  BY DEF D!DirectAssumption, D!Init, DirectTyped, DirectCall, DirectText, Scroll, Listing, Rows, D!Resting,
     D!Unsent, D!NoScroll, D!NoList

LEMMA NextTyped == ASSUME D!DirectAssumption, DirectTyped, [D!Next]_ofDirect PROVE DirectTyped'
  <1> USE DEF D!DirectAssumption
  <1>1. ASSUME NEW r \in Workers, NEW u \in Users, NEW v \in Users, D!OpenFind(r, u, v)
        PROVE  DirectTyped'
    <2>1. dReq' \in [Workers -> DirectCall]
      BY SMTT(30), <1>1 DEF D!OpenFind, DirectTyped, DirectCall
    <2> QED BY <1>1, <2>1 DEF D!OpenFind, DirectTyped, D!reading
  <1>2. ASSUME NEW r \in Workers, D!CreateConversation(r) PROVE DirectTyped'
    <2>1. D!FirstOf(Talks \ D!Opened) \in Talks
      BY <1>2, FirstIn DEF D!CreateConversation
    <2>2. dNow' \in Nat
      BY <1>2 DEF D!CreateConversation, D!Stamp, DirectTyped
    <2>3. dReq[r].by \in Users /\ dReq[r].who \in Users
      BY <1>2 DEF D!CreateConversation, DirectTyped, DirectCall
    <2>4. dReq' \in [Workers -> DirectCall]
      BY <1>2 DEF D!CreateConversation, DirectTyped, DirectCall, D!Resting
    <2> QED BY <1>2, <2>1, <2>2, <2>3, <2>4 DEF D!CreateConversation, DirectTyped, Rows, D!reading
  <1>3. ASSUME NEW r \in Workers, NEW u \in Users, NEW k \in Talks, NEW q \in Texts \cup {D!No},
               D!SendFind(r, u, k, q)
        PROVE  DirectTyped'
    <2>1. dReq' \in [Workers -> DirectCall]
      BY <1>3 DEF D!SendFind, DirectTyped, DirectCall
    <2> QED BY <1>3, <2>1 DEF D!SendFind, DirectTyped, D!reading
  <1>4. ASSUME NEW r \in Workers, D!StoreMessage(r) PROVE DirectTyped'
    <2>1. D!FirstOf(Texts \ D!Stored) \in Texts
      BY <1>4, FirstIn DEF D!StoreMessage
    <2>2. dNow' \in Nat
      BY <1>4 DEF D!StoreMessage, D!Stamp, DirectTyped
    <2>3. dReq[r] \in [pc : {"send", "preview", "sum"}, talk : Talks, quotes : Texts \cup {D!No}]
      BY <1>4 DEF D!StoreMessage, DirectTyped, DirectCall
    <2>4. dText' \in [Texts -> DirectText]
      BY <1>4, <2>1, <2>2, <2>3 DEF D!StoreMessage, DirectTyped, DirectText
    <2>5. dReq' \in [Workers -> DirectCall]
      BY <1>4, <2>3 DEF D!StoreMessage, DirectTyped, DirectCall
    <2> QED BY <1>4, <2>2, <2>4, <2>5 DEF D!StoreMessage, DirectTyped, D!reading
  <1>5. ASSUME NEW r \in Workers, D!Preview(r) PROVE DirectTyped'
    <2>1. dReq[r] \in [pc : {"send", "preview", "sum"}, talk : Talks, quotes : Texts \cup {D!No}]
      BY <1>5 DEF D!Preview, DirectTyped, DirectCall
    <2>2. dReq' \in [Workers -> DirectCall]
      BY <1>5, <2>1 DEF D!Preview, DirectTyped, DirectCall
    <2> QED BY <1>5, <2>2 DEF D!Preview, DirectTyped
  <1>6. ASSUME NEW r \in Workers, D!Summary(r) PROVE DirectTyped'
    <2>1. dReq[r].talk \in Talks
      BY <1>6 DEF D!Summary, DirectTyped, DirectCall
    <2>2. dReq' \in [Workers -> DirectCall]
      BY <1>6 DEF D!Summary, DirectTyped, DirectCall, D!Resting
    <2>3. dNow' \in Nat
      BY <1>6 DEF D!Summary, D!Stamp, DirectTyped
    <2>4. dLast' \in [Rows -> Nat]
      BY <1>6, <2>1, <2>3 DEF D!Summary, DirectTyped, Rows
    <2>5. dList' \in Listing
      <3>1. PICK l \in Rows : dList' = dList \/ dList' = [dList EXCEPT !.moved = @ \cup {l}]
        BY <1>6, <2>1 DEF D!Summary, Rows
      <3> QED BY <3>1 DEF DirectTyped, Listing
    <2> QED BY <1>6, <2>2, <2>3, <2>4, <2>5 DEF D!Summary, DirectTyped
  <1>7. ASSUME NEW m \in Texts, D!DeleteText(m) PROVE DirectTyped'
    <2>1. dText' \in [Texts -> DirectText]
      BY <1>7 DEF D!DeleteText, DirectTyped, DirectText
    <2> QED BY <1>7, <2>1 DEF D!DeleteText, DirectTyped, D!reading
  <1>8. ASSUME NEW m \in Texts, D!ShowReply(m) PROVE DirectTyped'
    <2> DEFINE q == dText[m].quotes
               own == D!Quotable(q, dScroll.talk) /\ ~dText[q].hidden
               gone == q \in dScroll.gone
               quoted == IF own THEN dScroll.quoted \cup {[text |-> q, gone |-> gone]}
                         ELSE dScroll.quoted
    <2>1. gone \in BOOLEAN /\ (own => q \in Texts)
      BY DEF D!Quotable, D!Stored
    <2>2. dScroll.quoted \subseteq [text : Texts, gone : BOOLEAN]
      BY DEF DirectTyped, Scroll
    <2>3. dScroll' = [dScroll EXCEPT !.pending = @ \ {m}, !.quoted = quoted]
      BY <1>8, Zenon DEF D!ShowReply
    <2> HIDE DEF gone, own
    <2>4. quoted \subseteq [text : Texts, gone : BOOLEAN]
      BY <2>1, <2>2
    <2> HIDE DEF quoted
    <2>5. dScroll' \in Scroll
      BY <2>3, <2>4 DEF DirectTyped, Scroll
    <2> QED BY <1>8, <2>5 DEF D!ShowReply, DirectTyped
  <1>9. ASSUME NEW k \in Talks, D!StartScroll(k) PROVE DirectTyped'
    <2>1. dScroll' \in Scroll
      BY <1>9 DEF D!StartScroll, D!Visible, D!Older, D!Stored, DirectTyped, Scroll
    <2> QED BY <1>9, <2>1 DEF D!StartScroll, DirectTyped
  <1>10. ASSUME D!GetMessages PROVE DirectTyped'
    <2> DEFINE at == [m \in Texts |-> dText[m].at]
    <2>1. PICK page \in D!Newest(D!Older(dScroll.talk, dScroll.before), at, PageSize) :
            dScroll' = [dScroll EXCEPT
              !.before = IF page = {} THEN @ ELSE D!Min({at[m] : m \in page}),
              !.ends = D!Cardinality(page) < PageSize,
              !.seen = @ \cup page,
              !.gone = {m \in D!Stored : dText[m].hidden},
              !.pending = {m \in page : dText[m].quotes # D!No}]
      BY <1>10 DEF D!GetMessages
    <2>2. page \subseteq Texts
      BY <2>1 DEF D!Newest, D!kSubset, D!Older, D!Stored
    <2> DEFINE oldest == D!Min({at[m] : m \in page})
               before == IF page = {} THEN dScroll.before ELSE oldest
               ends == D!Cardinality(page) < PageSize
               gone == {m \in D!Stored : dText[m].hidden}
               pending == {m \in page : dText[m].quotes # D!No}
    <2>3. page # {} => oldest \in Nat
      <3>1. \A m \in page : at[m] \in Nat
        BY <2>2 DEF DirectTyped, DirectText
      <3> HIDE DEF at
      <3>2. {at[m] : m \in page} \subseteq Nat
        BY <3>1
      <3>3. page # {} => {at[m] : m \in page} # {}
        OBVIOUS
      <3> QED BY <3>2, <3>3, LeastIn, Zenon
    <2>4. /\ ends \in BOOLEAN
          /\ gone \in SUBSET Texts /\ pending \in SUBSET Texts
      BY <2>2 DEF D!Stored
    <2>5. dScroll' = [dScroll EXCEPT !.before = before, !.ends = ends, !.seen = @ \cup page,
                                     !.gone = gone, !.pending = pending]
      BY <2>1
    <2> HIDE DEF at, oldest, ends, gone, pending
    <2>6. before \in Nat
      BY <2>3 DEF DirectTyped, Scroll
    <2> HIDE DEF before
    <2>7. dScroll' \in Scroll
      BY <2>2, <2>4, <2>5, <2>6 DEF DirectTyped, Scroll
    <2> QED BY <1>10, <2>7 DEF D!GetMessages, DirectTyped
  <1>11. ASSUME D!StartList PROVE DirectTyped'
    <2>1. dList' \in Listing
      BY <1>11 DEF D!StartList, D!Listed, D!Mine, D!Opened, DirectTyped, Listing, Rows
    <2> QED BY <1>11, <2>1 DEF D!StartList, DirectTyped
  <1>12. ASSUME D!GetConversations PROVE DirectTyped'
    <2> DEFINE mine == D!Listed
               tied == {k \in mine : \E l \in mine \ {k} : dLast[l] = dLast[k]}
    <2>0. PICK skipped : \E page \in D!Newest(mine \ skipped, dLast, PageSize) :
            dList' = [dList EXCEPT !.page = @ + 1, !.seen = @ \cup page,
                                   !.moved = @ \cup tied,
                                   !.ends = D!Cardinality(page) < PageSize]
      BY <1>12 DEF D!GetConversations
    <2>1. PICK page \in D!Newest(mine \ skipped, dLast, PageSize) :
            dList' = [dList EXCEPT !.page = @ + 1, !.seen = @ \cup page,
                                   !.moved = @ \cup tied,
                                   !.ends = D!Cardinality(page) < PageSize]
      BY <2>0
    <2>2. mine \subseteq Rows /\ tied \subseteq Rows
      BY DEF D!Listed, D!Mine, D!Opened, DirectTyped, Rows
    <2>3. page \subseteq Rows
      BY <2>1, <2>2 DEF D!Newest, D!kSubset
    <2> DEFINE ends == D!Cardinality(page) < PageSize
    <2>4. ends \in BOOLEAN
      OBVIOUS
    <2>5. dList' = [dList EXCEPT !.page = @ + 1, !.seen = @ \cup page,
                                 !.moved = @ \cup tied, !.ends = ends]
      BY <2>1
    <2> HIDE DEF tied, ends
    <2>6. dList \in Listing /\ dList.page + 1 \in Nat
      BY DEF DirectTyped, Listing
    <2>7. dList.seen \cup page \subseteq Rows /\ dList.moved \cup tied \subseteq Rows
      BY <2>2, <2>3, <2>6 DEF Listing
    <2>8. dList' = [by |-> dList.by, page |-> dList.page + 1, ends |-> ends,
                    seen |-> dList.seen \cup page, moved |-> dList.moved \cup tied,
                    slipped |-> dList.slipped, due |-> dList.due]
      BY <2>5, <2>6 DEF Listing
    <2>9. dList' \in Listing
      BY <2>4, <2>6, <2>7, <2>8 DEF Listing
    <2> QED BY <1>12, <2>9 DEF D!GetConversations, DirectTyped
  <1>13. ASSUME NEW g \in Groups, D!GroupMessage(g) PROVE DirectTyped'
    <2>1. dNow' \in Nat
      BY <1>13 DEF D!GroupMessage, D!Stamp, DirectTyped
    <2>2. dLast' \in [Rows -> Nat] /\ dList' \in Listing
      BY <1>13, <2>1 DEF D!GroupMessage, DirectTyped, Listing, Rows
    <2> QED BY <1>13, <2>1, <2>2 DEF D!GroupMessage, D!GroupCall, DirectTyped
  <1>14. ASSUME NEW g \in Groups, D!JoinGroup(g) PROVE DirectTyped'
    BY <1>14 DEF D!JoinGroup, D!GroupCall, DirectTyped
  <1>15. ASSUME NEW g \in Groups, D!QuitGroup(g) PROVE DirectTyped'
    <2>1. D!FirstBehind(g) \subseteq Rows
      BY DEF D!FirstBehind, D!Listed, D!Mine, D!Opened, DirectTyped, Rows
    <2>2. PICK behind : behind = D!FirstBehind(g)
      OBVIOUS
    <2>3. dList' = [dList EXCEPT !.moved = @ \cup {g}, !.slipped = @ \cup behind]
      BY <1>15, <2>2 DEF D!QuitGroup
    <2>4. dList' \in Listing
      BY <2>1, <2>2, <2>3 DEF DirectTyped, Listing, Rows
    <2> QED BY <1>15, <2>4 DEF D!QuitGroup, D!GroupCall, DirectTyped
  <1>16. CASE UNCHANGED ofDirect
    BY <1>16 DEF ofDirect, DirectTyped
  <1> QED
    BY <1>1, <1>2, <1>3, <1>4, <1>5, <1>6, <1>7, <1>8, <1>9, <1>10, <1>11, <1>12, <1>13, <1>14,
       <1>15, <1>16 DEF D!Next

-----------------------------------------------------------------------------
(* One conversation of a pair.                                                  *)

Asked(r) == {dReq[r].by, dReq[r].who}
\* Two conversations, two handlers about to create, or one of each, are of one
\* pair only if creations of it overlapped.
PairsApart == \A k, l \in D!Opened : k # l /\ D!Of(k) = D!Of(l) => D!Of(k) \in dRaced
CreatorsApart ==
  \A q, r \in Workers :
    q # r /\ dReq[q].pc = "create" /\ dReq[r].pc = "create" /\ Asked(q) = Asked(r)
      => Asked(q) \in dRaced
CreatorFirst ==
  \A r \in Workers, k \in D!Opened :
    dReq[r].pc = "create" /\ Asked(r) = D!Of(k) => D!Of(k) \in dRaced
PairsInv == dStray = {} /\ PairsApart /\ CreatorsApart /\ CreatorFirst

LEMMA InitPairs == D!Init => PairsInv
  BY DEF D!Init, PairsInv, PairsApart, CreatorsApart, CreatorFirst, D!Opened, D!Resting

LEMMA OfPair ==
  ASSUME DirectTyped, NEW k \in D!Opened
  PROVE  \E a, b \in Users : dPair[k] = <<a, b>> /\ D!Of(k) = {a, b}
  <1>1. PICK a, b \in Users : dPair[k] = <<a, b>>
    BY DEF DirectTyped, D!Opened
  <1>2. DOMAIN dPair[k] = {1, 2}
    BY <1>1
  <1>3. D!Of(k) = {a, b}
    BY <1>1, <1>2 DEF D!Of
  <1> QED BY <1>1, <1>3

\* Steps that open nothing and start no creation.
LEMMA QuietPairs ==
  ASSUME PairsInv, UNCHANGED <<dPair, dRaced, dStray>>,
         \A r \in Workers : dReq'[r].pc = "create" => dReq'[r] = dReq[r]
  PROVE  PairsInv'
  <1>1. D!Opened' = D!Opened /\ \A k \in D!Opened : D!Of(k)' = D!Of(k)
    BY DEF D!Opened, D!Of
  <1>2. \A r \in Workers : dReq'[r].pc = "create" =>
          dReq[r].pc = "create" /\ Asked(r)' = Asked(r)
    BY DEF Asked
  <1>3. PairsApart'
    BY <1>1 DEF PairsInv, PairsApart
  <1>4. CreatorsApart'
    BY <1>2 DEF PairsInv, CreatorsApart
  <1>5. CreatorFirst'
    BY <1>1, <1>2 DEF PairsInv, CreatorFirst
  <1> QED BY <1>3, <1>4, <1>5 DEF PairsInv

LEMMA OpenFindPairs ==
  ASSUME DirectTyped, PairsInv, NEW r \in Workers, NEW u \in Users, NEW v \in Users,
         D!OpenFind(r, u, v)
  PROVE  PairsInv'
  <1> DEFINE found == {k \in D!Opened : D!Between(k, u, v)}
  <1>0. dReq \in [Workers -> DirectCall] /\ dPair' = dPair
    BY DEF DirectTyped, D!OpenFind
  <1>1. CASE \E k \in found : D!Answer(u, v, dPair[k]) /\ UNCHANGED <<dReq, dRaced>>
    <2>1. PICK k \in D!Opened : D!Between(k, u, v) /\ D!Answer(u, v, dPair[k])
      BY <1>1
    <2>2. PICK a, b \in Users : dPair[k] = <<a, b>> /\ D!Of(k) = {a, b}
      BY OfPair
    <2>3. u = v \/ {a, b} = {u, v}
      BY <2>1, <2>2 DEF D!Between
    <2>4. dStray' = dStray
      BY <2>1, <2>2, <2>3 DEF D!Answer
    <2> QED BY <1>0, <1>1, <2>4, QuietPairs
  <1>2. CASE /\ found = {}
             /\ dReq' = [dReq EXCEPT ![r] = [pc |-> "create", by |-> u, who |-> v]]
             /\ dRaced' = IF \E q \in Workers : dReq[q].pc = "create"
                                               /\ {dReq[q].by, dReq[q].who} = {u, v}
                          THEN dRaced \cup {{u, v}} ELSE dRaced
             /\ UNCHANGED dStray
    <2>1. dReq'[r] = [pc |-> "create", by |-> u, who |-> v] /\ Asked(r)' = {u, v}
      BY <1>0, <1>2 DEF Asked
    <2>2. \A q \in Workers \ {r} : dReq'[q] = dReq[q] /\ Asked(q)' = Asked(q)
      BY <1>0, <1>2 DEF Asked
    <2>3. dRaced \subseteq dRaced'
      BY <1>2
    <2>4. \A k \in D!Opened : D!Of(k)' = D!Of(k) /\ D!Of(k) # {u, v}
      <3>1. \A k \in D!Opened : ~D!Between(k, u, v)
        BY <1>2
      <3> QED BY <1>0, <3>1 DEF D!Between, D!Of
    <2>5. D!Opened' = D!Opened
      BY <1>0 DEF D!Opened
    <2>6. PairsApart'
      BY <2>3, <2>4, <2>5 DEF PairsInv, PairsApart
    <2>7. \A q \in Workers \ {r} :
            dReq[q].pc = "create" /\ Asked(q) = {u, v} => {u, v} \in dRaced'
      BY <1>2 DEF Asked
    <2>8. CreatorsApart'
      BY <2>1, <2>2, <2>3, <2>7 DEF PairsInv, CreatorsApart
    <2>9. CreatorFirst'
      BY <2>1, <2>2, <2>3, <2>4, <2>5 DEF PairsInv, CreatorFirst
    <2> QED BY <1>2, <2>6, <2>8, <2>9 DEF PairsInv
  <1> QED BY <1>1, <1>2 DEF D!OpenFind

LEMMA CreatePairs ==
  ASSUME DirectTyped, PairsInv, NEW r \in Workers, D!CreateConversation(r)
  PROVE  PairsInv'
  <1>0. D!FirstOf(Talks \ D!Opened) \in Talks \ D!Opened
    BY FirstIn DEF D!CreateConversation
  <1>1. PICK k \in Talks \ D!Opened : k = D!FirstOf(Talks \ D!Opened)
    BY <1>0
  <1>2. /\ dPair \in [Talks -> (Users \X Users) \cup {<< >>}]
        /\ dPair' = [dPair EXCEPT ![k] = <<dReq[r].by, dReq[r].who>>]
        /\ dReq \in [Workers -> DirectCall] /\ dReq' = [dReq EXCEPT ![r] = D!Resting]
        /\ dReq[r].pc = "create" /\ UNCHANGED <<dRaced, dStray>>
    BY <1>1 DEF DirectTyped, D!CreateConversation
  <1>3. dPair'[k] = <<dReq[r].by, dReq[r].who>> /\ \A l \in Talks \ {k} : dPair'[l] = dPair[l]
    BY <1>1, <1>2
  <1>4. D!Opened' = D!Opened \cup {k}
    <2>1. dPair'[k] # << >>
      BY <1>3
    <2>2. \A l \in Talks : l \in D!Opened' <=> l = k \/ l \in D!Opened
      BY <1>1, <1>3, <2>1 DEF D!Opened
    <2> QED BY <1>1, <2>2 DEF D!Opened
  <1>5. D!Of(k)' = Asked(r)
    <2>1. DOMAIN dPair'[k] = {1, 2}
      BY <1>3
    <2>2. dPair'[k][1] = dReq[r].by /\ dPair'[k][2] = dReq[r].who
      BY <1>3
    <2>3. D!Of(k)' = {dPair'[k][i] : i \in DOMAIN dPair'[k]}
      BY DEF D!Of
    <2> QED BY <2>1, <2>2, <2>3 DEF Asked
  <1>6. \A l \in D!Opened : D!Of(l)' = D!Of(l)
    BY <1>1, <1>3 DEF D!Of, D!Opened
  <1>7. \A q \in Workers : dReq'[q].pc = "create" =>
          q # r /\ dReq[q].pc = "create" /\ Asked(q)' = Asked(q)
    BY <1>2 DEF D!Resting, Asked
  <1>8. PairsApart'
    <2>1. \A l \in D!Opened : l # k /\ (D!Of(l)' = D!Of(k)' => D!Of(l)' \in dRaced')
      BY <1>1, <1>2, <1>5, <1>6 DEF PairsInv, CreatorFirst
    <2>2. \A l, m \in D!Opened : l # m /\ D!Of(l)' = D!Of(m)' => D!Of(l)' \in dRaced'
      BY <1>2, <1>6 DEF PairsInv, PairsApart
    <2>3. \A l, m \in D!Opened' : l # m /\ D!Of(l)' = D!Of(m)' => D!Of(l)' \in dRaced'
      BY <1>4, <2>1, <2>2
    <2> QED BY <2>3 DEF PairsApart
  <1>9. CreatorsApart'
    BY <1>2, <1>7 DEF PairsInv, CreatorsApart
  <1>10. CreatorFirst'
    <2>1. \A q \in Workers : dReq'[q].pc = "create" /\ Asked(q)' = D!Of(k)' => D!Of(k)' \in dRaced'
      BY <1>2, <1>5, <1>7 DEF PairsInv, CreatorsApart
    <2>2. \A q \in Workers, l \in D!Opened :
            dReq'[q].pc = "create" /\ Asked(q)' = D!Of(l)' => D!Of(l)' \in dRaced'
      BY <1>2, <1>6, <1>7 DEF PairsInv, CreatorFirst
    <2>3. \A q \in Workers, l \in D!Opened' :
            dReq'[q].pc = "create" /\ Asked(q)' = D!Of(l)' => D!Of(l)' \in dRaced'
      BY <1>4, <2>1, <2>2
    <2> QED BY <2>3 DEF CreatorFirst
  <1> QED BY <1>2, <1>8, <1>9, <1>10 DEF PairsInv

LEMMA NextPairs == ASSUME DirectTyped, PairsInv, [D!Next]_ofDirect PROVE PairsInv'
  <1>0. dReq \in [Workers -> DirectCall]
    BY DEF DirectTyped
  <1>1. ASSUME NEW r \in Workers,
               \/ \E u \in Users, k \in Talks, q \in Texts \cup {D!No} : D!SendFind(r, u, k, q)
               \/ D!StoreMessage(r) \/ D!Preview(r) \/ D!Summary(r)
        PROVE  PairsInv'
    <2>1. UNCHANGED <<dPair, dRaced, dStray>> /\ \A q \in Workers \ {r} : dReq'[q] = dReq[q]
      BY <1>0, <1>1 DEF D!SendFind, D!StoreMessage, D!Preview, D!Summary
    <2>2. dReq'[r].pc # "create"
      <3>1. CASE \E u \in Users, k \in Talks, q \in Texts \cup {D!No} : D!SendFind(r, u, k, q)
        BY <1>0, <3>1 DEF D!SendFind
      <3>2. CASE D!StoreMessage(r) \/ D!Preview(r)
        <4>1. \E pc \in {"sum", "preview"} : dReq' = [dReq EXCEPT ![r].pc = pc]
          BY <3>2 DEF D!StoreMessage, D!Preview
        <4> QED BY <1>0, <4>1 DEF DirectCall
      <3>3. CASE D!Summary(r)
        BY <1>0, <3>3 DEF D!Summary, D!Resting
      <3> QED BY <1>1, <3>1, <3>2, <3>3
    <2> QED BY <2>1, <2>2, QuietPairs
  <1>2. CASE \/ \E m \in Texts : D!DeleteText(m) \/ D!ShowReply(m)
             \/ \E k \in Talks : D!StartScroll(k)
             \/ \E g \in Groups : D!GroupMessage(g) \/ D!JoinGroup(g) \/ D!QuitGroup(g)
             \/ D!GetMessages \/ D!StartList \/ D!GetConversations \/ UNCHANGED ofDirect
    <2>1. UNCHANGED <<dPair, dRaced, dStray, dReq>>
      BY <1>2 DEF D!DeleteText, D!ShowReply, D!StartScroll, D!GetMessages, D!StartList,
         D!GroupMessage, D!JoinGroup, D!QuitGroup, D!GroupCall, D!GetConversations, ofDirect
    <2> QED BY <2>1, QuietPairs
  <1> QED BY <1>1, <1>2, OpenFindPairs, CreatePairs DEF D!Next

-----------------------------------------------------------------------------
(* What is shown of replies, and the pages of a conversation.                   *)

\* A message that is stored keeps its conversation and its time, and is never
\* shown again once it is deleted.
Stays(m) ==
  /\ m \in D!Stored'
  /\ dText'[m].talk = dText[m].talk /\ dText'[m].at = dText[m].at
  /\ dText[m].hidden => dText'[m].hidden

LEMMA TextsStay ==
  ASSUME D!DirectAssumption, DirectTyped, [D!Next]_ofDirect, NEW m \in D!Stored PROVE Stays(m)
  <1>0. m \in Texts /\ dText[m].talk # D!No /\ dText \in [Texts -> DirectText]
    BY DEF D!Stored, DirectTyped
  <1>1. ASSUME NEW r \in Workers, D!StoreMessage(r) PROVE dText'[m] = dText[m]
    <2>1. D!FirstOf(Texts \ D!Stored) \in Texts \ D!Stored
      BY <1>1, FirstIn DEF D!StoreMessage
    <2> QED BY <1>0, <1>1, <2>1 DEF D!StoreMessage
  <1>2. ASSUME NEW n \in Texts, D!DeleteText(n) PROVE Stays(m)
    <2>1. dText' = [dText EXCEPT ![n].hidden = TRUE]
      BY <1>2 DEF D!DeleteText
    <2>2. /\ dText'[m].talk = dText[m].talk /\ dText'[m].at = dText[m].at
          /\ dText[m].hidden => dText'[m].hidden
      BY <1>0, <2>1 DEF DirectText
    <2> QED BY <1>0, <2>2 DEF Stays, D!Stored
  <1>3. ASSUME dText'[m] = dText[m] PROVE Stays(m)
    BY <1>0, <1>3 DEF Stays, D!Stored
  <1>4. CASE UNCHANGED dText
    BY <1>3, <1>4
  <1>5. CASE D!Next /\ ~UNCHANGED dText
    <2>1. (\E r \in Workers : D!StoreMessage(r)) \/ \E n \in Texts : D!DeleteText(n)
      BY <1>5 DEF D!Next, D!OpenFind, D!CreateConversation, D!SendFind, D!Preview, D!Summary, D!ShowReply,
         D!StartScroll, D!GetMessages, D!StartList, D!GetConversations, D!GroupMessage, D!JoinGroup,
         D!QuitGroup, D!GroupCall
    <2> QED BY <1>1, <1>2, <1>3, <2>1
  <1> QED BY <1>4, <1>5 DEF ofDirect

ShownOwn == \A s \in dShown : s[2] \in D!Stored /\ dText[s[2]].talk = s[1]
QuotedOwn ==
  \A s \in dScroll.quoted : /\ s.text \in D!Stored /\ dText[s.text].talk = dScroll.talk
                            /\ ~s.gone
GoneHidden == \A m \in dScroll.gone : m \in D!Stored /\ dText[m].hidden
\* What the client holds and is due is of the conversation it reads.
OneTalk == \A m \in dScroll.seen \cup dScroll.due : m \in D!Stored /\ dText[m].talk = dScroll.talk
\* A message that is due and not shown is still ahead of the cursor.
Tied(m) == \E s \in dScroll.seen : dText[s].at = dText[m].at
Ahead(m) == ~dScroll.ends /\ (dScroll.before = 0 \/ dText[m].at < dScroll.before)
StillAhead ==
  \A m \in dScroll.due : m \in dScroll.seen \/ dText[m].hidden \/ Tied(m) \/ Ahead(m)
ScrollInv == ShownOwn /\ QuotedOwn /\ GoneHidden /\ OneTalk /\ StillAhead

LEMMA InitScroll == D!Init => ScrollInv
  BY DEF D!Init, D!NoScroll, ScrollInv, ShownOwn, QuotedOwn, GoneHidden, OneTalk, StillAhead

\* Steps that leave the client and the broadcasts alone.
LEMMA QuietScroll ==
  ASSUME ScrollInv, \A m \in D!Stored : Stays(m), UNCHANGED <<dShown, dScroll>>
  PROVE  ScrollInv'
  <1>1. ShownOwn'
    BY DEF ScrollInv, ShownOwn, Stays
  <1>2. QuotedOwn'
    BY DEF ScrollInv, QuotedOwn, Stays
  <1>3. GoneHidden'
    BY DEF ScrollInv, GoneHidden, Stays
  <1>4. OneTalk'
    BY DEF ScrollInv, OneTalk, Stays
  <1>5. StillAhead'
    <2>1. ASSUME NEW m \in dScroll.due
          PROVE  m \in dScroll.seen \/ dText'[m].hidden \/ Tied(m)' \/ Ahead(m)'
      <3>1. m \in D!Stored /\ Stays(m) /\ \A s \in dScroll.seen : s \in D!Stored /\ Stays(s)
        BY <2>1 DEF ScrollInv, OneTalk
      <3>2. m \in dScroll.seen \/ dText[m].hidden \/ Tied(m) \/ Ahead(m)
        BY <2>1 DEF ScrollInv, StillAhead
      <3>3. Tied(m) => Tied(m)'
        BY <3>1 DEF Tied, Stays
      <3>4. Ahead(m) => Ahead(m)'
        BY <3>1 DEF Ahead, Stays
      <3> QED BY <3>1, <3>2, <3>3, <3>4 DEF Stays
    <2> QED BY <2>1 DEF StillAhead
  <1> QED BY <1>1, <1>2, <1>3, <1>4, <1>5 DEF ScrollInv

LEMMA PreviewScroll ==
  ASSUME ScrollInv, NEW r \in Workers, D!Preview(r) PROVE ScrollInv'
  <1>1. UNCHANGED <<dText, dScroll>>
    BY DEF D!Preview
  <1>2. dShown' \subseteq dShown \/ \E k, q : dShown' = dShown \cup {<<k, q>>} /\ D!Quotable(q, k)
    BY DEF D!Preview
  <1>3. ShownOwn'
    BY <1>1, <1>2 DEF ScrollInv, ShownOwn, D!Quotable, D!Stored
  <1>4. (QuotedOwn /\ GoneHidden /\ OneTalk /\ StillAhead)'
    BY <1>1 DEF ScrollInv, QuotedOwn, GoneHidden, OneTalk, StillAhead, D!Stored, Tied, Ahead
  <1> QED BY <1>3, <1>4 DEF ScrollInv

LEMMA ReplyScroll ==
  ASSUME DirectTyped, ScrollInv, NEW m \in Texts, D!ShowReply(m) PROVE ScrollInv'
  <1> DEFINE q == dText[m].quotes
             own == D!Quotable(q, dScroll.talk) /\ ~dText[q].hidden
             gone == q \in dScroll.gone
             quoted == IF own THEN dScroll.quoted \cup {[text |-> q, gone |-> gone]}
                       ELSE dScroll.quoted
             pending == dScroll.pending \ {m}
  <1>1. UNCHANGED <<dText, dShown>> /\ dScroll \in Scroll
    BY DEF D!ShowReply, DirectTyped
  <1>2. dScroll' = [dScroll EXCEPT !.pending = pending, !.quoted = quoted]
    BY Zenon DEF D!ShowReply
  <1>3. own => q \in D!Stored /\ dText[q].talk = dScroll.talk /\ ~gone
    BY DEF ScrollInv, GoneHidden, D!Quotable
  <1> HIDE DEF q, own, gone
  <1>4. \A s \in quoted : s.text \in D!Stored /\ dText[s.text].talk = dScroll.talk /\ ~s.gone
    BY <1>3 DEF ScrollInv, QuotedOwn
  <1> HIDE DEF quoted, pending
  <1>5. /\ dScroll'.quoted = quoted /\ dScroll'.talk = dScroll.talk
        /\ dScroll'.gone = dScroll.gone /\ dScroll'.seen = dScroll.seen
        /\ dScroll'.due = dScroll.due /\ dScroll'.ends = dScroll.ends
        /\ dScroll'.before = dScroll.before
    BY <1>1, <1>2 DEF Scroll
  <1>6. QuotedOwn'
    BY <1>1, <1>4, <1>5 DEF QuotedOwn, D!Stored
  <1>7. (ShownOwn /\ GoneHidden /\ OneTalk)'
    BY <1>1, <1>5 DEF ScrollInv, ShownOwn, GoneHidden, OneTalk, D!Stored
  <1>8. StillAhead'
    BY <1>1, <1>5 DEF ScrollInv, StillAhead, Tied, Ahead
  <1> QED BY <1>6, <1>7, <1>8 DEF ScrollInv

LEMMA StartsScroll ==
  ASSUME ScrollInv, NEW k \in Talks, D!StartScroll(k) PROVE ScrollInv'
  <1>1. UNCHANGED <<dText, dShown>>
    BY DEF D!StartScroll
  <1>2. /\ dScroll'.quoted = {} /\ dScroll'.talk = k /\ dScroll'.seen = {}
        /\ dScroll'.gone = {m \in D!Stored : dText[m].hidden}
        /\ dScroll'.due = D!Visible(k) /\ dScroll'.ends = FALSE /\ dScroll'.before = 0
    BY DEF D!StartScroll
  <1>3. (ShownOwn /\ QuotedOwn /\ GoneHidden)'
    BY <1>1, <1>2 DEF ScrollInv, ShownOwn, QuotedOwn, GoneHidden, D!Stored
  <1>4. OneTalk' /\ StillAhead'
    BY <1>1, <1>2 DEF OneTalk, StillAhead, Ahead, D!Visible, D!Older, D!Stored
  <1> QED BY <1>3, <1>4 DEF ScrollInv

\* A page leaves out what is no newer than all it shows; the cursor goes to the
\* oldest of them.
LEMMA PageScroll ==
  ASSUME D!DirectAssumption, DirectTyped, ScrollInv, D!GetMessages PROVE ScrollInv'
  <1> DEFINE at == [m \in Texts |-> dText[m].at]
             old == D!Older(dScroll.talk, dScroll.before)
  <1>1. PICK page \in D!Newest(old, at, PageSize) :
          dScroll' = [dScroll EXCEPT
            !.before = IF page = {} THEN @ ELSE D!Min({at[m] : m \in page}),
            !.ends = D!Cardinality(page) < PageSize,
            !.seen = @ \cup page,
            !.gone = {m \in D!Stored : dText[m].hidden},
            !.pending = {m \in page : dText[m].quotes # D!No}]
    BY DEF D!GetMessages
  <1>2. UNCHANGED <<dText, dShown>> /\ dScroll \in Scroll
    BY DEF D!GetMessages, DirectTyped
  <1>3. \A m \in Texts : at[m] = dText[m].at /\ at[m] \in Nat
    BY DEF DirectTyped, DirectText
  <1>4. old \subseteq Texts /\ D!IsFiniteSet(old) /\ PageSize \in Nat \ {0}
    <2>1. old \subseteq Texts
      BY DEF D!Older, D!Stored
    <2> QED BY <2>1, DirectSizes, FS_Subset, Zenon DEF D!DirectAssumption
  <1> DEFINE oldest == D!Min({at[m] : m \in page})
  <1> HIDE DEF at
  <1>5. /\ page \subseteq old /\ D!IsFiniteSet(page) /\ D!Cardinality(page) \in Nat
        /\ \A m \in old \ page : /\ D!Cardinality(page) = PageSize
                                 /\ \A x \in page : at[x] >= at[m]
    BY <1>1, <1>4, NewestFull
  <1>6. page # {} => \E x \in page : at[x] = oldest
    <2>1. {at[m] : m \in page} \subseteq Nat
      BY <1>3, <1>4, <1>5
    <2>2. page # {} => {at[m] : m \in page} # {}
      OBVIOUS
    <2>3. page # {} => oldest \in {at[m] : m \in page}
      BY <2>1, <2>2, LeastIn, Zenon
    <2> QED BY <2>3
  <1> HIDE DEF oldest
  <1>7. /\ dScroll'.talk = dScroll.talk /\ dScroll'.due = dScroll.due
        /\ dScroll'.quoted = dScroll.quoted
        /\ dScroll'.seen = dScroll.seen \cup page
        /\ dScroll'.gone = {m \in D!Stored : dText[m].hidden}
        /\ dScroll'.ends <=> D!Cardinality(page) < PageSize
        /\ page # {} => dScroll'.before = oldest
    <2> DEFINE before == IF page = {} THEN dScroll.before ELSE oldest
               ends == D!Cardinality(page) < PageSize
               gone == {m \in D!Stored : dText[m].hidden}
               pending == {m \in page : dText[m].quotes # D!No}
    <2>1. dScroll' = [dScroll EXCEPT !.before = before, !.ends = ends, !.seen = @ \cup page,
                                     !.gone = gone, !.pending = pending]
      BY <1>1 DEF oldest
    <2> HIDE DEF before, ends, gone, pending
    <2>2. /\ dScroll'.talk = dScroll.talk /\ dScroll'.due = dScroll.due
          /\ dScroll'.quoted = dScroll.quoted
          /\ dScroll'.seen = dScroll.seen \cup page
          /\ dScroll'.gone = gone /\ dScroll'.ends = ends /\ dScroll'.before = before
      BY <1>2, <2>1 DEF Scroll
    <2> QED BY <2>2 DEF before, ends, gone
  <1>8. (ShownOwn /\ QuotedOwn /\ GoneHidden)'
    BY <1>2, <1>7 DEF ScrollInv, ShownOwn, QuotedOwn, GoneHidden, D!Stored
  <1>9. OneTalk'
    <2>1. \A m \in page : m \in D!Stored /\ dText[m].talk = dScroll.talk
      BY <1>5 DEF D!Older
    <2> QED BY <1>2, <1>7, <2>1 DEF ScrollInv, OneTalk, D!Stored
  <1>10. ASSUME NEW m \in dScroll.due, m \notin dScroll'.seen, ~dText[m].hidden, ~Tied(m)'
         PROVE  Ahead(m)'
    <2>1. m \in D!Stored /\ dText[m].talk = dScroll.talk /\ m \notin dScroll.seen /\ m \notin page
      BY <1>7, <1>10 DEF ScrollInv, OneTalk
    <2>2. ~Tied(m)
      BY <1>2, <1>7, <1>10 DEF Tied
    <2>3. m \in old
      BY <1>10, <2>1, <2>2 DEF ScrollInv, StillAhead, Ahead, D!Older
    <2>4. D!Cardinality(page) = PageSize /\ \A x \in page : at[x] >= at[m]
      BY <1>5, <2>1, <2>3
    <2>5. page # {}
      BY <1>4, <2>4, DirectSizes, FS_EmptySet
    <2>6. PICK x \in page : at[x] = oldest
      BY <1>6, <2>5
    <2>7. at[x] # at[m]
      BY <1>2, <1>3, <1>4, <1>5, <1>7, <1>10, <2>3, <2>6 DEF Tied
    <2>8. at[m] < oldest
      BY <1>3, <1>4, <1>5, <2>3, <2>4, <2>6, <2>7
    <2>9. dText'[m].at < dScroll'.before
      BY <1>2, <1>3, <1>4, <1>7, <2>3, <2>5, <2>8
    <2>10. ~dScroll'.ends
      BY <1>4, <1>7, <2>4
    <2> QED BY <2>9, <2>10 DEF Ahead
  <1>11. StillAhead'
    BY <1>2, <1>7, <1>10 DEF StillAhead
  <1> QED BY <1>8, <1>9, <1>11 DEF ScrollInv

LEMMA NextScroll ==
  ASSUME D!DirectAssumption, DirectTyped, ScrollInv, [D!Next]_ofDirect PROVE ScrollInv'
  <1>1. CASE UNCHANGED <<dShown, dScroll>>
    BY <1>1, TextsStay, QuietScroll
  <1>2. CASE D!Next /\ ~UNCHANGED <<dShown, dScroll>>
    <2>1. \/ \E r \in Workers : D!Preview(r)
          \/ \E m \in Texts : D!ShowReply(m)
          \/ \E k \in Talks : D!StartScroll(k)
          \/ D!GetMessages
      BY <1>2 DEF D!Next, D!OpenFind, D!CreateConversation, D!SendFind, D!StoreMessage, D!Summary,
         D!DeleteText, D!GroupMessage, D!JoinGroup, D!QuitGroup, D!GroupCall, D!StartList,
         D!GetConversations, D!reading
    <2> QED BY <2>1, PreviewScroll, ReplyScroll, StartsScroll, PageScroll
  <1> QED BY <1>1, <1>2 DEF ofDirect

-----------------------------------------------------------------------------
(* The pages of a user's conversations.                                         *)

\* A conversation that is due, has neither moved nor slipped and was not shown stands
\* below all the pages that were.
Below(k) == ~dList.ends /\ D!Cardinality(D!Above(k)) >= dList.page * PageSize
StillBelow ==
  \A k \in dList.due \ (dList.moved \cup dList.slipped) : k \in dList.seen \/ Below(k)
ListInv ==
  /\ \A k \in Rows : dLast[k] <= dNow
  /\ dList.due \subseteq D!Listed \cup dList.moved
  /\ StillBelow

LEMMA InitList == D!Init => ListInv
  BY DEF D!Init, D!NoList, ListInv, StillBelow, Rows

\* A conversation stays open, a group in the list, and the time of each only goes forward.
LEMMA TalksStay ==
  ASSUME D!DirectAssumption, DirectTyped, \A k \in Rows : dLast[k] <= dNow, [D!Next]_ofDirect
  PROVE  /\ dNow' >= dNow
         /\ \A k \in Rows : dLast'[k] = dLast[k] \/ dLast'[k] = dNow'
         /\ \A k \in D!Opened : dPair'[k] = dPair[k]
         /\ \A k \in D!Opened \cup Groups : dLast'[k] = dLast[k] \/ k \in dList'.moved
         /\ dIn \subseteq dIn' \/ \E g \in Groups : D!QuitGroup(g)
  <1>0. /\ dNow \in Nat /\ dLast \in [Rows -> Nat] /\ dList \in Listing
        /\ dPair \in [Talks -> (Users \X Users) \cup {<< >>}]
        /\ Talks \subseteq Rows /\ Groups \subseteq Rows /\ D!Opened \subseteq Talks
        /\ Talks \cap Groups = {}
    BY DEF DirectTyped, Rows, D!Opened, D!DirectAssumption
  <1>1. ASSUME NEW r \in Workers, D!CreateConversation(r)
        PROVE  /\ dNow' >= dNow
               /\ \A k \in Rows : dLast'[k] = dLast[k] \/ dLast'[k] = dNow'
               /\ \A k \in D!Opened : dPair'[k] = dPair[k]
               /\ \A k \in D!Opened \cup Groups : dLast'[k] = dLast[k]
               /\ dIn' = dIn
    <2>1. D!FirstOf(Talks \ D!Opened) \in Talks \ D!Opened
      BY <1>1, FirstIn DEF D!CreateConversation
    <2>2. PICK k \in Talks \ D!Opened :
            /\ dNow' \in {dNow, dNow + 1} /\ dIn' = dIn
            /\ dPair' = [dPair EXCEPT ![k] = <<dReq[r].by, dReq[r].who>>]
            /\ dLast' = [dLast EXCEPT ![k] = dNow']
      BY <1>1, <2>1 DEF D!CreateConversation, D!Stamp
    <2>3. dNow' >= dNow /\ dLast'[k] = dNow'
      BY <1>0, <2>2
    <2>4. \A l \in Rows : l # k => dLast'[l] = dLast[l]
      BY <1>0, <2>2
    <2>5. \A l \in D!Opened : dPair'[l] = dPair[l]
      BY <1>0, <2>2
    <2>6. \A l \in D!Opened \cup Groups : l # k
      BY <1>0, <2>2
    <2> QED BY <1>0, <2>2, <2>3, <2>4, <2>5, <2>6
  <1>2. ASSUME \/ \E r \in Workers : D!Summary(r) /\ ~UNCHANGED <<dNow, dLast, dList>>
               \/ \E g \in Groups : D!GroupMessage(g)
        PROVE  /\ dNow' >= dNow /\ dPair' = dPair /\ dIn' = dIn
               /\ \A k \in Rows : dLast'[k] = dLast[k] \/ (dLast'[k] = dNow' /\ k \in dList'.moved)
    <2>1. PICK l : /\ dNow' \in {dNow, dNow + 1} /\ dPair' = dPair /\ dIn' = dIn
                   /\ dLast' = [dLast EXCEPT ![l] = dNow']
                   /\ dList' = [dList EXCEPT !.moved = @ \cup {l}]
      BY <1>2 DEF D!Summary, D!GroupMessage, D!GroupCall, D!Stamp
    <2>2. dList'.moved = dList.moved \cup {l}
      BY <1>0, <2>1 DEF Listing
    <2> QED BY <1>0, <2>1, <2>2
  <1>3. CASE UNCHANGED <<dPair, dLast>> /\ dNow' \in {dNow, dNow + 1} /\ dIn \subseteq dIn'
    BY <1>0, <1>3
  <1>4. CASE \E g \in Groups : D!QuitGroup(g)
    <2>1. UNCHANGED <<dPair, dLast, dNow>>
      BY <1>4 DEF D!QuitGroup, D!GroupCall
    <2> QED BY <1>0, <1>4, <2>1
  <1>5. CASE D!Next
    <2>1. ASSUME NEW r \in Workers,
                 \/ \E u, v \in Users : D!OpenFind(r, u, v)
                 \/ \E u \in Users, k \in Talks, q \in Texts \cup {D!No} : D!SendFind(r, u, k, q)
                 \/ D!StoreMessage(r) \/ D!Preview(r)
          PROVE  UNCHANGED <<dPair, dLast, dIn>> /\ dNow' \in {dNow, dNow + 1}
      BY <2>1 DEF D!OpenFind, D!SendFind, D!StoreMessage, D!Preview, D!Stamp, D!reading
    <2>2. ASSUME \/ \E m \in Texts : D!DeleteText(m) \/ D!ShowReply(m)
                 \/ \E k \in Talks : D!StartScroll(k)
                 \/ \E g \in Groups : D!JoinGroup(g)
                 \/ D!GetMessages \/ D!StartList \/ D!GetConversations
          PROVE  UNCHANGED <<dPair, dLast>> /\ dNow' \in {dNow, dNow + 1} /\ dIn \subseteq dIn'
      BY <2>2 DEF D!DeleteText, D!ShowReply, D!StartScroll, D!GetMessages, D!StartList,
         D!GetConversations, D!JoinGroup, D!GroupCall, D!reading
    <2>3. ASSUME NEW r \in Workers, D!Summary(r), UNCHANGED <<dNow, dLast, dList>>
          PROVE  UNCHANGED <<dPair, dLast, dIn>> /\ dNow' \in {dNow, dNow + 1}
      BY <2>3 DEF D!Summary
    <2>4. CASE \E r \in Workers : D!CreateConversation(r)
      BY <1>1, <2>4
    <2>5. CASE (\E r \in Workers : D!Summary(r)) \/ \E g \in Groups : D!GroupMessage(g)
      BY <1>0, <1>2, <1>3, <2>3, <2>5
    <2> QED BY <1>3, <1>4, <1>5, <2>1, <2>2, <2>4, <2>5 DEF D!Next
  <1> QED BY <1>3, <1>5 DEF ofDirect

LEMMA TalksFinite ==
  ASSUME D!DirectAssumption, NEW A, A \subseteq Rows
  PROVE  D!IsFiniteSet(A) /\ D!Cardinality(A) \in Nat
  <1>1. IsFiniteSet(Rows)
    BY DirectSizes, FS_Union DEF D!DirectAssumption, Rows
  <1> QED BY <1>1, DirectSizes, FS_Subset, FS_CardinalityType

LEMMA ListedRows == ASSUME DirectTyped PROVE D!Listed \subseteq Rows /\ \A k : D!Above(k) \subseteq Rows
  BY DEF D!Listed, D!Mine, D!Opened, D!Above, DirectTyped, Rows

\* Steps that show the client no page and take no group from its list: messages only
\* move others up.
LEMMA QuietList ==
  ASSUME D!DirectAssumption, DirectTyped, ListInv, [D!Next]_ofDirect, dIn \subseteq dIn',
         dList'.page = dList.page, dList'.ends = dList.ends,
         dList'.due = dList.due, dList'.seen = dList.seen, dList'.slipped = dList.slipped,
         dList.moved \subseteq dList'.moved
  PROVE  ListInv'
  <1>0. /\ dNow \in Nat /\ dLast \in [Rows -> Nat] /\ PageSize \in Nat /\ dList.page \in Nat
        /\ DirectTyped'
    BY NextTyped DEF DirectTyped, Listing, D!DirectAssumption
  <1>1. /\ dNow' >= dNow
        /\ \A k \in Rows : dLast'[k] = dLast[k] \/ dLast'[k] = dNow'
        /\ \A k \in D!Opened : dPair'[k] = dPair[k]
        /\ \A k \in D!Opened \cup Groups : dLast'[k] = dLast[k] \/ k \in dList'.moved
    BY TalksStay DEF ListInv
  <1>2. dNow' \in Nat
    BY <1>0 DEF DirectTyped
  <1>3. \A k \in Rows : dLast'[k] <= dNow' /\ dLast'[k] >= dLast[k]
    BY <1>0, <1>1, <1>2 DEF ListInv
  <1>4. D!Listed \subseteq D!Listed'
    <2>1. D!Opened \subseteq D!Opened' /\ \A k \in D!Opened : D!Of(k)' = D!Of(k)
      BY <1>1 DEF D!Opened, D!Of
    <2> QED BY <2>1 DEF D!Mine, D!Listed
  <1>5. dList'.due \subseteq D!Listed' \cup dList'.moved
    BY <1>4 DEF ListInv
  <1>6. ASSUME NEW k \in dList.due, k \notin dList'.moved, k \notin dList.slipped, k \notin dList.seen
        PROVE  Below(k)'
    <2>1. k \in Rows /\ dLast'[k] = dLast[k]
      <3>1. k \in D!Listed
        BY <1>6 DEF ListInv
      <3>2. k \in D!Opened \cup Groups
        BY <3>1 DEF D!Listed, D!Mine, DirectTyped
      <3> QED BY <1>1, <1>6, <3>1, <3>2, ListedRows
    <2>2. D!Above(k) \subseteq D!Above(k)' /\ D!Above(k)' \subseteq Rows
      <3>1. D!Listed \subseteq Rows
        BY ListedRows
      <3>2. D!Listed' \subseteq Rows
        BY <1>0 DEF D!Listed, D!Mine, D!Opened, DirectTyped, Rows
      <3>3. ASSUME NEW l \in D!Above(k) PROVE l \in D!Above(k)'
        <4>1. l \in Rows /\ l \in D!Listed' /\ dLast[l] > dLast[k]
          BY <1>4, <3>1, <3>3 DEF D!Above
        <4>2. dLast'[l] \in Nat
          BY <1>0, <1>1, <1>2, <4>1
        <4>3. dLast'[l] > dLast'[k]
          BY <1>0, <1>3, <2>1, <4>1, <4>2
        <4> QED BY <4>1, <4>3 DEF D!Above
      <3> QED BY <3>2, <3>3 DEF D!Above
    <2>3. /\ D!Cardinality(D!Above(k)) <= D!Cardinality(D!Above(k)')
          /\ D!Cardinality(D!Above(k)) \in Nat /\ D!Cardinality(D!Above(k)') \in Nat
      <3>1. PICK now, then : now = D!Above(k) /\ then = D!Above(k)'
        OBVIOUS
      <3>2. now \subseteq then /\ then \subseteq Rows
        BY <2>2, <3>1
      <3>3. D!IsFiniteSet(then) /\ D!Cardinality(then) \in Nat
        BY <3>2, TalksFinite
      <3> QED BY <3>1, <3>2, <3>3, DirectSizes, FS_Subset, FS_CardinalityType
    <2>4. ~dList.ends /\ D!Cardinality(D!Above(k)) >= dList.page * PageSize
      BY <1>6 DEF ListInv, StillBelow, Below
    <2>5. dList.page * PageSize \in Nat
      BY <1>0
    <2>6. D!Cardinality(D!Above(k)') >= dList.page * PageSize
      BY <2>3, <2>4, <2>5
    <2> QED BY <2>4, <2>6 DEF Below
  <1> QED BY <1>3, <1>5, <1>6 DEF ListInv, StillBelow

\* A group leaves the list: what is below it moves up by one, and only what stood next
\* is then within the pages shown.
LEMMA QuitList ==
  ASSUME D!DirectAssumption, DirectTyped, ListInv, NEW g \in Groups, D!QuitGroup(g) PROVE ListInv'
  <1>0. /\ dLast \in [Rows -> Nat] /\ PageSize \in Nat /\ dList.page \in Nat /\ dList \in Listing
        /\ Talks \cap Groups = {}
    BY DEF DirectTyped, Listing, D!DirectAssumption
  <1>1. PICK behind : behind = D!FirstBehind(g)
    OBVIOUS
  <1>2. /\ UNCHANGED <<dNow, dLast, dPair>> /\ g \in dIn /\ dIn' = dIn \ {g}
        /\ dList' = [dList EXCEPT !.moved = @ \cup {g}, !.slipped = @ \cup behind]
    BY <1>1 DEF D!QuitGroup, D!GroupCall
  <1>3. /\ dList'.page = dList.page /\ dList'.ends = dList.ends /\ dList'.due = dList.due
        /\ dList'.seen = dList.seen /\ dList'.moved = dList.moved \cup {g}
        /\ dList'.slipped = dList.slipped \cup behind
    BY <1>0, <1>2 DEF Listing
  <1>4. D!Mine(Creator)' = D!Mine(Creator) /\ D!Mine(Creator) \subseteq Talks
    BY <1>2 DEF D!Mine, D!Opened, D!Of
  <1>5. D!Listed' = D!Listed \ {g}
    BY <1>0, <1>2, <1>4 DEF D!Listed
  <1>6. ASSUME NEW k \in dList.due, k \notin dList'.moved, k \notin dList'.slipped, k \notin dList.seen
        PROVE  Below(k)'
    <2>1. k \in D!Listed /\ k \notin behind /\ k \notin dList.moved \cup dList.slipped
      BY <1>3, <1>6 DEF ListInv
    <2>2. ~dList.ends /\ D!Cardinality(D!Above(k)) >= dList.page * PageSize
      BY <1>6, <2>1 DEF ListInv, StillBelow, Below
    <2>3. D!Above(k)' = D!Above(k) \ {g}
      BY <1>2, <1>5 DEF D!Above
    <2>4. PICK above : above = D!Above(k) /\ above \ {g} = D!Above(k)'
      BY <2>3
    <2>5. D!IsFiniteSet(above) /\ D!Cardinality(above) \in Nat
      BY <2>4, ListedRows, TalksFinite
    <2>6. g \in above => D!Cardinality(above) # dList.page * PageSize
      BY <1>1, <2>1, <2>4 DEF D!FirstBehind
    <2>7. g \in above => D!Cardinality(above \ {g}) = D!Cardinality(above) - 1
      BY <2>5, DirectSizes, FS_RemoveElement
    <2>8. g \notin above => above \ {g} = above
      OBVIOUS
    <2>9. PICK shown \in Nat : shown = dList.page * PageSize
      BY <1>0
    <2>10. D!Cardinality(above) >= shown /\ (g \in above => D!Cardinality(above) # shown)
      BY <2>2, <2>4, <2>6, <2>9
    <2>11. D!Cardinality(above \ {g}) >= shown
      <3>1. CASE g \in above
        BY <2>5, <2>7, <2>9, <2>10, <3>1
      <3>2. CASE g \notin above
        BY <2>8, <2>10, <3>2
      <3> QED BY <3>1, <3>2
    <2>12. D!Cardinality(above \ {g}) >= dList.page * PageSize
      BY <2>9, <2>11
    <2> QED BY <1>3, <2>2, <2>4, <2>12 DEF Below
  <1>7. dList'.due \subseteq D!Listed' \cup dList'.moved
    BY <1>3, <1>5 DEF ListInv
  <1> QED BY <1>2, <1>3, <1>6, <1>7 DEF ListInv, StillBelow

LEMMA StartsList ==
  ASSUME D!DirectAssumption, DirectTyped, ListInv, D!StartList PROVE ListInv'
  <1>1. UNCHANGED <<dNow, dLast, dPair, dIn>>
    BY DEF D!StartList
  <1>2. dList'.page = 0 /\ dList'.ends = FALSE /\ dList'.due = D!Listed
    BY DEF D!StartList
  <1>3. D!Listed' = D!Listed
    BY <1>1 DEF D!Listed, D!Mine, D!Opened, D!Of
  <1>4. ASSUME NEW k PROVE Below(k)'
    <2>1. D!Above(k)' \subseteq Rows
      BY <1>1, <1>3, ListedRows DEF D!Above
    <2>2. D!Cardinality(D!Above(k)') >= 0
      BY <2>1, TalksFinite
    <2>3. dList'.page * PageSize = 0
      BY <1>2 DEF D!DirectAssumption
    <2> QED BY <1>2, <2>2, <2>3 DEF Below
  <1> QED BY <1>1, <1>2, <1>3, <1>4 DEF ListInv, StillBelow

\* What was skipped and what is shown is newer than what the page leaves out.
LEMMA PageList ==
  ASSUME D!DirectAssumption, DirectTyped, ListInv, D!GetConversations PROVE ListInv'
  <1> DEFINE mine == D!Listed
             tied == {k \in mine : \E l \in mine \ {k} : dLast[l] = dLast[k]}
             before == dList.page * PageSize
  <1>0. /\ dLast \in [Rows -> Nat] /\ dList \in Listing /\ dList.page \in Nat
        /\ PageSize \in Nat \ {0} /\ mine \subseteq Rows /\ before \in Nat
    BY ListedRows DEF DirectTyped, Listing, D!DirectAssumption
  <1>1. PICK skipped \in D!Newest(mine, dLast, before) :
          \E page \in D!Newest(mine \ skipped, dLast, PageSize) :
            dList' = [dList EXCEPT !.page = @ + 1, !.seen = @ \cup page,
                                   !.moved = @ \cup tied,
                                   !.ends = D!Cardinality(page) < PageSize]
    BY DEF D!GetConversations
  <1>2. PICK page \in D!Newest(mine \ skipped, dLast, PageSize) :
          dList' = [dList EXCEPT !.page = @ + 1, !.seen = @ \cup page,
                                 !.moved = @ \cup tied,
                                 !.ends = D!Cardinality(page) < PageSize]
    BY <1>1
  <1>3. UNCHANGED <<dNow, dLast, dPair, dIn>>
    BY DEF D!GetConversations
  <1>4. /\ dList'.slipped = dList.slipped /\ dList'.due = dList.due
        /\ dList'.seen = dList.seen \cup page /\ dList'.moved = dList.moved \cup tied
        /\ dList'.page = dList.page + 1
        /\ dList'.ends <=> D!Cardinality(page) < PageSize
    <2> DEFINE ends == D!Cardinality(page) < PageSize
    <2>1. dList' = [dList EXCEPT !.page = @ + 1, !.seen = @ \cup page,
                                 !.moved = @ \cup tied, !.ends = ends]
      BY <1>2
    <2> HIDE DEF ends, tied
    <2>2. /\ dList'.slipped = dList.slipped /\ dList'.due = dList.due
          /\ dList'.seen = dList.seen \cup page /\ dList'.moved = dList.moved \cup tied
          /\ dList'.page = dList.page + 1 /\ dList'.ends = ends
      BY <1>0, <2>1 DEF Listing
    <2> QED BY <2>2 DEF ends
  <1>5. /\ \A k \in Rows : dLast'[k] <= dNow'
        /\ dList'.due \subseteq D!Listed' \cup dList'.moved
    <2>1. D!Listed' = D!Listed
      BY <1>3 DEF D!Listed, D!Mine, D!Opened, D!Of
    <2> QED BY <1>3, <1>4, <2>1 DEF ListInv
  <1> HIDE DEF mine, before
  <1>6. /\ skipped \subseteq mine /\ D!IsFiniteSet(skipped)
        /\ D!Cardinality(skipped) \in Nat /\ D!Cardinality(skipped) <= before
        /\ \A m \in mine \ skipped :
             D!Cardinality(skipped) = before /\ \A x \in skipped : dLast[x] >= dLast[m]
    BY <1>0, <1>1, TalksFinite, NewestFull
  <1>7. /\ page \subseteq mine \ skipped /\ D!IsFiniteSet(page) /\ D!Cardinality(page) \in Nat
        /\ \A m \in (mine \ skipped) \ page :
             D!Cardinality(page) = PageSize /\ \A x \in page : dLast[x] >= dLast[m]
    <2>1. D!IsFiniteSet(mine \ skipped) /\ PageSize \in Nat
      BY <1>0, TalksFinite
    <2> QED BY <1>2, <2>1, NewestFull
  <1>8. ASSUME NEW k \in dList.due, k \notin dList'.moved, k \notin dList.slipped, k \notin dList'.seen
        PROVE  Below(k)'
    <2>1. k \in mine /\ k \notin page /\ D!Cardinality(D!Above(k)) >= before
      BY <1>4, <1>8 DEF ListInv, StillBelow, Below, mine, before
    <2>2. \A l \in mine \ {k} : dLast[l] # dLast[k]
      BY <1>4, <1>8, <2>1
    <2>3. D!Above(k) = {l \in mine : dLast[l] > dLast[k]} /\ D!Above(k)' = D!Above(k)
      BY <1>3 DEF D!Above, D!Listed, D!Mine, D!Opened, D!Of, mine
    <2>4. k \notin skipped
      <3> SUFFICES ASSUME k \in skipped PROVE FALSE
        OBVIOUS
      <3>1. D!Above(k) \subseteq skipped
        <4>1. \A l \in mine \ skipped : dLast[k] >= dLast[l]
          BY <1>6
        <4> QED BY <1>0, <2>1, <2>3, <4>1
      <3>2. D!Above(k) \subseteq skipped \ {k}
        BY <1>0, <2>1, <2>3, <3>1
      <3>3. D!Cardinality(skipped \ {k}) = D!Cardinality(skipped) - 1 /\ D!IsFiniteSet(skipped \ {k})
        BY <1>6, DirectSizes, FS_RemoveElement
      <3>4. D!Cardinality(D!Above(k)) <= D!Cardinality(skipped \ {k}) /\ D!Cardinality(D!Above(k)) \in Nat
        BY <3>2, <3>3, DirectSizes, FS_Subset, FS_CardinalityType
      <3> QED BY <1>0, <1>6, <2>1, <3>3, <3>4
    <2>5. /\ D!Cardinality(skipped) = before /\ D!Cardinality(page) = PageSize
          /\ \A x \in skipped \cup page : dLast[x] >= dLast[k]
      BY <1>6, <1>7, <2>1, <2>4
    <2>6. skipped \cup page \subseteq D!Above(k)
      <3>1. ASSUME NEW x \in skipped \cup page PROVE x \in D!Above(k)
        <4>1. x \in mine \ {k} /\ dLast[x] >= dLast[k]
          BY <1>6, <1>7, <2>1, <2>4, <2>5
        <4>2. dLast[x] > dLast[k]
          BY <1>0, <2>1, <2>2, <4>1
        <4> QED BY <2>3, <4>1, <4>2
      <3> QED BY <3>1
    <2>7. D!Cardinality(skipped \cup page) = before + PageSize
      <3>1. skipped \cap page = {}
        BY <1>7
      <3>2. D!Cardinality(skipped \cap page) = 0
        BY <3>1, DirectSizes, FS_EmptySet
      <3>3. D!Cardinality(skipped \cup page)
              = D!Cardinality(skipped) + D!Cardinality(page) - D!Cardinality(skipped \cap page)
        BY <1>6, <1>7, DirectSizes, FS_Union
      <3> QED BY <1>0, <2>5, <3>2, <3>3
    <2>8. D!Cardinality(D!Above(k)) >= before + PageSize
      <3>1. D!Above(k) \subseteq Rows
        BY <1>0, <2>3
      <3>2. D!IsFiniteSet(D!Above(k)) /\ D!Cardinality(D!Above(k)) \in Nat
        BY <3>1, TalksFinite
      <3>3. D!Cardinality(skipped \cup page) <= D!Cardinality(D!Above(k))
        BY <2>6, <3>2, DirectSizes, FS_Subset
      <3> QED BY <1>0, <2>7, <3>2, <3>3
    <2>9. dList'.page * PageSize = before + PageSize
      <3>1. (dList.page + 1) * PageSize = dList.page * PageSize + PageSize
        BY <1>0
      <3> QED BY <1>4, <3>1 DEF before
    <2>10. ~dList'.ends
      BY <1>0, <1>4, <2>5
    <2> QED BY <2>3, <2>8, <2>9, <2>10 DEF Below
  <1> QED BY <1>4, <1>5, <1>8 DEF ListInv, StillBelow

LEMMA NextList == ASSUME D!DirectAssumption, DirectTyped, ListInv, [D!Next]_ofDirect PROVE ListInv'
  <1>1. CASE D!StartList \/ D!GetConversations \/ \E g \in Groups : D!QuitGroup(g)
    BY <1>1, StartsList, PageList, QuitList
  <1>2. CASE (\E r \in Workers : D!Summary(r)) \/ \E g \in Groups : D!GroupMessage(g)
    <2>1. dIn' = dIn /\ (dList' = dList \/ \E l : dList' = [dList EXCEPT !.moved = @ \cup {l}])
      BY <1>2 DEF D!Summary, D!GroupMessage
    <2>2. /\ dList'.page = dList.page /\ dList'.ends = dList.ends
          /\ dList'.due = dList.due /\ dList'.seen = dList.seen
          /\ dList'.slipped = dList.slipped /\ dList.moved \subseteq dList'.moved
      BY <2>1 DEF DirectTyped, Listing
    <2> QED BY <2>1, <2>2, QuietList
  <1>3. CASE /\ [D!Next]_ofDirect /\ ~D!StartList /\ ~D!GetConversations
             /\ ~\E r \in Workers : D!Summary(r)
             /\ ~\E g \in Groups : D!QuitGroup(g) \/ D!GroupMessage(g)
    <2>1. dList' = dList /\ dIn \subseteq dIn'
      BY <1>3 DEF D!Next, D!OpenFind, D!CreateConversation, D!SendFind, D!StoreMessage, D!Preview,
         D!DeleteText, D!ShowReply, D!StartScroll, D!GetMessages, D!JoinGroup, D!GroupCall, D!reading,
         ofDirect
    <2> QED BY <2>1, QuietList
  <1> QED BY <1>1, <1>2, <1>3

-----------------------------------------------------------------------------
DirectSound == DirectTyped /\ PairsInv /\ ScrollInv /\ ListInv

LEMMA SoundHolds == DirectSound => D!DirectHolds
  <1> SUFFICES ASSUME PairsInv, ScrollInv, ListInv PROVE D!DirectHolds
    BY DEF DirectSound
  <1>1. D!OneEach
    BY DEF PairsInv, PairsApart, D!OneEach
  <1>2. D!NoneSkipped
    BY DEF ScrollInv, StillAhead, Tied, Ahead, D!NoneSkipped
  <1>3. D!QuotesOwn
    BY DEF ScrollInv, ShownOwn, QuotedOwn, D!QuotesOwn
  <1>4. D!NoneUnlisted
    BY DEF ListInv, StillBelow, Below, D!NoneUnlisted
  <1> QED BY <1>1, <1>2, <1>3, <1>4 DEF D!DirectHolds

LEMMA SoundStays == ASSUME D!DirectAssumption PROVE DirectSound /\ [D!Next]_ofDirect => DirectSound'
  BY NextTyped, NextPairs, NextScroll, NextList DEF DirectSound

\* Conversations and messages there were before any handler or client began.
LEMMA SoundAtRest ==
  ASSUME DirectTyped, dStray = {}, dShown = {}, dScroll = D!NoScroll, dList = D!NoList, PairsApart,
         \A r \in Workers : dReq[r] = D!Resting,
         \A k \in Rows : dLast[k] <= dNow
  PROVE  DirectSound
  <1>1. PairsInv
    BY DEF PairsInv, CreatorsApart, CreatorFirst, D!Resting
  <1>2. ScrollInv
    BY DEF D!NoScroll, ScrollInv, ShownOwn, QuotedOwn, GoneHidden, OneTalk, StillAhead
  <1>3. ListInv
    BY DEF D!NoList, ListInv, StillBelow
  <1> QED BY <1>1, <1>2, <1>3 DEF DirectSound

-----------------------------------------------------------------------------
(* A step of the whole is one of a single component, or leaves that component as    *)
(* it is.                                                                           *)

LEMMA ThirdUser == Third \in Users /\ Third # Creator /\ Third # Other
<1>1. \E u \in Users : u \notin {Creator, Other}
  BY TalkingBounds
<1> QED BY <1>1, Zenon DEF Third

\* The conversations that are there at the start are of three pairs.
LEMMA TalkingSound == Talking => DirectSound
<1> SUFFICES ASSUME Talking PROVE DirectSound
  OBVIOUS
<1> USE TalkingBounds, ThirdUser
<1>1. /\ D!No \notin Talks
      /\ \A k \in Talks : dPair[k] = IF k = TalkOne THEN <<Creator, Other>>
                                   ELSE IF k = TalkTwo THEN <<Third, Creator>>
                                   ELSE <<Creator, Creator>>
  BY TalkBounds DEF Talking, D!DirectAssumption
<1>2. DirectTyped
  <2>1. dPair \in [Talks -> (Users \X Users) \cup {<< >>}]
    BY DEF Talking
  <2>2. dText \in [Texts -> DirectText]
    BY DEF Talking, DirectText, D!Unsent, D!No
  <2>3. dLast \in [Rows -> Nat] /\ dIn \subseteq Groups
    BY DEF Talking, Rows
  <2>4. /\ dNow = 3 /\ dReq = [r \in Workers |-> D!Resting]
        /\ dScroll = D!NoScroll /\ dList = D!NoList
    BY DEF Talking
  <2> QED BY <2>1, <2>2, <2>3, <2>4
          DEF DirectTyped, DirectCall, Scroll, Listing, D!Resting, D!NoScroll, D!NoList, D!No
<1>3. PairsApart
  <2>1. ASSUME NEW k \in Talks
        PROVE  D!Of(k) = IF k = TalkOne THEN {Creator, Other}
                          ELSE IF k = TalkTwo THEN {Third, Creator} ELSE {Creator}
    <3>1. \A a, b : dPair[k] = <<a, b>> => D!Of(k) = {a, b}
      <4>1. \A a, b : DOMAIN <<a, b>> = {1, 2}
        OBVIOUS
      <4> QED BY <4>1 DEF D!Of
    <3> QED BY <1>1, <3>1
  <2>2. \A k, l \in Talks : D!Of(k) = D!Of(l) => k = l
    BY <2>1
  <2> QED BY <2>2 DEF PairsApart, D!Opened
<1>4. /\ dStray = {} /\ dShown = {} /\ dScroll = D!NoScroll /\ dList = D!NoList
      /\ \A r \in Workers : dReq[r] = D!Resting
      /\ \A k \in Rows : dLast[k] <= dNow
  BY DEF Talking, Rows, D!NoScroll, D!NoList, D!Resting, D!No
<1> QED BY <1>2, <1>3, <1>4, SoundAtRest

\* One conversation of a pair unless two were created at once, pages that skip nothing
\* which kept its place but for what slipped up when a group left the list, and replies
\* of one's own conversation (getOrCreateConversation, getMessages, getConversations).
THEOREM DirectHeld == MCSpec => []DirectHolds
<1>1. MCInit => DirectSound
  <2>1. D!Init => DirectSound
    BY TalkBounds, InitTyped, InitPairs, InitScroll, InitList DEF DirectSound
  <2> QED BY <2>1, TalkingSound DEF MCInit
<1>2. DirectSound /\ [MCNext]_<<part, vars, ofCalls, ofNotices, ofPushes, ofSnaps, ofDirect>> => DirectSound'
  <2>1. [MCNext]_<<part, vars, ofCalls, ofNotices, ofPushes, ofSnaps, ofDirect>> => [D!Next]_ofDirect
    BY DEF MCNext, ofDirect
  <2> QED BY <2>1, TalkBounds, SoundStays
<1>3. DirectSound => DirectHolds
  BY SoundHolds DEF DirectHolds
<1> QED BY <1>1, <1>2, <1>3, PTL DEF MCSpec

\* The same of direct messages on their own: however conversations are opened, messages
\* sent, deleted and answered, and pages turned, a pair has one conversation unless two
\* creations overlapped, a reply shows a message of its own conversation, the pages of
\* messages miss nothing, and those of conversations and groups, which are asked for by
\* number, nothing that stayed in its place, but for the one that slips up when a group is
\* left or deleted between two pages (getOrCreateConversation, sendMessage, getMessages,
\* getConversations).
THEOREM PagesMissNothing == D!Spec => []D!DirectHolds
<1>1. D!Init => DirectSound
  BY TalkBounds, InitTyped, InitPairs, InitScroll, InitList DEF DirectSound
<1>2. DirectSound /\ [D!Next]_D!dVars => DirectSound'
  BY TalkBounds, SoundStays DEF ofDirect, D!dVars
<1> QED BY <1>1, <1>2, SoundHolds, PTL DEF D!Spec

-----------------------------------------------------------------------------
(* Notices                                                                       *)

NoticeCall == [id : 0 .. MaxNotices, from : Senders \cup {None}, kind : Kinds \cup {None}]
SameNotice(a, b) == a.from = b.from /\ a.kind = b.kind
NoneLike(box, q) ==
  \A i \in N!Ids : box[i] # N!NoNotice /\ SameNotice(box[i], q) => box[i].old

\* A handler about to store a notice is the only one with its id.
MakersApart ==
  /\ \A m \in Makers : nMaker[m] # N!Idle =>
       /\ nMaker[m].id \in 1 .. nCalls /\ nMaker[m].from \in Senders /\ nMaker[m].kind \in Kinds
       /\ nBox[nMaker[m].id] = N!NoNotice
  /\ \A m, k \in Makers : nMaker[m] # N!Idle /\ nMaker[k] # N!Idle /\ m # k
       => nMaker[m].id # nMaker[k].id
  /\ \A i \in N!Ids : i > nCalls => nBox[i] = N!NoNotice
\* And unless another like it was made meanwhile, it makes the only one, and finds none.
MakersAlone ==
  \A m \in Makers : nMaker[m] # N!Idle /\ nMaker[m].id \notin nLapped =>
    /\ \A k \in Makers : nMaker[k] # N!Idle /\ SameNotice(nMaker[m], nMaker[k]) => k = m
    /\ NoneLike(nBox, nMaker[m])

NoticesTyped ==
  /\ nBox \in [N!Ids -> N!Notice \cup {N!NoNotice}]
  /\ nMaker \in [Makers -> NoticeCall]
  /\ nCalls \in 0 .. MaxNotices /\ nLapped \subseteq N!Ids

NoticesInv == NoticesTyped /\ MakersApart /\ MakersAlone /\ N!NoticeOnce

LEMMA NoticesBegin == ASSUME N!NoticesAssumption, N!Init PROVE NoticesInv
<1>1. NoticesTyped
  BY DEF N!Init, NoticesTyped, N!NoticesAssumption, NoticeCall, N!Idle
<1>. QED BY <1>1 DEF NoticesInv, N!Init, MakersApart, MakersAlone, N!NoticeOnce, N!In

LEMMA NoticeFields ==
  ASSUME NoticesTyped, NEW i \in N!Ids
  PROVE  /\ nBox[i] \in N!Notice \cup {N!NoNotice}
         /\ N!In(i) => nBox[i] \in N!Notice
BY DEF NoticesTyped, N!In

\* The boxes hold no more than before, and nothing is newer.
LEMMA FewerNotices ==
  ASSUME N!NoticesAssumption, NoticesInv, nMaker' = nMaker, nCalls' = nCalls, nLapped' = nLapped,
         nBox' \in [N!Ids -> N!Notice \cup {N!NoNotice}],
         \A i \in N!Ids : ~N!In(i) => nBox'[i] = nBox[i],
         \A i \in N!Ids : nBox'[i] # N!NoNotice /\ ~nBox'[i].old
           => N!In(i) /\ ~nBox[i].old /\ SameNotice(nBox[i], nBox'[i])
  PROVE  NoticesInv'
<1>1. NoticesTyped' BY DEF NoticesInv, NoticesTyped
<1>2. MakersApart'
  <2>1. \A m \in Makers : nMaker[m] # N!Idle => nMaker[m].id \in N!Ids
    BY DEF NoticesInv, MakersApart, NoticesTyped, N!Ids, N!NoticesAssumption
  <2>. QED BY <2>1 DEF NoticesInv, MakersApart, N!In
<1>3. \A q : NoneLike(nBox, q) => NoneLike(nBox', q)
  BY DEF NoneLike, N!In, SameNotice
<1>4. MakersAlone' BY <1>3 DEF NoticesInv, MakersAlone
<1>5. N!NoticeOnce'
  BY DEF NoticesInv, N!NoticeOnce, N!In, SameNotice
<1>. QED BY <1>1, <1>2, <1>4, <1>5 DEF NoticesInv
LEMMA NoticeSought ==
  ASSUME N!NoticesAssumption, NoticesInv, NEW m \in Makers, NEW from \in Senders, NEW kind \in Kinds,
         N!CreateFind(m, from, kind)
  PROVE  NoticesInv'
<1>. DEFINE q == [id |-> nCalls + 1, from |-> from, kind |-> kind]
<1>1. /\ nMaker' = [nMaker EXCEPT ![m] = q] /\ nBox' = nBox /\ nCalls' = nCalls + 1
      /\ nMaker[m] = N!Idle /\ ~N!Recent(from, kind)
      /\ nCalls + 1 \in N!Ids /\ nCalls \in Nat /\ MaxNotices \in Nat
  BY DEF N!CreateFind, NoticesInv, NoticesTyped, N!NoticesAssumption, N!Ids
<1>2. /\ nLapped \subseteq nLapped'
      /\ nCalls + 1 \notin nLapped' => N!Making(from, kind) = {}
      /\ \A k \in N!Making(from, kind) : nMaker[k].id \in nLapped'
      /\ nLapped' \subseteq nLapped \cup {nCalls + 1} \cup {nMaker[k].id : k \in N!Making(from, kind)}
  BY DEF N!CreateFind
<1>3. \A k \in N!Making(from, kind) : nMaker[k] # N!Idle /\ nMaker[k].id \in N!Ids
  <2>1. \A k \in N!Making(from, kind) : nMaker[k] # N!Idle
    BY DEF N!Making, N!Idle, N!NoticesAssumption
  <2>. QED BY <1>1, <2>1 DEF N!Making, NoticesInv, MakersApart, NoticesTyped, N!Ids
<1>4. nMaker \in [Makers -> NoticeCall] BY DEF NoticesInv, NoticesTyped
<1>5. nMaker'[m] = q /\ \A k \in Makers : k # m => nMaker'[k] = nMaker[k] BY <1>1, <1>4
<1>6. q # N!Idle BY <1>1 DEF N!Idle
<1>7. q.id = nCalls + 1 /\ q.from = from /\ q.kind = kind OBVIOUS
<1>8. NoticesTyped'
  <2>1. q \in NoticeCall BY <1>1 DEF NoticeCall, N!Ids
  <2>2. nLapped' \subseteq N!Ids
    BY <1>1, <1>2, <1>3 DEF NoticesInv, NoticesTyped
  <2>3. nMaker' \in [Makers -> NoticeCall] BY <1>1, <1>4, <2>1
  <2>4. nCalls' \in 0 .. MaxNotices BY <1>1 DEF N!Ids
  <2>. QED BY <1>1, <2>2, <2>3, <2>4 DEF NoticesInv, NoticesTyped
<1>. HIDE DEF q
<1>9. MakersApart'
  <2>1. nBox[nCalls + 1] = N!NoNotice
    BY <1>1 DEF NoticesInv, MakersApart
  <2>2. \A k \in Makers : nMaker[k] # N!Idle => nMaker[k].id \in 1 .. nCalls /\ nMaker[k].id # nCalls + 1
    BY <1>1 DEF NoticesInv, MakersApart
  <2>3. /\ nMaker'[m].id \in 1 .. nCalls' /\ nMaker'[m].from \in Senders /\ nMaker'[m].kind \in Kinds
        /\ nBox'[nMaker'[m].id] = N!NoNotice
    BY <1>1, <1>5, <1>7, <2>1
  <2>4. \A k \in Makers : k # m /\ nMaker'[k] # N!Idle =>
          /\ nMaker'[k].id \in 1 .. nCalls' /\ nMaker'[k].id # nCalls + 1
          /\ nMaker'[k].from \in Senders /\ nMaker'[k].kind \in Kinds
          /\ nBox'[nMaker'[k].id] = N!NoNotice
    BY <1>1, <1>5, <2>2 DEF NoticesInv, MakersApart
  <2>5. \A k, h \in Makers : nMaker'[k] # N!Idle /\ nMaker'[h] # N!Idle /\ k # h
          => nMaker'[k].id # nMaker'[h].id
    BY <1>5, <1>7, <2>4 DEF NoticesInv, MakersApart
  <2>6. \A i \in N!Ids : i > nCalls' => nBox'[i] = N!NoNotice
    BY <1>1 DEF NoticesInv, MakersApart, N!Ids
  <2>. QED BY <2>3, <2>4, <2>5, <2>6 DEF MakersApart
<1>10. MakersAlone'
  <2>1. SUFFICES ASSUME NEW h \in Makers, nMaker'[h] # N!Idle, nMaker'[h].id \notin nLapped'
                 PROVE  /\ \A k \in Makers : nMaker'[k] # N!Idle /\ SameNotice(nMaker'[h], nMaker'[k])
                                               => k = h
                        /\ NoneLike(nBox', nMaker'[h])
    BY DEF MakersAlone
  <2>2. NoneLike(nBox, q)
    BY <1>1, <1>7 DEF N!Recent, N!In, NoneLike, SameNotice
  <2>3. CASE h = m
    <3>1. N!Making(from, kind) = {} BY <1>2, <1>5, <1>7, <2>1, <2>3
    <3>2. \A k \in Makers : SameNotice(q, nMaker[k]) => k \in N!Making(from, kind)
      BY <1>7 DEF N!Making, SameNotice
    <3>. QED BY <1>1, <1>5, <2>2, <2>3, <3>1, <3>2
  <2>4. CASE h # m
    <3>1. h \notin N!Making(from, kind) BY <1>2, <1>5, <2>1, <2>4
    <3>2. ~SameNotice(nMaker[h], q) BY <1>7, <3>1 DEF N!Making, SameNotice
    <3>3. nMaker'[h] = nMaker[h] /\ nMaker[h].id \notin nLapped BY <1>2, <1>5, <2>1, <2>4
    <3>4. /\ \A k \in Makers : nMaker[k] # N!Idle /\ SameNotice(nMaker[h], nMaker[k]) => k = h
          /\ NoneLike(nBox, nMaker[h])
      BY <2>1, <3>3 DEF NoticesInv, MakersAlone
    <3>. QED BY <1>1, <1>5, <3>2, <3>3, <3>4
  <2>. QED BY <2>3, <2>4
<1>11. N!NoticeOnce'
  BY <1>1, <1>2 DEF NoticesInv, N!NoticeOnce, N!In
<1>. QED BY <1>8, <1>9, <1>10, <1>11 DEF NoticesInv

LEMMA NoticeStored ==
  ASSUME N!NoticesAssumption, NoticesInv, NEW m \in Makers, N!CreateInsert(m)
  PROVE  NoticesInv'
<1>. DEFINE q == nMaker[m]
            n == [from |-> q.from, kind |-> q.kind, old |-> FALSE, read |-> FALSE]
<1>1. /\ q # N!Idle /\ nBox' = [nBox EXCEPT ![q.id] = n] /\ nMaker' = [nMaker EXCEPT ![m] = N!Idle]
      /\ nCalls' = nCalls /\ nLapped' = nLapped
  BY DEF N!CreateInsert
<1>2. /\ nMaker \in [Makers -> NoticeCall] /\ nBox \in [N!Ids -> N!Notice \cup {N!NoNotice}]
      /\ nCalls \in 0 .. MaxNotices /\ MaxNotices \in Nat
  BY DEF NoticesInv, NoticesTyped, N!NoticesAssumption
<1>3. /\ q.id \in 1 .. nCalls /\ q.from \in Senders /\ q.kind \in Kinds
      /\ nBox[q.id] = N!NoNotice
  BY <1>1 DEF NoticesInv, MakersApart
<1>4. q.id \in N!Ids BY <1>2, <1>3 DEF N!Ids
<1>5. n \in N!Notice /\ n # N!NoNotice /\ ~n.old /\ SameNotice(n, q)
  BY <1>3 DEF N!Notice, N!NoNotice, SameNotice
<1>. HIDE DEF n
<1>6. /\ nBox'[q.id] = n /\ \A i \in N!Ids : i # q.id => nBox'[i] = nBox[i]
      /\ nMaker'[m] = N!Idle /\ \A k \in Makers : k # m => nMaker'[k] = nMaker[k]
  BY <1>1, <1>2, <1>4
<1>7. NoticesTyped'
  <2>1. N!Idle \in NoticeCall BY <1>2 DEF N!Idle, NoticeCall
  <2>2. nMaker' \in [Makers -> NoticeCall] BY <1>1, <1>2, <2>1
  <2>3. nBox' \in [N!Ids -> N!Notice \cup {N!NoNotice}] BY <1>1, <1>2, <1>5
  <2>. QED BY <1>1, <2>2, <2>3 DEF NoticesInv, NoticesTyped
<1>8. MakersApart'
  <2>1. \A k \in Makers : nMaker'[k] # N!Idle =>
          /\ nMaker'[k] = nMaker[k] /\ nMaker[k].id # q.id /\ nMaker[k].id \in 1 .. nCalls
          /\ nMaker[k].from \in Senders /\ nMaker[k].kind \in Kinds
          /\ nBox[nMaker[k].id] = N!NoNotice
    BY <1>1, <1>6 DEF NoticesInv, MakersApart
  <2>2. \A k \in Makers : nMaker'[k] # N!Idle => nBox'[nMaker'[k].id] = N!NoNotice
    BY <1>2, <1>6, <2>1 DEF N!Ids
  <2>3. \A i \in N!Ids : i > nCalls => nBox'[i] = N!NoNotice
    BY <1>2, <1>3, <1>6 DEF N!Ids, NoticesInv, MakersApart
  <2>4. \A k, h \in Makers : nMaker'[k] # N!Idle /\ nMaker'[h] # N!Idle /\ k # h
          => nMaker'[k].id # nMaker'[h].id
    BY <1>6 DEF NoticesInv, MakersApart
  <2>. QED BY <1>1, <2>1, <2>2, <2>3, <2>4 DEF MakersApart
<1>9. MakersAlone'
  <2>1. SUFFICES ASSUME NEW h \in Makers, nMaker'[h] # N!Idle, nMaker'[h].id \notin nLapped'
                 PROVE  /\ \A k \in Makers : nMaker'[k] # N!Idle /\ SameNotice(nMaker'[h], nMaker'[k])
                                               => k = h
                        /\ NoneLike(nBox', nMaker'[h])
    BY DEF MakersAlone
  <2>2. h # m /\ nMaker'[h] = nMaker[h] BY <1>6, <2>1
  <2>3. ~SameNotice(nMaker[h], q) BY <1>1, <2>1, <2>2 DEF NoticesInv, MakersAlone
  <2>4. /\ \A k \in Makers : nMaker[k] # N!Idle /\ SameNotice(nMaker[h], nMaker[k]) => k = h
        /\ NoneLike(nBox, nMaker[h])
    BY <1>1, <2>1, <2>2 DEF NoticesInv, MakersAlone
  <2>5. NoneLike(nBox', nMaker[h])
    BY <1>5, <1>6, <2>3, <2>4 DEF NoneLike, SameNotice
  <2>6. \A k \in Makers : nMaker'[k] # N!Idle => nMaker'[k] = nMaker[k]
    BY <1>6
  <2>. QED BY <2>2, <2>4, <2>5, <2>6
<1>10. N!NoticeOnce'
  <2>1. q.id \notin nLapped => NoneLike(nBox, q)
    BY <1>1 DEF NoticesInv, MakersAlone
  <2>2. q.id \notin nLapped => \A j \in N!Ids : N!In(j) /\ ~nBox[j].old => ~SameNotice(nBox[j], n)
    BY <2>1, <1>5 DEF NoneLike, N!In, SameNotice
  <2>3. SUFFICES ASSUME NEW i \in N!Ids \ nLapped, NEW j \in N!Ids \ nLapped,
                        nBox'[i] # N!NoNotice, nBox'[j] # N!NoNotice, i # j,
                        ~nBox'[i].old, ~nBox'[j].old
                 PROVE  ~SameNotice(nBox'[i], nBox'[j])
    BY <1>1 DEF N!NoticeOnce, N!In, SameNotice
  <2>4. CASE i = q.id
    BY <1>6, <2>2, <2>3, <2>4 DEF N!In, SameNotice
  <2>5. CASE j = q.id
    BY <1>6, <2>2, <2>3, <2>5 DEF N!In, SameNotice
  <2>6. CASE i # q.id /\ j # q.id
    BY <1>6, <2>3, <2>6 DEF N!In, SameNotice, NoticesInv, N!NoticeOnce
  <2>. QED BY <2>4, <2>5, <2>6
<1>. QED BY <1>7, <1>8, <1>9, <1>10 DEF NoticesInv

LEMMA NoticesStep == ASSUME N!NoticesAssumption, NoticesInv, [N!Next]_ofNotices PROVE NoticesInv'
<1>1. CASE UNCHANGED ofNotices
  BY <1>1 DEF ofNotices, NoticesInv, NoticesTyped, MakersApart, MakersAlone, N!NoticeOnce, N!In,
     NoneLike
<1>2. ASSUME NEW m \in Makers, N!CreateFails(m) PROVE NoticesInv'
  <2>1. /\ nMaker' = [nMaker EXCEPT ![m] = N!Idle] /\ nBox' = nBox /\ nCalls' = nCalls
        /\ nLapped' = nLapped
    BY <1>2 DEF N!CreateFails
  <2>2. nMaker \in [Makers -> NoticeCall] /\ MaxNotices \in Nat
    BY DEF NoticesInv, NoticesTyped, N!NoticesAssumption
  <2>3. nMaker'[m] = N!Idle /\ \A k \in Makers : k # m => nMaker'[k] = nMaker[k]
    BY <2>1, <2>2
  <2>4. N!Idle \in NoticeCall BY <2>2 DEF N!Idle, NoticeCall
  <2>5. NoticesTyped' BY <2>1, <2>2, <2>4 DEF NoticesInv, NoticesTyped
  <2>6. MakersApart' BY <2>1, <2>3 DEF NoticesInv, MakersApart
  <2>8. MakersAlone' BY <2>1, <2>3 DEF NoticesInv, MakersAlone
  <2>9. N!NoticeOnce' BY <2>1 DEF NoticesInv, N!NoticeOnce, N!In
  <2>. QED BY <2>5, <2>6, <2>8, <2>9 DEF NoticesInv
<1>. DEFINE B == N!Notice \cup {N!NoNotice}
<1>3. nBox \in [N!Ids -> B] BY DEF NoticesInv, NoticesTyped
<1>a. \A b \in N!Notice :
        LET r == [b EXCEPT !.read = TRUE]
            o == [b EXCEPT !.old = TRUE] IN
        /\ r \in N!Notice /\ SameNotice(b, r) /\ r.old = b.old
        /\ o \in N!Notice /\ SameNotice(b, o) /\ o.old = TRUE
  BY DEF N!Notice, SameNotice
<1>b. /\ [N!NoNotice EXCEPT !.read = TRUE] = N!NoNotice
      /\ [N!NoNotice EXCEPT !.old = TRUE] = N!NoNotice /\ N!NoNotice.old = TRUE
  <2>1. N!NoNotice \in [from : {None}, kind : {None}, old : {TRUE}, read : {TRUE}]
    BY DEF N!NoNotice
  <2>2. \A b \in [from : {None}, kind : {None}, old : {TRUE}, read : {TRUE}] :
          [b EXCEPT !.read = TRUE] = b /\ [b EXCEPT !.old = TRUE] = b /\ b.old = TRUE
    OBVIOUS
  <2>. QED BY <2>1, <2>2
<1>c. SameNotice(N!NoNotice, N!NoNotice) BY DEF SameNotice
<1>4. \A b \in B :
        /\ [b EXCEPT !.read = TRUE] \in B /\ SameNotice(b, [b EXCEPT !.read = TRUE])
        /\ [b EXCEPT !.read = TRUE].old = b.old
        /\ [b EXCEPT !.old = TRUE] \in B /\ [b EXCEPT !.old = TRUE].old
  BY <1>a, <1>b, <1>c
<1>5. ASSUME NEW i \in N!Ids, N!MarkAsRead(i) PROVE NoticesInv'
  <2>1. /\ nBox' = [nBox EXCEPT ![i] = [nBox[i] EXCEPT !.read = TRUE]] /\ N!In(i)
        /\ nMaker' = nMaker /\ nCalls' = nCalls /\ nLapped' = nLapped
    BY <1>5 DEF N!MarkAsRead
  <2>2. nBox' \in [N!Ids -> B] BY <2>1, <1>3, <1>4
  <2>3. nBox'[i] = [nBox[i] EXCEPT !.read = TRUE] /\ \A j \in N!Ids : j # i => nBox'[j] = nBox[j]
    BY <2>1, <1>3
  <2>4. SameNotice(nBox[i], nBox'[i]) /\ nBox'[i].old = nBox[i].old BY <2>3, <1>3, <1>4
  <2>5. \A j \in N!Ids : SameNotice(nBox[j], nBox[j]) BY DEF SameNotice
  <2>. QED BY <2>1, <2>2, <2>3, <2>4, <2>5, FewerNotices DEF N!In
<1>6. ASSUME NEW i \in N!Ids, N!DeleteNotification(i) PROVE NoticesInv'
  <2>1. /\ nBox' = [nBox EXCEPT ![i] = N!NoNotice] /\ N!In(i)
        /\ nMaker' = nMaker /\ nCalls' = nCalls /\ nLapped' = nLapped
    BY <1>6 DEF N!DeleteNotification
  <2>2. nBox' \in [N!Ids -> B] BY <2>1, <1>3
  <2>3. nBox'[i] = N!NoNotice /\ \A j \in N!Ids : j # i => nBox'[j] = nBox[j]
    BY <2>1, <1>3
  <2>5. \A j \in N!Ids : SameNotice(nBox[j], nBox[j]) BY DEF SameNotice
  <2>. QED BY <2>1, <2>2, <2>3, <2>5, FewerNotices DEF N!In
<1>7. ASSUME NEW kinds, N!MarkAllAsRead(kinds) PROVE NoticesInv'
  <2>1. /\ nBox' = [i \in N!Ids |-> IF N!In(i) /\ nBox[i].kind \in kinds
                                    THEN [nBox[i] EXCEPT !.read = TRUE] ELSE nBox[i]]
        /\ nMaker' = nMaker /\ nCalls' = nCalls /\ nLapped' = nLapped
    BY <1>7 DEF N!MarkAllAsRead
  <2>2. nBox' \in [N!Ids -> B] BY <2>1, <1>3, <1>4
  <2>3. \A i \in N!Ids : nBox'[i] = nBox[i] \/ (N!In(i) /\ nBox'[i] = [nBox[i] EXCEPT !.read = TRUE])
    BY <2>1
  <2>4. \A i \in N!Ids : SameNotice(nBox[i], nBox'[i]) /\ nBox'[i].old = nBox[i].old
    BY <2>3, <1>3, <1>4 DEF SameNotice
  <2>. QED BY <2>1, <2>2, <2>3, <2>4, FewerNotices DEF N!In
<1>8. ASSUME N!MinutePasses PROVE NoticesInv'
  <2>1. /\ nBox' = [i \in N!Ids |-> [nBox[i] EXCEPT !.old = TRUE]]
        /\ nMaker' = nMaker /\ nCalls' = nCalls /\ nLapped' = nLapped
    BY <1>8 DEF N!MinutePasses
  <2>2. nBox' \in [N!Ids -> B] BY <2>1, <1>3, <1>4
  <2>3. \A i \in N!Ids : nBox'[i] = [nBox[i] EXCEPT !.old = TRUE] BY <2>1
  <2>4. \A i \in N!Ids : nBox[i] = N!NoNotice => nBox'[i] = N!NoNotice
    BY <2>3, <1>b
  <2>5. ASSUME NEW i \in N!Ids PROVE nBox'[i].old
    <3>1. nBox[i] \in B BY <1>3
    <3>2. [nBox[i] EXCEPT !.old = TRUE].old BY <3>1, <1>4
    <3>. QED BY <2>3, <3>2, Zenon
  <2>. QED BY <2>1, <2>2, <2>4, <2>5, FewerNotices DEF N!In
<1>. QED
  BY <1>1, <1>2, <1>5, <1>6, <1>7, <1>8, NoticeSought, NoticeStored DEF N!Next

-----------------------------------------------------------------------------
(* Snaps                                                                         *)

SnapPCs == {"idle", "view", "react", "destroy", "delete", "rail"}
SnapCall == [pc : SnapPCs, user : S!People \cup {None}, fans : SUBSET Fans]
SnapDoc == [there : BOOLEAN, direct : BOOLEAN, recipients : SUBSET Fans, viewers : Seq(Fans),
            count : Nat, reactions : SUBSET S!People, expired : BOOLEAN, media : BOOLEAN]
SnapShown == [user : S!People \cup {None}, expired : BOOLEAN, media : BOOLEAN]

SnapsTyped ==
  /\ sSnap \in SnapDoc /\ sJob \in [Requests -> SnapCall] /\ sShown \in SnapShown
  /\ sFollows \subseteq Fans /\ sSeen \subseteq Fans /\ IsFiniteSet(sSeen)
  /\ sHad \subseteq S!People
  /\ sCalls \in 0 .. MaxSnaps /\ sTwice \in 0 .. sCalls /\ sBroken \in BOOLEAN
  /\ Len(sSnap.viewers) <= MaxViewers

\* Nobody is at a snap before there is one, and only who has had access reacts.
SnapCallers ==
  /\ sHad = {} => ~sSnap.there /\ sSeen = {} /\ sSnap.count = 0
  /\ \A r \in Requests :
       /\ S!At(r, "view") => sJob[r].user \in Fans /\ sHad # {}
       /\ S!At(r, "react") => sJob[r].user \in sHad
\* Whom it is open to is among those who have had access.
SnapOpen ==
  /\ sSnap.there =>
       /\ Maker \in sHad
       /\ sSnap.direct => sSnap.recipients \subseteq sHad
       /\ ~sSnap.direct => sFollows \subseteq sHad
  /\ sSnap.reactions \subseteq sHad
\* Views under way, and those who have viewed the snap or are about to.
Viewing == {r \in Requests : S!At(r, "view")}
Awaited == sSeen \cup {sJob[r].user : r \in Viewing}
\* Everybody counts, and what counts twice was begun beside another.
SnapViews ==
  /\ IsFiniteSet(Viewing) /\ IsFiniteSet(Awaited)
  /\ Cardinality(sSeen) <= sSnap.count
  /\ sSnap.count + Cardinality(Viewing) <= Cardinality(Awaited) + sTwice
SnapMedia == ~sBroken /\ sSnap.there => sSnap.media \/ \E k \in Requests : S!At(k, "delete")
SnapAnswer == ~sShown.expired /\ (~sBroken => sShown.media)

SnapsInv == SnapsTyped /\ SnapCallers /\ SnapOpen /\ SnapViews /\ SnapMedia /\ SnapAnswer

LEMMA SnapsBegin == ASSUME S!SnapsAssumption, S!Init PROVE SnapsInv
<1>1. /\ S!NoSnap \in SnapDoc /\ ~S!NoSnap.there /\ S!NoSnap.count = 0 /\ S!NoSnap.reactions = {}
      /\ Len(S!NoSnap.viewers) = 0
  BY DEF S!NoSnap, SnapDoc
<1>2. S!Idle \in SnapCall /\ S!Idle.pc = "idle" BY DEF S!Idle, SnapCall, SnapPCs
<1>3. S!NotShown \in SnapShown /\ ~S!NotShown.expired /\ S!NotShown.media
  BY DEF S!NotShown, SnapShown
<1>4. /\ sSnap = S!NoSnap /\ sFollows = {} /\ sJob = [r \in Requests |-> S!Idle] /\ sCalls = 0
      /\ sSeen = {} /\ sHad = {} /\ sShown = S!NotShown /\ sTwice = 0 /\ sBroken = FALSE
  BY DEF S!Init
<1>a. sJob \in [Requests -> SnapCall] BY <1>2, <1>4
<1>b. sBroken \in BOOLEAN BY <1>4, Zenon
<1>c. sCalls \in 0 .. MaxSnaps /\ sTwice \in 0 .. sCalls /\ Len(sSnap.viewers) <= MaxViewers
  BY <1>1, <1>4 DEF S!SnapsAssumption
<1>d. sSeen \subseteq Fans /\ IsFiniteSet(sSeen) /\ sFollows \subseteq Fans BY <1>4, FS_EmptySet
<1>5. SnapsTyped
  BY <1>1, <1>3, <1>4, <1>a, <1>b, <1>c, <1>d DEF SnapsTyped
<1>6. SnapCallers BY <1>1, <1>2, <1>4 DEF SnapCallers, S!At
<1>7. SnapOpen BY <1>1, <1>4 DEF SnapOpen
<1>8. SnapViews
  <2>1. Viewing = {} BY <1>2, <1>4 DEF Viewing, S!At
  <2>2. Awaited = {} BY <1>4, <2>1 DEF Awaited
  <2>. QED BY <1>1, <1>4, <2>1, <2>2, FS_EmptySet DEF SnapViews
<1>9. SnapMedia BY <1>1, <1>4 DEF SnapMedia
<1>10. SnapAnswer BY <1>3, <1>4 DEF SnapAnswer
<1>. QED BY <1>5, <1>6, <1>7, <1>8, <1>9, <1>10 DEF SnapsInv

\* A handler begins, answers or ends, and the snap stays as it is.
LEMMA SnapHandler ==
  ASSUME SnapsInv, NEW r \in Requests, NEW q \in SnapCall, sJob' = [sJob EXCEPT ![r] = q],
         sSnap' = sSnap, sFollows' = sFollows, sSeen' = sSeen, sHad' = sHad,
         sCalls' \in 0 .. MaxSnaps, sShown' \in SnapShown, sTwice' \in 0 .. sCalls',
         sBroken' \in BOOLEAN, sBroken => sBroken', SnapAnswer', SnapViews',
         q.pc = "view" => q.user \in Fans /\ sHad # {},
         q.pc = "react" => q.user \in sHad,
         S!At(r, "delete") => sBroken'
  PROVE  SnapsInv'
<1>1. SnapsTyped' BY DEF SnapsInv, SnapsTyped
<1>2. sJob'[r] = q /\ \A k \in Requests : k # r => sJob'[k] = sJob[k]
  BY DEF SnapsInv, SnapsTyped
<1>3. SnapCallers'
  BY <1>2 DEF SnapsInv, SnapCallers, S!At
<1>4. SnapOpen' BY DEF SnapsInv, SnapOpen
<1>6. SnapMedia' BY <1>2 DEF SnapsInv, SnapMedia, S!At
<1>. QED BY <1>1, <1>3, <1>4, <1>6 DEF SnapsInv

LEMMA SnapFields ==
  ASSUME SnapsInv
  PROVE  /\ sSnap.there \in BOOLEAN /\ sSnap.direct \in BOOLEAN /\ sSnap.recipients \subseteq Fans
         /\ sSnap.viewers \in Seq(Fans) /\ sSnap.count \in Nat /\ sSnap.reactions \subseteq S!People
         /\ sSnap.expired \in BOOLEAN /\ sSnap.media \in BOOLEAN
         /\ sFollows \subseteq Fans /\ sCalls \in 0 .. MaxSnaps
         /\ \A r \in Requests : sJob[r] \in SnapCall
         /\ \A r \in Requests : sJob[r].user \in S!People \cup {None} /\ sJob[r].fans \subseteq Fans
BY DEF SnapsInv, SnapsTyped, SnapDoc, SnapCall

LEMMA SnapIdle == S!Idle \in SnapCall /\ S!Idle.pc = "idle"
BY DEF S!Idle, SnapCall, SnapPCs

LEMMA SnapHistory ==
  ASSUME SnapsInv
  PROVE  sTwice \in 0 .. sCalls /\ sBroken \in BOOLEAN /\ sShown \in SnapShown /\ SnapAnswer
BY DEF SnapsInv, SnapsTyped

\* No view begins or ends.
LEMMA ViewsQuiet ==
  ASSUME SnapsInv, sSnap'.count = sSnap.count, sSeen' = sSeen, sTwice' = sTwice,
         \A k \in Requests : S!At(k, "view")' <=> S!At(k, "view"),
         \A k \in Requests : S!At(k, "view") => sJob'[k] = sJob[k]
  PROVE  SnapViews'
<1>1. Viewing' = Viewing BY DEF Viewing
<1>2. Awaited' = Awaited BY <1>1 DEF Awaited, Viewing
<1>. QED BY <1>1, <1>2 DEF SnapsInv, SnapViews

LEMMA OneMore ==
  ASSUME NEW A, IsFiniteSet(A), NEW u
  PROVE  /\ IsFiniteSet(A \cup {u}) /\ Cardinality(A) \in Nat /\ Cardinality(A \cup {u}) \in Nat
         /\ Cardinality(A \cup {u}) <= Cardinality(A) + 1
<1>1. /\ IsFiniteSet(A \cup {u}) /\ Cardinality(A) \in Nat
      /\ u \notin A => Cardinality(A \cup {u}) = Cardinality(A) + 1
  BY FS_AddElement, FS_CardinalityType
<1>2. CASE u \in A
  <2>1. PICK n \in Nat : n = Cardinality(A) BY <1>1
  <2>2. A \cup {u} = A BY <1>2
  <2>3. Cardinality(A \cup {u}) = n BY <2>1, <2>2, Zenon
  <2>4. n <= n + 1 OBVIOUS
  <2>. QED BY <1>1, <2>1, <2>3, <2>4, Zenon
<1>. QED BY <1>1, <1>2

\* A view is given up.
LEMMA ViewsFewer ==
  ASSUME SnapsInv, sSnap'.count = sSnap.count, sSeen' = sSeen, sTwice' = sTwice,
         NEW r \in Requests, S!At(r, "view"), sJob' = [sJob EXCEPT ![r] = S!Idle]
  PROVE  SnapViews'
<1>. DEFINE u == sJob[r].user
<1>1. sJob'[r].pc = "idle" /\ \A k \in Requests : k # r => sJob'[k] = sJob[k]
  BY DEF SnapsInv, SnapsTyped, S!Idle
<1>2. Viewing' = Viewing \ {r} /\ r \in Viewing BY <1>1 DEF Viewing, S!At
<1>3. Awaited' \subseteq Awaited /\ Awaited \subseteq Awaited' \cup {u}
  BY <1>1, <1>2 DEF Awaited, Viewing
<1>. HIDE DEF u
<1>4. IsFiniteSet(Awaited') /\ Cardinality(Awaited') \in Nat
  BY <1>3, FS_Subset, FS_CardinalityType DEF SnapsInv, SnapViews
<1>5. Cardinality(Awaited) <= Cardinality(Awaited') + 1
  <2>1. /\ IsFiniteSet(Awaited' \cup {u}) /\ Cardinality(Awaited' \cup {u}) \in Nat
        /\ Cardinality(Awaited' \cup {u}) <= Cardinality(Awaited') + 1
    BY <1>4, OneMore
  <2>2. Cardinality(Awaited) <= Cardinality(Awaited' \cup {u}) BY <1>3, <2>1, FS_Subset
  <2>3. Cardinality(Awaited) \in Nat BY FS_CardinalityType DEF SnapsInv, SnapViews
  <2>. QED BY <1>4, <2>1, <2>2, <2>3
<1>6. /\ IsFiniteSet(Viewing') /\ Cardinality(Viewing') = Cardinality(Viewing) - 1
      /\ Cardinality(Viewing) \in Nat /\ Cardinality(Awaited) \in Nat
  BY <1>2, FS_RemoveElement, FS_CardinalityType DEF SnapsInv, SnapViews
<1>7. sSnap.count \in Nat /\ sTwice \in Nat BY DEF SnapsInv, SnapsTyped, SnapDoc
<1>8. /\ Cardinality(sSeen) <= sSnap.count
      /\ sSnap.count + Cardinality(Viewing) <= Cardinality(Awaited) + sTwice
  BY DEF SnapsInv, SnapViews
<1>9. sSnap.count + Cardinality(Viewing') <= Cardinality(Awaited') + sTwice
  BY <1>4, <1>5, <1>6, <1>7, <1>8
<1>. QED BY <1>4, <1>6, <1>8, <1>9 DEF SnapViews

LEMMA SnapBegun ==
  ASSUME S!SnapsAssumption, SnapsInv, NEW r \in Requests, NEW pc \in SnapPCs \ {"idle"},
         NEW u \in S!People, NEW fans \in SUBSET Fans, S!Begin(r, pc, u, fans)
  PROVE  /\ [pc |-> pc, user |-> u, fans |-> fans] \in SnapCall
         /\ sJob' = [sJob EXCEPT ![r] = [pc |-> pc, user |-> u, fans |-> fans]]
         /\ sCalls' \in 0 .. MaxSnaps /\ sCalls' = sCalls + 1
         /\ ~S!At(r, "delete") /\ ~S!At(r, "view")
<1>1. sCalls \in 0 .. MaxSnaps /\ MaxSnaps \in Nat BY SnapFields DEF S!SnapsAssumption
<1>. QED BY <1>1 DEF S!Begin, SnapCall, S!At

LEMMA ViewBegins ==
  ASSUME S!SnapsAssumption, SnapsInv, NEW r \in Requests, NEW u \in Fans, S!ViewFind(r, u)
  PROVE  SnapsInv'
<1>. DEFINE q == [pc |-> "view", user |-> u, fans |-> {}]
<1>1. /\ sSnap.there /\ S!Begin(r, "view", u, {})
      /\ sTwice' = IF u \in sSeen \/ \E k \in Requests : S!At(k, "view") /\ sJob[k].user = u
                   THEN sTwice + 1 ELSE sTwice
      /\ sSnap' = sSnap /\ sFollows' = sFollows /\ sSeen' = sSeen /\ sHad' = sHad
      /\ sShown' = sShown /\ sBroken' = sBroken
  BY DEF S!ViewFind
<1>2. /\ q \in SnapCall /\ sJob' = [sJob EXCEPT ![r] = q] /\ sCalls' \in 0 .. MaxSnaps
      /\ sCalls' = sCalls + 1 /\ ~S!At(r, "delete") /\ ~S!At(r, "view")
  <2>1. "view" \in SnapPCs \ {"idle"} /\ u \in S!People /\ {} \in SUBSET Fans
    BY DEF S!People, SnapPCs
  <2>. QED BY <1>1, <2>1, SnapBegun
<1>3. q.pc = "view" /\ q.user = u OBVIOUS
<1>4. sHad # {} BY <1>1 DEF SnapsInv, SnapCallers
<1>5. sBroken' \in BOOLEAN /\ (sBroken => sBroken') BY <1>1, SnapHistory, Zenon
<1>6. sTwice' \in 0 .. sCalls' BY <1>1, <1>2, SnapHistory, SnapFields
<1>7. sShown' \in SnapShown /\ SnapAnswer'
  BY <1>1, <1>5, SnapHistory DEF SnapAnswer
<1>. HIDE DEF q
<1>8. SnapViews'
  <2>1. sJob'[r] = q /\ \A k \in Requests : k # r => sJob'[k] = sJob[k]
    BY <1>2 DEF SnapsInv, SnapsTyped
  <2>2. Viewing' = Viewing \cup {r} /\ r \notin Viewing
    BY <1>2, <1>3, <2>1 DEF Viewing, S!At
  <2>3. Awaited' = Awaited \cup {u}
    <3>1. \A x : x \in Awaited' <=> x \in sSeen' \/ \E k \in Viewing' : x = sJob'[k].user
      BY DEF Awaited
    <3>2. \A x : x \in Awaited <=> x \in sSeen \/ \E k \in Viewing : x = sJob[k].user
      BY DEF Awaited
    <3>3. sJob'[r].user = u /\ \A k \in Viewing : sJob'[k].user = sJob[k].user
      BY <1>3, <2>1, <2>2 DEF Viewing
    <3>. QED BY <1>1, <2>2, <3>1, <3>2, <3>3
  <2>4. u \in Awaited => sTwice' = sTwice + 1
    BY <1>1 DEF Awaited, Viewing
  <2>5. sTwice' >= sTwice /\ sTwice \in Nat /\ sTwice' \in Nat
    BY <1>1, <1>6, SnapHistory, SnapFields
  <2>6. /\ IsFiniteSet(Viewing) /\ IsFiniteSet(Awaited)
        /\ Cardinality(sSeen) <= sSnap.count /\ sSnap.count \in Nat
        /\ sSnap.count + Cardinality(Viewing) <= Cardinality(Awaited) + sTwice
    BY SnapFields DEF SnapsInv, SnapViews
  <2>7. /\ IsFiniteSet(Viewing') /\ Cardinality(Viewing') = Cardinality(Viewing) + 1
        /\ Cardinality(Viewing) \in Nat
    BY <2>2, <2>6, FS_AddElement, FS_CardinalityType
  <2>8. /\ IsFiniteSet(Awaited') /\ Cardinality(Awaited) \in Nat
        /\ Cardinality(Awaited') = IF u \in Awaited THEN Cardinality(Awaited) ELSE Cardinality(Awaited) + 1
    BY <2>3, <2>6, FS_AddElement, FS_CardinalityType
  <2>9. sSnap.count + Cardinality(Viewing') <= Cardinality(Awaited') + sTwice'
    BY <2>4, <2>5, <2>6, <2>7, <2>8
  <2>. QED BY <1>1, <2>6, <2>7, <2>8, <2>9 DEF SnapViews
<1>. QED BY <1>1, <1>2, <1>3, <1>4, <1>5, <1>6, <1>7, <1>8, SnapHandler

LEMMA OtherBegins ==
  ASSUME S!SnapsAssumption, SnapsInv, NEW r \in Requests, NEW u \in S!People,
         S!ReactFind(r, u) \/ S!RailFollowing(r, u) \/ (u = Maker /\ S!DeleteFind(r))
  PROVE  SnapsInv'
<1>1. PICK pc \in {"react", "rail", "destroy"}, fans \in SUBSET Fans :
        /\ S!Begin(r, pc, u, fans)
        /\ pc = "react" => S!Active /\ S!CanAccessSnap(u)
        /\ sSnap' = sSnap /\ sFollows' = sFollows /\ sSeen' = sSeen /\ sHad' = sHad
        /\ sShown' = sShown /\ sTwice' = sTwice /\ sBroken' = sBroken
  <2>1. sFollows \subseteq Fans BY SnapFields
  <2>2. CASE S!ReactFind(r, u) BY <2>2 DEF S!ReactFind
  <2>3. CASE S!RailFollowing(r, u) BY <2>1, <2>3 DEF S!RailFollowing
  <2>4. CASE u = Maker /\ S!DeleteFind(r) BY <2>4 DEF S!DeleteFind
  <2>. QED BY <2>2, <2>3, <2>4
<1>. DEFINE q == [pc |-> pc, user |-> u, fans |-> fans]
<1>2. /\ q \in SnapCall /\ sJob' = [sJob EXCEPT ![r] = q] /\ sCalls' \in 0 .. MaxSnaps
      /\ sCalls' = sCalls + 1 /\ ~S!At(r, "delete") /\ ~S!At(r, "view")
  BY <1>1, SnapBegun DEF SnapPCs
<1>3. q.pc = pc /\ q.user = u /\ pc # "view" BY <1>1
<1>4. pc = "react" => u \in sHad
  BY <1>1, SnapFields DEF S!Active, S!CanAccessSnap, SnapsInv, SnapOpen
<1>5. sBroken' \in BOOLEAN /\ (sBroken => sBroken') BY <1>1, SnapHistory, Zenon
<1>6. sTwice' \in 0 .. sCalls' BY <1>1, <1>2, SnapHistory, SnapFields
<1>7. sShown' \in SnapShown /\ SnapAnswer'
  BY <1>1, SnapHistory DEF SnapAnswer
<1>. HIDE DEF q
<1>8. SnapViews'
  <2>1. sJob'[r] = q /\ \A k \in Requests : k # r => sJob'[k] = sJob[k]
    BY <1>2 DEF SnapsInv, SnapsTyped
  <2>. QED BY <1>1, <1>2, <1>3, <2>1, ViewsQuiet DEF S!At
<1>. QED BY <1>1, <1>2, <1>3, <1>4, <1>5, <1>6, <1>7, <1>8, SnapHandler

LEMMA SnapEnds ==
  ASSUME SnapsInv, NEW r \in Requests, S!RailShow(r) \/ S!BreakOff(r)
  PROVE  SnapsInv'
<1>1. /\ sJob' = [sJob EXCEPT ![r] = S!Idle]
      /\ sSnap' = sSnap /\ sFollows' = sFollows /\ sSeen' = sSeen /\ sHad' = sHad
      /\ sCalls' = sCalls /\ sTwice' = sTwice
  BY DEF S!RailShow, S!BreakOff, S!Finish
<1>a. sTwice' \in 0 .. sCalls' BY <1>1, SnapHistory
<1>b. SnapViews'
  <2>1. CASE S!At(r, "view") BY <1>1, <2>1, ViewsFewer
  <2>2. CASE ~S!At(r, "view")
    <3>1. sJob'[r].pc = "idle" /\ \A k \in Requests : k # r => sJob'[k] = sJob[k]
      BY <1>1, SnapIdle DEF SnapsInv, SnapsTyped
    <3>. QED BY <1>1, <2>2, <3>1, ViewsQuiet DEF S!At
  <2>. QED BY <2>1, <2>2
<1>2. CASE S!BreakOff(r)
  <2>1. sBroken' = (sBroken \/ S!At(r, "delete")) /\ sShown' = sShown
    BY <1>2 DEF S!BreakOff
  <2>2. sBroken' \in BOOLEAN /\ (sBroken => sBroken') /\ (S!At(r, "delete") => sBroken') BY <2>1, Zenon
  <2>3. sShown' \in SnapShown /\ SnapAnswer' BY <2>1, <2>2, SnapHistory DEF SnapAnswer
  <2>. QED BY <1>1, <1>a, <1>b, <2>1, <2>2, <2>3, SnapHandler, SnapIdle, SnapFields
<1>3. CASE S!RailShow(r)
  <2>1. sBroken' = sBroken /\ ~S!At(r, "delete")
        /\ (sShown' = sShown \/ (S!Active /\ S!Show(sJob[r].user)))
    BY <1>3 DEF S!RailShow, S!At
  <2>2. sBroken' \in BOOLEAN /\ (sBroken => sBroken') BY <2>1, SnapHistory, Zenon
  <2>3. CASE sShown' = sShown
    <3>1. sShown' \in SnapShown /\ SnapAnswer' BY <2>1, <2>3, SnapHistory DEF SnapAnswer
    <3>. QED BY <1>1, <1>a, <1>b, <2>1, <2>2, <3>1, SnapHandler, SnapIdle, SnapFields
  <2>4. CASE S!Active /\ S!Show(sJob[r].user)
    <3>1. sShown' = [user |-> sJob[r].user, expired |-> sSnap.expired,
                     media |-> sSnap.media \/ \E k \in Requests : S!At(k, "delete")]
      BY <2>4 DEF S!Show
    <3>2. sShown'.expired = sSnap.expired /\ sShown' \in SnapShown
          /\ sShown'.media = (sSnap.media \/ \E k \in Requests : S!At(k, "delete"))
      BY <3>1, SnapFields DEF SnapShown
    <3>3. ~sSnap.expired /\ sSnap.there BY <2>4 DEF S!Active
    <3>4. SnapAnswer' BY <2>1, <3>2, <3>3 DEF SnapAnswer, SnapsInv, SnapMedia
    <3>. QED BY <1>1, <1>a, <1>b, <2>1, <2>2, <3>2, <3>4, SnapHandler, SnapIdle, SnapFields
  <2>. QED BY <2>1, <2>3, <2>4
<1>. QED BY <1>2, <1>3

LEMMA SnapMade ==
  ASSUME S!SnapsAssumption, SnapsInv, NEW recipients \in SUBSET Fans, NEW direct \in BOOLEAN,
         S!CreateSnap(direct, recipients)
  PROVE  SnapsInv'
<1>. DEFINE d == [S!NoSnap EXCEPT !.there = TRUE, !.media = TRUE, !.direct = direct,
                                  !.recipients = recipients]
<1>1. /\ sHad = {} /\ sCalls < MaxSnaps /\ sCalls' = sCalls + 1 /\ sSnap' = d
      /\ sHad' = {Maker} \cup (IF direct THEN recipients ELSE sFollows)
      /\ sFollows' = sFollows /\ sJob' = sJob /\ sSeen' = sSeen /\ sShown' = sShown
      /\ sTwice' = sTwice /\ sBroken' = sBroken
  BY DEF S!CreateSnap
<1>2. /\ d.there = TRUE /\ d.media = TRUE /\ d.direct = direct /\ d.recipients = recipients
      /\ d.count = 0 /\ d.reactions = {} /\ d.viewers = <<>> /\ d \in SnapDoc
  <2>a. S!NoSnap \in SnapDoc
    <3>1. <<>> \in Seq(Fans) /\ {} \in SUBSET Fans /\ {} \in SUBSET S!People /\ 0 \in Nat OBVIOUS
    <3>. QED BY <3>1 DEF S!NoSnap, SnapDoc
  <2>b. S!NoSnap.count = 0 /\ S!NoSnap.reactions = {} /\ S!NoSnap.viewers = <<>>
    BY DEF S!NoSnap
  <2>1. PICK n \in SnapDoc : n = S!NoSnap /\ n.count = 0 /\ n.reactions = {} /\ n.viewers = <<>>
    BY <2>a, <2>b
  <2>2. d = [n EXCEPT !.there = TRUE, !.media = TRUE, !.direct = direct, !.recipients = recipients]
    BY <2>1
  <2>. HIDE DEF d
  <2>. QED BY <2>1, <2>2 DEF SnapDoc
<1>. HIDE DEF d
<1>3. sCalls' \in 0 .. MaxSnaps /\ sTwice' \in 0 .. sCalls'
  BY <1>1, SnapFields, SnapHistory DEF S!SnapsAssumption
<1>a. sHad' \subseteq S!People BY <1>1, SnapFields DEF S!People
<1>b. Len(sSnap'.viewers) <= MaxViewers BY <1>1, <1>2 DEF S!SnapsAssumption
<1>4. SnapsTyped' BY <1>1, <1>2, <1>3, <1>a, <1>b DEF SnapsInv, SnapsTyped
<1>5. \A r \in Requests : ~S!At(r, "view") /\ ~S!At(r, "react") /\ sSeen = {}
  BY <1>1 DEF SnapsInv, SnapCallers
<1>6. \A r \in Requests : ~S!At(r, "view")' /\ ~S!At(r, "react")' BY <1>1, <1>5 DEF S!At
<1>7. SnapCallers' BY <1>1, <1>6 DEF SnapCallers
<1>8. SnapOpen' BY <1>1, <1>2 DEF SnapOpen
<1>9. SnapViews'
  <2>1. sSeen' = {} BY <1>1 DEF SnapsInv, SnapCallers
  <2>2. Viewing' = {} BY <1>6 DEF Viewing
  <2>3. Awaited' = {} BY <2>1, <2>2 DEF Awaited
  <2>4. sTwice' \in Nat /\ sSnap'.count = 0 BY <1>1, <1>2, <1>3, SnapHistory, SnapFields
  <2>. QED BY <2>1, <2>2, <2>3, <2>4, FS_EmptySet DEF SnapViews
<1>10. SnapMedia' BY <1>1, <1>2 DEF SnapMedia
<1>11. SnapAnswer' BY <1>1, SnapHistory DEF SnapAnswer
<1>. QED BY <1>4, <1>7, <1>8, <1>9, <1>10, <1>11 DEF SnapsInv

LEMMA ViewCounts ==
  ASSUME S!SnapsAssumption, SnapsInv, NEW r \in Requests, S!ViewPush(r) PROVE SnapsInv'
<1>. DEFINE u == sJob[r].user
            all == Append(sSnap.viewers, u)
            cut == Len(all) - MaxViewers
            list == IF cut > 0 THEN SubSeq(all, cut + 1, Len(all)) ELSE all
<1>1. /\ S!At(r, "view") /\ sJob' = [sJob EXCEPT ![r] = S!Idle]
      /\ sFollows' = sFollows /\ sHad' = sHad /\ sShown' = sShown /\ sTwice' = sTwice
      /\ sBroken' = sBroken /\ sCalls' = sCalls
  BY DEF S!ViewPush, S!Finish
<1>2. CASE ~sSnap.there
  <2>1. sSnap' = sSnap /\ sSeen' = sSeen BY <1>2 DEF S!ViewPush
  <2>2. ~S!At(r, "delete") BY <1>1 DEF S!At
  <2>3. sBroken' \in BOOLEAN /\ (sBroken => sBroken') /\ sTwice' \in 0 .. sCalls'
    BY <1>1, SnapHistory, Zenon
  <2>4. sShown' \in SnapShown /\ SnapAnswer' BY <1>1, SnapHistory DEF SnapAnswer
  <2>5. SnapViews' BY <1>1, <2>1, ViewsFewer
  <2>. QED BY <1>1, <2>1, <2>2, <2>3, <2>4, <2>5, SnapHandler, SnapIdle, SnapFields
<1>3. CASE sSnap.there
  <2>1. sSnap' = [sSnap EXCEPT !.count = @ + 1, !.viewers = list] /\ sSeen' = sSeen \cup {u}
    BY <1>3 DEF S!ViewPush
  <2>2. u \in Fans /\ sHad # {} BY <1>1 DEF SnapsInv, SnapCallers
  <2>3. list \in Seq(Fans) /\ Len(list) <= MaxViewers
    <3>1. all \in Seq(Fans) /\ Len(all) \in Nat /\ MaxViewers \in Nat
      BY <2>2, SnapFields DEF S!SnapsAssumption
    <3>. HIDE DEF all
    <3>2. CASE ~(cut > 0) BY <3>1, <3>2
    <3>3. CASE cut > 0
      <4>1. cut + 1 \in 1 .. Len(all) + 1 /\ Len(all) \in 0 .. Len(all) BY <3>1, <3>3
      <4>2. SubSeq(all, cut + 1, Len(all)) \in Seq(Fans) BY <3>1, <4>1, SMT
      <4>3. Len(SubSeq(all, cut + 1, Len(all))) = Len(all) - cut BY <3>1, <3>3, <4>1, SMT
      <4>. QED BY <3>1, <3>3, <4>2, <4>3
    <3>. QED BY <3>2, <3>3
  <2>. HIDE DEF list, all, cut
  <2>4. /\ sSnap'.there = sSnap.there /\ sSnap'.direct = sSnap.direct /\ sSnap'.media = sSnap.media
        /\ sSnap'.recipients = sSnap.recipients /\ sSnap'.reactions = sSnap.reactions
        /\ sSnap'.count = sSnap.count + 1 /\ sSnap'.viewers = list /\ sSnap' \in SnapDoc
    <3>1. PICK n : n = sSnap.count + 1 BY Zenon
    <3>2. n \in Nat BY <3>1, SnapFields
    <3>3. sSnap \in SnapDoc BY DEF SnapsInv, SnapsTyped
    <3>4. sSnap' = [sSnap EXCEPT !.count = n, !.viewers = list] BY <2>1, <3>1
    <3>5. sSnap' \in SnapDoc BY <2>3, <3>2, <3>3, <3>4 DEF SnapDoc
    <3>. QED BY <3>1, <3>3, <3>4, <3>5 DEF SnapDoc
  <2>5. /\ IsFiniteSet(sSeen') /\ sSeen' \subseteq Fans
        /\ Cardinality(sSeen') <= Cardinality(sSeen) + 1 /\ Cardinality(sSeen) \in Nat
    BY <2>1, <2>2, OneMore DEF SnapsInv, SnapsTyped
  <2>6. sJob \in [Requests -> SnapCall] BY DEF SnapsInv, SnapsTyped
  <2>7. sJob' \in [Requests -> SnapCall] BY <1>1, <2>6, SnapIdle
  <2>8. sJob'[r].pc = "idle" /\ \A k \in Requests : k # r => sJob'[k] = sJob[k]
    BY <1>1, <2>6, SnapIdle
  <2>9. SnapsTyped'
    BY <1>1, <2>3, <2>4, <2>5, <2>7 DEF SnapsInv, SnapsTyped
  <2>10. SnapCallers' BY <1>1, <2>2, <2>8 DEF SnapsInv, SnapCallers, S!At
  <2>11. SnapOpen' BY <1>1, <2>4 DEF SnapsInv, SnapOpen
  <2>12. SnapViews'
    <3>1. Viewing' = Viewing \ {r} /\ r \in Viewing BY <1>1, <2>8 DEF Viewing, S!At
    <3>2. Awaited' = Awaited
      <4>1. \A x : x \in Awaited' <=> x \in sSeen' \/ \E k \in Viewing' : x = sJob'[k].user
        BY DEF Awaited
      <4>2. \A x : x \in Awaited <=> x \in sSeen \/ \E k \in Viewing : x = sJob[k].user
        BY DEF Awaited
      <4>3. \A k \in Viewing : k # r => sJob'[k].user = sJob[k].user
        BY <2>8 DEF Viewing
      <4>. QED BY <2>1, <3>1, <4>1, <4>2, <4>3
    <3>3. /\ IsFiniteSet(Viewing) /\ IsFiniteSet(Awaited)
          /\ Cardinality(sSeen) <= sSnap.count /\ sSnap.count \in Nat
          /\ sSnap.count + Cardinality(Viewing) <= Cardinality(Awaited) + sTwice
      BY SnapFields DEF SnapsInv, SnapViews
    <3>4. /\ IsFiniteSet(Viewing') /\ Cardinality(Viewing') = Cardinality(Viewing) - 1
          /\ Cardinality(Viewing) \in Nat /\ Cardinality(Awaited) \in Nat
      BY <3>1, <3>3, FS_RemoveElement, FS_CardinalityType
    <3>5. Cardinality(sSeen') <= sSnap'.count
      BY <2>4, <2>5, <3>3, FS_CardinalityType
    <3>6. sSnap'.count + Cardinality(Viewing') <= Cardinality(Awaited') + sTwice'
      BY <1>1, <2>4, <3>2, <3>3, <3>4, SnapHistory
    <3>. QED BY <3>2, <3>3, <3>4, <3>5, <3>6 DEF SnapViews
  <2>13. SnapMedia'
    <3>1. \A k \in Requests : S!At(k, "delete") => S!At(k, "delete")' BY <1>1, <2>8 DEF S!At
    <3>. QED BY <1>1, <2>4, <3>1 DEF SnapsInv, SnapMedia
  <2>14. SnapAnswer' BY <1>1, SnapHistory DEF SnapAnswer
  <2>. QED BY <2>9, <2>10, <2>11, <2>12, <2>13, <2>14 DEF SnapsInv
<1>. QED BY <1>2, <1>3

\* The snap changes in nothing that the views and its readers see.
LEMMA SnapChanges ==
  ASSUME SnapsInv, sSnap' \in SnapDoc, sSnap'.viewers = sSnap.viewers, sSnap'.count = sSnap.count,
         sSnap'.direct = sSnap.direct, sSnap'.recipients = sSnap.recipients,
         sSnap'.there => sSnap.there, sSnap'.reactions \subseteq sHad,
         sJob' \in [Requests -> SnapCall], sFollows' = sFollows, sCalls' = sCalls, sSeen' = sSeen,
         sHad' = sHad, sShown' = sShown, sTwice' = sTwice, sBroken' = sBroken,
         \A r \in Requests : S!At(r, "view")' \/ S!At(r, "view") => sJob'[r] = sJob[r],
         \A r \in Requests : S!At(r, "react")' => sJob'[r] = sJob[r],
         SnapMedia'
  PROVE  SnapsInv'
<1>1. SnapsTyped' BY DEF SnapsInv, SnapsTyped
<1>2. SnapCallers' BY DEF SnapsInv, SnapCallers, S!At
<1>3. SnapOpen' BY DEF SnapsInv, SnapOpen
<1>4. SnapViews' BY ViewsQuiet DEF S!At
<1>5. SnapAnswer' BY SnapHistory DEF SnapAnswer
<1>. QED BY <1>1, <1>2, <1>3, <1>4, <1>5 DEF SnapsInv

LEMMA SnapReacts ==
  ASSUME SnapsInv, NEW r \in Requests, NEW empty \in BOOLEAN, S!ReactUpdate(r, empty)
  PROVE  SnapsInv'
<1>. DEFINE u == sJob[r].user
            some == IF empty THEN sSnap.reactions \ {u} ELSE sSnap.reactions \cup {u}
<1>1. /\ S!At(r, "react") /\ sJob' = [sJob EXCEPT ![r] = S!Idle]
      /\ sSnap' = IF ~S!Active THEN sSnap ELSE [sSnap EXCEPT !.reactions = some]
      /\ sFollows' = sFollows /\ sHad' = sHad /\ sShown' = sShown /\ sTwice' = sTwice
      /\ sBroken' = sBroken /\ sCalls' = sCalls /\ sSeen' = sSeen
  BY DEF S!ReactUpdate, S!Finish
<1>2. u \in sHad BY <1>1 DEF SnapsInv, SnapCallers
<1>3. sJob \in [Requests -> SnapCall] /\ sSnap \in SnapDoc /\ sHad \subseteq S!People
      /\ sSnap.reactions \subseteq sHad
  BY DEF SnapsInv, SnapsTyped, SnapOpen
<1>4. sJob' \in [Requests -> SnapCall] BY <1>1, <1>3, SnapIdle
<1>5. sJob'[r].pc = "idle" /\ \A k \in Requests : k # r => sJob'[k] = sJob[k]
  BY <1>1, <1>3, SnapIdle
<1>6. some \subseteq sHad BY <1>2, <1>3
<1>. HIDE DEF some
<1>7. /\ sSnap' \in SnapDoc /\ sSnap'.viewers = sSnap.viewers /\ sSnap'.count = sSnap.count
      /\ sSnap'.direct = sSnap.direct /\ sSnap'.recipients = sSnap.recipients
      /\ sSnap'.there = sSnap.there /\ sSnap'.reactions \subseteq sHad /\ sSnap'.media = sSnap.media
  <2>1. CASE S!Active
    <3>1. sSnap' = [sSnap EXCEPT !.reactions = some] BY <1>1, <2>1
    <3>. QED BY <1>3, <1>6, <3>1 DEF SnapDoc
  <2>2. CASE ~S!Active BY <1>1, <1>3, <2>2
  <2>. QED BY <2>1, <2>2
<1>8. SnapMedia'
  <2>1. \A k \in Requests : S!At(k, "delete") => S!At(k, "delete")' BY <1>1, <1>5 DEF S!At
  <2>. QED BY <1>1, <1>7, <2>1 DEF SnapsInv, SnapMedia
<1>9. /\ \A k \in Requests : S!At(k, "view")' \/ S!At(k, "view") => sJob'[k] = sJob[k]
      /\ \A k \in Requests : S!At(k, "react")' => sJob'[k] = sJob[k]
  BY <1>1, <1>5 DEF S!At
<1>. QED BY <1>1, <1>4, <1>7, <1>8, <1>9, SnapChanges

LEMMA SnapGoes ==
  ASSUME SnapsInv, NEW r \in Requests, S!DestroyMedia(r) \/ S!DeleteSnap(r)
  PROVE  SnapsInv'
<1>1. sJob \in [Requests -> SnapCall] /\ sSnap \in SnapDoc BY DEF SnapsInv, SnapsTyped
<1>2. sSnap.reactions \subseteq sHad BY DEF SnapsInv, SnapOpen
<1>3. CASE S!DestroyMedia(r)
  <2>1. PICK gone \in BOOLEAN : sSnap' = [sSnap EXCEPT !.media = @ /\ ~gone]
    BY <1>3 DEF S!DestroyMedia
  <2>2. /\ sJob' = [sJob EXCEPT ![r] = [sJob[r] EXCEPT !.pc = "delete"]]
        /\ sFollows' = sFollows /\ sHad' = sHad /\ sShown' = sShown /\ sTwice' = sTwice /\ sBroken' = sBroken
        /\ sCalls' = sCalls /\ sSeen' = sSeen
    BY <1>3 DEF S!DestroyMedia
  <2>3. /\ [sJob[r] EXCEPT !.pc = "delete"] \in SnapCall
        /\ [sJob[r] EXCEPT !.pc = "delete"].pc = "delete"
    BY <1>1 DEF SnapCall, SnapPCs
  <2>4. sJob' \in [Requests -> SnapCall] /\ sJob'[r].pc = "delete"
        /\ \A k \in Requests : k # r => sJob'[k] = sJob[k]
    BY <1>1, <2>2, <2>3
  <2>5. PICK m \in BOOLEAN : m = (sSnap.media /\ ~gone) BY Zenon
  <2>6. sSnap' = [sSnap EXCEPT !.media = m] BY <2>1, <2>5
  <2>7. /\ sSnap' \in SnapDoc /\ sSnap'.viewers = sSnap.viewers /\ sSnap'.count = sSnap.count
        /\ sSnap'.direct = sSnap.direct /\ sSnap'.recipients = sSnap.recipients
        /\ sSnap'.there = sSnap.there /\ sSnap'.reactions = sSnap.reactions
    BY <1>1, <2>6 DEF SnapDoc
  <2>8. SnapMedia' BY <2>4 DEF SnapMedia, S!At
  <2>9. /\ \A k \in Requests : S!At(k, "view")' \/ S!At(k, "view") => sJob'[k] = sJob[k]
        /\ \A k \in Requests : S!At(k, "react")' => sJob'[k] = sJob[k]
    BY <1>3, <2>4 DEF S!At, S!DestroyMedia
  <2>. QED BY <1>2, <2>2, <2>4, <2>7, <2>8, <2>9, SnapChanges
<1>4. CASE S!DeleteSnap(r)
  <2>1. /\ sSnap' = [sSnap EXCEPT !.there = FALSE] /\ sJob' = [sJob EXCEPT ![r] = S!Idle]
        /\ sFollows' = sFollows /\ sHad' = sHad /\ sShown' = sShown /\ sTwice' = sTwice /\ sBroken' = sBroken
        /\ sCalls' = sCalls /\ sSeen' = sSeen
    BY <1>4 DEF S!DeleteSnap, S!Finish
  <2>2. sJob' \in [Requests -> SnapCall] /\ sJob'[r].pc = "idle"
        /\ \A k \in Requests : k # r => sJob'[k] = sJob[k]
    BY <1>1, <2>1, SnapIdle
  <2>3. /\ sSnap' \in SnapDoc /\ sSnap'.viewers = sSnap.viewers /\ sSnap'.count = sSnap.count
        /\ sSnap'.direct = sSnap.direct /\ sSnap'.recipients = sSnap.recipients
        /\ sSnap'.there = FALSE /\ sSnap'.reactions = sSnap.reactions
    BY <1>1, <2>1 DEF SnapDoc
  <2>4. SnapMedia' BY <2>3 DEF SnapMedia
  <2>5. /\ \A k \in Requests : S!At(k, "view")' \/ S!At(k, "view") => sJob'[k] = sJob[k]
        /\ \A k \in Requests : S!At(k, "react")' => sJob'[k] = sJob[k]
    BY <1>4, <2>2 DEF S!At, S!DeleteSnap
  <2>. QED BY <1>2, <2>1, <2>2, <2>3, <2>4, <2>5, SnapChanges
<1>. QED BY <1>3, <1>4

LEMMA SnapAges ==
  ASSUME SnapsInv, S!Expire \/ S!SnapTTL PROVE SnapsInv'
<1>1. sJob \in [Requests -> SnapCall] /\ sSnap \in SnapDoc BY DEF SnapsInv, SnapsTyped
<1>2. sSnap.reactions \subseteq sHad BY DEF SnapsInv, SnapOpen
<1>3. /\ sSnap' = [sSnap EXCEPT !.expired = TRUE] \/ sSnap' = [sSnap EXCEPT !.there = FALSE]
      /\ sJob' = sJob /\ sFollows' = sFollows /\ sHad' = sHad /\ sShown' = sShown /\ sTwice' = sTwice /\ sBroken' = sBroken
      /\ sCalls' = sCalls /\ sSeen' = sSeen
  BY DEF S!Expire, S!SnapTTL
<1>4. /\ sSnap' \in SnapDoc /\ sSnap'.viewers = sSnap.viewers /\ sSnap'.count = sSnap.count
      /\ sSnap'.direct = sSnap.direct /\ sSnap'.recipients = sSnap.recipients
      /\ sSnap'.reactions = sSnap.reactions /\ sSnap'.media = sSnap.media
      /\ (sSnap'.there => sSnap.there)
  <2>1. CASE sSnap' = [sSnap EXCEPT !.expired = TRUE] BY <1>1, <2>1 DEF SnapDoc
  <2>2. CASE sSnap' = [sSnap EXCEPT !.there = FALSE] BY <1>1, <2>2 DEF SnapDoc
  <2>. QED BY <1>3, <2>1, <2>2
<1>5. SnapMedia' BY <1>3, <1>4 DEF SnapsInv, SnapMedia, S!At
<1>. QED BY <1>1, <1>2, <1>3, <1>4, <1>5, SnapChanges

LEMMA SnapsStep == ASSUME S!SnapsAssumption, SnapsInv, [S!Next]_ofSnaps PROVE SnapsInv'
<1>1. CASE UNCHANGED ofSnaps
  <2>1. /\ sSnap' = sSnap /\ sFollows' = sFollows /\ sJob' = sJob /\ sCalls' = sCalls
        /\ sSeen' = sSeen /\ sHad' = sHad /\ sShown' = sShown /\ sTwice' = sTwice /\ sBroken' = sBroken
    BY <1>1 DEF ofSnaps
  <2>2. SnapsTyped' BY <2>1 DEF SnapsInv, SnapsTyped
  <2>3. SnapCallers' /\ SnapOpen' BY <2>1 DEF SnapsInv, SnapCallers, SnapOpen, S!At
  <2>4. SnapViews' /\ SnapMedia' BY <2>1, ViewsQuiet DEF SnapsInv, SnapMedia, S!At
  <2>5. SnapAnswer' BY <2>1 DEF SnapsInv, SnapAnswer
  <2>. QED BY <2>2, <2>3, <2>4, <2>5 DEF SnapsInv
<1>2. ASSUME NEW u \in Fans, S!GetDirectInbox(u) PROVE SnapsInv'
  <2>1. /\ sSnap' = sSnap /\ sFollows' = sFollows /\ sJob' = sJob /\ sCalls' = sCalls
        /\ sSeen' = sSeen /\ sHad' = sHad /\ sTwice' = sTwice /\ sBroken' = sBroken /\ S!Active /\ S!Show(u)
    BY <1>2 DEF S!GetDirectInbox
  <2>2. sShown' = [user |-> u, expired |-> sSnap.expired,
                   media |-> sSnap.media \/ \E k \in Requests : S!At(k, "delete")]
    BY <2>1 DEF S!Show
  <2>3. sShown'.expired = sSnap.expired /\ sShown' \in SnapShown
        /\ sShown'.media = (sSnap.media \/ \E k \in Requests : S!At(k, "delete"))
    BY <2>2, SnapFields DEF SnapShown, S!People
  <2>4. ~sSnap.expired /\ sSnap.there BY <2>1 DEF S!Active
  <2>5. SnapAnswer' BY <2>1, <2>3, <2>4 DEF SnapAnswer, SnapsInv, SnapMedia
  <2>6. SnapsTyped' BY <2>1, <2>3 DEF SnapsInv, SnapsTyped
  <2>7. SnapCallers' /\ SnapOpen' BY <2>1 DEF SnapsInv, SnapCallers, SnapOpen, S!At
  <2>8. SnapViews' /\ SnapMedia' BY <2>1, ViewsQuiet DEF SnapsInv, SnapMedia, S!At
  <2>. QED BY <2>5, <2>6, <2>7, <2>8 DEF SnapsInv
<1>3. ASSUME NEW u \in Fans, S!Follow(u) PROVE SnapsInv'
  <2>1. /\ sFollows' = IF u \in sFollows THEN sFollows \ {u} ELSE sFollows \cup {u}
        /\ sHad' = IF sSnap.there /\ ~sSnap.direct THEN sHad \cup sFollows' ELSE sHad
        /\ sCalls < MaxSnaps /\ sCalls' = sCalls + 1
        /\ sSnap' = sSnap /\ sJob' = sJob /\ sSeen' = sSeen /\ sShown' = sShown /\ sTwice' = sTwice /\ sBroken' = sBroken
    BY <1>3 DEF S!Follow
  <2>2. sFollows' \subseteq Fans BY <2>1, SnapFields
  <2>3. sHad' \subseteq S!People /\ sHad \subseteq sHad'
    BY <2>1, <2>2 DEF SnapsInv, SnapsTyped, S!People
  <2>4. sCalls' \in 0 .. MaxSnaps /\ sTwice' \in 0 .. sCalls'
    BY <2>1, SnapFields, SnapHistory DEF S!SnapsAssumption
  <2>5. SnapsTyped' BY <2>1, <2>2, <2>3, <2>4 DEF SnapsInv, SnapsTyped
  <2>6. SnapCallers' BY <2>1, <2>3 DEF SnapsInv, SnapCallers, S!At
  <2>7. SnapOpen' BY <2>1, <2>3 DEF SnapsInv, SnapOpen
  <2>8. SnapViews' /\ SnapMedia' BY <2>1, ViewsQuiet DEF SnapsInv, SnapMedia, S!At
  <2>9. SnapAnswer' BY <2>1 DEF SnapsInv, SnapAnswer
  <2>. QED BY <2>5, <2>6, <2>7, <2>8, <2>9 DEF SnapsInv
<1>4. \A u \in Fans : u \in S!People BY DEF S!People
<1>5. CASE S!Next
  <2>1. ASSUME NEW r \in Requests, S!DeleteFind(r) PROVE SnapsInv'
    BY <2>1, OtherBegins DEF S!People
  <2>. QED
    BY <1>2, <1>3, <1>5, <2>1, SnapMade, ViewBegins, OtherBegins, SnapEnds, ViewCounts, SnapReacts,
       SnapGoes, SnapAges DEF S!Next
<1>. QED BY <1>1, <1>5

LEMMA SnapsHonestly == SnapsInv => S!SnapHonest
<1>1. \A A : S!Cardinality(A) = Cardinality(A) BY DEF Cardinality, S!Cardinality
<1>2. SUFFICES ASSUME SnapsInv PROVE S!SnapHonest OBVIOUS
<1>. DEFINE viewers == {sJob[r].user : r \in Viewing}
<1>3. IsFiniteSet(Viewing) /\ IsFiniteSet(sSeen) BY <1>2 DEF SnapsInv, SnapViews, SnapsTyped
<1>4. IsFiniteSet(viewers) /\ Cardinality(viewers) <= Cardinality(Viewing)
  <2>1. [r \in Viewing |-> sJob[r].user] \in Surjection(Viewing, viewers)
    BY DEF Surjection
  <2>. QED BY <1>3, <2>1, FS_Surjection
<1>. HIDE DEF viewers
<1>5. Awaited = sSeen \cup viewers BY DEF Awaited, viewers
<1>6. /\ Cardinality(sSeen) \in Nat /\ Cardinality(viewers) \in Nat /\ Cardinality(Viewing) \in Nat
      /\ Cardinality(sSeen \cap viewers) \in Nat
      /\ Cardinality(Awaited) = Cardinality(sSeen) + Cardinality(viewers) - Cardinality(sSeen \cap viewers)
  BY <1>3, <1>4, <1>5, FS_Union, FS_Intersection, FS_CardinalityType
<1>7. /\ sSnap.count \in Nat /\ sTwice \in Nat
      /\ Cardinality(sSeen) <= sSnap.count
      /\ sSnap.count + Cardinality(Viewing) <= Cardinality(Awaited) + sTwice
  BY <1>2, SnapFields, SnapHistory DEF SnapsInv, SnapViews
<1>8. sSnap.count \in Cardinality(sSeen) .. Cardinality(sSeen) + sTwice
  BY <1>4, <1>6, <1>7
<1>. QED BY <1>1, <1>2, <1>8 DEF SnapsInv, S!SnapHonest, SnapOpen, SnapAnswer

-----------------------------------------------------------------------------
(* Induction, over sets where the library has it over predicates.                *)

\* A family of sets that has the empty set, and with a set also that with one more
\* element of S, has S.
LEMMA SetInduction ==
  ASSUME NEW A, IsFiniteSet(A), NEW F, {} \in F,
         \A T \in SUBSET A : \A x \in A \ T : T \in F => T \cup {x} \in F
  PROVE  A \in F
<1>1. FiniteSubsetsOf(A) = SUBSET A BY FS_FiniteSubsetsOfFinite
<1>2. IsWellFoundedOn(StrictSubsetOrdering(A), SUBSET A)
  BY <1>1, FS_StrictSubsetOrderingWellFounded
<1>. DEFINE Bad == {T \in SUBSET A : T \notin F}
<1>3. SUFFICES ASSUME Bad # {} PROVE FALSE OBVIOUS
<1>4. PICK T \in Bad : \A U \in Bad : ~(<<U, T>> \in StrictSubsetOrdering(A))
  <2>1. Bad \subseteq SUBSET A OBVIOUS
  <2>. HIDE DEF Bad
  <2>2. \E x \in Bad : \A y \in Bad : ~(<<y, x>> \in StrictSubsetOrdering(A))
    BY <1>2, <1>3, <2>1, WFMin
  <2>. QED BY <2>2
<1>5. PICK x \in T : TRUE BY <1>4
<1>6. T \ {x} \notin Bad
  <2>1. <<T \ {x}, T>> \in StrictSubsetOrdering(A) BY <1>4, <1>5 DEF StrictSubsetOrdering
  <2>. QED BY <1>4, <2>1
<1>7. T \ {x} \in F /\ T \ {x} \in SUBSET A /\ x \in A \ (T \ {x}) BY <1>4, <1>5, <1>6
<1>8. (T \ {x}) \cup {x} = T BY <1>5
<1>. QED BY <1>4, <1>7, <1>8

LEMMA CountInduction ==
  ASSUME NEW n \in Nat, NEW F, 0 \in F, \A k \in 0 .. n - 1 : k \in F => k + 1 \in F
  PROVE  n \in F
<1>1. IsFiniteSet(1 .. n) /\ Cardinality(1 .. n) = n BY FS_Interval
<1>. DEFINE G == {T \in SUBSET (1 .. n) : Cardinality(T) \in F}
<1>2. {} \in G BY FS_EmptySet
<1>3. ASSUME NEW T \in SUBSET (1 .. n), NEW x \in (1 .. n) \ T, T \in G PROVE T \cup {x} \in G
  <2>1. IsFiniteSet(T) /\ Cardinality(T) \in Nat BY <1>1, FS_Subset, FS_CardinalityType
  <2>2. Cardinality(T \cup {x}) = Cardinality(T) + 1 BY <2>1, FS_AddElement
  <2>3. IsFiniteSet(T \cup {x}) /\ Cardinality(T \cup {x}) <= n BY <1>1, FS_Subset
  <2>4. Cardinality(T) \in 0 .. n - 1 BY <2>1, <2>2, <2>3
  <2>. QED BY <1>3, <2>2, <2>4
<1>4. (1 .. n) \in G
  <2>. HIDE DEF G
  <2>. QED BY <1>1, <1>2, <1>3, SetInduction
<1>. QED BY <1>1, <1>4

-----------------------------------------------------------------------------
(* Push                                                                          *)

\* What P!Kept computes, step by step.
KeptSoFar(list, E, g) ==
  g = [i \in 0 .. Len(list) |->
         IF i = 0 THEN <<>>
         ELSE IF list[i] \in E THEN Append(g[i - 1], list[i]) ELSE g[i - 1]]

LEMMA KeptIs ==
  \A list, E : P!Kept(list, E) = (CHOOSE g : KeptSoFar(list, E, g))[Len(list)]
BY DEF P!Kept, KeptSoFar

LEMMA KeptExists ==
  ASSUME NEW A, NEW list \in Seq(A), NEW E PROVE \E g : KeptSoFar(list, E, g)
<1>. DEFINE L == Len(list)
            Step(g, i) == IF list[i] \in E THEN Append(g[i - 1], list[i]) ELSE g[i - 1]
            F == {n \in 0 .. L : \E g : g[0] = <<>> /\ \A i \in 1 .. n : g[i] = Step(g, i)}
<1>1. L \in Nat OBVIOUS
<1>2. 0 \in F
  <2>1. \E g : g[0] = <<>>
    <3>1. [i \in {0} |-> <<>>][0] = <<>> OBVIOUS
    <3>. QED BY <3>1
  <2>2. 1 .. 0 = {} OBVIOUS
  <2>. QED BY <1>1, <2>1, <2>2
<1>3. ASSUME NEW n \in 0 .. L - 1, n \in F PROVE n + 1 \in F
  <2>1. PICK g : g[0] = <<>> /\ \A i \in 1 .. n : g[i] = Step(g, i) BY <1>3
  <2>2. PICK x : x = IF list[n + 1] \in E THEN Append(g[n], list[n + 1]) ELSE g[n] BY Zenon
  <2>. DEFINE h == [i \in 0 .. L |-> IF i <= n THEN g[i] ELSE x]
  <2>3. h[0] = <<>> /\ h[n + 1] = x /\ \A i \in 0 .. n : h[i] = g[i] BY <1>1, <2>1
  <2>. HIDE DEF h
  <2>4. \A i \in 1 .. n + 1 : h[i] = Step(h, i)
    <3>1. TAKE i \in 1 .. n + 1
    <3>2. CASE i = n + 1
      <4>1. i - 1 = n /\ h[i - 1] = g[n] BY <2>3, <3>2
      <4>. QED BY <2>2, <2>3, <3>2, <4>1
    <3>3. CASE i # n + 1
      <4>1. i \in 1 .. n /\ i - 1 \in 0 .. n /\ i \in 0 .. n BY <3>3
      <4>. QED BY <2>1, <2>3, <4>1
    <3>. QED BY <3>2, <3>3
  <2>. QED BY <1>1, <2>3, <2>4
<1>4. L \in F
  <2>. HIDE DEF F
  <2>. QED BY <1>1, <1>2, <1>3, CountInduction
<1>5. PICK g : g[0] = <<>> /\ \A i \in 1 .. L : g[i] = Step(g, i) BY <1>4
<1>. DEFINE h == [i \in 0 .. L |-> g[i]]
<1>6. \A i \in 0 .. L : h[i] = IF i = 0 THEN <<>> ELSE Step(h, i)
  <2>1. \A i \in 0 .. L : h[i] = g[i] OBVIOUS
  <2>. HIDE DEF h
  <2>2. \A i \in 0 .. L : i # 0 => i \in 1 .. L /\ i - 1 \in 0 .. L BY <1>1
  <2>. QED BY <1>5, <2>1, <2>2
<1>7. h = [i \in 0 .. L |-> IF i = 0 THEN <<>> ELSE Step(h, i)]
  <2>1. h = [i \in 0 .. L |-> h[i]] OBVIOUS
  <2>. HIDE DEF h
  <2>. QED BY <1>6, <2>1
<1>. QED BY <1>7 DEF KeptSoFar

\* No more than the list has, and of it only what is in the set.
LEMMA KeptSmaller ==
  ASSUME NEW A, NEW list \in Seq(A), NEW E
  PROVE  /\ P!Kept(list, E) \in Seq({list[i] : i \in DOMAIN list} \cap E)
         /\ Len(P!Kept(list, E)) <= Len(list)
<1>. DEFINE L == Len(list)
            R == {list[i] : i \in DOMAIN list} \cap E
<1>1. L \in Nat /\ DOMAIN list = 1 .. L OBVIOUS
<1>2. PICK g : g = (CHOOSE f : KeptSoFar(list, E, f)) /\ KeptSoFar(list, E, g)
  BY KeptExists
<1>a. \A i \in 0 .. L : g[i] = IF i = 0 THEN <<>>
                               ELSE IF list[i] \in E THEN Append(g[i - 1], list[i]) ELSE g[i - 1]
  <2>1. KeptSoFar(list, E, g) BY <1>2
  <2>. QED BY <2>1, Zenon DEF KeptSoFar
<1>3. g[0] = <<>> /\ \A i \in 1 .. L : g[i] = IF list[i] \in E THEN Append(g[i - 1], list[i]) ELSE g[i - 1]
  <2>1. 0 \in 0 .. L /\ \A i \in 1 .. L : i \in 0 .. L /\ i # 0 BY <1>1
  <2>. QED BY <1>a, <2>1
<1>. DEFINE F == {n \in 0 .. L : g[n] \in Seq(R) /\ Len(g[n]) <= n}
<1>4. 0 \in F
  <2>. HIDE DEF R
  <2>1. 0 \in 0 .. L BY <1>1
  <2>2. g[0] \in Seq(R) /\ Len(g[0]) = 0
    <3>1. g[0] = <<>> BY <1>3
    <3>. QED BY <3>1
  <2>. QED BY <2>1, <2>2
<1>5. ASSUME NEW n \in 0 .. L - 1, n \in F PROVE n + 1 \in F
  <2>1. n + 1 \in 1 .. L /\ (n + 1) - 1 = n BY <1>1
  <2>2. g[n + 1] = IF list[n + 1] \in E THEN Append(g[n], list[n + 1]) ELSE g[n] BY <1>3, <2>1
  <2>3. g[n] \in Seq(R) /\ Len(g[n]) <= n /\ Len(g[n]) \in Nat BY <1>5
  <2>4. list[n + 1] \in E => list[n + 1] \in R BY <1>1, <2>1
  <2>. HIDE DEF R
  <2>5. CASE list[n + 1] \in E
    <3>1. g[n + 1] = Append(g[n], list[n + 1]) BY <2>2, <2>5
    <3>2. g[n + 1] \in Seq(R) /\ Len(g[n + 1]) = Len(g[n]) + 1 BY <2>3, <2>4, <2>5, <3>1
    <3>. QED BY <1>1, <2>1, <2>3, <3>2
  <2>6. CASE list[n + 1] \notin E
    <3>1. g[n + 1] = g[n] BY <2>2, <2>6
    <3>. QED BY <1>1, <2>1, <2>3, <3>1
  <2>. QED BY <2>5, <2>6
<1>6. L \in F
  <2>. HIDE DEF F
  <2>. QED BY <1>1, <1>4, <1>5, CountInduction
<1>7. P!Kept(list, E) = g[L] BY <1>2, KeptIs
<1>. QED BY <1>6, <1>7

PushPCs == {"idle", "device", "push", "send"}
PushCall == [pc : PushPCs, user : Owners \cup {None}, token : Tokens \cup {None},
             device : Devices \cup {None}, list : Seq(P!Entry), invalid : SUBSET Tokens]
Holds(list, t) == \E i \in DOMAIN list : list[i].token = t

PushTyped ==
  /\ pTokens \in [Owners -> Seq(P!Entry)] /\ pOn \in [Owners -> BOOLEAN]
  /\ pJob \in [Workers -> PushCall] /\ pCalls \in 0 .. MaxPushes
  /\ pClaims \in [Tokens -> SUBSET Owners]
\* A handler that registers has all it will write; one that sends has none of it.
PusherOK(q) ==
  /\ q.pc \in {"device", "push"} => q.user \in Owners /\ q.token \in Tokens /\ q.device \in Devices
  /\ q.pc = "send" => q.user \in Owners /\ q.token = None
  /\ q.pc = "idle" => q.token = None
\* Who has a token, and who is about to have it, registered it last or was at it then.
TokensApart ==
  \A t \in Tokens :
    /\ \A u \in Owners : Holds(pTokens[u], t) => u \in pClaims[t]
    /\ \A w \in Workers : pJob[w].token = t => pJob[w].user \in pClaims[t]

PushInv ==
  /\ PushTyped
  /\ \A w \in Workers : PusherOK(pJob[w])
  /\ TokensApart
  /\ \A u \in Owners : Len(pTokens[u]) <= MaxDevices

LEMMA PushIdle ==
  /\ P!Idle \in PushCall /\ P!Idle.token = None /\ P!Idle.pc = "idle"
  /\ PusherOK(P!Idle)
<1>1. <<>> \in Seq(P!Entry) OBVIOUS
<1>. QED BY <1>1 DEF P!Idle, PushCall, PushPCs, PusherOK

LEMMA PushBegins == ASSUME P!PushAssumption, P!Init PROVE PushInv
<1>1. /\ pTokens = [u \in Owners |-> <<>>] /\ pOn = [u \in Owners |-> TRUE]
      /\ pJob = [w \in Workers |-> P!Idle] /\ pCalls = 0 /\ pClaims = [t \in Tokens |-> {}]
  BY DEF P!Init
<1>2. \A u \in Owners : pTokens[u] = <<>> /\ \A t : ~Holds(pTokens[u], t)
  BY <1>1 DEF Holds
<1>3. pTokens \in [Owners -> Seq(P!Entry)]
  <2>1. <<>> \in Seq(P!Entry) OBVIOUS
  <2>. QED BY <1>1, <2>1
<1>4. PushTyped BY <1>1, <1>3, PushIdle DEF PushTyped, P!PushAssumption
<1>5. TokensApart
  <2>1. \A w \in Workers : pJob[w].token = None BY <1>1, PushIdle
  <2>. QED BY <1>2, <2>1 DEF TokensApart, P!PushAssumption
<1>6. \A w \in Workers : PusherOK(pJob[w]) BY <1>1, PushIdle
<1>7. \A u \in Owners : Len(pTokens[u]) <= MaxDevices BY <1>2 DEF P!PushAssumption
<1>. QED BY <1>1, <1>4, <1>5, <1>6, <1>7 DEF PushInv

\* Of a list nothing is left but what was there.
LEMMA KeptHolds ==
  ASSUME NEW list \in Seq(P!Entry), NEW E
  PROVE  /\ P!Kept(list, E) \in Seq(P!Entry) /\ Len(P!Kept(list, E)) <= Len(list)
         /\ \A t : Holds(P!Kept(list, E), t) => Holds(list, t) /\ \E e \in E : e.token = t
<1>. DEFINE K == P!Kept(list, E)
            R == {list[i] : i \in DOMAIN list} \cap E
<1>1. K \in Seq(R) /\ Len(K) <= Len(list) BY KeptSmaller
<1>2. R \subseteq P!Entry OBVIOUS
<1>3. \A e \in R : e \in E /\ \E i \in DOMAIN list : list[i] = e OBVIOUS
<1>. HIDE DEF K, R
<1>4. K \in Seq(P!Entry) BY <1>1, <1>2
<1>5. \A i \in DOMAIN K : K[i] \in R BY <1>1
<1>6. \A t : Holds(K, t) => Holds(list, t) /\ \E e \in E : e.token = t
  BY <1>3, <1>5 DEF Holds
<1>. QED BY <1>1, <1>4, <1>6 DEF K

\* The lists lose something, and handlers go on or end.
LEMMA PushFewer ==
  ASSUME PushInv, pTokens' \in [Owners -> Seq(P!Entry)],
         \A u \in Owners : Len(pTokens'[u]) <= MaxDevices,
         \A u \in Owners, t \in Tokens : Holds(pTokens'[u], t) => Holds(pTokens[u], t),
         pOn' \in [Owners -> BOOLEAN], pCalls' \in 0 .. MaxPushes,
         pClaims' = pClaims, pJob' \in [Workers -> PushCall],
         \A w \in Workers : PusherOK(pJob'[w]),
         \A w \in Workers : pJob'[w].token \in Tokens
           => pJob'[w].token = pJob[w].token /\ pJob'[w].user = pJob[w].user
  PROVE  PushInv'
<1>1. PushTyped' BY DEF PushInv, PushTyped
<1>2. TokensApart' BY SMTT(30) DEF PushInv, TokensApart
<1>. QED BY <1>1, <1>2 DEF PushInv

LEMMA PushFields ==
  ASSUME PushInv
  PROVE  /\ pTokens \in [Owners -> Seq(P!Entry)] /\ pJob \in [Workers -> PushCall]
         /\ pOn \in [Owners -> BOOLEAN] /\ pCalls \in 0 .. MaxPushes
         /\ pClaims \in [Tokens -> SUBSET Owners]
         /\ \A u \in Owners : pTokens[u] \in Seq(P!Entry) /\ Len(pTokens[u]) <= MaxDevices
         /\ \A w \in Workers : PusherOK(pJob[w])
BY DEF PushInv, PushTyped

\* A handler begins: what it is to register is what it has.
LEMMA PushBegun ==
  ASSUME P!PushAssumption, PushInv, NEW w \in Workers, NEW pc \in {"device", "send"}, NEW u \in Owners,
         NEW t \in Tokens \cup {None}, NEW d \in Devices \cup {None}, NEW list \in Seq(P!Entry),
         pc = "device" => t \in Tokens /\ d \in Devices, pc = "send" => t = None,
         P!Begin(w, pc, u, t, d, list)
  PROVE  /\ pJob' \in [Workers -> PushCall] /\ pCalls' \in 0 .. MaxPushes
         /\ pJob'[w].token = t /\ pJob'[w].user = u /\ pJob[w].token = None
         /\ \A k \in Workers : k # w => pJob'[k] = pJob[k]
         /\ \A k \in Workers : PusherOK(pJob'[k])
<1>. DEFINE q == [pc |-> pc, user |-> u, token |-> t, device |-> d, list |-> list, invalid |-> {}]
<1>1. /\ P!At(w, "idle") /\ pCalls < MaxPushes /\ pCalls' = pCalls + 1
      /\ pJob' = [pJob EXCEPT ![w] = q]
  BY DEF P!Begin
<1>2. q \in PushCall /\ q.token = t /\ q.user = u /\ PusherOK(q)
  BY DEF PushCall, PushPCs, PusherOK
<1>. HIDE DEF q
<1>3. pJob[w].token = None BY <1>1, PushFields DEF PusherOK, P!At
<1>4. pCalls' \in 0 .. MaxPushes BY <1>1, PushFields DEF P!PushAssumption
<1>5. pJob' \in [Workers -> PushCall] /\ pJob'[w] = q /\ \A k \in Workers : k # w => pJob'[k] = pJob[k]
  BY <1>1, <1>2, PushFields
<1>. QED BY <1>2, <1>3, <1>4, <1>5, PushFields

LEMMA PushTakes ==
  ASSUME P!PushAssumption, PushInv, NEW w \in Workers, NEW u \in Owners, NEW t \in Tokens,
         NEW d \in Devices, P!TakeFromOthers(w, u, t, d)
  PROVE  PushInv'
<1>. DEFINE E == {e \in P!Entry : e.token # t /\ e.device # None}
<1>1. /\ P!Begin(w, "device", u, t, d, <<>>)
      /\ pTokens' = [v \in Owners |-> IF v = u THEN pTokens[v] ELSE P!Kept(pTokens[v], E)]
      /\ pClaims' = [pClaims EXCEPT ![t] = {u} \cup P!Registering(t)]
      /\ pOn' = pOn
  BY DEF P!TakeFromOthers, P!Without
<1>2. <<>> \in Seq(P!Entry) OBVIOUS
<1>3. /\ pJob' \in [Workers -> PushCall] /\ pCalls' \in 0 .. MaxPushes
      /\ pJob'[w].token = t /\ pJob'[w].user = u /\ pJob[w].token = None
      /\ \A k \in Workers : k # w => pJob'[k] = pJob[k]
      /\ \A k \in Workers : PusherOK(pJob'[k])
  BY <1>1, <1>2, PushBegun
<1>4. \A e \in E : e.token # t OBVIOUS
<1>. HIDE DEF E
<1>5. \A v \in Owners :
        /\ pTokens'[v] \in Seq(P!Entry) /\ Len(pTokens'[v]) <= MaxDevices
        /\ \A s \in Tokens : Holds(pTokens'[v], s) => Holds(pTokens[v], s)
        /\ Holds(pTokens'[v], t) => v = u
  <2>1. TAKE v \in Owners
  <2>2. pTokens[v] \in Seq(P!Entry) /\ Len(pTokens[v]) <= MaxDevices BY PushFields
  <2>3. CASE v = u BY <1>1, <2>2, <2>3
  <2>4. CASE v # u
    <3>1. pTokens'[v] = P!Kept(pTokens[v], E) BY <1>1, <2>4
    <3>2. /\ P!Kept(pTokens[v], E) \in Seq(P!Entry)
          /\ Len(P!Kept(pTokens[v], E)) <= Len(pTokens[v])
          /\ \A s : Holds(P!Kept(pTokens[v], E), s)
               => Holds(pTokens[v], s) /\ \E e \in E : e.token = s
      BY <2>2, KeptHolds
    <3>3. Len(P!Kept(pTokens[v], E)) <= MaxDevices BY <2>2, <3>2 DEF P!PushAssumption
    <3>. QED BY <1>4, <3>1, <3>2, <3>3
  <2>. QED BY <2>3, <2>4
<1>6. pTokens' \in [Owners -> Seq(P!Entry)] BY <1>1, <1>5
<1>a. \A k \in Workers : pJob[k].token = t => pJob[k].user \in P!Registering(t)
  BY DEF P!Registering
<1>b. P!Registering(t) \subseteq Owners
  <2>1. \A k \in Workers : pJob[k].token = t => pJob[k].user \in Owners
    <3>1. \A k \in Workers : pJob[k] \in PushCall /\ PusherOK(pJob[k]) BY PushFields
    <3>. QED BY <3>1 DEF PushCall, PushPCs, PusherOK, P!PushAssumption
  <2>. QED BY <2>1 DEF P!Registering
<1>c. PICK others : others = P!Registering(t) OBVIOUS
<1>d. /\ pClaims' \in [Tokens -> SUBSET Owners] /\ pClaims'[t] = {u} \cup others
      /\ \A s \in Tokens : s # t => pClaims'[s] = pClaims[s]
  BY <1>1, <1>b, <1>c, PushFields
<1>7. PushTyped' BY <1>1, <1>3, <1>6, <1>d DEF PushInv, PushTyped
<1>8. TokensApart'
  <2>1. SUFFICES ASSUME NEW s \in Tokens
                 PROVE  /\ \A x \in Owners : Holds(pTokens'[x], s) => x \in pClaims'[s]
                        /\ \A k \in Workers : pJob'[k].token = s => pJob'[k].user \in pClaims'[s]
    BY DEF TokensApart
  <2>2. /\ \A x \in Owners : Holds(pTokens[x], s) => x \in pClaims[s]
        /\ \A k \in Workers : pJob[k].token = s => pJob[k].user \in pClaims[s]
    BY DEF PushInv, TokensApart
  <2>3. CASE s = t
    <3>1. \A k \in Workers : k # w /\ pJob'[k].token = t => pJob'[k].user \in others
      BY <1>3, <1>a, <1>c
    <3>. QED BY <1>3, <1>5, <1>d, <2>3, <3>1
  <2>4. CASE s # t
    <3>1. \A k \in Workers : pJob'[k].token = s => k # w /\ pJob'[k] = pJob[k] BY <1>3, <2>4
    <3>. QED BY <1>5, <1>d, <2>2, <2>4, <3>1
  <2>. QED BY <2>3, <2>4
<1>. QED BY <1>1, <1>3, <1>5, <1>7, <1>8, PushFields DEF PushInv

LEMMA PushStores ==
  ASSUME P!PushAssumption, PushInv, NEW w \in Workers, P!PushToken(w) PROVE PushInv'
<1>. DEFINE q == pJob[w]
            n == [token |-> q.token, device |-> q.device]
            list == <<n>> \o pTokens[q.user]
            m == IF Len(list) < MaxDevices THEN Len(list) ELSE MaxDevices
            cut == SubSeq(list, 1, m)
<1>1. /\ P!At(w, "push") /\ pTokens' = [pTokens EXCEPT ![q.user] = cut]
      /\ pJob' = [pJob EXCEPT ![w] = P!Idle]
      /\ pOn' = pOn /\ pCalls' = pCalls /\ pClaims' = pClaims
  BY DEF P!PushToken
<1>2. q.user \in Owners /\ q.token \in Tokens /\ q.device \in Devices
  BY <1>1, PushFields DEF PusherOK, P!At
<1>3. n \in P!Entry /\ n.token = q.token BY <1>2 DEF P!Entry
<1>4. pTokens[q.user] \in Seq(P!Entry) BY <1>2, PushFields
<1>. HIDE DEF n
<1>5. /\ list \in Seq(P!Entry) /\ Len(list) = Len(pTokens[q.user]) + 1 /\ Len(pTokens[q.user]) \in Nat
      /\ list[1] = n
      /\ \A i \in 2 .. Len(list) : i - 1 \in DOMAIN pTokens[q.user] /\ list[i] = pTokens[q.user][i - 1]
  BY <1>3, <1>4
<1>. HIDE DEF list
<1>6. MaxDevices \in Nat BY DEF P!PushAssumption
<1>7. m \in 0 .. Len(list) /\ m <= MaxDevices BY <1>5, <1>6
<1>. HIDE DEF m
<1>8. cut \in Seq(P!Entry) /\ Len(cut) = m /\ \A i \in 1 .. m : cut[i] = list[i]
  BY <1>5, <1>7
<1>9. \A s : Holds(cut, s) => Holds(pTokens[q.user], s) \/ s = q.token
  <2>1. DOMAIN cut = 1 .. m BY <1>8
  <2>2. \A i \in 1 .. m : cut[i] = n \/ \E j \in DOMAIN pTokens[q.user] : cut[i] = pTokens[q.user][j]
    <3>1. TAKE i \in 1 .. m
    <3>2. i = 1 \/ i \in 2 .. Len(list) BY <1>5, <1>7
    <3>. QED BY <1>5, <1>8, <3>2
  <2>. QED BY <1>3, <2>1, <2>2 DEF Holds
<1>. HIDE DEF cut
<1>10. /\ pTokens' \in [Owners -> Seq(P!Entry)] /\ pTokens'[q.user] = cut
       /\ \A v \in Owners : v # q.user => pTokens'[v] = pTokens[v]
  BY <1>1, <1>2, <1>8, PushFields
<1>11. /\ pJob' \in [Workers -> PushCall] /\ pJob'[w] = P!Idle
       /\ \A k \in Workers : k # w => pJob'[k] = pJob[k]
  BY <1>1, PushFields, PushIdle
<1>12. PushTyped' BY <1>1, <1>10, <1>11 DEF PushInv, PushTyped
<1>13. \A v \in Owners, s \in Tokens :
         Holds(pTokens'[v], s) => Holds(pTokens[v], s) \/ (v = q.user /\ s = q.token)
  BY <1>9, <1>10
<1>14. TokensApart'
  <2>1. SUFFICES ASSUME NEW s \in Tokens
                 PROVE  /\ \A x \in Owners : Holds(pTokens'[x], s) => x \in pClaims[s]
                        /\ \A k \in Workers : pJob'[k].token = s => pJob'[k].user \in pClaims[s]
    BY <1>1 DEF TokensApart
  <2>2. /\ \A x \in Owners : Holds(pTokens[x], s) => x \in pClaims[s]
        /\ \A k \in Workers : pJob[k].token = s => pJob[k].user \in pClaims[s]
    BY DEF PushInv, TokensApart
  <2>3. \A k \in Workers : pJob'[k].token = s => k # w /\ pJob'[k] = pJob[k]
    BY <1>11, PushIdle, <2>1 DEF P!PushAssumption
  <2>. QED BY <1>13, <2>2, <2>3
<1>15. \A v \in Owners : Len(pTokens'[v]) <= MaxDevices BY <1>7, <1>8, <1>10, PushFields
<1>16. \A k \in Workers : PusherOK(pJob'[k]) BY <1>1, <1>11, PushIdle, PushFields
<1>. QED BY <1>1, <1>12, <1>14, <1>15, <1>16, PushFields DEF PushInv

LEMMA PushDrops ==
  ASSUME P!PushAssumption, PushInv, NEW u \in Owners, NEW d,
         pTokens' = [pTokens EXCEPT ![u] = P!Without(@, None, d)],
         pOn' = pOn, pCalls' = pCalls, pClaims' = pClaims,
         pJob' \in [Workers -> PushCall], \A w \in Workers : PusherOK(pJob'[w]),
         \A w \in Workers : pJob'[w].token \in Tokens
           => pJob'[w].token = pJob[w].token /\ pJob'[w].user = pJob[w].user
  PROVE  PushInv'
<1>1. PICK E : P!Without(pTokens[u], None, d) = P!Kept(pTokens[u], E)
  BY DEF P!Without
<1>2. PICK list : list = P!Kept(pTokens[u], E) OBVIOUS
<1>3. pTokens[u] \in Seq(P!Entry) /\ Len(pTokens[u]) <= MaxDevices BY PushFields
<1>4. /\ list \in Seq(P!Entry) /\ Len(list) <= Len(pTokens[u])
      /\ \A t : Holds(list, t) => Holds(pTokens[u], t)
  BY <1>2, <1>3, KeptHolds
<1>5. Len(list) <= MaxDevices BY <1>3, <1>4 DEF P!PushAssumption
<1>6. pTokens' = [pTokens EXCEPT ![u] = list] BY <1>1, <1>2
<1>7. /\ pTokens' \in [Owners -> Seq(P!Entry)] /\ pTokens'[u] = list
      /\ \A v \in Owners : v # u => pTokens'[v] = pTokens[v]
  BY <1>4, <1>6, PushFields
<1>8. \A v \in Owners : /\ Len(pTokens'[v]) <= MaxDevices
                        /\ \A t \in Tokens : Holds(pTokens'[v], t) => Holds(pTokens[v], t)
  BY <1>4, <1>5, <1>7, PushFields
<1>. QED BY <1>7, <1>8, PushFields, PushFewer

LEMMA PushSends ==
  ASSUME P!PushAssumption, PushInv, NEW w \in Workers,
         (\E u \in Owners : P!SendFind(w, u)) \/ P!SendToToken(w) \/ P!BreakOff(w)
  PROVE  PushInv'
<1>1. /\ pTokens' = pTokens /\ pOn' = pOn /\ pClaims' = pClaims
  BY DEF P!SendFind, P!SendToToken, P!BreakOff
<1>2. /\ pTokens' \in [Owners -> Seq(P!Entry)] /\ pOn' \in [Owners -> BOOLEAN]
      /\ \A u \in Owners : Len(pTokens'[u]) <= MaxDevices
      /\ \A u \in Owners, t \in Tokens : Holds(pTokens'[u], t) => Holds(pTokens[u], t)
  BY <1>1, PushFields
<1>3. /\ pJob' \in [Workers -> PushCall] /\ pCalls' \in 0 .. MaxPushes
      /\ \A k \in Workers : PusherOK(pJob'[k])
      /\ \A k \in Workers : pJob'[k].token \in Tokens
           => pJob'[k].token = pJob[k].token /\ pJob'[k].user = pJob[k].user
  <2>1. ASSUME NEW u \in Owners, P!SendFind(w, u) PROVE <1>3
    <3>1. P!Begin(w, "send", u, None, None, pTokens[u]) BY <2>1 DEF P!SendFind
    <3>2. pTokens[u] \in Seq(P!Entry) BY PushFields
    <3>3. /\ pJob' \in [Workers -> PushCall] /\ pCalls' \in 0 .. MaxPushes
          /\ pJob'[w].token = None
          /\ \A k \in Workers : k # w => pJob'[k] = pJob[k]
          /\ \A k \in Workers : PusherOK(pJob'[k])
      BY <3>1, <3>2, PushBegun
    <3>. QED BY <3>3 DEF P!PushAssumption
  <2>2. CASE P!BreakOff(w)
    <3>1. pJob' = [pJob EXCEPT ![w] = P!Idle] /\ pCalls' = pCalls BY <2>2 DEF P!BreakOff
    <3>2. pJob' \in [Workers -> PushCall] /\ pJob'[w] = P!Idle
          /\ \A k \in Workers : k # w => pJob'[k] = pJob[k]
      BY <3>1, PushFields, PushIdle
    <3>. QED BY <3>1, <3>2, PushFields, PushIdle DEF P!PushAssumption
  <2>3. CASE P!SendToToken(w)
    <3>. DEFINE q == pJob[w]
    <3>1. q.pc = "send" /\ q.list # <<>> /\ pCalls' = pCalls
      BY <2>3 DEF P!SendToToken, P!At
    <3>2. q \in PushCall /\ PusherOK(q) BY PushFields
    <3>3. q.list \in Seq(P!Entry) BY <3>2 DEF PushCall
    <3>4. PICK rest \in Seq(P!Entry) : rest = Tail(q.list)
      <4>1. ASSUME NEW A, NEW s \in Seq(A), s # <<>> PROVE Tail(s) \in Seq(A) BY <4>1
      <4>2. Tail(q.list) \in Seq(P!Entry) BY <3>1, <3>3, <4>1
      <4>. QED BY <4>2
    <3>5. PICK first \in Tokens : first = Head(q.list).token
      <4>1. Head(q.list) \in P!Entry BY <3>1, <3>3
      <4>. QED BY <4>1 DEF P!Entry
    <3>6. PICK invalid \in {{}, {first}} : pJob' = [pJob EXCEPT ![w].list = Tail(@),
                                                            ![w].invalid = @ \cup invalid]
      BY <2>3, <3>5 DEF P!SendToToken
    <3>7. PICK gone \in SUBSET Tokens : gone = q.invalid \cup invalid
      BY <3>2, <3>6 DEF PushCall
    <3>8. PICK j : j = [q EXCEPT !.list = rest, !.invalid = gone] OBVIOUS
    <3>9. j \in PushCall /\ j.token = q.token /\ j.user = q.user /\ j.pc = q.pc
      BY <3>2, <3>4, <3>7, <3>8 DEF PushCall
    <3>10. PusherOK(j) BY <3>1, <3>2, <3>9 DEF PusherOK
    <3>a. pJob' = [pJob EXCEPT ![w] = j]
      BY <3>2, <3>4, <3>6, <3>7, <3>8, PushFields DEF PushCall
    <3>11. /\ pJob' \in [Workers -> PushCall] /\ pJob'[w] = j
           /\ \A k \in Workers : k # w => pJob'[k] = pJob[k]
      BY <3>9, <3>a, PushFields
    <3>. QED BY <3>1, <3>9, <3>10, <3>11, PushFields
  <2>. QED BY <2>1, <2>2, <2>3
<1>. QED BY <1>1, <1>2, <1>3, PushFewer

LEMMA PushCleans ==
  ASSUME P!PushAssumption, PushInv, NEW w \in Workers, P!RemoveInvalid(w) PROVE PushInv'
<1>. DEFINE q == pJob[w]
            E == {e \in P!Entry : e.token \notin q.invalid}
<1>1. /\ q.pc = "send" /\ pTokens' = [pTokens EXCEPT ![q.user] = P!Kept(@, E)]
      /\ pJob' = [pJob EXCEPT ![w] = P!Idle]
      /\ pOn' = pOn /\ pCalls' = pCalls /\ pClaims' = pClaims
  BY DEF P!RemoveInvalid, P!At
<1>. HIDE DEF E
<1>2. q.user \in Owners BY <1>1, PushFields DEF PusherOK
<1>3. PICK list : list = P!Kept(pTokens[q.user], E) OBVIOUS
<1>4. pTokens[q.user] \in Seq(P!Entry) /\ Len(pTokens[q.user]) <= MaxDevices BY <1>2, PushFields
<1>5. /\ list \in Seq(P!Entry) /\ Len(list) <= Len(pTokens[q.user])
      /\ \A t : Holds(list, t) => Holds(pTokens[q.user], t)
  BY <1>3, <1>4, KeptHolds
<1>6. Len(list) <= MaxDevices BY <1>4, <1>5 DEF P!PushAssumption
<1>7. pTokens' = [pTokens EXCEPT ![q.user] = list] BY <1>1, <1>3
<1>8. /\ pTokens' \in [Owners -> Seq(P!Entry)] /\ pTokens'[q.user] = list
      /\ \A v \in Owners : v # q.user => pTokens'[v] = pTokens[v]
  BY <1>2, <1>5, <1>7, PushFields
<1>9. \A v \in Owners : /\ Len(pTokens'[v]) <= MaxDevices
                        /\ \A t \in Tokens : Holds(pTokens'[v], t) => Holds(pTokens[v], t)
  BY <1>5, <1>6, <1>8, PushFields
<1>11. pJob' \in [Workers -> PushCall] /\ pJob'[w] = P!Idle
       /\ \A k \in Workers : k # w => pJob'[k] = pJob[k]
  BY <1>1, PushFields, PushIdle
<1>12. /\ \A k \in Workers : PusherOK(pJob'[k])
       /\ \A k \in Workers : pJob'[k].token \in Tokens
            => pJob'[k].token = pJob[k].token /\ pJob'[k].user = pJob[k].user
  BY <1>1, <1>11, PushFields, PushIdle DEF P!PushAssumption
<1>. QED BY <1>1, <1>8, <1>9, <1>11, <1>12, PushFields, PushFewer

LEMMA PushStep == ASSUME P!PushAssumption, PushInv, [P!Next]_ofPushes PROVE PushInv'
<1>1. CASE UNCHANGED ofPushes
  <2>1. /\ pTokens' = pTokens /\ pOn' = pOn /\ pJob' = pJob /\ pCalls' = pCalls
        /\ pClaims' = pClaims
    BY <1>1 DEF ofPushes
  <2>. QED BY <2>1 DEF PushInv, PushTyped, TokensApart
<1>2. ASSUME NEW w \in Workers, P!DropDevice(w) PROVE PushInv'
  <2>. DEFINE q == pJob[w]
  <2>1. /\ q.pc = "device" /\ pTokens' = [pTokens EXCEPT ![q.user] = P!Without(@, None, q.device)]
        /\ pJob' = [pJob EXCEPT ![w] = [q EXCEPT !.pc = "push"]]
        /\ pOn' = pOn /\ pCalls' = pCalls /\ pClaims' = pClaims
    BY <1>2 DEF P!DropDevice, P!At
  <2>2. q \in PushCall /\ PusherOK(q) BY PushFields
  <2>3. q.user \in Owners BY <2>1, <2>2 DEF PusherOK
  <2>4. PICK j : j = [q EXCEPT !.pc = "push"] OBVIOUS
  <2>5. /\ j \in PushCall /\ j.token = q.token /\ j.user = q.user /\ j.device = q.device
        /\ j.pc = "push" /\ j.invalid = q.invalid
    BY <2>2, <2>4 DEF PushCall, PushPCs
  <2>6. PusherOK(j) BY <2>1, <2>2, <2>5 DEF PusherOK
  <2>7. /\ pJob' \in [Workers -> PushCall] /\ pJob'[w] = j
        /\ \A k \in Workers : k # w => pJob'[k] = pJob[k]
    BY <2>1, <2>4, <2>5, PushFields
  <2>8. /\ \A k \in Workers : PusherOK(pJob'[k])
        /\ \A k \in Workers : pJob'[k].token \in Tokens
             => pJob'[k].token = pJob[k].token /\ pJob'[k].user = pJob[k].user
    BY <2>5, <2>6, <2>7, PushFields
  <2>9. PICK u \in Owners : u = q.user BY <2>3
  <2>10. PICK d : d = q.device OBVIOUS
  <2>11. pTokens' = [pTokens EXCEPT ![u] = P!Without(@, None, d)] BY <2>1, <2>9, <2>10
  <2>. QED BY <2>1, <2>7, <2>8, <2>9, <2>11, PushDrops
<1>3. ASSUME NEW u \in Owners, NEW d \in Devices, P!UnregisterToken(u, d) PROVE PushInv'
  <2>1. /\ pTokens' = [pTokens EXCEPT ![u] = P!Without(@, None, d)]
        /\ pJob' = pJob /\ pOn' = pOn /\ pCalls' = pCalls /\ pClaims' = pClaims
    BY <1>3 DEF P!UnregisterToken
  <2>. QED BY <2>1, PushFields, PushDrops
<1>4. ASSUME NEW u \in Owners, P!Switch(u) PROVE PushInv'
  <2>1. /\ pCalls < MaxPushes /\ pCalls' = pCalls + 1 /\ pOn' = [pOn EXCEPT ![u] = ~@]
        /\ pTokens' = pTokens /\ pJob' = pJob /\ pClaims' = pClaims
    BY <1>4 DEF P!Switch
  <2>2. pOn' \in [Owners -> BOOLEAN] BY <2>1, PushFields
  <2>3. pCalls' \in 0 .. MaxPushes BY <2>1, PushFields DEF P!PushAssumption
  <2>. QED BY <2>1, <2>2, <2>3, PushFields, PushFewer
<1>. QED
  BY <1>1, <1>2, <1>3, <1>4, PushTakes, PushStores, PushSends, PushCleans DEF P!Next

LEMMA PushHonestly == PushInv => P!TokensOwned
BY DEF PushInv, TokensApart, Holds, P!HasToken, P!TokensOwned

-----------------------------------------------------------------------------
\* For any users, senders, devices, handlers and bounds: one notice of a thing within a
\* minute unless two were made at once (createNotification); a device's token is with
\* nobody but who registered it last, or was registering it when he did, whatever a send
\* takes out meanwhile (registerToken, sendToUser); everybody who views a snap counts, and
\* no more than once but for each view he began beside another of his, a reaction is of one
\* who had access, and neither rail nor inbox shows what has expired, nor what has lost its
\* media but in the middle of a deletion or after one broke off (viewSnap, reactToSnap,
\* getSnapsRail, deleteSnap).
THEOREM RecipientsHeld == MCSpec => []RecipientsHonest
<1>. DEFINE Inv == NoticesInv /\ PushInv /\ SnapsInv
<1>1. MCInit => Inv
  BY NoticeBounds, PushBounds, SnapBounds, NoticesBegin, PushBegins, SnapsBegin DEF MCInit
<1>2. Inv /\ [MCNext]_<<part, vars, ofCalls, ofNotices, ofPushes, ofSnaps, ofDirect>> => Inv'
  <2>1. [MCNext]_<<part, vars, ofCalls, ofNotices, ofPushes, ofSnaps, ofDirect>>
          => [N!Next]_ofNotices /\ [P!Next]_ofPushes /\ [S!Next]_ofSnaps
    BY DEF MCNext, ofNotices, ofPushes, ofSnaps
  <2>. QED BY <2>1, NoticeBounds, PushBounds, SnapBounds, NoticesStep, PushStep, SnapsStep
<1>3. Inv => RecipientsHonest
  BY PushHonestly, SnapsHonestly DEF NoticesInv, RecipientsHonest
<1>. QED BY <1>1, <1>2, <1>3, PTL DEF MCSpec

-----------------------------------------------------------------------------
(* The ranges of the variables                                                  *)

SocketPCs == {"idle", "join", "insert", "summary", "broadcast", "seen", "readBy", "react", "unreact"}
SocketCall == [pc : SocketPCs, seen : SUBSET Users, msg : Messages \cup {None}]
SocketOK(q) == q.pc \in SocketPCs \ {"idle", "join", "insert"} => q.msg \in Messages
SocketsTyped ==
  /\ sReq \in [Sockets -> SocketCall] /\ \A s \in Sockets : SocketOK(sReq[s])
  /\ \A s \in Sockets : sReq[s].pc # "idle" => s \in up
MarksTyped ==
  /\ sender \in [Messages -> Users]
  /\ last \in Messages \cup {None}
  /\ reacted \in [Messages -> SUBSET Users]
  /\ readBy \in [Messages -> SUBSET Users]
RoomsTyped ==
  /\ up \subseteq Sockets /\ joined \subseteq up /\ hears \subseteq Processes /\ sEvents \in 0 .. MaxEvents
GroupRest ==
  /\ group \in {"none", "live", "deleted"}
  /\ messages \in [Messages -> {"unsent", "stored", "hidden", "erased"}]
  /\ announced \in Nat /\ gCalls \in 0 .. MaxCalls
RealtimeTyped == GroupInv /\ WayInv /\ GroupRest /\ MarksTyped /\ RoomsTyped /\ SocketsTyped

LEMMA RealtimeInRange == RealtimeTyped => TypeOK
<1>1. ASSUME WayInv PROVE got \in [Sockets -> [Messages -> Nat]] /\ queue \in [Processes -> Seq(Frame)]
                          /\ audience \in [Messages -> SUBSET Sockets]
  BY <1>1 DEF WayInv, WayTyped
<1>2. GroupInv /\ GroupRest => GroupTypeOK
  BY DEF GroupInv, GroupTyped, HandlersInv, GroupRest, GroupTypeOK
<1>. QED BY <1>1, <1>2 DEF RealtimeTyped, TypeOK, MarksTyped, RoomsTyped, SocketsTyped, SocketCall,
            SocketPCs

LEMMA GroupRange ==
  ASSUME GroupRest, MaxCalls \in Nat, NEW r \in Requests, GroupStep(r) PROVE GroupRest'
<1>1. CASE messages' = messages /\ announced' = announced /\ group' = group
  <2>1. gCalls' = gCalls \/ (gCalls < MaxCalls /\ gCalls' = gCalls + 1)
    <3>1. CASE \/ AddUpdate(r) \/ RemoveUpdate(r) \/ LeaveUpdate(r) \/ InfoUpdate(r)
               \/ PromoteUpdate(r) \/ DemoteUpdate(r) \/ WipeMessages(r) \/ DropGroup(r)
               \/ Announce(r) \/ Abandon(r)
      BY <3>1 DEF AddUpdate, RemoveUpdate, LeaveUpdate, InfoUpdate, PromoteUpdate,
         DemoteUpdate, WipeMessages, DropGroup, Announce, Abandon, Update
    <3>2. CASE BeginCall(r)
      BY <3>2 DEF BeginCall, CreateGroup, AddFind, RemoveFind, LeaveFind, PromoteFind, DemoteFind,
         InfoFind, DeleteFind, Begin, Free
    <3>. QED BY <3>1, <3>2 DEF GroupStep
  <2>2. gCalls' \in 0 .. MaxCalls BY <2>1 DEF GroupRest
  <2>. QED BY <1>1, <2>2 DEF GroupRest
<1>2. CASE WipeMessages(r)
  BY <1>2 DEF WipeMessages, GroupRest, members
<1>3. CASE DropGroup(r) BY <1>3 DEF DropGroup, GroupRest
<1>4. CASE Announce(r) BY <1>4 DEF Announce, GroupRest, members
<1>5. CASE \E ids \in SUBSET Users : \E odd \in SUBSET ids : CreateGroup(r, ids, odd)
  BY <1>5 DEF CreateGroup, Free, GroupRest
<1>6. \/ messages' = messages /\ announced' = announced /\ group' = group
      \/ WipeMessages(r) \/ DropGroup(r) \/ Announce(r)
      \/ \E ids \in SUBSET Users : \E odd \in SUBSET ids : CreateGroup(r, ids, odd)
  BY DEF GroupStep, BeginCall, AddFind, RemoveFind, LeaveFind, PromoteFind, DemoteFind,
     InfoFind, DeleteFind, AddUpdate, RemoveUpdate, LeaveUpdate, InfoUpdate, PromoteUpdate,
     DemoteUpdate, Abandon, Begin, Update, TakeOut, members
<1>. QED BY <1>1, <1>2, <1>3, <1>4, <1>5, <1>6

\* A socket's handler goes on.
LEMMA SocketMoves ==
  ASSUME SocketsTyped, NEW s \in Sockets, s \in up', NEW pc \in SocketPCs, NEW seen \in SUBSET Users,
         NEW m \in Messages \cup {None}, pc \in SocketPCs \ {"idle", "join", "insert"} => m \in Messages,
         sReq' = [sReq EXCEPT ![s] = [pc |-> pc, seen |-> seen, msg |-> m]], up \subseteq up'
  PROVE  SocketsTyped'
<1>. DEFINE q == [pc |-> pc, seen |-> seen, msg |-> m]
<1>1. q \in SocketCall /\ SocketOK(q) BY DEF SocketCall, SocketOK
<1>. HIDE DEF q
<1>2. sReq' \in [Sockets -> SocketCall] /\ sReq'[s] = q
      /\ \A t \in Sockets : t # s => sReq'[t] = sReq[t]
  <2>1. sReq' = [sReq EXCEPT ![s] = q] BY DEF q
  <2>. QED BY <1>1, <2>1 DEF SocketsTyped
<1>. QED BY <1>1, <1>2 DEF SocketsTyped

LEMMA SocketRests ==
  ASSUME SocketsTyped, NEW s \in Sockets, SEnd(s), up' = up PROVE SocketsTyped'
<1>1. AtRest \in SocketCall /\ SocketOK(AtRest) /\ AtRest.pc = "idle"
  BY DEF AtRest, SocketCall, SocketPCs, SocketOK
<1>2. sReq' \in [Sockets -> SocketCall] /\ sReq'[s] = AtRest
      /\ \A t \in Sockets : t # s => sReq'[t] = sReq[t]
  BY <1>1 DEF SEnd, SocketsTyped
<1>. QED BY <1>1, <1>2 DEF SocketsTyped

LEMMA SocketStarts ==
  ASSUME RealtimeTyped, MaxEvents \in Nat, NEW s \in Sockets, NEW pc \in SocketPCs,
         NEW seen \in SUBSET Users, NEW m \in Messages \cup {None},
         pc \in SocketPCs \ {"idle", "join", "insert"} => m \in Messages,
         Start(s, pc, seen, m)
  PROVE  GroupRest' /\ MarksTyped' /\ RoomsTyped' /\ SocketsTyped'
<1>1. /\ sReq' = [sReq EXCEPT ![s] = [pc |-> pc, seen |-> seen, msg |-> m]]
      /\ s \in up /\ UNCHANGED <<group, messages, announced, gCalls, sender, last, reacted, readBy>>
      /\ up' = up /\ joined' = joined /\ hears' = hears /\ sEvents < MaxEvents /\ sEvents' = sEvents + 1
  BY DEF Start, Event, SGoto, gVars, members, chat, rooms, redis
<1>2. GroupRest' /\ MarksTyped' BY <1>1 DEF RealtimeTyped, GroupRest, MarksTyped
<1>3. RoomsTyped' BY <1>1 DEF RealtimeTyped, RoomsTyped
<1>4. SocketsTyped' BY <1>1, SocketMoves DEF RealtimeTyped
<1>. QED BY <1>2, <1>3, <1>4

LEMMA SocketFinds ==
  ASSUME RealtimeTyped, MaxEvents \in Nat, NEW s \in Sockets,
         \/ JoinFind(s) \/ SendFind(s)
         \/ \E m \in Messages : MarkSeenFind(s, m) \/ ReactFind(s, m) \/ UnreactFind(s, m)
  PROVE  GroupRest' /\ MarksTyped' /\ RoomsTyped' /\ SocketsTyped'
<1>1. PICK pc \in SocketPCs, seen \in SUBSET Users, m \in Messages \cup {None} :
        /\ pc \in SocketPCs \ {"idle", "join", "insert"} => m \in Messages
        /\ Start(s, pc, seen, m)
  <2>1. participants \subseteq Users BY DEF RealtimeTyped, GroupInv, GroupTyped
  <2>2. CASE JoinFind(s) BY <2>2 DEF JoinFind, StartAuthorized, SocketPCs
  <2>3. CASE SendFind(s) BY <2>1, <2>3 DEF SendFind, StartAuthorized, SocketPCs
  <2>4. ASSUME NEW m \in Messages, MarkSeenFind(s, m) \/ ReactFind(s, m) \/ UnreactFind(s, m)
        PROVE  \E pc \in SocketPCs : Start(s, pc, {}, m)
    BY <2>4 DEF MarkSeenFind, ReactFind, UnreactFind, StartAuthorized, SocketPCs
  <2>. QED BY <2>2, <2>3, <2>4
<1>. QED BY <1>1, SocketStarts

LEMMA SocketMarks ==
  ASSUME RealtimeTyped, NEW s \in Sockets,
         MarkSeenMessage(s) \/ AddReaction(s) \/ RemoveReaction(s)
  PROVE  GroupRest' /\ MarksTyped' /\ RoomsTyped' /\ SocketsTyped'
<1>1. sReq[s].msg \in Messages
  BY DEF MarkSeenMessage, AddReaction, RemoveReaction, Mark, SAt, RealtimeTyped, SocketsTyped,
     SocketOK, SocketPCs
<1>2. /\ SEnd(s) /\ UNCHANGED <<group, messages, announced, gCalls, sender, last>>
      /\ up' = up /\ joined' = joined /\ hears' = hears /\ sEvents' = sEvents
  BY DEF MarkSeenMessage, AddReaction, RemoveReaction, Mark, gVars, members, rooms, redis
<1>3. Owner(s) \in Users BY RealtimeAssumption
<1>4. readBy' \in [Messages -> SUBSET Users] /\ reacted' \in [Messages -> SUBSET Users]
  <2>1. CASE MarkSeenMessage(s)
    BY <1>1, <1>3, <2>1 DEF MarkSeenMessage, Mark, RealtimeTyped, MarksTyped
  <2>2. CASE AddReaction(s)
    BY <1>1, <1>3, <2>2 DEF AddReaction, Mark, RealtimeTyped, MarksTyped
  <2>3. CASE RemoveReaction(s)
    BY <1>1, <1>3, <2>3 DEF RemoveReaction, Mark, RealtimeTyped, MarksTyped
  <2>. QED BY <2>1, <2>2, <2>3
<1>5. SocketsTyped' BY <1>2, SocketRests DEF RealtimeTyped
<1>. QED BY <1>2, <1>4, <1>5 DEF RealtimeTyped, GroupRest, MarksTyped, RoomsTyped

LEMMA SocketSends ==
  ASSUME RealtimeTyped, MaxEvents \in Nat, NEW s \in Sockets,
         \/ Summarise(s) \/ Broadcast(s) \/ MarkSeenCount(s)
         \/ \E m \in Messages : InsertMessage(s, m)
  PROVE  GroupRest' /\ MarksTyped' /\ RoomsTyped' /\ SocketsTyped'
<1>1. Owner(s) \in Users BY RealtimeAssumption
<1>2. SocketOK(sReq[s]) /\ sReq[s] \in SocketCall /\ (sReq[s].pc # "idle" => s \in up)
  BY DEF RealtimeTyped, SocketsTyped
<1>3. CASE Summarise(s)
  <2>1. /\ sReq[s].pc = "summary" /\ last' \in {last, sReq[s].msg}
        /\ sReq' = [sReq EXCEPT ![s] = [pc |-> "broadcast", seen |-> {}, msg |-> sReq[s].msg]]
        /\ UNCHANGED <<group, messages, announced, gCalls, sender, reacted, readBy>>
        /\ up' = up /\ joined' = joined /\ hears' = hears /\ sEvents' = sEvents
    BY <1>3 DEF Summarise, SAt, SGoto, members, rooms, redis
  <2>2. sReq[s].msg \in Messages BY <1>2, <2>1 DEF SocketOK, SocketPCs
  <2>3. SocketsTyped' BY <1>2, <2>1, <2>2, SocketMoves DEF RealtimeTyped, SocketPCs
  <2>. QED BY <2>1, <2>2, <2>3 DEF RealtimeTyped, GroupRest, MarksTyped, RoomsTyped
<1>4. CASE Broadcast(s)
  <2>1. /\ SEnd(s) /\ UNCHANGED <<group, messages, announced, gCalls, sender, last, reacted, readBy>>
        /\ up' = up /\ joined' = joined /\ hears' = hears /\ sEvents' = sEvents
    BY <1>4 DEF Broadcast, gVars, members, chat, rooms
  <2>2. SocketsTyped' BY <2>1, SocketRests DEF RealtimeTyped
  <2>. QED BY <2>1, <2>2 DEF RealtimeTyped, GroupRest, MarksTyped, RoomsTyped
<1>5. CASE MarkSeenCount(s)
  <2>1. /\ sReq[s].pc = "seen"
        /\ sReq' = [sReq EXCEPT ![s] = [pc |-> "readBy", seen |-> {}, msg |-> sReq[s].msg]]
        /\ UNCHANGED <<group, messages, announced, gCalls, sender, last, reacted, readBy>>
        /\ up' = up /\ joined' = joined /\ hears' = hears /\ sEvents' = sEvents
    BY <1>5 DEF MarkSeenCount, SAt, SGoto, members, rooms, redis, chat
  <2>2. sReq[s].msg \in Messages BY <1>2, <2>1 DEF SocketOK, SocketPCs
  <2>3. SocketsTyped' BY <1>2, <2>1, <2>2, SocketMoves DEF RealtimeTyped, SocketPCs
  <2>. QED BY <2>1, <2>3 DEF RealtimeTyped, GroupRest, MarksTyped, RoomsTyped
<1>6. ASSUME NEW m \in Messages, InsertMessage(s, m)
      PROVE  GroupRest' /\ MarksTyped' /\ RoomsTyped' /\ SocketsTyped'
  <2>1. /\ sReq[s].pc = "insert"
        /\ sReq' = [sReq EXCEPT ![s] = [pc |-> "summary", seen |-> sReq[s].seen, msg |-> m]]
        /\ messages' = [messages EXCEPT ![m] = "stored"] /\ sender' = [sender EXCEPT ![m] = Owner(s)]
        /\ UNCHANGED <<group, announced, gCalls, last, reacted, readBy>>
        /\ up' = up /\ joined' = joined /\ hears' = hears /\ sEvents' = sEvents
    BY <1>6 DEF InsertMessage, SAt, SGoto, members, rooms, redis
  <2>2. sReq[s].seen \in SUBSET Users BY <1>2 DEF SocketCall
  <2>3. SocketsTyped' BY <1>2, <2>1, <2>2, SocketMoves DEF RealtimeTyped, SocketPCs
  <2>4. GroupRest' BY <2>1 DEF RealtimeTyped, GroupRest
  <2>5. MarksTyped' BY <1>1, <2>1 DEF RealtimeTyped, MarksTyped
  <2>. QED BY <2>1, <2>3, <2>4, <2>5 DEF RealtimeTyped, RoomsTyped
<1>. QED BY <1>3, <1>4, <1>5, <1>6

LEMMA SocketMovesAbout ==
  ASSUME RealtimeTyped, MaxEvents \in Nat, NEW s \in Sockets,
         \/ Connect(s) \/ Close(s) \/ Fail(s) \/ JoinRoom(s) \/ LeaveRoom(s)
         \/ \E m \in Messages : DeleteMessage(s, m)
  PROVE  GroupRest' /\ MarksTyped' /\ RoomsTyped' /\ SocketsTyped'
<1>0. sEvents' \in 0 .. MaxEvents
  BY DEF Connect, Close, Fail, JoinRoom, LeaveRoom, DeleteMessage, Event, RealtimeTyped, RoomsTyped
<1>1. /\ UNCHANGED <<group, announced, gCalls, sender, last, reacted, readBy>> /\ hears' = hears
  BY DEF Connect, Close, Fail, JoinRoom, LeaveRoom, DeleteMessage, Hide, gVars, members, chat, redis,
     rooms
<1>2. GroupRest' /\ MarksTyped'
  <2>1. \/ messages' = messages
        \/ \E m \in Messages : messages' = [messages EXCEPT ![m] = "hidden"]
    BY DEF Connect, Close, Fail, JoinRoom, LeaveRoom, DeleteMessage, Hide, gVars
  <2>2. messages' \in [Messages -> {"unsent", "stored", "hidden", "erased"}]
    BY <2>1 DEF RealtimeTyped, GroupRest
  <2>. QED BY <1>1, <2>2 DEF RealtimeTyped, GroupRest, MarksTyped
<1>3. \/ sReq' = sReq
      \/ SEnd(s) /\ up' = up
  BY DEF Connect, Close, Fail, JoinRoom, LeaveRoom, DeleteMessage, rooms
<1>4. CASE Connect(s)
  <2>1. up' = up \cup {s} /\ sReq' = sReq /\ joined' = joined BY <1>4 DEF Connect
  <2>. QED BY <1>0, <1>1, <1>2, <2>1 DEF RealtimeTyped, RoomsTyped, SocketsTyped
<1>5. CASE Close(s)
  <2>1. up' = up \ {s} /\ sReq' = sReq /\ joined' = joined \ {s} /\ sReq[s].pc = "idle"
    BY <1>5 DEF Close, Out, SAt
  <2>. QED BY <1>0, <1>1, <1>2, <2>1 DEF RealtimeTyped, RoomsTyped, SocketsTyped
<1>6. CASE Fail(s) \/ JoinRoom(s) \/ LeaveRoom(s) \/ \E m \in Messages : DeleteMessage(s, m)
  <2>1. up' = up /\ joined' \subseteq joined \cup {s} /\ (s \in joined' => s \in joined \/ s \in up)
    BY <1>6 DEF Fail, JoinRoom, LeaveRoom, DeleteMessage, Out, SAt, rooms, RealtimeTyped, SocketsTyped
  <2>2. SocketsTyped' BY <1>3, <2>1, SocketRests DEF RealtimeTyped, SocketsTyped
  <2>3. RoomsTyped' BY <1>0, <1>1, <2>1 DEF RealtimeTyped, RoomsTyped
  <2>. QED BY <1>2, <2>2, <2>3
<1>. QED BY <1>4, <1>5, <1>6

LEMMA RealtimeStep ==
  ASSUME RealtimeTyped, MaxEvents \in Nat, MaxCalls \in Nat, [Next]_vars PROVE RealtimeTyped'
<1>1. GroupInv' /\ WayInv' BY GroupNext, WayNext DEF RealtimeTyped
<1>2. CASE \E r \in Requests : GroupStep(r) /\ UNCHANGED rVars
  <2>1. GroupRest' BY <1>2, GroupRange DEF RealtimeTyped
  <2>2. MarksTyped' /\ RoomsTyped' /\ SocketsTyped'
    BY <1>2 DEF RealtimeTyped, rVars, chat, rooms, redis, MarksTyped, RoomsTyped, SocketsTyped
  <2>. QED BY <1>1, <2>1, <2>2 DEF RealtimeTyped
<1>3. CASE ChatController /\ UNCHANGED rVars
  <2>1. UNCHANGED <<group, announced, gCalls>> BY <1>3 DEF ChatController, MarkRead, Hide, members
  <2>2. messages' \in [Messages -> {"unsent", "stored", "hidden", "erased"}]
    BY <1>3 DEF ChatController, MarkRead, Hide, RealtimeTyped, GroupRest
  <2>3. MarksTyped' /\ RoomsTyped' /\ SocketsTyped'
    BY <1>3 DEF RealtimeTyped, rVars, chat, rooms, redis, MarksTyped, RoomsTyped, SocketsTyped
  <2>. QED BY <1>1, <2>1, <2>2, <2>3 DEF RealtimeTyped, GroupRest
<1>4. ASSUME NEW s \in Sockets, SocketStep(s) PROVE RealtimeTyped'
  <2>1. GroupRest' /\ MarksTyped' /\ RoomsTyped' /\ SocketsTyped'
    BY <1>4, SocketMovesAbout, SocketSends, SocketMarks, SocketFinds DEF SocketStep
  <2>. QED BY <1>1, <2>1 DEF RealtimeTyped
<1>5. ASSUME NEW p \in Processes, OnRedisRoomMessage(p) \/ LoseSubscription(p) \/ Subscribe(p)
      PROVE  RealtimeTyped'
  <2>1. UNCHANGED <<group, messages, announced, gCalls, chat, rooms, sReq>>
    BY <1>5 DEF OnRedisRoomMessage, LoseSubscription, Subscribe, gVars, members
  <2>2. hears' \subseteq Processes /\ sEvents' \in 0 .. MaxEvents
    BY <1>5 DEF OnRedisRoomMessage, LoseSubscription, Subscribe, RealtimeTyped, RoomsTyped
  <2>3. GroupRest' /\ MarksTyped' /\ RoomsTyped' /\ SocketsTyped'
    BY <2>1, <2>2 DEF RealtimeTyped, GroupRest, chat, rooms, MarksTyped, RoomsTyped, SocketsTyped
  <2>. QED BY <1>1, <2>3 DEF RealtimeTyped
<1>6. CASE UNCHANGED vars
  <2>1. UNCHANGED <<group, messages, announced, gCalls, chat, rooms, hears, sEvents, sReq>>
    BY <1>6 DEF vars, gVars, rVars, members, redis
  <2>2. GroupRest' /\ MarksTyped' /\ RoomsTyped' /\ SocketsTyped'
    BY <2>1 DEF RealtimeTyped, GroupRest, chat, rooms, MarksTyped, RoomsTyped, SocketsTyped
  <2>. QED BY <1>1, <2>2 DEF RealtimeTyped
<1>. QED BY <1>2, <1>3, <1>4, <1>5, <1>6 DEF Next

LEMMA RealtimeBegins == ASSUME MCInit PROVE RealtimeTyped
<1>1. /\ sReq = [s \in Sockets |-> AtRest] /\ messages = [m \in Messages |-> "unsent"]
      /\ queue = [p \in Processes |-> <<>>] /\ got = [s \in Sockets |-> [m \in Messages |-> 0]]
      /\ audience = [m \in Messages |-> {}] /\ joined \subseteq up /\ up \subseteq Sockets
      /\ sender = [m \in Messages |-> Creator] /\ last = None /\ hears = Processes
      /\ reacted = [m \in Messages |-> {}] /\ readBy = [m \in Messages |-> {}]
      /\ gReq = [r \in Requests |-> Idle]
  BY DEF MCInit, Quiet, Gathered, GroupInit
<1>2. sEvents \in 0 .. MaxEvents /\ gCalls \in 0 .. MaxCalls /\ announced = 0
      /\ group \in {"none", "live", "deleted"}
  BY PartBounds DEF MCInit, Gathered, GroupInit
<1>3. GroupRest BY <1>1, <1>2 DEF GroupRest
<1>4. MarksTyped BY <1>1, CreatorAssumption DEF MarksTyped
<1>5. RoomsTyped BY <1>1, <1>2 DEF RoomsTyped
<1>6. AtRest \in SocketCall /\ SocketOK(AtRest) /\ AtRest.pc = "idle"
  BY DEF AtRest, SocketCall, SocketPCs, SocketOK
<1>7. SocketsTyped BY <1>1, <1>6 DEF SocketsTyped
<1>8. GroupInv
  <2>1. CASE GroupInit BY <2>1, HandlersInit
  <2>2. CASE Gathered({}) \/ Gathered({Other})
    <3>1. /\ participants = Users /\ admins \subseteq Users /\ Creator \in admins
          /\ unread = [u \in Users |-> 0] /\ oddAdds = {} /\ oddDemotes = {}
      BY <2>2, CreatorAssumption, TalkingBounds DEF Gathered
    <3>2. GroupTyped /\ RolesHold
      BY <3>1, CreatorAssumption DEF GroupTyped, RolesHold, Unset
    <3>3. HandlersInv
      BY <1>1, CreatorAssumption DEF HandlersInv, HandlerOK, Idle, Handler
    <3>. QED BY <3>2, <3>3 DEF GroupInv
  <2>. QED BY <2>1, <2>2 DEF MCInit
<1>9. WayInv
  <2>1. \A s \in Sockets : sReq[s].pc = "idle" BY <1>1 DEF AtRest
  <2>2. \A p \in Processes : queue[p] = <<>> /\ DOMAIN queue[p] = {} BY <1>1
  <2>3. WayTyped BY <1>1 DEF WayTyped
  <2>. QED BY <1>1, <2>1, <2>2, <2>3 DEF WayInv, OneSender, NewUntouched, Untouched, Queued,
        QueuedOnce, NotTwice, OnWay, Reached, Sending
<1>. QED BY <1>3, <1>4, <1>5, <1>7, <1>8, <1>9 DEF RealtimeTyped

-----------------------------------------------------------------------------
(* Calls                                                                        *)

CallPCs == {"idle", "store", "member", "delete", "relay"}
CallStep == [pc : CallPCs, user : Users \cup {None}, call : CallIds \cup {None},
             event : Events \cup Users \cup {None}]
\* A handler is of a member, of the moment it began or a later one; all but the one that
\* will store the call know a call of two and one of them.
CallerOK(q, stood, parties) ==
  /\ q.pc \notin {"idle", "store"} =>
       /\ q.user \in Users /\ q.call \in CallIds /\ parties[q.call] # None
       /\ q.user \in {parties[q.call][1], parties[q.call][2]}
  /\ q.pc = "store" =>
       /\ q.user \in Users /\ q.event \in Users /\ q.call \in CallIds
       /\ q.user # q.event /\ parties[q.call] = None /\ q.user \in stood
  /\ q.pc = "relay" => q.event \in Events
  /\ q.pc # "idle" => cMembers \subseteq stood
CallsApart ==
  \A r, k \in Requests : C!At(r, "store") /\ cReq[k].call = cReq[r].call => k = r
CallKept ==
  /\ \A c \in CallIds : cState[c] # None => cState[c] = cParties[c]
  /\ \A c \in CallIds : cParties[c] # None => cParties[c][1] # cParties[c][2]
CallsInv ==
  /\ C!TypeOK /\ CallsApart /\ CallKept
  /\ \A r \in Requests : CallerOK(cReq[r], cStood[r], cParties)

LEMMA CallsBegin == ASSUME C!CallsAssumption, C!Init PROVE CallsInv
<1>1. C!TypeOK BY DEF C!Init, C!TypeOK, C!Idle, C!CallsAssumption
<1>2. \A r \in Requests : cReq[r] = C!Idle /\ C!Idle.pc = "idle" BY DEF C!Init, C!Idle
<1>3. CallKept BY DEF C!Init, CallKept
<1>. QED BY <1>1, <1>2, <1>3 DEF CallsInv, CallsApart, CallerOK, C!At

LEMMA CallTyped ==
  ASSUME C!TypeOK
  PROVE  /\ cReq \in [Requests -> CallStep] /\ cStood \in [Requests -> SUBSET Users]
         /\ cParties \in [CallIds -> (Users \X Users) \cup {None}]
         /\ cState \in [CallIds -> (Users \X Users) \cup {None}]
         /\ cMembers \subseteq Users /\ cTokens \subseteq CallIds \X Users
         /\ cHeard \subseteq CallIds \X Events \X Users \X Users
         /\ cChanges \in 0 .. MaxChanges /\ cSignals \in 0 .. MaxSignals
BY DEF C!TypeOK, CallStep, CallPCs

\* A handler begins at a call that is there, or at one that never was.
LEMMA CallBegins ==
  ASSUME C!CallsAssumption, CallsInv, NEW r \in Requests, NEW pc \in CallPCs \ {"idle"},
         NEW u \in Users, NEW c \in CallIds, NEW event \in Events \cup Users \cup {None},
         C!Begin(r, pc, u, c, event), pc # "store" => C!IsParty(c, u),
         pc = "relay" => event \in Events,
         pc = "store" => /\ cParties[c] = None /\ \A k \in Requests : cReq[k].call # c
                         /\ u \in cMembers /\ event \in Users /\ event # u,
         UNCHANGED <<cMembers, cState, cParties, cTokens, cHeard, cChanges>>
  PROVE  CallsInv'
<1>. DEFINE q == [pc |-> pc, user |-> u, call |-> c, event |-> event]
<1>1. /\ cReq' = [cReq EXCEPT ![r] = q] /\ cStood' = [cStood EXCEPT ![r] = cMembers]
      /\ cSignals < MaxSignals /\ cSignals' = cSignals + 1 /\ cReq[r].pc = "idle"
  BY DEF C!Begin, C!At
<1>2. q \in CallStep /\ q.pc = pc /\ q.user = u /\ q.call = c /\ q.event = event
  BY DEF CallStep
<1>. HIDE DEF q
<1>3. /\ cReq' \in [Requests -> CallStep] /\ cReq'[r] = q
      /\ \A k \in Requests : k # r => cReq'[k] = cReq[k]
      /\ cStood' \in [Requests -> SUBSET Users] /\ cStood'[r] = cMembers
      /\ \A k \in Requests : k # r => cStood'[k] = cStood[k]
  BY <1>1, <1>2, CallTyped DEF CallsInv
<1>4. cSignals' \in 0 .. MaxSignals BY <1>1, CallTyped DEF CallsInv, C!CallsAssumption
<1>5. C!TypeOK' BY <1>3, <1>4 DEF CallsInv, C!TypeOK, CallStep, CallPCs
<1>6. CallKept' BY DEF CallsInv, CallKept
<1>7. pc # "store" => cParties[c] # None /\ u \in {cParties[c][1], cParties[c][2]}
  BY DEF C!IsParty, CallsInv, CallKept
<1>8. CallerOK(q, cMembers, cParties) BY <1>2, <1>7 DEF CallerOK, CallPCs
<1>9. \A k \in Requests : CallerOK(cReq[k], cStood[k], cParties) BY DEF CallsInv
<1>10. \A k \in Requests : CallerOK(cReq'[k], cStood'[k], cParties')
  BY <1>3, <1>8, <1>9
<1>11. (\A k \in Requests : CallerOK(cReq[k], cStood[k], cParties))'
  BY <1>10 DEF CallerOK
<1>12. CallsApart'
  <2>1. \A k \in Requests : C!At(k, "store") => cReq[k].call \in CallIds /\ cParties[cReq[k].call] = None
    BY <1>9 DEF CallerOK, C!At
  <2>. QED BY <1>2, <1>3, <1>7, <2>1 DEF CallsInv, CallsApart, C!At
<1>. QED BY <1>5, <1>6, <1>11, <1>12 DEF CallsInv

\* A handler ends; calls may have been let go.
LEMMA CallEnds ==
  ASSUME C!CallsAssumption, CallsInv, NEW r \in Requests, C!End(r),
         cState' \in [CallIds -> (Users \X Users) \cup {None}],
         \A c \in CallIds : cState'[c] = None \/ cState'[c] = cState[c],
         cTokens' \subseteq CallIds \X Users, cHeard' \subseteq CallIds \X Events \X Users \X Users,
         UNCHANGED <<cMembers, cParties, cStood, cChanges, cSignals>>
  PROVE  CallsInv'
<1>1. C!Idle \in CallStep /\ C!Idle.pc = "idle" BY DEF C!Idle, CallStep, CallPCs
<1>2. /\ cReq' \in [Requests -> CallStep] /\ cReq'[r] = C!Idle
      /\ \A k \in Requests : k # r => cReq'[k] = cReq[k]
  BY <1>1, CallTyped DEF C!End, CallsInv
<1>3. C!TypeOK' BY <1>2, CallTyped DEF CallsInv, C!TypeOK, CallStep, CallPCs
<1>4. CallKept' BY DEF CallsInv, CallKept
<1>5. (\A k \in Requests : CallerOK(cReq[k], cStood[k], cParties))'
  BY <1>1, <1>2 DEF CallsInv, CallerOK
<1>6. CallsApart'
  <2>1. C!Idle.call = None BY DEF C!Idle
  <2>2. \A k \in Requests : cReq[k].pc = "store" => cReq[k].call # None
    BY DEF CallsInv, CallerOK, C!CallsAssumption
  <2>. QED BY <1>1, <1>2, <2>1, <2>2 DEF CallsInv, CallsApart, C!At
<1>. QED BY <1>3, <1>4, <1>5, <1>6 DEF CallsInv

\* Whoever is given a token, or is at an end of a frame, is a party of the call and has
\* been a member during the request.
Rightful ==
  \A c \in CallIds, u \in Users :
    \/ <<c, u>> \in cTokens' \ cTokens
    \/ \E h \in cHeard' \ cHeard : h[1] = c /\ u \in {h[3], h[4]}
    => /\ u \in {cParties'[c][1], cParties'[c][2]}
       /\ \E r \in Requests :
            /\ cReq[r].call = c /\ cReq'[r] # cReq[r]
            /\ u \in cStood[r]

LEMMA CallStored ==
  ASSUME C!CallsAssumption, CallsInv, NEW r \in Requests, C!InitiateStore(r)
  PROVE  CallsInv' /\ Rightful
<1>1. /\ cReq[r].pc = "store" /\ C!End(r)
      /\ UNCHANGED <<cMembers, cHeard, cStood, cChanges, cSignals>>
  BY DEF C!InitiateStore, C!At
<1>2. CASE UNCHANGED <<cState, cParties, cTokens>>
  <2>1. CallsInv' BY <1>1, <1>2, CallTyped, CallEnds DEF CallsInv
  <2>. QED BY <1>1, <1>2, <2>1 DEF Rightful
<1>3. CASE ~UNCHANGED <<cState, cParties, cTokens>>
  <2>1. PICK u, v \in Users, c \in CallIds : u = cReq[r].user /\ v = cReq[r].event /\ c = cReq[r].call
    BY <1>1 DEF CallsInv, CallerOK
  <2>2. u # v /\ cParties[c] = None /\ u \in cStood[r]
    BY <1>1, <2>1 DEF CallsInv, CallerOK
  <2>3. /\ cState' = [cState EXCEPT ![c] = <<u, v>>] /\ cParties' = [cParties EXCEPT ![c] = <<u, v>>]
        /\ cTokens' = cTokens \cup {<<c, u>>}
    BY <1>3, <2>1 DEF C!InitiateStore
  <2>4. C!Idle \in CallStep /\ C!Idle.pc = "idle" /\ C!Idle.call = None BY DEF C!Idle, CallStep, CallPCs
  <2>5. /\ cReq' \in [Requests -> CallStep] /\ cReq'[r] = C!Idle
        /\ \A k \in Requests : k # r => cReq'[k] = cReq[k]
    BY <1>1, <2>4, CallTyped DEF C!End, CallsInv
  <2>6. /\ cState' \in [CallIds -> (Users \X Users) \cup {None}] /\ cTokens' \subseteq CallIds \X Users
        /\ cParties' \in [CallIds -> (Users \X Users) \cup {None}]
        /\ cState'[c] = <<u, v>> /\ cParties'[c] = <<u, v>>
        /\ \A d \in CallIds : d # c => cState'[d] = cState[d] /\ cParties'[d] = cParties[d]
    BY <2>3, CallTyped DEF CallsInv
  <2>7. C!TypeOK' BY <1>1, <2>5, <2>6, CallTyped DEF CallsInv, C!TypeOK, CallStep, CallPCs
  <2>8. CallKept' BY <2>2, <2>6 DEF CallsInv, CallKept
  <2>9. \A k \in Requests : k # r => cReq[k].call # c
    BY <1>1, <2>1 DEF CallsInv, CallsApart, C!At
  <2>10. (\A k \in Requests : CallerOK(cReq[k], cStood[k], cParties))'
    <3>1. \A k \in Requests : CallerOK(cReq[k], cStood[k], cParties) BY DEF CallsInv
    <3>. QED BY <1>1, <2>4, <2>5, <2>6, <2>9, <3>1 DEF CallerOK
  <2>11. CallsApart'
    <3>1. \A k \in Requests : cReq[k].pc = "store" => cReq[k].call # None
      BY DEF CallsInv, CallerOK, C!CallsAssumption
    <3>. QED BY <2>4, <2>5, <3>1 DEF CallsInv, CallsApart, C!At
  <2>12. CallsInv' BY <2>7, <2>8, <2>10, <2>11 DEF CallsInv
  <2>13. cReq'[r] # cReq[r] BY <1>1, <2>4, <2>5
  <2>14. Rightful BY <1>1, <2>1, <2>2, <2>3, <2>6, <2>13 DEF Rightful
  <2>. QED BY <2>12, <2>14
<1>. QED BY <1>2, <1>3

LEMMA CallAnswered ==
  ASSUME C!CallsAssumption, CallsInv, NEW r \in Requests,
         C!TokenMint(r) \/ C!EndDelete(r) \/ C!RelaySend(r)
  PROVE  CallsInv' /\ Rightful
<1>1. /\ cReq[r].pc \in {"member", "delete", "relay"} /\ C!End(r)
      /\ UNCHANGED <<cMembers, cParties, cStood, cChanges, cSignals>>
  BY DEF C!TokenMint, C!EndDelete, C!RelaySend, C!At, C!seen
<1>2. PICK u \in Users, c \in CallIds : u = cReq[r].user /\ c = cReq[r].call
  BY <1>1 DEF CallsInv, CallerOK
<1>3. /\ cParties[c] # None /\ u \in {cParties[c][1], cParties[c][2]} /\ cMembers \subseteq cStood[r]
      /\ cParties[c] \in Users \X Users /\ cParties[c][1] # cParties[c][2]
  BY <1>1, <1>2, CallTyped DEF CallsInv, CallerOK, CallKept
<1>4. cReq'[r] # cReq[r]
  <2>1. cReq'[r] = C!Idle BY <1>1, CallTyped DEF C!End, CallsInv
  <2>. QED BY <1>1, <2>1 DEF C!Idle
<1>5. CASE C!TokenMint(r)
  <2>1. cState' = cState /\ cHeard' = cHeard
        /\ \/ cTokens' = cTokens
           \/ u \in cMembers /\ cTokens' = cTokens \cup {<<c, u>>}
    BY <1>2, <1>5 DEF C!TokenMint
  <2>2. CallsInv' BY <1>1, <2>1, CallTyped, CallEnds DEF CallsInv
  <2>3. Rightful BY <1>1, <1>2, <1>3, <1>4, <2>1 DEF Rightful
  <2>. QED BY <2>2, <2>3
<1>6. CASE C!EndDelete(r)
  <2>1. cState' = [cState EXCEPT ![c] = None] /\ cTokens' = cTokens /\ cHeard' = cHeard
    BY <1>2, <1>6 DEF C!EndDelete, C!seen
  <2>2. /\ cState' \in [CallIds -> (Users \X Users) \cup {None}]
        /\ \A d \in CallIds : cState'[d] = None \/ cState'[d] = cState[d]
    BY <2>1, CallTyped DEF CallsInv
  <2>3. CallsInv' BY <1>1, <2>1, <2>2, CallTyped, CallEnds DEF CallsInv
  <2>. QED BY <2>1, <2>3 DEF Rightful
<1>7. CASE C!RelaySend(r)
  <2>1. PICK to : to = C!Peer(c, u) OBVIOUS
  <2>2. to \in {cParties[c][1], cParties[c][2]}
    <3>1. \E v \in C!Parties(c) : v # u BY <1>3 DEF C!Parties
    <3>. QED BY <2>1, <3>1 DEF C!Peer, C!Parties
  <2>3. PICK event \in Events : event = cReq[r].event
    BY <1>7 DEF C!RelaySend, C!At, CallsInv, CallerOK
  <2>4. cState' = cState /\ cTokens' = cTokens
        /\ \/ cHeard' = cHeard
           \/ u \in cMembers /\ to \in cMembers /\ cHeard' = cHeard \cup {<<c, event, u, to>>}
    BY <1>2, <1>7, <2>1, <2>3 DEF C!RelaySend
  <2>5. cHeard' \subseteq CallIds \X Events \X Users \X Users
    BY <2>4, CallTyped DEF CallsInv
  <2>6. CallsInv' BY <1>1, <2>4, <2>5, CallTyped, CallEnds DEF CallsInv
  <2>7. ASSUME NEW d \in CallIds, NEW v \in Users, NEW h \in cHeard' \ cHeard, h[1] = d, v \in {h[3], h[4]}
        PROVE  d = c /\ v \in {u, to} /\ v \in cMembers
    <3>1. h = <<c, event, u, to>> /\ u \in cMembers /\ to \in cMembers BY <2>4
    <3>. QED BY <2>7, <3>1
  <2>8. Rightful BY <1>1, <1>2, <1>3, <1>4, <2>2, <2>4, <2>7 DEF Rightful
  <2>. QED BY <2>6, <2>8
<1>. QED BY <1>5, <1>6, <1>7

LEMMA CallsStep == ASSUME C!CallsAssumption, CallsInv, [C!Next]_ofCalls PROVE CallsInv' /\ [Rightful]_ofCalls
<1>1. CASE UNCHANGED ofCalls
  <2>1. /\ cMembers' = cMembers /\ cState' = cState /\ cParties' = cParties /\ cTokens' = cTokens
        /\ cHeard' = cHeard /\ cReq' = cReq /\ cStood' = cStood /\ cChanges' = cChanges
        /\ cSignals' = cSignals
    BY <1>1 DEF ofCalls
  <2>2. CallsInv'
    BY <2>1 DEF CallsInv, C!TypeOK, CallsApart, CallKept, CallerOK, C!At
  <2>. QED BY <1>1, <2>2
<1>2. ASSUME NEW r \in Requests, NEW c \in CallIds, NEW u \in Users,
             \/ \E v \in Users : C!InitiateFind(r, u, v, c)
             \/ C!TokenLoad(r, u, c) \/ C!EndLoad(r, u, c)
             \/ \E event \in Events : C!RelayLoad(r, u, c, event)
      PROVE  CallsInv' /\ Rightful
  <2>1. UNCHANGED <<cMembers, cState, cParties, cTokens, cHeard, cChanges>>
    BY <1>2 DEF C!InitiateFind, C!TokenLoad, C!EndLoad, C!RelayLoad
  <2>2. Rightful BY <2>1 DEF Rightful
  <2>3. ASSUME NEW v \in Users, C!InitiateFind(r, u, v, c) PROVE CallsInv'
    BY <2>1, <2>3, CallBegins DEF C!InitiateFind, CallPCs
  <2>4. CASE C!TokenLoad(r, u, c) \/ C!EndLoad(r, u, c)
    <3>1. PICK pc \in {"member", "delete"}, event \in Events \cup Users \cup {None} :
            C!Begin(r, pc, u, c, event) /\ C!IsParty(c, u)
      BY <2>4 DEF C!TokenLoad, C!EndLoad
    <3>2. pc \in CallPCs \ {"idle"} /\ pc # "store" /\ pc # "relay" BY DEF CallPCs
    <3>. QED BY <2>1, <2>2, <3>1, <3>2, CallBegins
  <2>6. ASSUME NEW event \in Events, C!RelayLoad(r, u, c, event) PROVE CallsInv'
    BY <2>1, <2>6, CallBegins DEF C!RelayLoad, CallPCs
  <2>. QED BY <1>2, <2>2, <2>3, <2>4, <2>6
<1>3. ASSUME NEW r \in Requests,
             C!InitiateStore(r) \/ C!TokenMint(r) \/ C!EndDelete(r) \/ C!RelaySend(r)
      PROVE  CallsInv' /\ Rightful
  BY <1>3, CallStored, CallAnswered
<1>4. ASSUME NEW c \in CallIds, C!Expire(c) PROVE CallsInv' /\ Rightful
  <2>1. /\ cState' = [cState EXCEPT ![c] = None] /\ cTokens' = cTokens /\ cHeard' = cHeard
        /\ UNCHANGED <<cMembers, cParties, cReq, cStood, cChanges, cSignals>>
    BY <1>4 DEF C!Expire, C!seen
  <2>2. /\ cState' \in [CallIds -> (Users \X Users) \cup {None}]
        /\ \A d \in CallIds : cState'[d] = None \/ cState'[d] = cState[d]
    BY <2>1, CallTyped DEF CallsInv
  <2>3. C!TypeOK' BY <2>1, <2>2 DEF CallsInv, C!TypeOK
  <2>4. CallsInv'
    BY <2>1, <2>2, <2>3 DEF CallsInv, CallsApart, CallKept, CallerOK, C!At
  <2>. QED BY <2>1, <2>4 DEF Rightful
<1>5. ASSUME NEW u \in Users, C!ChangeMember(u) PROVE CallsInv' /\ Rightful
  <2>1. /\ cMembers' \in SUBSET Users /\ cChanges' \in 0 .. MaxChanges
        /\ cStood' = [r \in Requests |-> cStood[r] \cup cMembers']
        /\ UNCHANGED <<cState, cParties, cTokens, cHeard, cReq, cSignals>>
    BY <1>5, CallTyped DEF C!ChangeMember, CallsInv, C!CallsAssumption
  <2>2. /\ cStood' \in [Requests -> SUBSET Users]
        /\ \A r \in Requests : cStood[r] \subseteq cStood'[r] /\ cMembers' \subseteq cStood'[r]
    BY <2>1, CallTyped DEF CallsInv
  <2>3. C!TypeOK' BY <2>1, <2>2 DEF CallsInv, C!TypeOK
  <2>4. CallsInv'
    BY <2>1, <2>2, <2>3 DEF CallsInv, CallsApart, CallKept, CallerOK, C!At
  <2>. QED BY <2>1, <2>4 DEF Rightful
<1>. QED BY <1>1, <1>2, <1>3, <1>4, <1>5 DEF C!Next

\* Nobody gets the token of a call, or has a frame of it relayed, who is no party of it or
\* was no member at any moment of the request: for any members, calls and handlers, though
\* calls expire and members come and go meanwhile (initiateCall, issueToken, relayCallEvent).
THEOREM PartiesJoin == MCSpec => OnlyPartiesJoin
<1>1. MCInit => CallsInv BY CallBounds, CallsBegin DEF MCInit
<1>2. [MCNext]_<<part, vars, ofCalls, ofNotices, ofPushes, ofSnaps, ofDirect>> => [C!Next]_ofCalls
  BY DEF MCNext, ofCalls
<1>3. CallsInv /\ [MCNext]_<<part, vars, ofCalls, ofNotices, ofPushes, ofSnaps, ofDirect>>
        => CallsInv' /\ [Rightful]_C!cVars
  <2>1. UNCHANGED ofCalls => UNCHANGED C!cVars BY DEF ofCalls, C!cVars, C!seen
  <2>. QED BY <1>2, <2>1, CallBounds, CallsStep
<1>4. MCInit /\ [][MCNext]_<<part, vars, ofCalls, ofNotices, ofPushes, ofSnaps, ofDirect>>
        => [][Rightful]_C!cVars
  BY <1>1, <1>3, PTL
<1>5. [][Rightful]_C!cVars => OnlyPartiesJoin
  BY DEF OnlyPartiesJoin, C!OnlyPartiesJoin, Rightful
<1>. QED BY <1>4, <1>5 DEF MCSpec

-----------------------------------------------------------------------------
\* For any constants, every variable of groups, sockets, calls, notices, push tokens and
\* snaps stays in its range; a socket is in the room only while it is connected, though its
\* handlers run on (Conversation, Realtime, Calls, Notices, Push, Snaps).
THEOREM MessagingTypesKept == MCSpec => []AllTypesOK
<1>. DEFINE Inv == RealtimeTyped /\ CallsInv /\ NoticesInv /\ PushInv /\ SnapsInv
<1>1. MCInit => Inv
  BY RealtimeBegins, CallBounds, CallsBegin, NoticeBounds, PushBounds, SnapBounds, NoticesBegin,
     PushBegins, SnapsBegin DEF MCInit
<1>2. Inv /\ [MCNext]_<<part, vars, ofCalls, ofNotices, ofPushes, ofSnaps, ofDirect>> => Inv'
  <2>1. [MCNext]_<<part, vars, ofCalls, ofNotices, ofPushes, ofSnaps, ofDirect>>
          => [Next]_vars /\ [C!Next]_ofCalls /\ [N!Next]_ofNotices /\ [P!Next]_ofPushes
             /\ [S!Next]_ofSnaps
    BY DEF MCNext, ofCalls, ofNotices, ofPushes, ofSnaps, vars
  <2>2. MaxEvents \in Nat /\ MaxCalls \in Nat BY PartBounds
  <2>. QED BY <2>1, <2>2, CallBounds, NoticeBounds, PushBounds, SnapBounds, RealtimeStep, CallsStep,
              NoticesStep, PushStep, SnapsStep
<1>3. Inv => AllTypesOK
  <2>1. NoticesInv => N!TypeOK BY DEF NoticesInv, NoticesTyped, N!TypeOK, NoticeCall
  <2>2. PushInv => P!TypeOK BY DEF PushInv, PushTyped, P!TypeOK
  <2>3. SnapsInv => S!TypeOK BY DEF SnapsInv, SnapsTyped, S!TypeOK, SnapDoc, SnapCall
  <2>. QED BY <2>1, <2>2, <2>3, RealtimeInRange DEF CallsInv, AllTypesOK
<1>. QED BY <1>1, <1>2, <1>3, PTL DEF MCSpec
=============================================================================
