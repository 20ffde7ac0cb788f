------------------------------- MODULE Direct -------------------------------
(* Direct conversations as the chat controller opens, lists and pages them,    *)
(* while the sockets of the realtime controller send and delete messages.       *)
(* Opening one is a search and, if nothing is found, an insert: no index keeps   *)
(* the pair unique.  The client reads messages by the createdAt of the oldest    *)
(* one it holds, and its conversations, of which some are groups, by page number. *)
EXTENDS Integers, FiniteSets, FiniteSetsExt

CONSTANTS
  Users,
  Talks,      \* ids of direct conversations
  Groups,     \* ids of groups
  Texts,      \* ids of messages
  Callers,    \* handlers under way at once
  Reader,     \* the user whose client reads
  PageSize,   \* limit
  MaxTalk     \* bound: calls that open a conversation, send a message or change a group

VARIABLES
  dPair,      \* participants, in their order: << >> before the insert
  dLast,      \* lastMessageAt
  dIn,        \* the groups the reader is in
  dText,      \* per message: its conversation, createdAt, replyTo and isDeleted
  dNow,       \* the clock, in milliseconds
  dReq,       \* handlers
  dCalls,     \* what MaxTalk bounds
  dRaced,     \* history: pairs two creations overlapped for
  dStray,     \* history: answers to somebody who asked for another, not of just the two
  dShown,     \* history: replies shown with a broadcast, by conversation
  dScroll,    \* one client that pages through a conversation
  dList       \* one client that pages through its conversations

dVars == <<dPair, dLast, dIn, dText, dNow, dReq, dCalls, dRaced, dStray, dShown, dScroll, dList>>
reading == <<dShown, dScroll, dList>>

No == "none"

DirectAssumption ==
  /\ IsFiniteSet(Talks) /\ IsFiniteSet(Groups) /\ IsFiniteSet(Texts)
  /\ Talks \cap Groups = {}
  /\ Reader \in Users
  /\ PageSize \in Nat \ {0}
  /\ No \notin Users \cup Talks \cup Texts

Resting == [pc |-> "idle"]
Unsent == [talk |-> No, at |-> 0, quotes |-> No, hidden |-> FALSE]

Opened == {k \in Talks : dPair[k] # << >>}
Of(k) == {dPair[k][i] : i \in DOMAIN dPair[k]}
\* Ids are taken in a fixed order, which is all the same to the handlers.
FirstOf(S) == CHOOSE x \in S : TRUE
Stored == {m \in Texts : dText[m].talk # No}
Mine(u) == {k \in Opened : u \in Of(k)}
\* What getConversations finds for the reader.
Listed == Mine(Reader) \cup dIn

\* The first n of a collection sorted by a time, newest first; equal times come
\* in any order.
Newest(S, time, n) ==
  LET size == IF Cardinality(S) < n THEN Cardinality(S) ELSE n
  IN {T \in kSubset(size, S) : \A x \in T, y \in S \ T : time[x] >= time[y]}

-----------------------------------------------------------------------------
\* Mutant: the participants are compared in their order.
BetweenInOrder(k, u, v) == dPair[k] = <<u, v>>

\* participants: { $all: [cur, tgt], $size: 2 }
Between(k, u, v) == {u, v} \subseteq Of(k)

Answer(u, v, pair) ==
  dStray' = IF u = v \/ {pair[1], pair[2]} = {u, v} THEN dStray ELSE dStray \cup {<<u, v>>}

OpenFind(r, u, v) ==
  /\ dReq[r] = Resting
  /\ dCalls < MaxTalk
  /\ dCalls' = dCalls + 1
  /\ LET found == {k \in Opened : Between(k, u, v)} IN
     \/ /\ found = {}
        /\ dReq' = [dReq EXCEPT ![r] = [pc |-> "create", by |-> u, who |-> v]]
        /\ dRaced' = IF \E q \in Callers : dReq[q].pc = "create"
                                          /\ {dReq[q].by, dReq[q].who} = {u, v}
                     THEN dRaced \cup {{u, v}} ELSE dRaced
        /\ UNCHANGED dStray
     \/ \E k \in found : Answer(u, v, dPair[k]) /\ UNCHANGED <<dReq, dRaced>>
  /\ UNCHANGED <<dPair, dLast, dIn, dText, dNow, reading>>

\* The clock may or may not have moved since the last write.
Stamp == dNow' \in {dNow, dNow + 1}

CreateConversation(r) ==
  /\ dReq[r].pc = "create"
  /\ Stamp
  /\ Talks \ Opened # {}
  /\ LET k == FirstOf(Talks \ Opened) IN
       /\ dPair' = [dPair EXCEPT ![k] = <<dReq[r].by, dReq[r].who>>]
       /\ dLast' = [dLast EXCEPT ![k] = dNow']
  /\ dReq' = [dReq EXCEPT ![r] = Resting]
  /\ UNCHANGED <<dIn, dText, dCalls, dRaced, dStray, reading>>

-----------------------------------------------------------------------------
\* The message a reply names, by its id and its conversation.
Quotable(q, k) == q \in Stored /\ dText[q].talk = k

\* A send: membership and the message it answers are read first.
SendFind(r, u, k, q) ==
  /\ dReq[r] = Resting
  /\ dCalls < MaxTalk
  /\ k \in Mine(u)
  /\ q = No \/ Quotable(q, k)
  /\ dCalls' = dCalls + 1
  /\ dReq' = [dReq EXCEPT ![r] = [pc |-> "send", talk |-> k, quotes |-> q]]
  /\ UNCHANGED <<dPair, dLast, dIn, dText, dNow, dRaced, dStray, reading>>

StoreMessage(r) ==
  /\ dReq[r].pc = "send"
  /\ Stamp
  /\ Texts \ Stored # {}
  /\ dText' = [dText EXCEPT ![FirstOf(Texts \ Stored)] = [talk |-> dReq[r].talk, at |-> dNow',
                          quotes |-> dReq[r].quotes, hidden |-> FALSE]]
  /\ dReq' = [dReq EXCEPT ![r].pc = IF dReq[r].quotes = No THEN "sum" ELSE "preview"]
  /\ UNCHANGED <<dPair, dLast, dIn, dCalls, dRaced, dStray, reading>>

\* The broadcast shows the reply, which is read again by id and conversation.
Preview(r) ==
  LET k == dReq[r].talk  q == dReq[r].quotes IN
  /\ dReq[r].pc = "preview"
  /\ dShown' = IF Quotable(q, k) THEN dShown \cup {<<k, q>>} ELSE dShown
  /\ dReq' = [dReq EXCEPT ![r].pc = "sum"]
  /\ UNCHANGED <<dPair, dLast, dIn, dText, dNow, dCalls, dRaced, dStray, dScroll, dList>>

\* The conversation's summary moves it to the top of its members' lists; an update
\* that fails is logged and the send goes on.
Summary(r) ==
  /\ dReq[r].pc = "sum"
  /\ \/ LET k == dReq[r].talk IN
        /\ Stamp
        /\ dLast' = [dLast EXCEPT ![k] = dNow']
        /\ dList' = [dList EXCEPT !.moved = @ \cup {k}]
     \/ UNCHANGED <<dNow, dLast, dList>>
  /\ dReq' = [dReq EXCEPT ![r] = Resting]
  /\ UNCHANGED <<dPair, dIn, dText, dCalls, dRaced, dStray, dShown, dScroll>>

DeleteText(m) ==
  /\ m \in Stored
  /\ ~dText[m].hidden
  /\ dText' = [dText EXCEPT ![m].hidden = TRUE]
  /\ UNCHANGED <<dPair, dLast, dIn, dNow, dReq, dCalls, dRaced, dStray, reading>>

-----------------------------------------------------------------------------
\* What a page of messages may hold: those older than the cursor, none deleted.
Older(k, before) ==
  {m \in Stored : /\ dText[m].talk = k
                  /\ ~dText[m].hidden
                  /\ before = 0 \/ dText[m].at < before}

Visible(k) == Older(k, 0)

\* One client pages through one thing, which bounds the states.
Unread == dScroll.talk = No /\ dList.by = No

\* A client opens a conversation: the first page has no cursor.
StartScroll(k) ==
  /\ Unread
  /\ k \in Mine(Reader)
  /\ dScroll' = [talk |-> k, before |-> 0, ends |-> FALSE, seen |-> {}, pending |-> {},
                 gone |-> {m \in Stored : dText[m].hidden}, due |-> Visible(k), quoted |-> {}]
  /\ UNCHANGED <<dPair, dLast, dIn, dText, dNow, dReq, dCalls, dRaced, dStray, dShown, dList>>

\* GET /:conversationId/messages, after which the replies are read one by one.
GetMessages ==
  LET at == [m \in Texts |-> dText[m].at] IN
  /\ dScroll.talk # No /\ ~dScroll.ends /\ dScroll.pending = {}
  /\ \E page \in Newest(Older(dScroll.talk, dScroll.before), at, PageSize) :
       dScroll' = [dScroll EXCEPT
         !.before = IF page = {} THEN @ ELSE Min({at[m] : m \in page}),
         !.ends = Cardinality(page) < PageSize,
         !.seen = @ \cup page,
         !.gone = {m \in Stored : dText[m].hidden},
         !.pending = {m \in page : dText[m].quotes # No}]
  /\ UNCHANGED <<dPair, dLast, dIn, dText, dNow, dReq, dCalls, dRaced, dStray, dShown, dList>>

\* replyTo: the message if it is of this conversation and not deleted, else null.
ShowReply(m) ==
  LET q == dText[m].quotes IN
  /\ m \in dScroll.pending
  /\ dScroll' = [dScroll EXCEPT
       !.pending = @ \ {m},
       !.quoted = IF Quotable(q, dScroll.talk) /\ ~dText[q].hidden
                  THEN @ \cup {[text |-> q, gone |-> q \in dScroll.gone]} ELSE @]
  /\ UNCHANGED <<dPair, dLast, dIn, dText, dNow, dReq, dCalls, dRaced, dStray, dShown, dList>>

-----------------------------------------------------------------------------
(* Groups, as Conversation has them: here only whether they are in the reader's list, *)
(* and where.                                                                         *)
GroupCall ==
  /\ dCalls < MaxTalk /\ dCalls' = dCalls + 1
  /\ UNCHANGED <<dPair, dText, dReq, dRaced, dStray, dShown, dScroll>>
\* A message moves the group to the top of its members' lists.
GroupMessage(g) ==
  /\ GroupCall /\ Stamp
  /\ dLast' = [dLast EXCEPT ![g] = dNow']
  /\ dList' = [dList EXCEPT !.moved = @ \cup {g}]
  /\ UNCHANGED dIn
\* The reader is added to a group.
JoinGroup(g) ==
  /\ GroupCall
  /\ g \notin dIn /\ dIn' = dIn \cup {g}
  /\ UNCHANGED <<dLast, dNow, dList>>
Above(k) == {l \in Listed : dLast[l] > dLast[k]}
\* The conversation below g that stands first behind the pages shown.
FirstBehind(g) ==
  {k \in Listed : g \in Above(k) /\ Cardinality(Above(k)) = dList.page * PageSize}
\* The reader leaves a group or is removed from it, or it is deleted: what is below it
\* moves up, and what stood next is now within the pages that were shown.
QuitGroup(g) ==
  /\ GroupCall
  /\ g \in dIn /\ dIn' = dIn \ {g}
  /\ dList' = [dList EXCEPT !.moved = @ \cup {g}, !.slipped = @ \cup FirstBehind(g)]
  /\ UNCHANGED <<dLast, dNow>>

StartList ==
  /\ Unread
  /\ dList' = [by |-> Reader, page |-> 0, ends |-> FALSE, seen |-> {}, moved |-> {},
               slipped |-> {}, due |-> Listed]
  /\ UNCHANGED <<dPair, dLast, dIn, dText, dNow, dReq, dCalls, dRaced, dStray, dShown, dScroll>>

\* GET /conversations?page: sorted by lastMessageAt, skip (page - 1) * limit.  A
\* conversation with another's time has no place of its own and counts as moved.
GetConversations ==
  LET mine == Listed
      tied == {k \in mine : \E l \in mine \ {k} : dLast[l] = dLast[k]} IN
  /\ dList.by # No /\ ~dList.ends
  /\ \E skipped \in Newest(mine, dLast, dList.page * PageSize) :
     \E page \in Newest(mine \ skipped, dLast, PageSize) :
       dList' = [dList EXCEPT !.page = @ + 1, !.seen = @ \cup page,
                              !.moved = @ \cup tied,
                              !.ends = Cardinality(page) < PageSize]
  /\ UNCHANGED <<dPair, dLast, dIn, dText, dNow, dReq, dCalls, dRaced, dStray, dShown, dScroll>>

-----------------------------------------------------------------------------
NoScroll == [talk |-> No, before |-> 0, ends |-> FALSE, seen |-> {}, pending |-> {},
             gone |-> {}, due |-> {}, quoted |-> {}]
NoList == [by |-> No, page |-> 0, ends |-> FALSE, seen |-> {}, moved |-> {}, slipped |-> {}, due |-> {}]

Init ==
  /\ dPair = [k \in Talks |-> << >>]
  /\ dLast = [k \in Talks \cup Groups |-> 0]
  /\ dIn = {}
  /\ dText = [m \in Texts |-> Unsent]
  /\ dNow = 1
  /\ dReq = [r \in Callers |-> Resting]
  /\ dCalls = 0
  /\ dRaced = {}
  /\ dStray = {}
  /\ dShown = {}
  /\ dScroll = NoScroll
  /\ dList = NoList

Next ==
  \/ \E r \in Callers :
       \/ \E u, v \in Users : OpenFind(r, u, v)
       \/ CreateConversation(r)
       \/ \E u \in Users, k \in Talks, q \in Texts \cup {No} : SendFind(r, u, k, q)
       \/ StoreMessage(r)
       \/ Preview(r)
       \/ Summary(r)
  \/ \E m \in Texts : DeleteText(m) \/ ShowReply(m)
  \/ \E k \in Talks : StartScroll(k)
  \/ \E g \in Groups : GroupMessage(g) \/ JoinGroup(g) \/ QuitGroup(g)
  \/ GetMessages
  \/ StartList
  \/ GetConversations

Spec == Init /\ [][Next]_dVars

-----------------------------------------------------------------------------
\* Whoever asks for a conversation with somebody else is given one of exactly the
\* two, and a pair has two conversations only if both were created at once
\* (getOrCreateConversation).
OneEach ==
  /\ dStray = {}
  /\ \A k, l \in Opened : k # l /\ Of(k) = Of(l) => Of(k) \in dRaced

\* Scrolling back to the end shows every message that was there at the start and is
\* not deleted since, but for those sent in the millisecond of another that is shown
\* (getMessages).
NoneSkipped ==
  dScroll.ends =>
    \A m \in dScroll.due : m \in dScroll.seen \/ dText[m].hidden
                           \/ \E s \in dScroll.seen : dText[s].at = dText[m].at

\* A reply never shows a message of another conversation, in a page or a broadcast,
\* nor one deleted before the page was asked for.
QuotesOwn ==
  /\ \A s \in dShown : dText[s[2]].talk = s[1]
  /\ \A s \in dScroll.quoted : dText[s.text].talk = dScroll.talk /\ ~s.gone

\* Paging through the conversations by number misses none that kept its place, while
\* messages move others to the top and groups are joined; but when a group leaves the
\* list between two pages, the one that stood next slips into the pages already shown
\* and is missed, and no other (getConversations).
NoneUnlisted == dList.ends => dList.due \ (dList.moved \cup dList.slipped) \subseteq dList.seen

DirectHolds == OneEach /\ NoneSkipped /\ QuotesOwn /\ NoneUnlisted
=============================================================================
