------------------------------- MODULE Notices -------------------------------
(* Notifications of one recipient: createNotification of notification.cc, which *)
(* the handlers of posts, reels, follows and whispers call, and the handlers of *)
(* NotificationController.                                                      *)
EXTENDS Integers, FiniteSets

CONSTANTS
  Recipient,
  Senders,
  Kinds,       \* what a notice is of: its type with its post or reel
  Makers,      \* handlers that create one
  None,
  MaxNotices   \* bound: calls of createNotification

\* Nobody and nothing is not a sender or a kind.
NoticesAssumption == None \notin Senders \cup Kinds /\ MaxNotices \in Nat

VARIABLES
  nBox,        \* the collection of notifications
  nMaker,      \* calls of createNotification between its two commands
  nCalls,      \* what MaxNotices bounds; the id of the next notice
  nLapped      \* history: notices whose creation overlapped another of the same

nVars == <<nBox, nMaker, nCalls, nLapped>>

Ids == 1 .. MaxNotices
\* A notice is old when it was made more than a minute ago.
Notice == [from : Senders, kind : Kinds, old : BOOLEAN, read : BOOLEAN]
NoNotice == [from |-> None, kind |-> None, old |-> TRUE, read |-> TRUE]
Idle == [id |-> 0, from |-> None, kind |-> None]
In(i) == nBox[i] # NoNotice
Making(from, kind) == {m \in Makers : nMaker[m].from = from /\ nMaker[m].kind = kind}

\* Mutant: a notice that has been read is not looked for.
RecentUnread(from, kind) ==
  \E i \in Ids : In(i) /\ nBox[i].from = from /\ nBox[i].kind = kind /\ ~nBox[i].old
                /\ ~nBox[i].read

Recent(from, kind) ==
  \E i \in Ids : In(i) /\ nBox[i].from = from /\ nBox[i].kind = kind /\ ~nBox[i].old

\* Nobody is told of himself.  The id of the comment is no part of what is looked
\* for: a second comment on the same post within a minute makes no notice.
CreateFind(m, from, kind) ==
  /\ nMaker[m] = Idle
  /\ nCalls < MaxNotices
  /\ nCalls' = nCalls + 1
  /\ from # Recipient /\ ~Recent(from, kind)
  /\ nMaker' = [nMaker EXCEPT ![m] = [id |-> nCalls + 1, from |-> from, kind |-> kind]]
  /\ nLapped' = nLapped \cup (IF Making(from, kind) = {} THEN {}
                              ELSE {nCalls + 1} \cup {nMaker[k].id : k \in Making(from, kind)})
  /\ UNCHANGED nBox

CreateInsert(m) ==
  LET q == nMaker[m] IN
  /\ q # Idle
  /\ nBox' = [nBox EXCEPT ![q.id] = [from |-> q.from, kind |-> q.kind, old |-> FALSE,
                                     read |-> FALSE]]
  /\ nMaker' = [nMaker EXCEPT ![m] = Idle]
  /\ UNCHANGED <<nCalls, nLapped>>

\* The handler that reports a like or a comment goes on when its notice fails.
CreateFails(m) ==
  /\ nMaker[m] # Idle
  /\ nMaker' = [nMaker EXCEPT ![m] = Idle]
  /\ UNCHANGED <<nBox, nCalls, nLapped>>

\* By its id and the recipient, so that nobody marks or deletes another's.
MarkAsRead(i) ==
  /\ In(i)
  /\ nBox' = [nBox EXCEPT ![i].read = TRUE]
  /\ UNCHANGED <<nMaker, nCalls, nLapped>>

\* All of them, or those of a type.
MarkAllAsRead(kinds) ==
  /\ nBox' = [i \in Ids |-> IF In(i) /\ nBox[i].kind \in kinds
                            THEN [nBox[i] EXCEPT !.read = TRUE] ELSE nBox[i]]
  /\ UNCHANGED <<nMaker, nCalls, nLapped>>

DeleteNotification(i) ==
  /\ In(i)
  /\ nBox' = [nBox EXCEPT ![i] = NoNotice]
  /\ UNCHANGED <<nMaker, nCalls, nLapped>>

\* A minute passes; a call is not that slow.
MinutePasses ==
  /\ \A m \in Makers : nMaker[m] = Idle
  /\ nBox' = [i \in Ids |-> [nBox[i] EXCEPT !.old = TRUE]]
  /\ UNCHANGED <<nMaker, nCalls, nLapped>>

Init ==
  /\ nBox = [i \in Ids |-> NoNotice]
  /\ nMaker = [m \in Makers |-> Idle]
  /\ nCalls = 0
  /\ nLapped = {}

Next ==
  \/ \E m \in Makers :
       \/ \E from \in Senders, kind \in Kinds : CreateFind(m, from, kind)
       \/ CreateInsert(m) \/ CreateFails(m)
  \/ \E i \in Ids : MarkAsRead(i) \/ DeleteNotification(i)
  \/ \E kinds \in SUBSET Kinds : MarkAllAsRead(kinds)
  \/ MinutePasses

Spec == Init /\ [][Next]_nVars

-----------------------------------------------------------------------------
TypeOK ==
  /\ nBox \in [Ids -> Notice \cup {NoNotice}]
  /\ nMaker \in [Makers -> [id : 0 .. MaxNotices, from : Senders \cup {None},
                            kind : Kinds \cup {None}]]
  /\ nCalls \in 0 .. MaxNotices
  /\ nLapped \subseteq Ids

\* Two notices of one thing from one sender within a minute are there only when
\* they were created at the same time, whatever has been read or deleted in
\* between (createNotification, "Check for recent duplicate within 1 minute").
NoticeOnce ==
  \A i, j \in Ids \ nLapped :
    In(i) /\ In(j) /\ i # j /\ ~nBox[i].old /\ ~nBox[j].old
      => <<nBox[i].from, nBox[i].kind>> # <<nBox[j].from, nBox[j].kind>>
=============================================================================
