------------------------------- MODULE Realtime -------------------------------
(* The sockets of the members of the conversation, on several processes: the    *)
(* room each process keeps for it, the messages sent through it, and the Redis  *)
(* channel that carries a frame to the rooms of the other processes.  The        *)
(* handlers of one socket run one after the other; each reads the conversation   *)
(* first and works on with what it read, whatever the group handlers do          *)
(* meanwhile.  Of the frames only those of new messages are followed to their    *)
(* sockets: the others take the same way.                                        *)
EXTENDS Conversation, Sequences

CONSTANTS
  None,
  Sockets,
  Processes,
  MaxEvents,    \* bound: events of the sockets, connections and lost subscriptions among
                \* them
  Owner(_),     \* the user of a socket
  Host(_)       \* the process of a socket

ASSUME RealtimeAssumption ==
  /\ \A s \in Sockets : Owner(s) \in Users /\ Host(s) \in Processes
  /\ None \notin Messages

VARIABLES
  sender,       \* of every message sent
  last,         \* lastMessage of the conversation, or None
  reacted,      \* reactions: who has one on a message
  readBy,       \* who is in readBy of a message
  up,           \* connected sockets (conns_)
  joined,       \* sockets in the room of the conversation (rooms_)
  hears,        \* processes whose subscriber is connected to Redis
  queue,        \* frames published and not yet consumed by a process
  sReq,         \* the handler a socket is in
  sEvents,      \* what MaxEvents bounds
  got,          \* history: how often a socket received a message
  audience      \* history: the sockets a broadcast must reach

chat == <<sender, last, reacted, readBy>>
rooms == <<up, joined>>
redis == <<hears, queue>>
rVars == <<chat, rooms, redis, sReq, sEvents, got, audience>>

AtRest == [pc |-> "idle", seen |-> {}, msg |-> None]
Frame == [msg : Messages, origin : Processes]

SAt(s, pc) == sReq[s].pc = pc
SEnd(s) == sReq' = [sReq EXCEPT ![s] = AtRest]
SGoto(s, pc, seen, m) == sReq' = [sReq EXCEPT ![s] = [pc |-> pc, seen |-> seen, msg |-> m]]

Sent(m) == messages[m] # "unsent"
InStore(m) == messages[m] \in {"stored", "hidden"}

-----------------------------------------------------------------------------
\* A socket's next event; an event that is refused has no action.
Event(s) ==
  /\ SAt(s, "idle")
  /\ sEvents < MaxEvents
  /\ sEvents' = sEvents + 1

\* An event whose handler goes on after the commands it began with.
Start(s, pc, seen, m) ==
  /\ s \in up
  /\ Event(s)
  /\ SGoto(s, pc, seen, m)
  /\ UNCHANGED <<gVars, chat, rooms, redis, got, audience>>

\* One that reads the conversation first (getAuthorizedConversation).
StartAuthorized(s, pc, seen, m) == IsMember(Owner(s)) /\ Start(s, pc, seen, m)

-----------------------------------------------------------------------------
(* Connections and rooms.                                                       *)
Connect(s) ==
  /\ s \notin up
  /\ Event(s)
  /\ up' = up \cup {s}
  /\ UNCHANGED <<gVars, chat, joined, redis, sReq, got, audience>>

Out(s) ==
  /\ joined' = joined \ {s}
  /\ audience' = [m \in Messages |-> audience[m] \ {s}]

\* Mutant: the closed socket stays in its room.
CloseKeepingRoom(s) ==
  /\ s \in up
  /\ SAt(s, "idle")
  /\ up' = up \ {s}
  /\ UNCHANGED <<gVars, chat, joined, redis, sReq, sEvents, got, audience>>

\* handleConnectionClosed runs when no handler of the socket does.
Close(s) ==
  /\ s \in up
  /\ SAt(s, "idle")
  /\ up' = up \ {s}
  /\ Out(s)
  /\ UNCHANGED <<gVars, chat, redis, sReq, sEvents, got>>

JoinFind(s) == StartAuthorized(s, "join", {}, None)

JoinRoom(s) ==
  /\ SAt(s, "join")
  /\ joined' = joined \cup {s}
  /\ SEnd(s)
  /\ UNCHANGED <<gVars, chat, up, redis, sEvents, got, audience>>

LeaveRoom(s) ==
  /\ s \in joined
  /\ Event(s)
  /\ Out(s)
  /\ UNCHANGED <<gVars, chat, up, redis, sReq, got>>

-----------------------------------------------------------------------------
(* handleSendMessage: the participants it read are the ones it counts for.      *)
SendFind(s) == StartAuthorized(s, "insert", participants, None)

InsertMessage(s, m) ==
  /\ SAt(s, "insert")
  /\ ~Sent(m)
  /\ messages' = [messages EXCEPT ![m] = "stored"]
  /\ sender' = [sender EXCEPT ![m] = Owner(s)]
  /\ SGoto(s, "summary", sReq[s].seen, m)
  /\ UNCHANGED <<members, unread, announced, gReq, gCalls, last, reacted, readBy, rooms,
                 redis, sEvents, got, audience>>

\* $set of the summary and $inc of the counts, found by id alone.  It may fail,
\* and the message is broadcast all the same.
Summarise(s) ==
  LET q == sReq[s] IN
  /\ SAt(s, "summary")
  /\ \/ /\ Live
        /\ last' = q.msg
        /\ unread' = [u \in Users |->
                        IF u \notin q.seen \ {Owner(s)} THEN unread[u]
                        ELSE IF unread[u] = Unset THEN 1 ELSE unread[u] + 1]
     \/ UNCHANGED <<last, unread>>
  /\ SGoto(s, "broadcast", {}, q.msg)
  /\ UNCHANGED <<members, messages, announced, gReq, gCalls, sender, reacted, readBy, rooms,
                 redis, sEvents, got, audience>>

\* deliverLocal: to the connected sockets of the room that a process holds.
RoomOf(p) == {s \in joined : Host(s) = p}

Deliver(m, targets) ==
  got' = [s \in Sockets |->
            IF s \in targets THEN [got[s] EXCEPT ![m] = got[s][m] + 1] ELSE got[s]]

\* publishRoom: Redis hands the frame to the processes that listen, the one that
\* published it among them.  publish may throw, and then none hears of it.
Publish(heard, m, home) ==
  queue' = [p \in Processes |->
              IF p \in heard THEN Append(queue[p], [msg |-> m, origin |-> home])
              ELSE queue[p]]

\* emitRoom.
Broadcast(s) ==
  LET m == sReq[s].msg
      home == Host(s) IN
  /\ SAt(s, "broadcast")
  /\ Deliver(m, RoomOf(home))
  /\ \E heard \in {hears, {}} :
       /\ Publish(heard, m, home)
       /\ audience' = [audience EXCEPT ![m] =
                         {t \in joined : Host(t) \in heard \cup {home}}]
  /\ SEnd(s)
  /\ UNCHANGED <<gVars, chat, rooms, hears, sEvents>>

-----------------------------------------------------------------------------
(* The subscriber of a process.                                                 *)
\* Mutant: a process delivers its own frames again.
OnRedisRoomMessageEcho(p) ==
  /\ queue[p] # <<>>
  /\ queue' = [queue EXCEPT ![p] = Tail(queue[p])]
  /\ Deliver(Head(queue[p]).msg, RoomOf(p))
  /\ UNCHANGED <<gVars, chat, rooms, hears, sReq, sEvents, audience>>

OnRedisRoomMessage(p) ==
  /\ queue[p] # <<>>
  /\ queue' = [queue EXCEPT ![p] = Tail(queue[p])]
  /\ IF Head(queue[p]).origin = p
     THEN UNCHANGED got
     ELSE Deliver(Head(queue[p]).msg, RoomOf(p))
  /\ UNCHANGED <<gVars, chat, rooms, hears, sReq, sEvents, audience>>

\* A read that timed out or failed ends the subscription; what Redis had sent on
\* it is gone.
LoseSubscription(p) ==
  /\ p \in hears
  /\ sEvents < MaxEvents
  /\ sEvents' = sEvents + 1
  /\ hears' = hears \ {p}
  /\ queue' = [queue EXCEPT ![p] = <<>>]
  /\ audience' = [m \in Messages |->
                    {s \in audience[m] : Host(s) = p => got[s][m] > 0}]
  /\ UNCHANGED <<gVars, chat, rooms, sReq, got>>

Subscribe(p) ==
  /\ p \notin hears
  /\ hears' = hears \cup {p}
  /\ UNCHANGED <<gVars, chat, rooms, queue, sReq, sEvents, got, audience>>

-----------------------------------------------------------------------------
(* The other events of a socket.                                                *)
MarkSeenFind(s, m) == Sent(m) /\ StartAuthorized(s, "seen", {}, m)

\* The count is set by the id of the conversation alone.
MarkSeenCount(s) ==
  /\ SAt(s, "seen")
  /\ unread' = IF Live THEN [unread EXCEPT ![Owner(s)] = 0] ELSE unread
  /\ SGoto(s, "readBy", {}, sReq[s].msg)
  /\ UNCHANGED <<members, messages, announced, gReq, gCalls, chat, rooms, redis, sEvents, got,
                 audience>>

\* The last command of an event, on the message alone: `mark` is the field it
\* changes, and nothing is changed if the message is no longer there.
Mark(s, pc, mark, value) ==
  /\ SAt(s, pc)
  /\ mark' = IF InStore(sReq[s].msg) THEN [mark EXCEPT ![sReq[s].msg] = value] ELSE mark
  /\ SEnd(s)
  /\ UNCHANGED <<gVars, sender, last, rooms, redis, sEvents, got, audience>>

MarkSeenMessage(s) ==
  /\ Mark(s, "readBy", readBy, readBy[sReq[s].msg] \cup {Owner(s)})
  /\ UNCHANGED reacted

ReactFind(s, m) == Sent(m) /\ StartAuthorized(s, "react", {}, m)
UnreactFind(s, m) == Sent(m) /\ StartAuthorized(s, "unreact", {}, m)

AddReaction(s) ==
  /\ Mark(s, "react", reacted, reacted[sReq[s].msg] \cup {Owner(s)})
  /\ UNCHANGED readBy

RemoveReaction(s) ==
  /\ Mark(s, "unreact", reacted, reacted[sReq[s].msg] \ {Owner(s)})
  /\ UNCHANGED readBy

\* A command throws: the handler answers with an error, and what it did stays.
Fail(s) ==
  /\ ~SAt(s, "idle")
  /\ SEnd(s)
  /\ UNCHANGED <<gVars, chat, rooms, redis, sEvents, got, audience>>

DeleteMessage(s, m) ==
  /\ s \in up
  /\ Sent(m)
  /\ Event(s)
  /\ Hide(m, Owner(s), sender[m])
  /\ UNCHANGED <<gReq, chat, rooms, redis, sReq, got, audience>>

-----------------------------------------------------------------------------
Init ==
  /\ GroupInit
  /\ sender = [m \in Messages |-> Creator]
  /\ last = None
  /\ reacted = [m \in Messages |-> {}]
  /\ readBy = [m \in Messages |-> {}]
  /\ up = {}
  /\ joined = {}
  /\ hears = Processes
  /\ queue = [p \in Processes |-> <<>>]
  /\ sReq = [s \in Sockets |-> AtRest]
  /\ sEvents = 0
  /\ got = [s \in Sockets |-> [m \in Messages |-> 0]]
  /\ audience = [m \in Messages |-> {}]

\* The chat controller changes a message as the socket's handler does.
ChatController ==
  \/ \E u \in Users : MarkRead(u)
  \/ \E u \in Users, m \in Messages : Sent(m) /\ Hide(m, u, sender[m]) /\ UNCHANGED gReq

SocketStep(s) ==
  \/ Connect(s) \/ Close(s) \/ Fail(s)
  \/ JoinFind(s) \/ JoinRoom(s) \/ LeaveRoom(s)
  \/ SendFind(s) \/ Summarise(s) \/ Broadcast(s)
  \/ MarkSeenCount(s) \/ MarkSeenMessage(s) \/ AddReaction(s) \/ RemoveReaction(s)
  \/ \E m \in Messages :
       \/ InsertMessage(s, m)
       \/ MarkSeenFind(s, m)
       \/ ReactFind(s, m) \/ UnreactFind(s, m)
       \/ DeleteMessage(s, m)

Next ==
  \/ (\E r \in Requests : GroupStep(r)) /\ UNCHANGED rVars
  \/ ChatController /\ UNCHANGED rVars
  \/ \E s \in Sockets : SocketStep(s)
  \/ \E p \in Processes : OnRedisRoomMessage(p) \/ LoseSubscription(p) \/ Subscribe(p)

vars == <<gVars, rVars>>

Spec == Init /\ [][Next]_vars

-----------------------------------------------------------------------------
TypeOK ==
  /\ GroupTypeOK
  /\ sender \in [Messages -> Users]
  /\ last \in Messages \cup {None}
  /\ reacted \in [Messages -> SUBSET Users]
  /\ readBy \in [Messages -> SUBSET Users]
  /\ up \subseteq Sockets
  /\ joined \subseteq up
  /\ hears \subseteq Processes
  /\ queue \in [Processes -> Seq(Frame)]
  /\ sReq \in [Sockets -> [pc : {"idle", "join", "insert", "summary", "broadcast", "seen",
                                 "readBy", "react", "unreact"},
                           seen : SUBSET Users, msg : Messages \cup {None}]]
  /\ sEvents \in 0 .. MaxEvents
  /\ got \in [Sockets -> [Messages -> Nat]]
  /\ audience \in [Messages -> SUBSET Sockets]

\* How often a message still waits for a socket in the queue of its process.
Waiting(s, m) ==
  Cardinality({i \in DOMAIN queue[Host(s)] :
                 queue[Host(s)][i].msg = m /\ queue[Host(s)][i].origin # Host(s)})

\* A message reaches every socket that was in the room when it was sent, and has
\* not left it since, exactly once: from the process it was sent on or by way of
\* Redis, and only what a lost subscription or a failed publish takes away is
\* missing (emitRoom, publishRoom, onRedisRoomMessage).  Nobody gets it twice.
ExactlyOnce ==
  \A s \in Sockets, m \in Messages :
    /\ got[s][m] <= 1
    /\ s \in audience[m] => got[s][m] + Waiting(s, m) = 1
=============================================================================
