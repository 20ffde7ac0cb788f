-------------------------------- MODULE Presence --------------------------------
(* Who is online: PresenceService (two Redis keys per user), the two WebSocket *)
(* hubs that call it when a socket opens, is heard of and closes, and the      *)
(* thread of each hub that re-checks its sockets at an interval.  One user;    *)
(* one action per command sent to Redis.                                       *)
EXTENDS Naturals, Integers, FiniteSets

CONSTANTS
  Conns,          \* the user's sockets
  Procs, Hubs,    \* server processes; "realtime" and "presence"
  Cap,            \* sockets of a user per hub (maxConnectionsPerUser)
  PresenceTTL,    \* lifetime of presence:<id>, in re-check intervals
  CountTTL,       \* lifetime of presence:count:<id>
  MaxMishaps      \* bound: Redis failures and crashes

ASSUME PresenceAssumption ==
  /\ Hubs = {"realtime", "presence"}
  /\ Cap \in Nat \ {0}
  /\ PresenceTTL \in Nat \ {0, 1} /\ CountTTL \in Nat \ {0, 1}
  /\ PresenceTTL <= CountTTL      \* kPresenceTtl, kCountTtl
  /\ MaxMishaps \in Nat

VARIABLES
  pc,         \* where the handlers of a socket stand
  at,         \* the process and the hub it is open at
  reg,        \* presenceRegistered
  edge,       \* the last INCR gave 1, or the last DECR gave 0
  held,       \* sockets in conns_, connUsers_
  slots,      \* userConnCount_ of each process and hub
  check,      \* where the re-check stands with a socket
  count, countTTL,   \* presence:count:<id>; 0 when the key is absent
  key,        \* what is left of the life of presence:<id>; 0: absent
  told,       \* the last status the conversation peers were sent
  mishaps,
  leaked,     \* history: increments nobody is left to undo
  overlap     \* history: a handler began while another was under way

vars == <<pc, at, reg, edge, held, slots, check, count, countTTL, key, told,
          mishaps, leaked, overlap>>
redis == <<count, countTTL, key>>

Places == Procs \X Hubs
Nowhere == <<"none", "none">>
Home(c) == at[c][1]
HubOf(c) == at[c][2]

Forever == CountTTL + 1    \* a key with no expiry
Rest == {"closed", "open", "rejected"}
Touching == {"touchSet", "touchTTL"}
PCs == Rest \cup Touching \cup
       {"incr", "countTTL", "setKey", "tellOn", "decr", "delCount", "delKey",
        "tellOff", "keep", "forget"}
Checks == {"due", "set", "expire", "done"}

Init ==
  /\ pc = [c \in Conns |-> "closed"]
  /\ at = [c \in Conns |-> Nowhere]
  /\ reg = [c \in Conns |-> FALSE]
  /\ edge = [c \in Conns |-> FALSE]
  /\ held = {}
  /\ slots = [place \in Places |-> 0]
  /\ check = [c \in Conns |-> "done"]
  /\ count = 0 /\ countTTL = 0 /\ key = 0
  /\ told = FALSE
  /\ mishaps = 0 /\ leaked = 0 /\ overlap = FALSE

Move(c, l) == pc' = [pc EXCEPT ![c] = l]
Goto(c, l) ==
  /\ Move(c, l)
  /\ at' = IF l = "closed" THEN [at EXCEPT ![c] = Nowhere] ELSE at
  /\ edge' = IF l \in Rest THEN [edge EXCEPT ![c] = FALSE] ELSE edge
Register(c, b) == reg' = [reg EXCEPT ![c] = b]
\* The handlers of one socket run one after the other, on its event loop.
Busy == \E c \in Conns : pc[c] \notin Rest \cup Touching
Began == overlap' = (overlap \/ Busy)
\* A Redis command throws: the rest of the service's call is skipped.
Mishap == mishaps < MaxMishaps /\ mishaps' = mishaps + 1

\* SET ... EX, EXPIRE (nothing on an absent key) and DEL.
ShowForever == key' = Forever            \* Mutant: SET without its EX
Show == key' = PresenceTTL
KeepCount == countTTL' = IF countTTL = 0 THEN 0 ELSE CountTTL
ForgetCount == count' = 0 /\ countTTL' = 0

-----------------------------------------------------------------------------
(* Opening a socket.                                                           *)
\* The cap and the registry, under one lock; then the user's own room.
Connect(c, place) ==
  /\ pc[c] = "closed"
  /\ at' = [at EXCEPT ![c] = place]
  /\ IF slots[place] >= Cap
     THEN Move(c, "rejected") /\ UNCHANGED <<held, slots>>
     ELSE /\ slots' = [slots EXCEPT ![place] = @ + 1]
          /\ held' = held \cup {c}
          /\ Move(c, "incr")
  /\ Began
  /\ UNCHANGED <<reg, edge, check, redis, told, mishaps, leaked>>

\* Mutant: the context is still there, and the close handler gives a slot back.
CloseRejectedTwice(c) ==
  /\ pc[c] = "rejected"
  /\ slots' = [slots EXCEPT ![at[c]] = @ - 1]
  /\ Goto(c, "closed")
  /\ UNCHANGED <<reg, held, check, redis, told, mishaps, leaked, overlap>>

\* A socket refused at the cap has no context: its close handler returns.
CloseRejected(c) ==
  /\ pc[c] = "rejected"
  /\ Goto(c, "closed")
  /\ UNCHANGED <<reg, held, slots, check, redis, told, mishaps, leaked, overlap>>

\* addConnection.  INCR of an absent key leaves a key with no expiry.
Incr(c) ==
  /\ pc[c] = "incr"
  /\ \/ /\ count' = count + 1
        /\ countTTL' = IF countTTL = 0 THEN Forever ELSE countTTL
        /\ edge' = [edge EXCEPT ![c] = count' = 1]
        /\ Move(c, "countTTL")
        /\ UNCHANGED <<at, mishaps, leaked>>
     \/ /\ Mishap                               \* never executed
        /\ Goto(c, "open")
        /\ UNCHANGED <<count, countTTL, leaked>>
     \/ /\ Mishap                               \* executed, the reply lost
        /\ count' = count + 1
        /\ countTTL' = IF countTTL = 0 THEN Forever ELSE countTTL
        /\ leaked' = leaked + 1
        /\ Goto(c, "open")
  /\ UNCHANGED <<reg, held, slots, check, key, told, overlap>>

\* The EXPIRE of the counter.  The INCR has succeeded: the socket is
\* registered, whatever fails now.
ExpireCount(c) ==
  /\ pc[c] = "countTTL"
  /\ \/ KeepCount /\ Goto(c, "setKey") /\ UNCHANGED <<reg, mishaps>>
     \/ Mishap /\ Register(c, TRUE) /\ Goto(c, "open") /\ UNCHANGED countTTL
  /\ UNCHANGED <<held, slots, check, count, key, told, leaked, overlap>>

SetKey(c) ==
  /\ pc[c] = "setKey"
  /\ Register(c, TRUE)
  /\ \/ Show /\ Goto(c, IF edge[c] THEN "tellOn" ELSE "open") /\ UNCHANGED mishaps
     \/ Mishap /\ Goto(c, "open") /\ UNCHANGED key
  /\ UNCHANGED <<held, slots, check, count, countTTL, told, leaked, overlap>>

\* notifyConversationPeers; the peers are read from MongoDB first.
TellOnline(c) ==
  /\ pc[c] = "tellOn"
  /\ \/ told' = TRUE /\ UNCHANGED mishaps
     \/ Mishap /\ UNCHANGED told
  /\ Goto(c, "open")
  /\ UNCHANGED <<reg, held, slots, check, redis, leaked, overlap>>

-----------------------------------------------------------------------------
(* Hearing of a socket: user_online from the client, the re-check of the hub.  *)
\* Mutant: each user_online counts as a connection.
UserOnlineCounts(c) ==
  /\ pc[c] = "open"
  /\ count < Cardinality(Conns) + MaxMishaps + 1    \* bound
  /\ count' = count + 1
  /\ countTTL' = IF countTTL = 0 THEN Forever ELSE countTTL
  /\ Goto(c, "touchSet")
  /\ UNCHANGED <<reg, held, slots, check, key, told, mishaps, leaked, overlap>>

UserOnline(c) ==
  /\ pc[c] = "open"
  /\ Goto(c, "touchSet")
  /\ UNCHANGED <<reg, held, slots, check, redis, told, mishaps, leaked, overlap>>

TouchSet(c) ==
  /\ pc[c] = "touchSet"
  /\ \/ Show /\ Goto(c, "touchTTL") /\ UNCHANGED mishaps
     \/ Mishap /\ Goto(c, "open") /\ UNCHANGED key
  /\ UNCHANGED <<reg, held, slots, check, count, countTTL, told, leaked, overlap>>

TouchTTL(c) ==
  /\ pc[c] = "touchTTL"
  /\ Goto(c, "open")
  /\ \/ KeepCount /\ UNCHANGED mishaps
     \/ Mishap /\ UNCHANGED countTTL
  /\ UNCHANGED <<reg, held, slots, check, count, key, told, leaked, overlap>>

\* A socket the snapshot of the hub names; one whose token is no longer good
\* is shut down (Close), one that is registered is touched.
CheckSocket(c) ==
  /\ check[c] = "due"
  /\ c \in held
  /\ check' = [check EXCEPT ![c] = IF reg[c] THEN "set" ELSE "done"]
  /\ UNCHANGED <<at, pc, reg, edge, held, slots, redis, told, mishaps, leaked, overlap>>

\* Mutant: the re-check renews the counter only.
CheckSetNothing(c) ==
  /\ check[c] = "set"
  /\ check' = [check EXCEPT ![c] = "expire"]
  /\ UNCHANGED <<at, pc, reg, edge, held, slots, redis, told, mishaps, leaked, overlap>>

CheckSet(c) ==
  /\ check[c] = "set"
  /\ \/ Show /\ check' = [check EXCEPT ![c] = "expire"] /\ UNCHANGED mishaps
     \/ Mishap /\ check' = [check EXCEPT ![c] = "done"] /\ UNCHANGED key
  /\ UNCHANGED <<at, pc, reg, edge, held, slots, count, countTTL, told, leaked, overlap>>

\* Mutant: the re-check renews the presence key only.
CheckExpireNothing(c) ==
  /\ check[c] = "expire"
  /\ check' = [check EXCEPT ![c] = "done"]
  /\ UNCHANGED <<at, pc, reg, edge, held, slots, redis, told, mishaps, leaked, overlap>>

CheckExpire(c) ==
  /\ check[c] = "expire"
  /\ check' = [check EXCEPT ![c] = "done"]
  /\ \/ KeepCount /\ UNCHANGED mishaps
     \/ Mishap /\ UNCHANGED countTTL
  /\ UNCHANGED <<at, pc, reg, edge, held, slots, count, key, told, leaked, overlap>>

-----------------------------------------------------------------------------
(* Closing a socket.  The presence hub drops it first, the realtime hub last.  *)
Close(c) ==
  /\ pc[c] = "open"
  /\ Register(c, FALSE)
  /\ IF HubOf(c) = "presence"
     THEN /\ held' = held \ {c}
          /\ slots' = [slots EXCEPT ![at[c]] = @ - 1]
          /\ Goto(c, IF reg[c] THEN "decr" ELSE "closed")
     ELSE /\ Goto(c, IF reg[c] THEN "decr" ELSE "forget")
          /\ UNCHANGED <<held, slots>>
  /\ Began
  /\ UNCHANGED <<check, redis, told, mishaps, leaked>>

\* Where the close handler goes on after removeConnection.
Leave(c) == Goto(c, IF HubOf(c) = "presence" THEN "closed" ELSE "forget")

\* Mutant: the counter is reset only when it is exactly 0.
IsFloorExactly(n) == n = 0
IsFloor(n) == n <= 0

\* removeConnection
Decr(c) ==
  /\ pc[c] = "decr"
  /\ \/ /\ count' = count - 1
        /\ countTTL' = IF countTTL = 0 THEN Forever ELSE countTTL
        /\ edge' = [edge EXCEPT ![c] = count' = 0]
        /\ Move(c, IF IsFloor(count') THEN "delCount" ELSE "keep")
        /\ UNCHANGED <<at, mishaps, leaked>>
     \/ /\ Mishap                               \* never executed
        /\ leaked' = leaked + 1
        /\ Leave(c)
        /\ UNCHANGED <<count, countTTL>>
     \/ /\ Mishap                               \* executed, the reply lost
        /\ count' = count - 1
        /\ countTTL' = IF countTTL = 0 THEN Forever ELSE countTTL
        /\ Leave(c)
        /\ UNCHANGED <<leaked>>
  /\ UNCHANGED <<reg, held, slots, check, key, told, overlap>>

DelCount(c) ==
  /\ pc[c] = "delCount"
  /\ \/ ForgetCount /\ Goto(c, "delKey") /\ UNCHANGED mishaps
     \/ Mishap /\ Leave(c) /\ UNCHANGED <<count, countTTL>>
  /\ UNCHANGED <<reg, held, slots, check, key, told, leaked, overlap>>

DelKey(c) ==
  /\ pc[c] = "delKey"
  /\ \/ /\ key' = 0
        /\ IF edge[c] THEN Goto(c, "tellOff") ELSE Leave(c)
        /\ UNCHANGED mishaps
     \/ Mishap /\ Leave(c) /\ UNCHANGED key
  /\ UNCHANGED <<reg, held, slots, check, count, countTTL, told, leaked, overlap>>

TellOffline(c) ==
  /\ pc[c] = "tellOff"
  /\ \/ told' = FALSE /\ UNCHANGED mishaps
     \/ Mishap /\ UNCHANGED told
  /\ Leave(c)
  /\ UNCHANGED <<reg, held, slots, check, redis, leaked, overlap>>

Keep(c) ==
  /\ pc[c] = "keep"
  /\ \/ KeepCount /\ UNCHANGED mishaps
     \/ Mishap /\ UNCHANGED countTTL
  /\ Leave(c)
  /\ UNCHANGED <<reg, held, slots, check, count, key, told, leaked, overlap>>

\* leaveAllRooms, conns_.erase, --userConnCount_
Forget(c) ==
  /\ pc[c] = "forget"
  /\ held' = held \ {c}
  /\ slots' = [slots EXCEPT ![at[c]] = @ - 1]
  /\ Goto(c, "closed")
  /\ UNCHANGED <<reg, check, redis, told, mishaps, leaked, overlap>>

-----------------------------------------------------------------------------
(* Time and crashes.                                                           *)
\* Sockets whose increment is still to be undone.
Owners == {c \in Conns : reg[c] \/ pc[c] \in {"countTTL", "setKey", "decr"}}

\* One interval passes, and every hub starts its next sweep.  Handlers and
\* sweeps end within the interval: each Redis command has a socket timeout.
Tick ==
  /\ \A c \in Conns : /\ pc[c] \in Rest
                      /\ check[c] = "done" \/ (check[c] = "due" /\ c \notin held)
  /\ key' = IF key \in {0, Forever} THEN key ELSE key - 1
  /\ countTTL' = IF countTTL \in {0, Forever} THEN countTTL ELSE countTTL - 1
  /\ count' = IF countTTL' = 0 THEN 0 ELSE count
  /\ check' = [c \in Conns |-> "due"]
  /\ UNCHANGED <<at, pc, reg, edge, held, slots, told, mishaps, leaked, overlap>>

\* A process dies with all its sockets.
Crash(p) ==
  LET lost == {c \in Conns : Home(c) = p} IN
  /\ Mishap
  /\ pc' = [c \in Conns |-> IF c \in lost THEN "closed" ELSE pc[c]]
  /\ reg' = [c \in Conns |-> reg[c] /\ c \notin lost]
  /\ at' = [c \in Conns |-> IF c \in lost THEN Nowhere ELSE at[c]]
  /\ edge' = [c \in Conns |-> edge[c] /\ c \notin lost]
  /\ held' = held \ lost
  /\ slots' = [place \in Places |-> IF place[1] = p THEN 0 ELSE slots[place]]
  /\ check' = [c \in Conns |-> IF c \in lost THEN "done" ELSE check[c]]
  /\ leaked' = leaked + Cardinality(Owners \cap lost)
  /\ UNCHANGED <<redis, told, overlap>>

Handle(c) ==
  \/ Incr(c) \/ ExpireCount(c) \/ SetKey(c) \/ TellOnline(c)
  \/ TouchSet(c) \/ TouchTTL(c)
  \/ CloseRejected(c) \/ Decr(c) \/ DelCount(c) \/ DelKey(c) \/ TellOffline(c)
  \/ Keep(c) \/ Forget(c)
Recheck(c) == CheckSocket(c) \/ CheckSet(c) \/ CheckExpire(c)

Next ==
  \/ \E c \in Conns : \/ \E place \in Places : Connect(c, place)
                      \/ UserOnline(c) \/ Close(c) \/ Handle(c) \/ Recheck(c)
  \/ Tick
  \/ \E p \in Procs : Crash(p)

Spec == Init /\ [][Next]_vars
\* Handlers and the re-check thread run on, and time passes.
Fairness ==
  /\ \A c \in Conns : WF_vars(Handle(c)) /\ WF_vars(Recheck(c))
  /\ WF_vars(Tick)
FairSpec == Spec /\ Fairness

-----------------------------------------------------------------------------
(* Properties                                                                  *)

TypeOK ==
  /\ pc \in [Conns -> PCs]
  /\ reg \in [Conns -> BOOLEAN] /\ edge \in [Conns -> BOOLEAN]
  /\ held \subseteq Conns
  /\ slots \in [Places -> 0 .. Cap]
  /\ at \in [Conns -> Places \cup {Nowhere}]
  /\ check \in [Conns -> Checks]
  /\ count \in Int /\ countTTL \in 0 .. Forever /\ key \in 0 .. Forever
  /\ told \in BOOLEAN
  /\ mishaps \in 0 .. MaxMishaps /\ leaked \in Nat /\ overlap \in BOOLEAN

Quiet == \A c \in Conns : pc[c] \in Rest
Live == {c \in Conns : reg[c]}

\* Every variable stays in its range; and however sockets were refused, opened and
\* closed at once, or lost in a crash or a lost reply: a user never holds more
\* sockets of a hub than the cap; the counter never exceeds the sockets that will
\* still be counted down and those that were lost; and races alone never leave it
\* stuck below 0 (the floor in removeConnection).
CountsBounded ==
  /\ TypeOK
  /\ \A place \in Places : Cardinality({c \in held : at[c] = place}) <= Cap
  /\ count <= Cardinality(Owners) + leaked
  /\ Quiet /\ mishaps = 0 => count >= 0

\* As long as sockets open and close one at a time and Redis answers, the
\* counter, the key and the last announcement are right at rest, for sockets
\* that stay open longer than either key lives.
SerialExact ==
  Quiet /\ ~overlap /\ mishaps = 0 =>
    /\ count = Cardinality(Live)
    /\ Live # {} => key > 0
    /\ told = (Live # {})

\* "A user only flips "offline" when their LAST socket disconnects": a user with a
\* registered socket whose handlers are done is shown online.
ShownOnline == Quiet /\ Live # {} => key > 0

\* When the last socket is gone for good the user stops being shown online,
\* whatever crashed ("self-heals if a process dies").
GhostsFade ==
  <>[](\A c \in Conns : pc[c] = "closed") => <>[](key = 0)

\* A user with a registered socket is shown online again and again, even when
\* a race or a failure took the key away: each re-check puts it back.
ShownAgain == \A c \in Conns : <>[](reg[c]) => []<>(key > 0)
=============================================================================
