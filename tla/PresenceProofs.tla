----------------------------- MODULE PresenceProofs -----------------------------
(* Theorems about Presence for any sockets, processes, lifetimes of keys and     *)
(* bound on mishaps: what the counter may be, and that it is exact as long as    *)
(* sockets open and close one at a time.                                         *)
EXTENDS PresenceMC, FiniteSetTheorems, TLAPS

-----------------------------------------------------------------------------
(* Which socket holds a slot.                                                   *)

Opening == {"incr", "countTTL", "setKey", "tellOn", "open", "touchSet", "touchTTL", "forget"}
Closing == {"decr", "delCount", "delKey", "tellOff", "keep"}
Usable == {"tellOn", "open", "touchSet", "touchTTL"}

\* The presence hub drops a socket when it begins to close, the realtime hub at the end.
Holds(l, place) == l \in Opening \/ (l \in Closing /\ place[2] = "realtime")

Active == {c \in Conns : pc[c] # "closed"}
Holders(place) == {c \in held : at[c] = place}

Shape ==
  /\ pc \in [Conns -> PCs] /\ reg \in [Conns -> BOOLEAN] /\ edge \in [Conns -> BOOLEAN]
  /\ held \subseteq Conns
  /\ slots \in [Places -> 0 .. Cap] /\ at \in [Conns -> Places \cup {Nowhere}]
  /\ IsFiniteSet(Active)
  /\ \A c \in Conns : /\ pc[c] = "closed" <=> at[c] = Nowhere
                      /\ c \in held <=> Holds(pc[c], at[c])
                      /\ reg[c] => pc[c] \in Usable
  /\ \A place \in Places : slots[place] = Cardinality(Holders(place))

LEMMA PlaceSomewhere == Nowhere \notin Places
  BY PresenceAssumption DEF Nowhere, Places

LEMMA ShapeFacts ==
  ASSUME Shape, NEW c \in Conns
  PROVE  /\ pc[c] \in PCs /\ reg[c] \in BOOLEAN /\ edge[c] \in BOOLEAN
         /\ pc[c] # "closed" => at[c] \in Places /\ at[c][2] \in {"realtime", "presence"}
         /\ pc[c] = "closed" <=> at[c] = Nowhere
         /\ c \in held <=> Holds(pc[c], at[c])
         /\ reg[c] => pc[c] \in Usable
  <1>1. pc[c] # "closed" => at[c] \in Places
    BY DEF Shape
  <1>2. \A place \in Places : place[2] \in {"realtime", "presence"}
    BY PresenceAssumption DEF Places
  <1> QED BY <1>1, <1>2 DEF Shape

\* Sockets in any number of sets are finitely many.
LEMMA HoldersFinite ==
  ASSUME Shape, NEW place
  PROVE  IsFiniteSet(Holders(place)) /\ Cardinality(Holders(place)) \in Nat
  <1>1. \A c \in held : c \in Active
    BY DEF Shape, Holds, Opening, Closing, Active
  <1>2. Holders(place) \in SUBSET Active
    BY <1>1 DEF Holders
  <1> QED BY <1>2, FS_Subset, FS_CardinalityType DEF Shape

LEMMA ActiveStill ==
  ASSUME Shape, NEW c \in Conns, \A d \in Conns \ {c} : pc'[d] = pc[d]
  PROVE  IsFiniteSet(Active')
  <1>1. Active' \in SUBSET (Active \cup {c})
    BY DEF Active
  <1>2. IsFiniteSet(Active \cup {c})
    BY FS_AddElement DEF Shape
  <1> QED BY <1>1, <1>2, FS_Subset

\* A socket's handler goes on, and the socket keeps its slot, or goes without one.
LEMMA ShapeMoves ==
  ASSUME Shape, NEW c \in Conns, pc[c] # "closed", NEW l \in PCs,
         pc' = [pc EXCEPT ![c] = l],
         at' = IF l = "closed" THEN [at EXCEPT ![c] = Nowhere] ELSE at,
         edge' \in [Conns -> BOOLEAN], reg' \in [Conns -> BOOLEAN],
         \A d \in Conns \ {c} : reg'[d] = reg[d], reg'[c] => l \in Usable,
         UNCHANGED held, UNCHANGED slots,
         Holds(l, at[c]) <=> Holds(pc[c], at[c])
  PROVE  Shape'
  <1>1. pc' \in [Conns -> PCs] /\ pc'[c] = l /\ \A d \in Conns \ {c} : pc'[d] = pc[d]
    BY DEF Shape
  <1>2. /\ at' \in [Conns -> Places \cup {Nowhere}]
        /\ \A d \in Conns \ {c} : at'[d] = at[d]
        /\ at'[c] = IF l = "closed" THEN Nowhere ELSE at[c]
    BY DEF Shape
  <1>3. l = "closed" => c \notin held
    BY DEF Shape, Holds, Opening, Closing
  <1>4. ASSUME NEW place \in Places PROVE slots'[place] = Cardinality(Holders(place)')
    <2>1. Holders(place)' = Holders(place)
      BY <1>2, <1>3 DEF Holders, Shape
    <2> QED BY <2>1 DEF Shape
  <1>5. ASSUME NEW d \in Conns
        PROVE  /\ pc'[d] = "closed" <=> at'[d] = Nowhere
               /\ d \in held' <=> Holds(pc'[d], at'[d])
               /\ reg'[d] => pc'[d] \in Usable
    <2>1. CASE d # c
      BY <1>1, <1>2, <2>1 DEF Shape
    <2>2. CASE d = c
      <3>1. at[c] # Nowhere
        BY DEF Shape
      <3>2. CASE l = "closed"
        BY <1>1, <1>2, <1>3, <2>2, <3>2 DEF Holds, Opening, Closing
      <3>3. CASE l # "closed"
        BY <1>1, <1>2, <2>2, <3>1, <3>3 DEF Shape
      <3> QED BY <3>2, <3>3
    <2> QED BY <2>1, <2>2
  <1>6. IsFiniteSet(Active')
    BY <1>1, ActiveStill
  <1> QED BY <1>1, <1>2, <1>4, <1>5, <1>6 DEF Shape

\* A socket gives back its slot.
LEMMA ShapeDrops ==
  ASSUME Shape, NEW c \in Conns, c \in held, NEW l \in PCs,
         pc' = [pc EXCEPT ![c] = l],
         at' = IF l = "closed" THEN [at EXCEPT ![c] = Nowhere] ELSE at,
         edge' \in [Conns -> BOOLEAN], reg' \in [Conns -> BOOLEAN],
         \A d \in Conns \ {c} : reg'[d] = reg[d], ~reg'[c],
         held' = held \ {c}, slots' = [slots EXCEPT ![at[c]] = @ - 1],
         ~Holds(l, at[c])
  PROVE  Shape'
  <1>0. pc[c] # "closed" /\ at[c] \in Places /\ at[c] # Nowhere
    BY ShapeFacts DEF Holds, Opening, Closing
  <1>1. pc' \in [Conns -> PCs] /\ pc'[c] = l /\ \A d \in Conns \ {c} : pc'[d] = pc[d]
    BY DEF Shape
  <1>2. /\ at' \in [Conns -> Places \cup {Nowhere}]
        /\ \A d \in Conns \ {c} : at'[d] = at[d]
        /\ at'[c] = IF l = "closed" THEN Nowhere ELSE at[c]
    BY DEF Shape
  <1>3. PICK place \in Places : place = at[c]
    BY <1>0
  <1>4. Cardinality(Holders(place)) \in Nat /\ c \in Holders(place) /\ IsFiniteSet(Holders(place))
    BY <1>3, HoldersFinite DEF Holders
  <1>5. Holders(place)' = Holders(place) \ {c}
    BY <1>2, <1>3, PlaceSomewhere DEF Holders, Shape
  <1>6. Cardinality(Holders(place) \ {c}) = Cardinality(Holders(place)) - 1
        /\ Cardinality(Holders(place) \ {c}) \in Nat
    BY <1>4, FS_RemoveElement, FS_CardinalityType
  <1>61. slots[place] = Cardinality(Holders(place)) /\ slots[place] \in 0 .. Cap /\ Cap \in Nat
    BY PresenceAssumption DEF Shape
  <1>7. PICK n \in 0 .. Cap : n = slots[place] - 1
    BY <1>4, <1>6, <1>61
  <1>8. slots' \in [Places -> 0 .. Cap] /\ slots'[place] = n
        /\ \A other \in Places \ {place} : slots'[other] = slots[other]
    BY <1>3, <1>7 DEF Shape
  <1>9. ASSUME NEW other \in Places PROVE slots'[other] = Cardinality(Holders(other)')
    <2>1. CASE other = place
      BY <1>5, <1>6, <1>61, <1>7, <1>8, <2>1
    <2>2. CASE other # place
      <3>1. Holders(other)' = Holders(other)
        BY <1>2, <1>3, <2>2, PlaceSomewhere DEF Holders, Shape
      <3> QED BY <1>8, <2>2, <3>1 DEF Shape
    <2> QED BY <2>1, <2>2
  <1>10. ASSUME NEW d \in Conns
        PROVE  /\ pc'[d] = "closed" <=> at'[d] = Nowhere
               /\ d \in held' <=> Holds(pc'[d], at'[d])
               /\ reg'[d] => pc'[d] \in Usable
    <2>1. CASE d # c
      BY <1>1, <1>2, <2>1 DEF Shape
    <2>2. CASE d = c
      <3>1. CASE l = "closed"
        BY <1>1, <1>2, <2>2, <3>1 DEF Holds, Opening, Closing
      <3>2. CASE l # "closed"
        BY <1>0, <1>1, <1>2, <2>2, <3>2
      <3> QED BY <3>1, <3>2
    <2> QED BY <2>1, <2>2
  <1>11. IsFiniteSet(Active')
    BY <1>1, ActiveStill
  <1>12. held' \subseteq Conns
    BY DEF Shape
  <1> QED BY <1>1, <1>2, <1>8, <1>9, <1>10, <1>11, <1>12 DEF Shape

\* A socket is let in, or refused at the cap.
LEMMA ShapeConnects ==
  ASSUME Shape, NEW c \in Conns, NEW place \in Places, Connect(c, place)
  PROVE  Shape'
  <1>0. pc[c] = "closed" /\ at' = [at EXCEPT ![c] = place] /\ UNCHANGED reg /\ UNCHANGED edge
        /\ place # Nowhere
    BY PlaceSomewhere DEF Connect
  <1>1. c \notin held /\ ~reg[c]
    BY <1>0, ShapeFacts DEF Holds, Opening, Closing, Usable
  <1>2. /\ at' \in [Conns -> Places \cup {Nowhere}]
        /\ \A d \in Conns \ {c} : at'[d] = at[d]
        /\ at'[c] = place
    BY <1>0 DEF Shape
  <1>3. CASE slots[place] >= Cap
    <2>1. pc' = [pc EXCEPT ![c] = "rejected"] /\ UNCHANGED held /\ UNCHANGED slots
      BY <1>3 DEF Connect, Move
    <2>2. pc' \in [Conns -> PCs] /\ pc'[c] = "rejected" /\ \A d \in Conns \ {c} : pc'[d] = pc[d]
      BY <2>1 DEF Shape, PCs, Rest
    <2>3. ASSUME NEW d \in Conns
          PROVE  /\ pc'[d] = "closed" <=> at'[d] = Nowhere
                 /\ d \in held' <=> Holds(pc'[d], at'[d])
                 /\ reg'[d] => pc'[d] \in Usable
      <3>1. CASE d # c
        BY <1>0, <1>2, <2>1, <2>2, <3>1 DEF Shape
      <3>2. CASE d = c
        BY <1>0, <1>1, <1>2, <2>1, <2>2, <3>2 DEF Holds, Opening, Closing
      <3> QED BY <3>1, <3>2
    <2>4. ASSUME NEW other \in Places PROVE slots'[other] = Cardinality(Holders(other)')
      <3>1. Holders(other)' = Holders(other)
        BY <1>1, <1>2, <2>1 DEF Holders, Shape
      <3> QED BY <2>1, <3>1 DEF Shape
    <2>5. IsFiniteSet(Active')
      BY <2>2, ActiveStill
    <2> QED BY <1>0, <1>2, <2>1, <2>2, <2>3, <2>4, <2>5 DEF Shape
  <1>4. CASE ~(slots[place] >= Cap)
    <2>1. pc' = [pc EXCEPT ![c] = "incr"] /\ held' = held \cup {c}
          /\ slots' = [slots EXCEPT ![place] = @ + 1]
      BY <1>4 DEF Connect, Move
    <2>2. pc' \in [Conns -> PCs] /\ pc'[c] = "incr" /\ \A d \in Conns \ {c} : pc'[d] = pc[d]
      BY <2>1 DEF Shape, PCs
    <2>3. ASSUME NEW d \in Conns
          PROVE  /\ pc'[d] = "closed" <=> at'[d] = Nowhere
                 /\ d \in held' <=> Holds(pc'[d], at'[d])
                 /\ reg'[d] => pc'[d] \in Usable
      <3>1. CASE d # c
        BY <1>0, <1>2, <2>1, <2>2, <3>1 DEF Shape
      <3>2. CASE d = c
        BY <1>0, <1>1, <1>2, <2>1, <2>2, <3>2 DEF Holds, Opening
      <3> QED BY <3>1, <3>2
    <2>4. slots[place] \in 0 .. Cap /\ Cap \in Nat
      BY PresenceAssumption DEF Shape
    <2>5. PICK n \in 0 .. Cap : n = slots[place] + 1
      BY <1>4, <2>4
    <2>6. slots' \in [Places -> 0 .. Cap] /\ slots'[place] = n
          /\ \A other \in Places \ {place} : slots'[other] = slots[other]
      BY <2>1, <2>5 DEF Shape
    <2>7. Cardinality(Holders(place)') = n
      <3>1. Holders(place)' = Holders(place) \cup {c}
        <4>1. held \subseteq Conns
          BY DEF Shape
        <4> QED BY <1>1, <1>2, <2>1, <4>1 DEF Holders
      <3>2. c \notin Holders(place)
        BY <1>1 DEF Holders
      <3>3. Cardinality(Holders(place) \cup {c}) = Cardinality(Holders(place)) + 1
        BY <3>2, HoldersFinite, FS_AddElement
      <3>4. slots[place] = Cardinality(Holders(place))
        BY DEF Shape
      <3> QED BY <2>5, <3>1, <3>3, <3>4
    <2>8. ASSUME NEW other \in Places PROVE slots'[other] = Cardinality(Holders(other)')
      <3>1. CASE other = place
        BY <2>6, <2>7, <3>1
      <3>2. CASE other # place
        <4>1. held \subseteq Conns
          BY DEF Shape
        <4>2. Holders(other)' = Holders(other)
          BY <1>1, <1>2, <2>1, <3>2, <4>1 DEF Holders
        <4> QED BY <2>6, <3>2, <4>2 DEF Shape
      <3> QED BY <3>1, <3>2
    <2>9. IsFiniteSet(Active')
      BY <2>2, ActiveStill
    <2>10. held' \subseteq Conns
      BY <2>1 DEF Shape
    <2> QED BY <1>0, <1>2, <2>2, <2>3, <2>6, <2>8, <2>9, <2>10 DEF Shape
  <1> QED BY <1>3, <1>4

LEMMA ShapeCrashes ==
  ASSUME Shape, NEW p \in Procs, Crash(p)
  PROVE  Shape'
  <1>1. PICK lost : lost = {c \in Conns : Home(c) = p}
    OBVIOUS
  <1>2. /\ pc' = [c \in Conns |-> IF c \in lost THEN "closed" ELSE pc[c]]
        /\ reg' = [c \in Conns |-> reg[c] /\ c \notin lost]
        /\ at' = [c \in Conns |-> IF c \in lost THEN Nowhere ELSE at[c]]
        /\ edge' = [c \in Conns |-> edge[c] /\ c \notin lost]
        /\ held' = held \ lost
        /\ slots' = [place \in Places |-> IF place[1] = p THEN 0 ELSE slots[place]]
    BY <1>1 DEF Crash
  <1>3. pc' \in [Conns -> PCs] /\ at' \in [Conns -> Places \cup {Nowhere}] /\ held' \subseteq Conns
    BY <1>2 DEF Shape, PCs, Rest
  <1>4. reg' \in [Conns -> BOOLEAN] /\ edge' \in [Conns -> BOOLEAN]
    BY <1>2
  <1>5. slots' \in [Places -> 0 .. Cap]
    <2>1. 0 \in 0 .. Cap
      BY PresenceAssumption
    <2> QED BY <1>2, <2>1 DEF Shape
  <1>6. ASSUME NEW d \in Conns
        PROVE  /\ pc'[d] = "closed" <=> at'[d] = Nowhere
               /\ d \in held' <=> Holds(pc'[d], at'[d])
               /\ reg'[d] => pc'[d] \in Usable
    <2>1. CASE d \in lost
      <3>1. pc'[d] = "closed" /\ at'[d] = Nowhere /\ d \notin held' /\ ~reg'[d]
        BY <1>2, <2>1
      <3> QED BY <3>1 DEF Holds, Opening, Closing
    <2>2. CASE d \notin lost
      <3>1. pc'[d] = pc[d] /\ at'[d] = at[d] /\ (d \in held' <=> d \in held) /\ (reg'[d] <=> reg[d])
        BY <1>2, <2>2
      <3> QED BY <3>1 DEF Shape
    <2> QED BY <2>1, <2>2
  <1>7. ASSUME NEW place \in Places PROVE slots'[place] = Cardinality(Holders(place)')
    <2>1. CASE place[1] = p
      <3>1. Holders(place)' = {}
        BY <1>1, <1>2, <2>1, PlaceSomewhere DEF Holders, Home, Shape
      <3> QED BY <1>2, <2>1, <3>1, FS_EmptySet
    <2>2. CASE place[1] # p
      <3>1. Holders(place)' = Holders(place)
        BY <1>1, <1>2, <2>2, PlaceSomewhere DEF Holders, Home, Shape
      <3> QED BY <1>2, <2>2, <3>1 DEF Shape
    <2> QED BY <2>1, <2>2
  <1>8. IsFiniteSet(Active')
    <2>1. Active' \in SUBSET Active
      BY <1>2 DEF Active
    <2> QED BY <2>1, FS_Subset DEF Shape
  <1> QED BY <1>3, <1>4, <1>5, <1>6, <1>7, <1>8 DEF Shape

-----------------------------------------------------------------------------
(* The counter.                                                                 *)
Ranges ==
  /\ check \in [Conns -> Checks]
  /\ count \in Int /\ countTTL \in 0 .. Forever /\ key \in 0 .. Forever
  /\ told \in BOOLEAN
  /\ mishaps \in 0 .. MaxMishaps /\ leaked \in Nat /\ overlap \in BOOLEAN

Counted ==
  /\ count <= Cardinality(Owners) + leaked
  /\ mishaps = 0 /\ count < 0 => \E c \in Conns : pc[c] = "delCount"

CountsInv == Shape /\ Ranges /\ Counted

Owns(c) == reg[c] \/ pc[c] \in {"countTTL", "setKey", "decr"}

LEMMA OwnersFinite ==
  ASSUME Shape
  PROVE  IsFiniteSet(Owners) /\ Cardinality(Owners) \in Nat
  <1>1. Owners \in SUBSET Active
    BY DEF Shape, Owners, Active, Usable
  <1> QED BY <1>1, FS_Subset, FS_CardinalityType DEF Shape

LEMMA OwnersMove ==
  ASSUME Shape, NEW c \in Conns,
         \A d \in Conns \ {c} : pc'[d] = pc[d] /\ reg'[d] = reg[d]
  PROVE  /\ (Owns(c) <=> Owns(c)') => Cardinality(Owners') = Cardinality(Owners)
         /\ ~Owns(c) /\ Owns(c)' => Cardinality(Owners') = Cardinality(Owners) + 1
         /\ Owns(c) /\ ~Owns(c)' => Cardinality(Owners') = Cardinality(Owners) - 1
  <1>1. CASE Owns(c) <=> Owns(c)'
    <2>1. Owners' = Owners
      BY <1>1 DEF Owners, Owns
    <2> QED BY <1>1, <2>1
  <1>2. CASE ~Owns(c) /\ Owns(c)'
    <2>1. Owners' = Owners \cup {c} /\ c \notin Owners
      BY <1>2 DEF Owners, Owns
    <2>2. Cardinality(Owners \cup {c}) = Cardinality(Owners) + 1
      BY <2>1, OwnersFinite, FS_AddElement
    <2> QED BY <1>2, <2>1, <2>2
  <1>3. CASE Owns(c) /\ ~Owns(c)'
    <2>1. Owners' = Owners \ {c} /\ c \in Owners
      BY <1>3 DEF Owners, Owns
    <2>2. Cardinality(Owners \ {c}) = Cardinality(Owners) - 1
      BY <2>1, OwnersFinite, FS_RemoveElement
    <2> QED BY <1>3, <2>1, <2>2
  <1> QED BY <1>1, <1>2, <1>3

LEMMA Bounds ==
  /\ PresenceTTL \in 0 .. Forever /\ CountTTL \in 0 .. Forever /\ Forever \in 0 .. Forever
  /\ 0 \in 0 .. Forever /\ PresenceTTL >= 2 /\ CountTTL >= 2 /\ Forever = CountTTL + 1
  /\ CountTTL \in Nat /\ PresenceTTL \in Nat /\ Forever \in Nat
  BY PresenceAssumption DEF Forever

LEMMA MishapCounts ==
  ASSUME Ranges, Mishap
  PROVE  mishaps' \in 0 .. MaxMishaps /\ mishaps' # 0
  BY PresenceAssumption DEF Ranges, Mishap

LEMMA RangesHandle ==
  ASSUME Ranges, NEW c \in Conns, Handle(c)
  PROVE  Ranges'
  <1>1. check' = check /\ overlap' = overlap
    BY DEF Handle, Incr, ExpireCount, SetKey, TellOnline, TouchSet, TouchTTL, CloseRejected, Decr,
       DelCount, DelKey, TellOffline, Keep, Forget
  <1>2. mishaps' = mishaps \/ Mishap
    BY DEF Handle, Incr, ExpireCount, SetKey, TellOnline, TouchSet, TouchTTL, CloseRejected, Decr,
       DelCount, DelKey, TellOffline, Keep, Forget
  <1>3. told' = told \/ told' = TRUE \/ told' = FALSE
    BY DEF Handle, Incr, ExpireCount, SetKey, TellOnline, TouchSet, TouchTTL, CloseRejected, Decr,
       DelCount, DelKey, TellOffline, Keep, Forget
  <1>4. leaked' = leaked \/ leaked' = leaked + 1
    BY DEF Handle, Incr, ExpireCount, SetKey, TellOnline, TouchSet, TouchTTL, CloseRejected, Decr,
       DelCount, DelKey, TellOffline, Keep, Forget
  <1>5. count' \in {count, count + 1, count - 1, 0}
    BY DEF Handle, Incr, ExpireCount, SetKey, TellOnline, TouchSet, TouchTTL, CloseRejected, Decr,
       DelCount, DelKey, TellOffline, Keep, Forget, ForgetCount, redis
  <1>6. key' \in {key, PresenceTTL, 0}
    BY DEF Handle, Incr, ExpireCount, SetKey, TellOnline, TouchSet, TouchTTL, CloseRejected, Decr,
       DelCount, DelKey, TellOffline, Keep, Forget, Show, redis
  <1>7. countTTL' \in {countTTL, 0, CountTTL, Forever}
    BY DEF Handle, Incr, ExpireCount, SetKey, TellOnline, TouchSet, TouchTTL, CloseRejected, Decr,
       DelCount, DelKey, TellOffline, Keep, Forget, ForgetCount, KeepCount, redis
  <1>8. mishaps' \in 0 .. MaxMishaps
    BY <1>2, MishapCounts DEF Ranges
  <1>9. count' \in Int /\ leaked' \in Nat
    BY <1>4, <1>5 DEF Ranges
  <1>10. told' \in BOOLEAN
    BY <1>3 DEF Ranges
  <1>11. key' \in 0 .. Forever /\ countTTL' \in 0 .. Forever
    BY <1>6, <1>7, Bounds DEF Ranges
  <1> QED BY <1>1, <1>8, <1>9, <1>10, <1>11 DEF Ranges

LEMMA RangesRecheck ==
  ASSUME Ranges, NEW c \in Conns, Recheck(c)
  PROVE  Ranges'
  <1>1. count' = count /\ told' = told /\ leaked' = leaked /\ overlap' = overlap
    BY DEF Recheck, CheckSocket, CheckSet, CheckExpire, redis
  <1>2. mishaps' = mishaps \/ Mishap
    BY DEF Recheck, CheckSocket, CheckSet, CheckExpire
  <1>3. PICK s \in Checks : check' = [check EXCEPT ![c] = s]
    BY DEF Recheck, CheckSocket, CheckSet, CheckExpire, Checks
  <1>4. key' \in {key, PresenceTTL} /\ countTTL' \in {countTTL, 0, CountTTL}
    BY DEF Recheck, CheckSocket, CheckSet, CheckExpire, Show, KeepCount, redis
  <1>5. mishaps' \in 0 .. MaxMishaps
    BY <1>2, MishapCounts DEF Ranges
  <1>6. key' \in 0 .. Forever /\ countTTL' \in 0 .. Forever
    BY <1>4, Bounds DEF Ranges
  <1> QED BY <1>1, <1>3, <1>5, <1>6 DEF Ranges

LEMMA RangesOther ==
  ASSUME Ranges, NEW c \in Conns,
         (\E place \in Places : Connect(c, place)) \/ UserOnline(c) \/ Close(c)
  PROVE  Ranges'
  <1>1. check' = check /\ count' = count /\ countTTL' = countTTL /\ key' = key /\ told' = told
        /\ mishaps' = mishaps /\ leaked' = leaked /\ (overlap' = overlap \/ Began)
    BY DEF Connect, UserOnline, Close, redis
  <1> QED BY <1>1 DEF Ranges, Began

-----------------------------------------------------------------------------
(* How the counter follows the sockets whose increment is to be undone.         *)

\* What a step of the socket c does to the counter, to what is lost and to c.
Follows(c) ==
  \/ count' \in {count, 0} /\ leaked' = leaked /\ (Owns(c) => Owns(c)')
  \/ count' = count + 1 /\ leaked' = leaked /\ ~Owns(c) /\ Owns(c)'
  \/ count' = count + 1 /\ leaked' = leaked + 1 /\ (Owns(c) => Owns(c)')
  \/ count' = count - 1 /\ leaked' = leaked
  \/ count' = count /\ leaked' = leaked + 1

LEMMA CountedFollows ==
  ASSUME Shape, Ranges, Ranges', Counted, NEW c \in Conns, Follows(c),
         \A d \in Conns \ {c} : pc'[d] = pc[d] /\ reg'[d] = reg[d],
         mishaps' = 0 => mishaps = 0 /\ (count' < 0 => pc'[c] = "delCount" \/ (count < 0 /\ pc[c] # "delCount"))
  PROVE  Counted'
  <1>1. Cardinality(Owners) \in Nat /\ count \in Int /\ leaked \in Nat /\ count' \in Int /\ leaked' \in Nat
    BY OwnersFinite DEF Ranges
  <1>2. count <= Cardinality(Owners) + leaked
    BY DEF Counted
  <1>3. /\ (Owns(c) <=> Owns(c)') => Cardinality(Owners') = Cardinality(Owners)
        /\ ~Owns(c) /\ Owns(c)' => Cardinality(Owners') = Cardinality(Owners) + 1
        /\ Owns(c) /\ ~Owns(c)' => Cardinality(Owners') = Cardinality(Owners) - 1
    BY OwnersMove
  <1>4. Cardinality(Owners)' = Cardinality(Owners')
    OBVIOUS
  <1>5. PICK m \in Nat : m = Cardinality(Owners)
    BY <1>1
  <1>6. PICK n \in Int : n = Cardinality(Owners')
    BY <1>1, <1>3
  <1>7. /\ n \in {m - 1, m, m + 1}
        /\ (Owns(c) => Owns(c)') => n >= m
        /\ ~Owns(c) /\ Owns(c)' => n = m + 1
    BY <1>3, <1>5, <1>6
  <1>9. count' <= n + leaked'
    <2>1. count <= m + leaked
      BY <1>2, <1>5
    <2>2. CASE count' \in {count, 0} /\ leaked' = leaked /\ n >= m
      BY <1>1, <2>1, <2>2
    <2>3. CASE count' = count + 1 /\ leaked' = leaked /\ n = m + 1
      BY <1>1, <2>1, <2>3
    <2>4. CASE count' = count + 1 /\ leaked' = leaked + 1 /\ n >= m
      BY <1>1, <2>1, <2>4
    <2>5. CASE count' = count - 1 /\ leaked' = leaked
      BY <1>1, <1>7, <2>1, <2>5
    <2>6. CASE count' = count /\ leaked' = leaked + 1
      BY <1>1, <1>7, <2>1, <2>6
    <2> QED BY <1>7, <2>2, <2>3, <2>4, <2>5, <2>6, Zenon DEF Follows
  <1>10. ASSUME mishaps' = 0, count' < 0 PROVE \E d \in Conns : pc'[d] = "delCount"
    <2>1. CASE pc'[c] = "delCount"
      BY <2>1
    <2>2. CASE mishaps = 0 /\ count < 0 /\ pc[c] # "delCount"
      <3>1. PICK d \in Conns : pc[d] = "delCount"
        BY <2>2 DEF Counted
      <3> QED BY <2>2, <3>1
    <2> QED BY <1>10, <2>1, <2>2
  <1> QED BY <1>4, <1>6, <1>9, <1>10 DEF Counted

-----------------------------------------------------------------------------
(* The handlers of a socket, one command at a time.                             *)

\* The handler of c goes on at l.
Goes(c, l) ==
  /\ pc' = [pc EXCEPT ![c] = l]
  /\ at' = IF l = "closed" THEN [at EXCEPT ![c] = Nowhere] ELSE at
  /\ edge' \in [Conns -> BOOLEAN]
Others(c) == \A d \in Conns \ {c} : pc'[d] = pc[d] /\ reg'[d] = reg[d]

LEMMA Gone ==
  ASSUME Shape, NEW c \in Conns, NEW l, Goto(c, l)
  PROVE  Goes(c, l)
  BY DEF Goto, Move, Goes, Shape

LEMMA Stepped ==
  ASSUME Shape, NEW c \in Conns, NEW l, l # "closed", Move(c, l), UNCHANGED at,
         NEW b \in BOOLEAN, edge' = [edge EXCEPT ![c] = b]
  PROVE  Goes(c, l)
  BY DEF Move, Goes, Shape

LEMMA KeepsReg ==
  ASSUME Shape, NEW c \in Conns, pc[c] # "closed", NEW l \in PCs, Goes(c, l), UNCHANGED reg,
         reg[c] => l \in Usable, UNCHANGED held, UNCHANGED slots,
         Holds(l, at[c]) <=> Holds(pc[c], at[c])
  PROVE  Shape' /\ pc'[c] = l /\ (reg'[c] <=> reg[c]) /\ Others(c)
  <1>1. reg' \in [Conns -> BOOLEAN] /\ pc'[c] = l /\ (reg'[c] <=> reg[c]) /\ Others(c)
    BY DEF Goes, Shape, Others
  <1>2. \A d \in Conns \ {c} : reg'[d] = reg[d]
    OBVIOUS
  <1>3. Shape'
    BY <1>1, <1>2, ShapeMoves DEF Goes
  <1> QED BY <1>1, <1>3

LEMMA Registers ==
  ASSUME Shape, NEW c \in Conns, pc[c] # "closed", NEW l \in Usable, Goes(c, l), Register(c, TRUE),
         UNCHANGED held, UNCHANGED slots, pc[c] \in Opening
  PROVE  Shape' /\ pc'[c] = l /\ reg'[c] /\ Others(c)
  <1>1. reg' \in [Conns -> BOOLEAN] /\ pc'[c] = l /\ reg'[c] /\ Others(c)
    BY DEF Goes, Shape, Others, Register
  <1>2. \A d \in Conns \ {c} : reg'[d] = reg[d]
    BY DEF Register, Shape
  <1>3. l \in PCs /\ (Holds(l, at[c]) <=> Holds(pc[c], at[c]))
    BY DEF Usable, PCs, Rest, Touching, Holds, Opening
  <1>4. Shape'
    BY <1>1, <1>2, <1>3, ShapeMoves DEF Goes
  <1> QED BY <1>1, <1>4

\* What a step of the socket c gives, for CountedFollows.
Counting(c) ==
  /\ Shape' /\ Others(c) /\ Follows(c)
  /\ mishaps' = 0 => mishaps = 0 /\ (count' < 0 => pc'[c] = "delCount" \/ (count < 0 /\ pc[c] # "delCount"))

LEMMA CountingHolds ==
  ASSUME CountsInv, NEW c \in Conns, Counting(c), Ranges'
  PROVE  CountsInv'
  <1>1. Counted'
    BY CountedFollows DEF CountsInv, Counting, Others
  <1> QED BY <1>1 DEF CountsInv, Counting

\* A step that leaves the counter alone and goes on at l.
LEMMA CountStands ==
  ASSUME CountsInv, NEW c \in Conns, pc[c] # "closed", NEW l \in PCs, Goes(c, l), UNCHANGED reg,
         reg[c] => l \in Usable, UNCHANGED held, UNCHANGED slots,
         Holds(l, at[c]) <=> Holds(pc[c], at[c]),
         pc[c] \notin {"countTTL", "setKey", "decr"} \/ l \in {"countTTL", "setKey", "decr"},
         UNCHANGED count, UNCHANGED leaked, UNCHANGED mishaps \/ Mishap,
         pc[c] # "delCount" \/ Mishap
  PROVE  Counting(c)
  <1>1. Shape' /\ pc'[c] = l /\ (reg'[c] <=> reg[c]) /\ Others(c)
    BY KeepsReg DEF CountsInv
  <1>2. Owns(c) => Owns(c)'
    BY <1>1 DEF Owns
  <1>3. mishaps' = 0 => mishaps' = mishaps /\ pc[c] # "delCount"
    BY MishapCounts DEF CountsInv
  <1> QED BY <1>1, <1>2, <1>3 DEF Counting, Follows

LEMMA LeaveMoves ==
  ASSUME Shape, NEW c \in Conns, Leave(c), pc[c] \in Closing
  PROVE  \E l \in {"closed", "forget"} : /\ Goes(c, l) /\ l \in PCs
                                         /\ Holds(l, at[c]) <=> Holds(pc[c], at[c])
  <1>1. pc[c] # "closed"
    BY DEF Closing
  <1>2. at[c][2] \in {"realtime", "presence"}
    BY <1>1, ShapeFacts
  <1>3. CASE at[c][2] = "presence"
    <2>1. Goes(c, "closed")
      BY <1>3, Gone DEF Leave, HubOf
    <2> QED BY <1>3, <2>1 DEF Holds, Closing, Opening, PCs, Rest
  <1>4. CASE at[c][2] = "realtime"
    <2>1. Goes(c, "forget")
      BY <1>4, Gone DEF Leave, HubOf
    <2> QED BY <1>4, <2>1 DEF Holds, Closing, Opening, PCs, Rest
  <1> QED BY <1>2, <1>3, <1>4

LEMMA IncrCounts ==
  ASSUME CountsInv, NEW c \in Conns, Incr(c)
  PROVE  Counting(c)
  <1>1. pc[c] = "incr" /\ UNCHANGED reg /\ UNCHANGED held /\ UNCHANGED slots /\ Shape
    BY DEF Incr, CountsInv
  <1>2. ~reg[c] /\ ~Owns(c) /\ pc[c] # "closed" /\ count \in Int
    BY <1>1, ShapeFacts DEF Usable, Owns, CountsInv, Ranges
  <1>3. \A l \in {"countTTL", "open"} : l \in PCs /\ (Holds(l, at[c]) <=> Holds(pc[c], at[c]))
    BY <1>1 DEF PCs, Rest, Holds, Opening
  <1>4. CASE /\ count' = count + 1 /\ edge' = [edge EXCEPT ![c] = count' = 1] /\ Move(c, "countTTL")
             /\ UNCHANGED <<at, mishaps, leaked>>
    <2>1. PICK b \in BOOLEAN : b = (count' = 1)
      OBVIOUS
    <2>2. Goes(c, "countTTL")
      BY <1>1, <1>4, <2>1, Stepped
    <2>3. Shape' /\ pc'[c] = "countTTL" /\ Others(c)
      BY <1>1, <1>2, <1>3, <2>2, KeepsReg
    <2>4. Follows(c)
      BY <1>2, <1>4, <2>3 DEF Follows, Owns
    <2>5. count' < 0 => count < 0
      BY <1>2, <1>4
    <2> QED BY <1>1, <1>4, <2>3, <2>4, <2>5 DEF Counting
  <1>5. CASE Mishap /\ Goto(c, "open")
    <2>1. Goes(c, "open")
      BY <1>1, <1>5, Gone
    <2>2. Shape' /\ Others(c)
      BY <1>1, <1>2, <1>3, <2>1, KeepsReg
    <2>3. \/ count' = count /\ leaked' = leaked
          \/ count' = count + 1 /\ leaked' = leaked + 1
      <3>1. pc'[c] = "open"
        BY <1>5 DEF Goto, Move, CountsInv, Shape
      <3> QED BY <3>1 DEF Incr, Move, CountsInv, Shape
    <2>4. Follows(c)
      BY <1>2, <2>3 DEF Follows
    <2> QED BY <1>5, <2>2, <2>4, MishapCounts DEF Counting, CountsInv
  <1> QED BY <1>1, <1>4, <1>5 DEF Incr

LEMMA ExpireCountCounts ==
  ASSUME CountsInv, NEW c \in Conns, ExpireCount(c)
  PROVE  Counting(c)
  <1>1. pc[c] = "countTTL" /\ UNCHANGED held /\ UNCHANGED slots /\ UNCHANGED count
        /\ UNCHANGED leaked /\ Shape
    BY DEF ExpireCount, CountsInv
  <1>2. ~reg[c] /\ pc[c] # "closed"
    BY <1>1, ShapeFacts DEF Usable
  <1>3. CASE Goto(c, "setKey") /\ UNCHANGED reg /\ UNCHANGED mishaps
    <2>1. Goes(c, "setKey")
      BY <1>1, <1>3, Gone
    <2>2. "setKey" \in PCs /\ (Holds("setKey", at[c]) <=> Holds(pc[c], at[c]))
      BY <1>1 DEF PCs, Holds, Opening
    <2> QED BY <1>1, <1>2, <1>3, <2>1, <2>2, CountStands
  <1>4. CASE Mishap /\ Register(c, TRUE) /\ Goto(c, "open")
    <2>1. Goes(c, "open")
      BY <1>1, <1>4, Gone
    <2>2. Shape' /\ reg'[c] /\ Others(c)
      BY <1>1, <1>2, <1>4, <2>1, Registers DEF Usable, Opening
    <2>3. Follows(c)
      BY <1>1, <2>2 DEF Follows, Owns
    <2> QED BY <1>4, <2>2, <2>3, MishapCounts DEF Counting, CountsInv
  <1> QED BY <1>3, <1>4 DEF ExpireCount

LEMMA SetKeyCounts ==
  ASSUME CountsInv, NEW c \in Conns, SetKey(c)
  PROVE  Counting(c)
  <1>1. pc[c] = "setKey" /\ Register(c, TRUE) /\ UNCHANGED held /\ UNCHANGED slots /\ UNCHANGED count
        /\ UNCHANGED leaked /\ Shape
    BY DEF SetKey, CountsInv
  <1>2. PICK l \in {"tellOn", "open"} : Goto(c, l)
    BY DEF SetKey
  <1>3. Goes(c, l)
    BY <1>1, <1>2, Gone
  <1>4. Shape' /\ reg'[c] /\ Others(c)
    BY <1>1, <1>3, Registers DEF Usable, Opening
  <1>5. Follows(c)
    BY <1>1, <1>4 DEF Follows, Owns
  <1>6. mishaps' = 0 => mishaps' = mishaps
    BY MishapCounts DEF SetKey, CountsInv
  <1> QED BY <1>1, <1>4, <1>5, <1>6 DEF Counting

\* Telling the peers, and hearing of a socket.
LEMMA OpenCounts ==
  ASSUME CountsInv, NEW c \in Conns, TellOnline(c) \/ UserOnline(c) \/ TouchSet(c) \/ TouchTTL(c)
  PROVE  Counting(c)
  <1>1. pc[c] \in {"tellOn", "open", "touchSet", "touchTTL"}
    BY DEF TellOnline, UserOnline, TouchSet, TouchTTL
  <1>2. UNCHANGED reg /\ UNCHANGED held /\ UNCHANGED slots /\ UNCHANGED count /\ UNCHANGED leaked
    BY DEF TellOnline, UserOnline, TouchSet, TouchTTL, redis
  <1>3. UNCHANGED mishaps \/ Mishap
    BY DEF TellOnline, UserOnline, TouchSet, TouchTTL
  <1>4. PICK l \in {"open", "touchSet", "touchTTL"} : Goto(c, l)
    BY DEF TellOnline, UserOnline, TouchSet, TouchTTL
  <1>5. Goes(c, l)
    BY <1>4, Gone DEF CountsInv
  <1>6. l \in PCs /\ l \in Usable /\ (Holds(l, at[c]) <=> Holds(pc[c], at[c]))
    BY <1>1 DEF PCs, Rest, Touching, Usable, Holds, Opening
  <1> QED BY <1>1, <1>2, <1>3, <1>5, <1>6, CountStands

LEMMA RejectedCounts ==
  ASSUME CountsInv, NEW c \in Conns, CloseRejected(c)
  PROVE  Counting(c)
  <1>1. pc[c] = "rejected" /\ UNCHANGED reg /\ UNCHANGED held /\ UNCHANGED slots /\ UNCHANGED count
        /\ UNCHANGED leaked /\ UNCHANGED mishaps /\ Goto(c, "closed")
    BY DEF CloseRejected, redis
  <1>2. ~reg[c]
    BY <1>1, ShapeFacts DEF Usable, CountsInv
  <1>3. Goes(c, "closed")
    BY <1>1, Gone DEF CountsInv
  <1>4. "closed" \in PCs /\ (Holds("closed", at[c]) <=> Holds(pc[c], at[c]))
    BY <1>1 DEF PCs, Rest, Holds, Opening, Closing
  <1> QED BY <1>1, <1>2, <1>3, <1>4, CountStands

LEMMA DecrCounts ==
  ASSUME CountsInv, NEW c \in Conns, Decr(c)
  PROVE  Counting(c)
  <1>1. pc[c] = "decr" /\ UNCHANGED reg /\ UNCHANGED held /\ UNCHANGED slots /\ Shape
    BY DEF Decr, CountsInv
  <1>2. ~reg[c] /\ pc[c] # "closed" /\ pc[c] \in Closing /\ count \in Int
    BY <1>1, ShapeFacts DEF Usable, Closing, CountsInv, Ranges
  <1>3. \A l \in {"delCount", "keep"} : l \in PCs /\ (Holds(l, at[c]) <=> Holds(pc[c], at[c]))
    BY <1>1 DEF PCs, Holds, Opening, Closing
  <1>4. CASE /\ count' = count - 1 /\ edge' = [edge EXCEPT ![c] = count' = 0]
             /\ Move(c, IF IsFloor(count') THEN "delCount" ELSE "keep")
             /\ UNCHANGED <<at, mishaps, leaked>>
    <2>1. PICK b \in BOOLEAN : b = (count' = 0)
      OBVIOUS
    <2>2. PICK l \in {"delCount", "keep"} : l = IF IsFloor(count') THEN "delCount" ELSE "keep"
      OBVIOUS
    <2>3. Goes(c, l)
      BY <1>1, <1>4, <2>1, <2>2, Stepped
    <2>4. Shape' /\ pc'[c] = l /\ Others(c)
      BY <1>1, <1>2, <1>3, <2>3, KeepsReg
    <2>5. Follows(c)
      BY <1>4 DEF Follows
    <2>6. count' < 0 => pc'[c] = "delCount"
      BY <1>2, <1>4, <2>2, <2>4 DEF IsFloor
    <2> QED BY <1>1, <1>4, <2>4, <2>5, <2>6 DEF Counting
  <1>5. CASE /\ Mishap /\ Leave(c)
             /\ \/ count' = count /\ leaked' = leaked + 1
                \/ count' = count - 1 /\ leaked' = leaked
    <2>1. PICK l \in {"closed", "forget"} : /\ Goes(c, l) /\ l \in PCs
                                            /\ Holds(l, at[c]) <=> Holds(pc[c], at[c])
      BY <1>1, <1>2, <1>5, LeaveMoves
    <2>2. Shape' /\ Others(c)
      BY <1>1, <1>2, <2>1, KeepsReg
    <2>3. Follows(c)
      BY <1>5 DEF Follows
    <2> QED BY <1>5, <2>2, <2>3, MishapCounts DEF Counting, CountsInv
  <1>6. Mishap /\ Leave(c) /\ UNCHANGED <<count, countTTL>> /\ leaked' = leaked + 1 =>
          Mishap /\ Leave(c) /\ count' = count /\ leaked' = leaked + 1
    OBVIOUS
  <1> QED BY <1>4, <1>5, <1>6 DEF Decr

LEMMA DelCountCounts ==
  ASSUME CountsInv, NEW c \in Conns, DelCount(c)
  PROVE  Counting(c)
  <1>1. pc[c] = "delCount" /\ UNCHANGED reg /\ UNCHANGED held /\ UNCHANGED slots /\ UNCHANGED leaked
        /\ Shape
    BY DEF DelCount, CountsInv
  <1>2. ~reg[c] /\ pc[c] # "closed" /\ pc[c] \in Closing
    BY <1>1, ShapeFacts DEF Usable, Closing
  <1>3. CASE ForgetCount /\ Goto(c, "delKey") /\ UNCHANGED mishaps
    <2>1. Goes(c, "delKey") /\ count' = 0
      BY <1>1, <1>3, Gone DEF ForgetCount
    <2>2. "delKey" \in PCs /\ (Holds("delKey", at[c]) <=> Holds(pc[c], at[c]))
      BY <1>1 DEF PCs, Holds, Opening, Closing
    <2>3. Shape' /\ Others(c)
      BY <1>1, <1>2, <2>1, <2>2, KeepsReg
    <2>4. Follows(c)
      BY <1>1, <1>2, <2>1 DEF Follows, Owns
    <2>5. ~(count' < 0)
      BY <2>1
    <2> QED BY <1>1, <1>3, <2>3, <2>4, <2>5 DEF Counting
  <1>4. CASE Mishap /\ Leave(c) /\ UNCHANGED <<count, countTTL>>
    <2>1. PICK l \in {"closed", "forget"} : /\ Goes(c, l) /\ l \in PCs
                                            /\ Holds(l, at[c]) <=> Holds(pc[c], at[c])
      BY <1>1, <1>2, <1>4, LeaveMoves
    <2>2. UNCHANGED count
      BY <1>4
    <2> QED BY <1>1, <1>2, <1>4, <2>1, <2>2, CountStands
  <1> QED BY <1>3, <1>4 DEF DelCount

\* The rest of removeConnection.
LEMMA LeaveCounts ==
  ASSUME CountsInv, NEW c \in Conns, DelKey(c) \/ TellOffline(c) \/ Keep(c)
  PROVE  Counting(c)
  <1>1. pc[c] \in {"delKey", "tellOff", "keep"}
    BY DEF DelKey, TellOffline, Keep
  <1>2. UNCHANGED reg /\ UNCHANGED held /\ UNCHANGED slots /\ UNCHANGED count /\ UNCHANGED leaked
    BY DEF DelKey, TellOffline, Keep, redis
  <1>3. UNCHANGED mishaps \/ Mishap
    BY DEF DelKey, TellOffline, Keep
  <1>4. ~reg[c] /\ pc[c] # "closed" /\ pc[c] \in Closing /\ Shape
    BY <1>1, ShapeFacts DEF Usable, Closing, CountsInv
  <1>5. CASE Leave(c)
    <2>1. PICK l \in {"closed", "forget"} : /\ Goes(c, l) /\ l \in PCs
                                            /\ Holds(l, at[c]) <=> Holds(pc[c], at[c])
      BY <1>4, <1>5, LeaveMoves
    <2> QED BY <1>1, <1>2, <1>3, <1>4, <2>1, CountStands
  <1>6. CASE Goto(c, "tellOff") /\ pc[c] = "delKey"
    <2>1. Goes(c, "tellOff")
      BY <1>4, <1>6, Gone
    <2>2. "tellOff" \in PCs /\ (Holds("tellOff", at[c]) <=> Holds(pc[c], at[c]))
      BY <1>6 DEF PCs, Holds, Opening, Closing
    <2> QED BY <1>1, <1>2, <1>3, <1>4, <2>1, <2>2, CountStands
  <1>7. Leave(c) \/ (Goto(c, "tellOff") /\ pc[c] = "delKey")
    BY DEF DelKey, TellOffline, Keep
  <1> QED BY <1>5, <1>6, <1>7

\* A socket gives back its slot and stops being registered.
LEMMA CountDrops ==
  ASSUME CountsInv, NEW c \in Conns, c \in held, NEW l \in PCs, Goes(c, l),
         reg' \in [Conns -> BOOLEAN], \A d \in Conns \ {c} : reg'[d] = reg[d], ~reg'[c],
         Owns(c) => l = "decr",
         held' = held \ {c}, slots' = [slots EXCEPT ![at[c]] = @ - 1],
         ~Holds(l, at[c]), UNCHANGED count, UNCHANGED leaked, UNCHANGED mishaps,
         pc[c] # "delCount"
  PROVE  Counting(c)
  <1>1. Shape'
    BY ShapeDrops DEF CountsInv, Goes
  <1>2. pc'[c] = l /\ Others(c)
    BY DEF Goes, Others, CountsInv, Shape
  <1>3. Owns(c) => Owns(c)'
    BY <1>2 DEF Owns
  <1> QED BY <1>1, <1>2, <1>3 DEF Counting, Follows

LEMMA ForgetCounts ==
  ASSUME CountsInv, NEW c \in Conns, Forget(c)
  PROVE  Counting(c)
  <1>1. pc[c] = "forget" /\ UNCHANGED reg /\ held' = held \ {c} /\ slots' = [slots EXCEPT ![at[c]] = @ - 1]
        /\ Goto(c, "closed") /\ UNCHANGED count /\ UNCHANGED leaked /\ UNCHANGED mishaps /\ Shape
    BY DEF Forget, redis, CountsInv
  <1>2. ~reg[c] /\ ~Owns(c)
    BY <1>1, ShapeFacts DEF Usable, Owns
  <1>3. c \in held /\ ~Holds("closed", at[c]) /\ "closed" \in PCs
    BY <1>1, ShapeFacts DEF Holds, Opening, Closing, PCs, Rest
  <1>4. Goes(c, "closed")
    BY <1>1, Gone
  <1>5. reg' \in [Conns -> BOOLEAN] /\ (\A d \in Conns \ {c} : reg'[d] = reg[d]) /\ ~reg'[c]
    BY <1>1, <1>2 DEF Shape
  <1> QED BY <1>1, <1>2, <1>3, <1>4, <1>5, CountDrops

LEMMA CloseCounts ==
  ASSUME CountsInv, NEW c \in Conns, Close(c)
  PROVE  Counting(c)
  <1>1. pc[c] = "open" /\ Register(c, FALSE) /\ UNCHANGED count /\ UNCHANGED leaked /\ UNCHANGED mishaps
        /\ Shape
    BY DEF Close, redis, CountsInv
  <1>2. /\ reg' \in [Conns -> BOOLEAN]
        /\ \A d \in Conns \ {c} : reg'[d] = reg[d]
        /\ ~reg'[c]
    BY <1>1 DEF Register, Shape
  <1>3. c \in held /\ pc[c] # "closed" /\ at[c][2] \in {"realtime", "presence"}
    BY <1>1, ShapeFacts DEF Holds, Opening
  <1>4. Owns(c) => reg[c]
    BY <1>1 DEF Owns
  <1>5. CASE at[c][2] = "presence"
    <2>1. PICK l \in {"decr", "closed"} : l = IF reg[c] THEN "decr" ELSE "closed"
      OBVIOUS
    <2>2. Goto(c, l) /\ held' = held \ {c} /\ slots' = [slots EXCEPT ![at[c]] = @ - 1]
      BY <1>5, <2>1 DEF Close, HubOf
    <2>3. Goes(c, l)
      BY <1>1, <2>2, Gone
    <2>4. ~Holds(l, at[c]) /\ l \in PCs
      BY <1>5 DEF Holds, Opening, Closing, PCs, Rest
    <2>5. Owns(c) => l = "decr"
      BY <1>4, <2>1
    <2>6. pc[c] # "delCount"
      BY <1>1
    <2> QED BY <1>1, <1>2, <1>3, <2>2, <2>3, <2>4, <2>5, <2>6, CountDrops
  <1>6. CASE at[c][2] = "realtime"
    <2>1. PICK l \in {"decr", "forget"} : l = IF reg[c] THEN "decr" ELSE "forget"
      OBVIOUS
    <2>2. Goto(c, l) /\ UNCHANGED held /\ UNCHANGED slots
      BY <1>6, <2>1 DEF Close, HubOf
    <2>3. Goes(c, l)
      BY <1>1, <2>2, Gone
    <2>4. l \in PCs /\ (Holds(l, at[c]) <=> Holds(pc[c], at[c]))
      BY <1>1, <1>6 DEF Holds, Opening, Closing, PCs, Rest
    <2>5. Shape'
      BY <1>1, <1>2, <1>3, <2>2, <2>3, <2>4, ShapeMoves DEF Goes
    <2>6. pc'[c] = l /\ Others(c)
      BY <1>1, <1>2, <2>3 DEF Goes, Others, Shape
    <2>7. Owns(c) => Owns(c)'
      BY <1>4, <2>1, <2>6 DEF Owns
    <2> QED BY <1>1, <2>5, <2>6, <2>7 DEF Counting, Follows
  <1> QED BY <1>3, <1>5, <1>6

LEMMA ConnectCounts ==
  ASSUME CountsInv, NEW c \in Conns, NEW place \in Places, Connect(c, place)
  PROVE  Counting(c)
  <1>1. pc[c] = "closed" /\ UNCHANGED reg /\ UNCHANGED count /\ UNCHANGED leaked /\ UNCHANGED mishaps
        /\ Shape
    BY DEF Connect, redis, CountsInv
  <1>2. PICK l \in {"rejected", "incr"} : Move(c, l)
    BY DEF Connect
  <1>3. Others(c) /\ pc'[c] = l
    BY <1>1, <1>2 DEF Others, Move, Shape
  <1>4. ~Owns(c)
    BY <1>1, ShapeFacts DEF Owns, Usable
  <1>5. Shape'
    BY <1>1, ShapeConnects
  <1> QED BY <1>1, <1>3, <1>4, <1>5 DEF Counting, Follows

LEMMA HandleCounts ==
  ASSUME CountsInv, NEW c \in Conns, Handle(c)
  PROVE  CountsInv'
  <1>1. Counting(c)
    BY IncrCounts, ExpireCountCounts, SetKeyCounts, OpenCounts, RejectedCounts, DecrCounts,
       DelCountCounts, LeaveCounts, ForgetCounts DEF Handle
  <1>2. Ranges'
    BY RangesHandle DEF CountsInv
  <1> QED BY <1>1, <1>2, CountingHolds

LEMMA OtherCounts ==
  ASSUME CountsInv, NEW c \in Conns,
         (\E place \in Places : Connect(c, place)) \/ UserOnline(c) \/ Close(c)
  PROVE  CountsInv'
  <1>1. Counting(c)
    BY ConnectCounts, OpenCounts, CloseCounts
  <1>2. Ranges'
    BY RangesOther DEF CountsInv
  <1> QED BY <1>1, <1>2, CountingHolds

LEMMA RecheckCounts ==
  ASSUME CountsInv, NEW c \in Conns, Recheck(c)
  PROVE  CountsInv'
  <1>1. UNCHANGED <<at, pc, reg, edge, held, slots, count, leaked>>
    BY DEF Recheck, CheckSocket, CheckSet, CheckExpire, redis
  <1>2. UNCHANGED mishaps \/ Mishap
    BY DEF Recheck, CheckSocket, CheckSet, CheckExpire
  <1>3. Ranges'
    BY RangesRecheck DEF CountsInv
  <1>4. Shape'
    BY <1>1 DEF CountsInv, Shape, Active, Holders
  <1>5. Owners' = Owners
    BY <1>1 DEF Owners
  <1>6. mishaps' = 0 => mishaps = 0
    BY <1>2, MishapCounts DEF CountsInv
  <1>7. Counted'
    BY <1>1, <1>5, <1>6 DEF CountsInv, Counted
  <1> QED BY <1>3, <1>4, <1>7 DEF CountsInv

LEMMA TickCounts ==
  ASSUME CountsInv, Tick
  PROVE  CountsInv'
  <1>1. UNCHANGED <<at, pc, reg, edge, held, slots, told, mishaps, leaked, overlap>>
    BY DEF Tick
  <1>2. key \in 0 .. Forever /\ countTTL \in 0 .. Forever /\ count \in Int
    BY DEF CountsInv, Ranges
  <1>3. key' \in 0 .. Forever /\ countTTL' \in 0 .. Forever
    BY <1>2, Bounds DEF Tick
  <1>4. count' \in {0, count}
    BY DEF Tick
  <1>5. check' \in [Conns -> Checks]
    BY DEF Tick, Checks
  <1>6. Ranges'
    BY <1>1, <1>2, <1>3, <1>4, <1>5 DEF CountsInv, Ranges
  <1>7. Shape'
    BY <1>1 DEF CountsInv, Shape, Active, Holders
  <1>8. Owners' = Owners
    BY <1>1 DEF Owners
  <1>9. Cardinality(Owners) \in Nat /\ leaked \in Nat
    BY OwnersFinite DEF CountsInv, Ranges
  <1>10. ~(mishaps' = 0 /\ count' < 0)
    <2>1. \A c \in Conns : pc[c] # "delCount"
      BY DEF Tick, Rest
    <2>2. mishaps = 0 => ~(count < 0)
      BY <2>1 DEF CountsInv, Counted
    <2> QED BY <1>1, <1>4, <2>2
  <1>11. count' <= Cardinality(Owners) + leaked
    BY <1>4, <1>9 DEF CountsInv, Counted
  <1>12. Counted'
    BY <1>1, <1>8, <1>10, <1>11 DEF Counted
  <1> QED BY <1>6, <1>7, <1>12 DEF CountsInv

LEMMA CrashCounts ==
  ASSUME CountsInv, NEW p \in Procs, Crash(p)
  PROVE  CountsInv'
  <1>1. PICK lost : lost = {c \in Conns : Home(c) = p}
    OBVIOUS
  <1>2. /\ Mishap
        /\ pc' = [c \in Conns |-> IF c \in lost THEN "closed" ELSE pc[c]]
        /\ reg' = [c \in Conns |-> reg[c] /\ c \notin lost]
        /\ check' = [c \in Conns |-> IF c \in lost THEN "done" ELSE check[c]]
        /\ leaked' = leaked + Cardinality(Owners \cap lost)
        /\ count' = count /\ countTTL' = countTTL /\ key' = key /\ told' = told /\ overlap' = overlap
    BY <1>1 DEF Crash, redis
  <1>3. IsFiniteSet(Owners) /\ Cardinality(Owners) \in Nat
    BY OwnersFinite DEF CountsInv
  <1>4. Owners' = Owners \ lost
    BY <1>2 DEF Owners
  <1>5. IsFiniteSet(Owners \cap lost) /\ IsFiniteSet(Owners \ lost)
    BY <1>3, FS_Subset
  <1>6. Cardinality(Owners \cap lost) \in Nat /\ Cardinality(Owners \ lost) \in Nat
    BY <1>5, FS_CardinalityType
  <1>7. Cardinality(Owners) = Cardinality(Owners \cap lost) + Cardinality(Owners \ lost)
    <2>1. Owners = (Owners \cap lost) \cup (Owners \ lost)
      OBVIOUS
    <2>2. (Owners \cap lost) \cap (Owners \ lost) = {}
      OBVIOUS
    <2>3. Cardinality((Owners \cap lost) \cup (Owners \ lost))
            = Cardinality(Owners \cap lost) + Cardinality(Owners \ lost) - Cardinality({})
      BY <1>5, <2>2, FS_Union
    <2>4. Cardinality({}) = 0
      BY FS_EmptySet
    <2>5. Cardinality(Owners) = Cardinality((Owners \cap lost) \cup (Owners \ lost))
      BY <2>1, Zenon
    <2> QED BY <1>6, <2>3, <2>4, <2>5
  <1>8. leaked \in Nat /\ count \in Int /\ count <= Cardinality(Owners) + leaked
    BY DEF CountsInv, Ranges, Counted
  <1>9. mishaps' \in 0 .. MaxMishaps /\ mishaps' # 0
    BY <1>2, MishapCounts DEF CountsInv
  <1>10. check' \in [Conns -> Checks]
    BY <1>2 DEF CountsInv, Ranges, Checks
  <1>11. leaked' \in Nat
    BY <1>2, <1>6, <1>8
  <1>12. Ranges'
    BY <1>2, <1>9, <1>10, <1>11 DEF CountsInv, Ranges
  <1>13. count' <= Cardinality(Owners \ lost) + leaked'
    BY <1>2, <1>6, <1>7, <1>8
  <1>14. Counted'
    BY <1>4, <1>9, <1>13 DEF Counted
  <1>15. Shape'
    BY ShapeCrashes DEF CountsInv
  <1> QED BY <1>12, <1>14, <1>15 DEF CountsInv

-----------------------------------------------------------------------------

LEMMA CountsInit == Init => CountsInv
  <1> SUFFICES ASSUME Init PROVE CountsInv
    OBVIOUS
  <1>1. Active = {} /\ Owners = {} /\ \A place \in Places : Holders(place) = {}
    BY DEF Init, Active, Owners, Holders
  <1>2. Ranges
    <2>1. 0 \in 0 .. Forever /\ 0 \in 0 .. MaxMishaps
      BY Bounds, PresenceAssumption
    <2>2. check \in [Conns -> Checks]
      BY DEF Init, Checks
    <2>3. count = 0 /\ countTTL = 0 /\ key = 0 /\ mishaps = 0 /\ leaked = 0
      BY DEF Init
    <2>4. count \in Int /\ leaked \in Nat
      BY <2>3
    <2>5. told \in BOOLEAN /\ overlap \in BOOLEAN
      BY Zenon DEF Init
    <2> QED BY <2>1, <2>2, <2>3, <2>4, <2>5, Zenon DEF Ranges
  <1>3. 0 \in 0 .. Cap
    BY PresenceAssumption
  <1>4. \A c \in Conns : ~Holds(pc[c], at[c])
    BY DEF Init, Holds, Opening, Closing
  <1>5. Shape
    BY <1>1, <1>3, <1>4, FS_EmptySet DEF Init, Shape, PCs, Rest
  <1>6. Counted
    BY <1>1, FS_EmptySet DEF Init, Counted
  <1> QED BY <1>2, <1>5, <1>6 DEF CountsInv

LEMMA CountsStutter == CountsInv /\ UNCHANGED vars => CountsInv'
  <1> SUFFICES ASSUME CountsInv, UNCHANGED vars PROVE CountsInv'
    OBVIOUS
  <1>1. Shape'
    BY DEF CountsInv, vars, Shape, Active, Holders
  <1>2. Ranges'
    BY DEF CountsInv, vars, Ranges
  <1>3. Counted'
    BY DEF CountsInv, vars, Counted, Owners
  <1> QED BY <1>1, <1>2, <1>3 DEF CountsInv

LEMMA CountsStep == CountsInv /\ [Next]_vars => CountsInv'
  BY CountsStutter, HandleCounts, OtherCounts, RecheckCounts, TickCounts, CrashCounts DEF Next

LEMMA CountsImply == CountsInv => CountsBounded
  <1> SUFFICES ASSUME CountsInv PROVE CountsBounded
    OBVIOUS
  <1>1. TypeOK
    BY DEF CountsInv, Shape, Ranges, TypeOK
  <1>2. \A place \in Places : Cardinality({c \in held : at[c] = place}) <= Cap
    <2> TAKE place \in Places
    <2>1. slots[place] = Cardinality(Holders(place)) /\ slots[place] \in 0 .. Cap /\ Cap \in Nat
      BY PresenceAssumption DEF CountsInv, Shape
    <2> QED BY <2>1 DEF Holders
  <1>3. Quiet /\ mishaps = 0 => count >= 0
    <2>1. Quiet => \A c \in Conns : pc[c] # "delCount"
      BY DEF Quiet, Rest
    <2> QED BY <2>1 DEF CountsInv, Counted, Ranges
  <1> QED BY <1>1, <1>2, <1>3 DEF CountsBounded, CountsInv, Counted

\* However sockets were refused, opened and closed at once, or lost in a crash or
\* a lost reply: no user holds more sockets of a hub than the cap, the counter
\* never exceeds the sockets still to be counted down and the increments nobody is
\* left to undo, and races alone never leave it below 0.
THEOREM CountsHeld == Spec => []CountsBounded
  <1>1. CountsInv /\ [Next]_vars => CountsInv'
    BY CountsStep
  <1> QED BY <1>1, CountsInit, CountsImply, PTL DEF Spec

-----------------------------------------------------------------------------
(* Sockets that open and close one at a time.                                   *)

BusyAt(c) == pc[c] \notin Rest \cup Touching
Settled == told <=> Live # {}

\* The keys outlive the interval of a registered socket the re-check is done with.
Renewed(c) ==
  /\ check[c] = "expire" => key >= 2
  /\ check[c] = "done" => key >= 2 /\ countTTL >= 2
Fresh == /\ Live # {} => key >= 1 /\ countTTL >= 1
         /\ \A c \in Live : Renewed(c)

\* What the one handler under way knows.
Phase(c) ==
  /\ pc[c] \in {"incr", "countTTL", "setKey", "forget"} => Settled
  /\ pc[c] \in {"countTTL", "setKey"} => (edge[c] <=> Live = {}) /\ countTTL >= 1
  /\ pc[c] = "setKey" => countTTL >= 2
  /\ pc[c] \in {"decr", "delCount", "delKey", "keep"} => told
  /\ pc[c] \in {"delCount", "delKey", "tellOff"} => Live = {}
  /\ pc[c] \in {"delCount", "delKey"} => edge[c]
  /\ pc[c] = "keep" => Live # {}

Serial ==
  /\ \A c, d \in Conns : BusyAt(c) /\ BusyAt(d) => c = d
  /\ count = Cardinality(Owners)
  /\ \A c \in Conns : pc[c] \in Usable => reg[c]
  /\ Fresh
  /\ \A c \in Conns : Phase(c)
  /\ Busy \/ Settled

Exact == ~overlap /\ mishaps = 0 => Serial

LEMMA Quietly ==
  ASSUME Serial, NEW c \in Conns, BusyAt(c) \/ ~Busy, NEW d \in Conns \ {c}
  PROVE  ~BusyAt(d)
  BY DEF Serial, Busy, BusyAt

LEMMA OwnersAreLive ==
  ASSUME NEW c \in Conns, \A d \in Conns \ {c} : ~BusyAt(d),
         pc[c] \notin {"countTTL", "setKey", "decr"}
  PROVE  Owners = Live
  <1>1. \A d \in Conns : pc[d] \notin {"countTTL", "setKey", "decr"}
    BY DEF BusyAt, Rest, Touching
  <1> QED BY <1>1 DEF Owners, Live

LEMMA LiveMove ==
  ASSUME Shape, NEW c \in Conns, Others(c)
  PROVE  /\ (reg'[c] <=> reg[c]) => Live' = Live
         /\ ~reg'[c] => Live' \subseteq Live
  BY DEF Others, Live

LEMMA LiveFinite ==
  ASSUME Shape
  PROVE  IsFiniteSet(Live) /\ Cardinality(Live) \in Nat /\ (Cardinality(Live) = 0 <=> Live = {})
  <1>1. Live \in SUBSET Owners
    BY DEF Live, Owners
  <1>2. IsFiniteSet(Live)
    BY <1>1, OwnersFinite, FS_Subset
  <1> QED BY <1>2, FS_CardinalityType, FS_EmptySet

LEMMA FreshKept ==
  ASSUME Fresh, Ranges, UNCHANGED check, Live' \subseteq Live,
         key' = key \/ key' \in 2 .. Forever, countTTL' = countTTL \/ countTTL' \in 2 .. Forever
  PROVE  Fresh'
  <1>1. key \in Nat /\ countTTL \in Nat /\ Forever \in Nat
    BY Bounds DEF Ranges
  <1>2. Live' # {} => key' >= 1 /\ countTTL' >= 1
    BY <1>1 DEF Fresh
  <1>3. ASSUME NEW d \in Live' PROVE Renewed(d)'
    <2>1. Renewed(d)
      BY <1>3 DEF Fresh
    <2> QED BY <1>1, <2>1 DEF Renewed
  <1> QED BY <1>2, <1>3 DEF Fresh

\* The one handler under way, or one that begins when none is, takes a step.
LEMMA SerialMove ==
  ASSUME Serial, NEW c \in Conns, Others(c), \A d \in Conns \ {c} : ~BusyAt(d),
         count' = Cardinality(Owners'), pc'[c] \in Usable => reg'[c],
         Fresh', Phase(c)', BusyAt(c)' \/ Settled'
  PROVE  Serial'
  <1>1. \A d \in Conns \ {c} : ~BusyAt(d)' /\ (pc'[d] \in Usable => reg'[d])
    BY DEF Others, BusyAt, Serial
  <1>2. \A d, e \in Conns : BusyAt(d)' /\ BusyAt(e)' => d = e
    BY <1>1
  <1>3. ASSUME NEW d \in Conns PROVE Phase(d)'
    <2>1. CASE d = c
      BY <2>1
    <2>2. CASE d # c
      <3>1. pc'[d] \in Rest \cup Touching
        BY <1>1, <2>2 DEF BusyAt
      <3> QED BY <3>1 DEF Phase, Rest, Touching
    <2> QED BY <2>1, <2>2
  <1>4. Busy' \/ Settled'
    BY DEF Busy, BusyAt
  <1>5. \A d \in Conns : pc'[d] \in Usable => reg'[d]
    BY <1>1
  <1> QED BY <1>2, <1>3, <1>4, <1>5 DEF Serial

\* A socket no handler opens or closes is heard of.
LEMMA SerialTouch ==
  ASSUME CountsInv, Serial, NEW c \in Conns, Others(c), ~BusyAt(c), ~BusyAt(c)', Owns(c) <=> Owns(c)',
         \A d \in Conns \ {c} : edge'[d] = edge[d],
         UNCHANGED told, UNCHANGED count, reg'[c] <=> reg[c], pc'[c] \in Usable => reg'[c],
         countTTL' = countTTL \/ countTTL' \in 2 .. Forever, Fresh'
  PROVE  Serial'
  <1>1. Live' = Live
    BY LiveMove DEF CountsInv
  <1>2. count' = Cardinality(Owners')
    BY OwnersMove DEF CountsInv, Serial, Others
  <1>3. \A d \in Conns : (BusyAt(d) <=> BusyAt(d)') /\ (pc'[d] \in Usable => reg'[d])
    BY DEF Others, BusyAt, Serial
  <1>4. \A d, e \in Conns : BusyAt(d)' /\ BusyAt(e)' => d = e
    BY <1>3 DEF Serial
  <1>5. Busy' \/ Settled'
    BY <1>1, <1>3 DEF Serial, Busy, BusyAt, Settled
  <1>6. ASSUME NEW d \in Conns PROVE Phase(d)'
    <2>1. CASE d = c
      <3>1. pc'[d] \in Rest \cup Touching
        BY <2>1 DEF BusyAt
      <3> QED BY <3>1 DEF Phase, Rest, Touching
    <2>2. CASE d # c
      <3>1. pc'[d] = pc[d] /\ edge'[d] = edge[d] /\ Phase(d)
        BY <2>2 DEF Others, Serial
      <3>2. (countTTL >= 1 => countTTL' >= 1) /\ (countTTL >= 2 => countTTL' >= 2)
        BY Bounds
      <3> QED BY <1>1, <3>1, <3>2 DEF Phase, Settled
    <2> QED BY <2>1, <2>2
  <1> QED BY <1>2, <1>3, <1>4, <1>5, <1>6 DEF Serial

-----------------------------------------------------------------------------
(* One lemma per command of the handlers.                                       *)

LEMMA Went ==
  ASSUME Shape, NEW c \in Conns, NEW l, Goto(c, l)
  PROVE  /\ pc'[c] = l
         /\ \A d \in Conns \ {c} : pc'[d] = pc[d] /\ edge'[d] = edge[d]
         /\ l \notin Rest => (edge'[c] <=> edge[c])
  BY DEF Shape, Goto, Move

LEMMA OthersWent ==
  ASSUME Shape, NEW c \in Conns, NEW l, Goto(c, l), UNCHANGED reg
  PROVE  Others(c) /\ pc'[c] = l /\ Live' = Live /\ (reg'[c] <=> reg[c])
  <1>1. Others(c) /\ pc'[c] = l /\ (reg'[c] <=> reg[c])
    BY Went DEF Others
  <1> QED BY <1>1, LiveMove

\* The numbers a step reckons with.
LEMMA LiveTyped ==
  ASSUME Shape, Ranges
  PROVE  /\ key \in Nat /\ countTTL \in Nat /\ count \in Int /\ told \in BOOLEAN
         /\ PresenceTTL \in 2 .. Forever /\ CountTTL \in 2 .. Forever /\ Forever \in 2 .. Forever
  BY Bounds DEF Ranges

LEMMA SerialConnect ==
  ASSUME CountsInv, Serial, NEW c \in Conns, NEW place \in Places, Connect(c, place), ~overlap'
  PROVE  Serial'
  <1>1. pc[c] = "closed" /\ UNCHANGED reg /\ UNCHANGED check /\ UNCHANGED count /\ UNCHANGED countTTL
        /\ UNCHANGED key /\ UNCHANGED told /\ Shape /\ Ranges
    BY DEF Connect, redis, CountsInv
  <1>2. ~Busy
    BY DEF Connect, Began
  <1>3. PICK l \in {"rejected", "incr"} : Move(c, l)
    BY DEF Connect
  <1>4. Others(c) /\ pc'[c] = l /\ (reg'[c] <=> reg[c])
    BY <1>1, <1>3 DEF Others, Move, Shape
  <1>5. Live' = Live
    BY <1>1, <1>4, LiveMove
  <1>6. ~Owns(c) /\ ~Owns(c)'
    BY <1>1, <1>4, ShapeFacts DEF Owns, Usable
  <1>7. count' = Cardinality(Owners')
    BY <1>1, <1>4, <1>6, OwnersMove DEF Serial, Others
  <1>8. Settled /\ Settled'
    BY <1>1, <1>2, <1>5 DEF Serial, Settled
  <1>9. Fresh'
    BY <1>1, <1>5, FreshKept DEF Serial
  <1>10. Phase(c)'
    BY <1>4, <1>8 DEF Phase
  <1>11. pc'[c] \notin Usable
    BY <1>4 DEF Usable
  <1>12. \A d \in Conns \ {c} : ~BusyAt(d)
    BY <1>2, Quietly
  <1> QED BY <1>4, <1>7, <1>8, <1>9, <1>10, <1>11, <1>12, SerialMove

LEMMA SerialIncr ==
  ASSUME CountsInv, Serial, NEW c \in Conns, Incr(c), ~Mishap
  PROVE  Serial'
  <1>1. pc[c] = "incr" /\ UNCHANGED reg /\ UNCHANGED check /\ UNCHANGED key /\ UNCHANGED told
        /\ count' = count + 1 /\ countTTL' = (IF countTTL = 0 THEN Forever ELSE countTTL)
        /\ edge' = [edge EXCEPT ![c] = count' = 1] /\ Move(c, "countTTL") /\ Shape /\ Ranges
    BY DEF Incr, CountsInv
  <1>2. Others(c) /\ pc'[c] = "countTTL" /\ (reg'[c] <=> reg[c])
    BY <1>1 DEF Others, Move, Shape
  <1>3. Live' = Live
    BY <1>2, <1>1, LiveMove
  <1>4. BusyAt(c) /\ BusyAt(c)'
    BY <1>1, <1>2 DEF BusyAt, Rest, Touching
  <1>5. \A d \in Conns \ {c} : ~BusyAt(d)
    BY <1>4, Quietly
  <1>6. ~Owns(c) /\ Owns(c)'
    BY <1>1, <1>2, ShapeFacts DEF Owns, Usable
  <1>7. Owners = Live
    BY <1>1, <1>5, OwnersAreLive
  <1>8. count = Cardinality(Live) /\ Cardinality(Live) \in Nat /\ (Cardinality(Live) = 0 <=> Live = {})
    BY <1>1, <1>7, LiveFinite DEF Serial
  <1>9. Cardinality(Owners') = Cardinality(Owners) + 1
    BY <1>1, <1>2, <1>6, OwnersMove DEF Others
  <1>10. count' = Cardinality(Owners')
    BY <1>1, <1>9 DEF Serial
  <1>11. edge'[c] <=> Live = {}
    <2>1. count' = 1 <=> Live = {}
      BY <1>1, <1>8
    <2>2. edge'[c] <=> count' = 1
      BY <1>1 DEF Shape
    <2> QED BY <2>1, <2>2
  <1>12. Settled'
    <2>1. Settled
      BY <1>1 DEF Serial, Phase
    <2> QED BY <1>1, <1>3, <2>1 DEF Settled
  <1>13. countTTL' \in Nat /\ countTTL' >= 1 /\ (countTTL' = countTTL \/ countTTL' \in 2 .. Forever)
    BY <1>1, LiveTyped
  <1>14. Fresh'
    BY <1>1, <1>3, <1>13, FreshKept DEF Serial
  <1>15. Phase(c)'
    BY <1>2, <1>3, <1>11, <1>12, <1>13 DEF Phase
  <1>16. pc'[c] \notin Usable
    BY <1>2 DEF Usable
  <1> QED BY <1>2, <1>4, <1>5, <1>10, <1>14, <1>15, <1>16, SerialMove

LEMMA SerialExpireCount ==
  ASSUME CountsInv, Serial, NEW c \in Conns, ExpireCount(c), ~Mishap
  PROVE  Serial'
  <1>1. pc[c] = "countTTL" /\ UNCHANGED reg /\ UNCHANGED check /\ UNCHANGED key /\ UNCHANGED told
        /\ UNCHANGED count /\ KeepCount /\ Goto(c, "setKey") /\ Shape /\ Ranges
    BY DEF ExpireCount, CountsInv
  <1>2. Others(c) /\ pc'[c] = "setKey" /\ Live' = Live /\ (reg'[c] <=> reg[c])
    BY <1>1, OthersWent
  <1>3. edge'[c] <=> edge[c]
    BY <1>1, Went DEF Rest
  <1>4. BusyAt(c) /\ BusyAt(c)'
    BY <1>1, <1>2 DEF BusyAt, Rest, Touching
  <1>5. \A d \in Conns \ {c} : ~BusyAt(d)
    BY <1>4, Quietly
  <1>6. Owns(c) /\ Owns(c)'
    BY <1>1, <1>2 DEF Owns
  <1>7. count' = Cardinality(Owners')
    BY <1>1, <1>2, <1>6, OwnersMove DEF Others, Serial
  <1>8. Phase(c)
    BY DEF Serial
  <1>9. countTTL' = CountTTL /\ CountTTL \in 2 .. Forever /\ CountTTL >= 2
    BY <1>1, <1>8, LiveTyped, Bounds DEF Phase, KeepCount
  <1>10. Settled'
    BY <1>1, <1>2, <1>8 DEF Settled, Phase
  <1>11. Fresh'
    BY <1>1, <1>2, <1>9, FreshKept DEF Serial
  <1>12. (edge'[c] <=> Live' = {}) /\ countTTL' >= 1 /\ countTTL' >= 2
    BY <1>1, <1>2, <1>3, <1>8, <1>9, Bounds DEF Phase
  <1>13. Phase(c)'
    BY <1>2, <1>10, <1>12 DEF Phase
  <1>14. pc'[c] \notin Usable
    BY <1>2 DEF Usable
  <1> QED BY <1>2, <1>4, <1>5, <1>7, <1>11, <1>13, <1>14, SerialMove

LEMMA SerialSetKey ==
  ASSUME CountsInv, Serial, NEW c \in Conns, SetKey(c), ~Mishap
  PROVE  Serial'
  <1>1. pc[c] = "setKey" /\ UNCHANGED check /\ key' = PresenceTTL /\ UNCHANGED told
        /\ UNCHANGED count /\ UNCHANGED countTTL /\ Register(c, TRUE) /\ Shape /\ Ranges
    BY DEF SetKey, CountsInv, Show
  <1>2. PICK l \in {"tellOn", "open"} : Goto(c, l) /\ (l = "tellOn" <=> edge[c])
    BY DEF SetKey
  <1>3. Others(c) /\ pc'[c] = l /\ reg'[c]
    BY <1>1, <1>2, Went DEF Others, Register, Shape
  <1>4. BusyAt(c)
    BY <1>1 DEF BusyAt, Rest, Touching
  <1>5. \A d \in Conns \ {c} : ~BusyAt(d)
    BY <1>4, Quietly
  <1>6. Owns(c) /\ Owns(c)'
    BY <1>1, <1>3 DEF Owns
  <1>7. count' = Cardinality(Owners')
    BY <1>1, <1>3, <1>6, OwnersMove DEF Others, Serial
  <1>8. Phase(c)
    BY DEF Serial
  <1>9. Fresh'
    <2>1. key' >= 2 /\ countTTL' >= 2 /\ key' >= 1 /\ countTTL' >= 1
      BY <1>1, <1>8, Bounds, LiveTyped DEF Phase
    <2> QED BY <2>1 DEF Fresh, Renewed
  <1>10. c \in Live'
    BY <1>3 DEF Live
  <1>11. Phase(c)'
    BY <1>3, <1>10 DEF Phase
  <1>12. BusyAt(c)' \/ Settled'
    <2>1. CASE l = "tellOn"
      BY <1>3, <2>1 DEF BusyAt, Rest, Touching
    <2>2. CASE l # "tellOn"
      <3>1. ~edge[c]
        BY <1>2, <2>2
      <3>2. told
        BY <1>1, <1>8, <3>1 DEF Phase, Settled
      <3> QED BY <1>1, <1>10, <3>2 DEF Settled
    <2> QED BY <2>1, <2>2
  <1> QED BY <1>3, <1>5, <1>7, <1>9, <1>11, <1>12, SerialMove

LEMMA SerialTellOnline ==
  ASSUME CountsInv, Serial, NEW c \in Conns, TellOnline(c), ~Mishap
  PROVE  Serial'
  <1>1. pc[c] = "tellOn" /\ UNCHANGED reg /\ UNCHANGED check /\ UNCHANGED key /\ told' = TRUE
        /\ UNCHANGED count /\ UNCHANGED countTTL /\ Goto(c, "open") /\ Shape /\ Ranges
    BY DEF TellOnline, CountsInv, redis
  <1>2. Others(c) /\ pc'[c] = "open" /\ Live' = Live /\ (reg'[c] <=> reg[c])
    BY <1>1, OthersWent
  <1>3. reg[c]
    BY <1>1 DEF Serial, Usable
  <1>4. BusyAt(c)
    BY <1>1 DEF BusyAt, Rest, Touching
  <1>5. \A d \in Conns \ {c} : ~BusyAt(d)
    BY <1>4, Quietly
  <1>6. Owns(c) /\ Owns(c)'
    BY <1>2, <1>3 DEF Owns
  <1>7. count' = Cardinality(Owners')
    BY <1>1, <1>2, <1>6, OwnersMove DEF Others, Serial
  <1>8. Fresh'
    BY <1>1, <1>2, FreshKept DEF Serial
  <1>9. Phase(c)'
    BY <1>2 DEF Phase
  <1>10. Settled'
    BY <1>1, <1>2, <1>3 DEF Settled, Live
  <1> QED BY <1>2, <1>3, <1>5, <1>7, <1>8, <1>9, <1>10, SerialMove

LEMMA SerialHeard ==
  ASSUME CountsInv, Serial, NEW c \in Conns, UserOnline(c) \/ TouchSet(c) \/ TouchTTL(c), ~Mishap
  PROVE  Serial'
  <1>1. pc[c] \in {"open", "touchSet", "touchTTL"} /\ UNCHANGED reg /\ UNCHANGED check /\ UNCHANGED told
        /\ UNCHANGED count /\ Shape /\ Ranges
    BY DEF UserOnline, TouchSet, TouchTTL, CountsInv, redis
  <1>2. PICK l \in {"open", "touchSet", "touchTTL"} : Goto(c, l)
    BY DEF UserOnline, TouchSet, TouchTTL
  <1>3. Others(c) /\ pc'[c] = l /\ Live' = Live /\ (reg'[c] <=> reg[c])
    BY <1>1, <1>2, OthersWent
  <1>4. reg[c]
    BY <1>1 DEF Serial, Usable
  <1>5. ~BusyAt(c) /\ ~BusyAt(c)'
    BY <1>1, <1>3 DEF BusyAt, Rest, Touching
  <1>6. Owns(c) /\ Owns(c)'
    BY <1>3, <1>4 DEF Owns
  <1>7. countTTL' \in {countTTL, CountTTL} /\ key' \in {key, PresenceTTL}
    BY DEF UserOnline, TouchSet, TouchTTL, Show, KeepCount, redis
  <1>8. (countTTL' = countTTL \/ countTTL' \in 2 .. Forever) /\ (key' = key \/ key' \in 2 .. Forever)
    BY <1>1, <1>7, LiveTyped
  <1>9. Fresh'
    BY <1>1, <1>3, <1>8, FreshKept DEF Serial
  <1>10. \A d \in Conns \ {c} : edge'[d] = edge[d]
    BY <1>1, <1>2, Went
  <1> QED BY <1>1, <1>3, <1>4, <1>5, <1>6, <1>8, <1>9, <1>10, SerialTouch

LEMMA SerialRejected ==
  ASSUME CountsInv, Serial, NEW c \in Conns, CloseRejected(c)
  PROVE  Serial'
  <1>1. pc[c] = "rejected" /\ UNCHANGED reg /\ UNCHANGED check /\ UNCHANGED told /\ UNCHANGED key
        /\ UNCHANGED count /\ UNCHANGED countTTL /\ Goto(c, "closed") /\ Shape /\ Ranges
    BY DEF CloseRejected, CountsInv, redis
  <1>2. Others(c) /\ pc'[c] = "closed" /\ Live' = Live /\ (reg'[c] <=> reg[c])
    BY <1>1, OthersWent
  <1>3. ~BusyAt(c) /\ ~BusyAt(c)' /\ ~Owns(c) /\ ~Owns(c)' /\ pc'[c] \notin Usable
    BY <1>1, <1>2, ShapeFacts DEF BusyAt, Rest, Touching, Owns, Usable
  <1>4. Fresh'
    BY <1>1, <1>2, FreshKept DEF Serial
  <1>5. \A d \in Conns \ {c} : edge'[d] = edge[d]
    BY <1>1, Went
  <1> QED BY <1>1, <1>2, <1>3, <1>4, <1>5, SerialTouch

LEMMA SerialClose ==
  ASSUME CountsInv, Serial, NEW c \in Conns, Close(c), ~overlap'
  PROVE  Serial'
  <1>1. pc[c] = "open" /\ Register(c, FALSE) /\ UNCHANGED check /\ UNCHANGED told /\ UNCHANGED key
        /\ UNCHANGED count /\ UNCHANGED countTTL /\ Shape /\ Ranges
    BY DEF Close, redis, CountsInv
  <1>2. ~Busy
    BY DEF Close, Began
  <1>3. reg[c]
    BY <1>1 DEF Serial, Usable
  <1>4. Goto(c, "decr")
    BY <1>3 DEF Close
  <1>5. Others(c) /\ pc'[c] = "decr" /\ ~reg'[c]
    BY <1>1, <1>4, Went DEF Others, Register, Shape
  <1>6. Live' \subseteq Live
    BY <1>1, <1>5, LiveMove
  <1>7. Owns(c) /\ Owns(c)'
    BY <1>3, <1>5 DEF Owns
  <1>8. count' = Cardinality(Owners')
    BY <1>1, <1>5, <1>7, OwnersMove DEF Others, Serial
  <1>9. told'
    BY <1>1, <1>2, <1>3 DEF Serial, Settled, Live
  <1>10. Fresh'
    BY <1>1, <1>6, FreshKept DEF Serial
  <1>11. Phase(c)'
    BY <1>5, <1>9 DEF Phase
  <1>12. BusyAt(c)' /\ pc'[c] \notin Usable
    BY <1>5 DEF BusyAt, Rest, Touching, Usable
  <1>13. \A d \in Conns \ {c} : ~BusyAt(d)
    BY <1>2, Quietly
  <1> QED BY <1>5, <1>8, <1>10, <1>11, <1>12, <1>13, SerialMove

LEMMA SerialDecr ==
  ASSUME CountsInv, Serial, NEW c \in Conns, Decr(c), ~Mishap
  PROVE  Serial'
  <1>1. pc[c] = "decr" /\ UNCHANGED reg /\ UNCHANGED check /\ UNCHANGED key /\ UNCHANGED told
        /\ count' = count - 1 /\ countTTL' = (IF countTTL = 0 THEN Forever ELSE countTTL)
        /\ edge' = [edge EXCEPT ![c] = count' = 0]
        /\ Move(c, IF IsFloor(count') THEN "delCount" ELSE "keep") /\ Shape /\ Ranges
    BY DEF Decr, CountsInv
  <1>2. PICK l \in {"delCount", "keep"} : l = IF IsFloor(count') THEN "delCount" ELSE "keep"
    OBVIOUS
  <1>3. Others(c) /\ pc'[c] = l /\ (reg'[c] <=> reg[c])
    BY <1>1, <1>2 DEF Others, Move, Shape
  <1>4. Live' = Live
    BY <1>1, <1>3, LiveMove
  <1>5. BusyAt(c) /\ BusyAt(c)' /\ pc'[c] \notin Usable
    BY <1>1, <1>3 DEF BusyAt, Rest, Touching, Usable
  <1>6. \A d \in Conns \ {c} : ~BusyAt(d)
    BY <1>5, Quietly
  <1>7. Owns(c) /\ ~Owns(c)'
    BY <1>1, <1>3, ShapeFacts DEF Owns, Usable
  <1>8. Cardinality(Owners') = Cardinality(Owners) - 1
    BY <1>1, <1>3, <1>7, OwnersMove DEF Others
  <1>9. count' = Cardinality(Owners')
    BY <1>1, <1>8 DEF Serial
  <1>10. Owners' = Live'
    <2>1. \A d \in Conns : pc'[d] \notin {"countTTL", "setKey", "decr"}
      BY <1>3, <1>6 DEF BusyAt, Rest, Touching, Others
    <2> QED BY <2>1 DEF Owners, Live
  <1>11. count' = Cardinality(Live)
    BY <1>4, <1>9, <1>10
  <1>12. Cardinality(Live) \in Nat /\ (Cardinality(Live) = 0 <=> Live = {})
    BY <1>1, LiveFinite
  <1>13. (count' <= 0 <=> Live = {}) /\ (count' = 0 <=> Live = {})
    BY <1>11, <1>12
  <1>14. (l = "delCount" <=> Live = {}) /\ (edge'[c] <=> Live = {})
    <2>1. l = "delCount" <=> Live = {}
      BY <1>2, <1>13 DEF IsFloor
    <2>2. edge'[c] <=> count' = 0
      BY <1>1 DEF Shape
    <2> QED BY <1>13, <2>1, <2>2
  <1>15. countTTL' = countTTL \/ countTTL' \in 2 .. Forever
    BY <1>1, LiveTyped
  <1>16. Fresh'
    BY <1>1, <1>4, <1>15, FreshKept DEF Serial
  <1>17. told'
    BY <1>1 DEF Serial, Phase
  <1>18. Phase(c)'
    BY <1>3, <1>4, <1>14, <1>17 DEF Phase
  <1> QED BY <1>3, <1>5, <1>6, <1>9, <1>16, <1>18, SerialMove

\* A close handler goes on after its DECR.
LEMMA SerialLeaves ==
  ASSUME CountsInv, Serial, NEW c \in Conns, NEW l \in {"delKey", "tellOff", "forget", "closed"},
         Goto(c, l), UNCHANGED reg, UNCHANGED check, pc[c] \in {"delCount", "delKey", "tellOff", "keep", "forget"},
         count' = Cardinality(Owners), Fresh', Phase(c)', BusyAt(c)' \/ Settled'
  PROVE  Serial'
  <1>1. Others(c) /\ pc'[c] = l /\ Live' = Live /\ (reg'[c] <=> reg[c])
    BY OthersWent DEF CountsInv
  <1>2. BusyAt(c) /\ pc'[c] \notin Usable
    BY <1>1 DEF BusyAt, Rest, Touching, Usable
  <1>3. ~Owns(c) /\ ~Owns(c)'
    BY <1>1, ShapeFacts DEF Owns, Usable, CountsInv
  <1>4. count' = Cardinality(Owners')
    BY <1>1, <1>3, OwnersMove DEF Others, CountsInv
  <1>5. \A d \in Conns \ {c} : ~BusyAt(d)
    BY <1>2, Quietly
  <1> QED BY <1>1, <1>2, <1>4, <1>5, SerialMove

LEMMA LeaveGoes ==
  ASSUME NEW c \in Conns, Leave(c)
  PROVE  \E l \in {"forget", "closed"} : Goto(c, l)
  BY DEF Leave

LEMMA SerialDelCount ==
  ASSUME CountsInv, Serial, NEW c \in Conns, DelCount(c), ~Mishap
  PROVE  Serial'
  <1>1. pc[c] = "delCount" /\ UNCHANGED reg /\ UNCHANGED check /\ UNCHANGED key /\ UNCHANGED told
        /\ count' = 0 /\ Goto(c, "delKey") /\ Shape /\ Ranges
    BY DEF DelCount, CountsInv, ForgetCount
  <1>2. Others(c) /\ pc'[c] = "delKey" /\ Live' = Live
    BY <1>1, OthersWent
  <1>3. Phase(c) /\ BusyAt(c) /\ BusyAt(c)'
    BY <1>1, <1>2 DEF Serial, BusyAt, Rest, Touching
  <1>4. Live = {} /\ edge[c] /\ told
    BY <1>1, <1>3 DEF Phase
  <1>5. edge'[c]
    BY <1>1, <1>4, Went DEF Rest
  <1>6. Owners = {}
    BY <1>1, <1>3, <1>4, Quietly, OwnersAreLive
  <1>7. count' = Cardinality(Owners)
    BY <1>1, <1>6, FS_EmptySet
  <1>8. Fresh'
    BY <1>2, <1>4 DEF Fresh
  <1>9. Phase(c)'
    BY <1>1, <1>2, <1>4, <1>5 DEF Phase
  <1> QED BY <1>1, <1>3, <1>7, <1>8, <1>9, SerialLeaves

LEMMA SerialDelKey ==
  ASSUME CountsInv, Serial, NEW c \in Conns, DelKey(c), ~Mishap
  PROVE  Serial'
  <1>1. pc[c] = "delKey" /\ UNCHANGED reg /\ UNCHANGED check /\ UNCHANGED told
        /\ UNCHANGED count /\ Shape /\ Ranges
    BY DEF DelKey, CountsInv
  <1>2. Phase(c)
    BY DEF Serial
  <1>3. Live = {} /\ edge[c] /\ told
    BY <1>1, <1>2 DEF Phase
  <1>4. Goto(c, "tellOff")
    BY <1>3 DEF DelKey
  <1>5. pc'[c] = "tellOff" /\ Live' = Live
    BY <1>1, <1>4, OthersWent
  <1>6. Fresh'
    BY <1>3, <1>5 DEF Fresh
  <1>7. Phase(c)' /\ BusyAt(c)'
    BY <1>3, <1>5 DEF Phase, BusyAt, Rest, Touching
  <1> QED BY <1>1, <1>4, <1>6, <1>7, SerialLeaves DEF Serial

LEMMA SerialTellOffline ==
  ASSUME CountsInv, Serial, NEW c \in Conns, TellOffline(c), ~Mishap
  PROVE  Serial'
  <1>1. pc[c] = "tellOff" /\ UNCHANGED reg /\ UNCHANGED check /\ ~told'
        /\ UNCHANGED count /\ Leave(c) /\ Shape /\ Ranges
    BY DEF TellOffline, CountsInv, redis
  <1>2. PICK l \in {"forget", "closed"} : Goto(c, l)
    BY <1>1, LeaveGoes
  <1>3. pc'[c] = l /\ Live' = Live
    BY <1>1, <1>2, OthersWent
  <1>4. Live = {}
    BY <1>1 DEF Serial, Phase
  <1>5. Settled'
    BY <1>1, <1>3, <1>4 DEF Settled
  <1>6. Fresh'
    BY <1>3, <1>4 DEF Fresh
  <1>7. Phase(c)'
    BY <1>3, <1>5 DEF Phase
  <1> QED BY <1>1, <1>2, <1>5, <1>6, <1>7, SerialLeaves DEF Serial

LEMMA SerialKeep ==
  ASSUME CountsInv, Serial, NEW c \in Conns, Keep(c) \/ Forget(c), ~Mishap
  PROVE  Serial'
  <1>1. pc[c] \in {"keep", "forget"} /\ UNCHANGED reg /\ UNCHANGED check /\ UNCHANGED told
        /\ UNCHANGED count /\ UNCHANGED key /\ Shape /\ Ranges
    BY DEF Keep, Forget, CountsInv, redis
  <1>2. PICK l \in {"forget", "closed"} : Goto(c, l)
    BY LeaveGoes DEF Keep, Forget
  <1>3. pc'[c] = l /\ Live' = Live
    BY <1>1, <1>2, OthersWent
  <1>4. Settled
    BY <1>1 DEF Serial, Phase, Settled
  <1>5. Settled'
    BY <1>1, <1>3, <1>4 DEF Settled
  <1>6. countTTL' \in {countTTL, CountTTL}
    BY DEF Keep, Forget, KeepCount, redis
  <1>7. Fresh'
    BY <1>1, <1>3, <1>6, LiveTyped, FreshKept DEF Serial
  <1>8. Phase(c)'
    BY <1>3, <1>5 DEF Phase
  <1> QED BY <1>1, <1>2, <1>5, <1>7, <1>8, SerialLeaves DEF Serial

-----------------------------------------------------------------------------
(* The re-check of a hub, and time.                                             *)

LEMMA SerialRecheck ==
  ASSUME CountsInv, Serial, NEW c \in Conns, Recheck(c), ~Mishap
  PROVE  Serial'
  <1>1. UNCHANGED pc /\ UNCHANGED reg /\ UNCHANGED edge /\ UNCHANGED count /\ UNCHANGED told
        /\ Shape /\ Ranges
    BY DEF Recheck, CheckSocket, CheckSet, CheckExpire, redis, CountsInv
  <1>2. Live' = Live /\ Owners' = Owners
    BY <1>1 DEF Live, Owners
  <1>3. key \in Nat /\ countTTL \in Nat /\ PresenceTTL \in 2 .. Forever /\ CountTTL \in 2 .. Forever
    BY <1>1, LiveTyped
  <1>4. countTTL' = countTTL \/ countTTL' \in 2 .. Forever
    BY <1>3 DEF Recheck, CheckSocket, CheckSet, CheckExpire, KeepCount, redis
  <1>5. key' = key \/ key' \in 2 .. Forever
    BY <1>3 DEF Recheck, CheckSocket, CheckSet, CheckExpire, Show, redis
  <1>6. \A d \in Conns \ {c} : check'[d] = check[d]
    BY <1>1 DEF Recheck, CheckSocket, CheckSet, CheckExpire, Ranges
  <1>7. Live # {} => key >= 1 /\ countTTL >= 1
    BY DEF Serial, Fresh
  <1>8. ASSUME c \in Live PROVE Renewed(c)'
    <2>1. reg[c] /\ countTTL >= 1 /\ Renewed(c)
      BY <1>8 DEF Live, Serial, Fresh
    <2>2. CASE CheckSocket(c)
      <3>1. check'[c] = "set"
        BY <1>1, <2>1, <2>2 DEF CheckSocket, Ranges
      <3> QED BY <3>1 DEF Renewed
    <2>3. CASE CheckSet(c)
      <3>1. check'[c] = "expire" /\ key' = PresenceTTL
        BY <1>1, <2>3 DEF CheckSet, Ranges, Show
      <3> QED BY <1>3, <3>1 DEF Renewed
    <2>4. CASE CheckExpire(c)
      <3>1. check[c] = "expire" /\ check'[c] = "done" /\ key' = key /\ countTTL' = CountTTL
        BY <1>1, <1>3, <2>1, <2>4 DEF CheckExpire, Ranges, KeepCount
      <3> QED BY <1>3, <2>1, <3>1 DEF Renewed
    <2> QED BY <2>2, <2>3, <2>4 DEF Recheck
  <1>9. ASSUME NEW d \in Live PROVE Renewed(d)'
    <2>1. CASE d = c
      BY <1>8, <1>9, <2>1
    <2>2. CASE d # c
      <3>1. Renewed(d) /\ check'[d] = check[d]
        BY <1>6, <1>9, <2>2 DEF Serial, Fresh, Live
      <3> QED BY <1>3, <1>4, <1>5, <3>1 DEF Renewed
    <2> QED BY <2>1, <2>2
  <1>10. Fresh'
    BY <1>2, <1>3, <1>4, <1>5, <1>7, <1>9 DEF Fresh
  <1>11. count' = Cardinality(Owners')
    BY <1>1, <1>2 DEF Serial
  <1>12. ASSUME NEW d \in Conns PROVE Phase(d)'
    <2>1. Phase(d)
      BY DEF Serial
    <2>2. (countTTL >= 1 => countTTL' >= 1) /\ (countTTL >= 2 => countTTL' >= 2)
      BY <1>3, <1>4
    <2> QED BY <1>1, <1>2, <2>1, <2>2 DEF Phase, Settled
  <1>13. /\ \A d, e \in Conns : BusyAt(d)' /\ BusyAt(e)' => d = e
         /\ \A d \in Conns : pc'[d] \in Usable => reg'[d]
         /\ Busy' \/ Settled'
    BY <1>1, <1>2 DEF Serial, Busy, BusyAt, Settled
  <1> QED BY <1>10, <1>11, <1>12, <1>13 DEF Serial

LEMMA SerialTick ==
  ASSUME CountsInv, Serial, Tick
  PROVE  Serial'
  <1>1. UNCHANGED pc /\ UNCHANGED reg /\ UNCHANGED edge /\ UNCHANGED told /\ Shape /\ Ranges
    BY DEF Tick, CountsInv
  <1>2. Live' = Live /\ Owners' = Owners
    BY <1>1 DEF Live, Owners
  <1>3. \A c \in Conns : pc[c] \in Rest /\ pc'[c] \in Rest /\ ~BusyAt(c)
    BY <1>1 DEF Tick, BusyAt
  <1>4. Owners = Live
    BY <1>3 DEF Owners, Live, Rest
  <1>5. key \in Nat /\ countTTL \in Nat /\ Forever \in 2 .. Forever
    BY <1>1, LiveTyped
  <1>6. ASSUME Live # {} PROVE key' >= 1 /\ countTTL' >= 1
    <2>1. PICK c \in Conns : reg[c]
      BY <1>6 DEF Live
    <2>2. c \in held
      BY <1>1, <2>1, ShapeFacts DEF Usable, Holds, Opening
    <2>3. check[c] = "done"
      BY <2>2 DEF Tick
    <2>4. key >= 2 /\ countTTL >= 2
      BY <2>1, <2>3 DEF Serial, Fresh, Renewed, Live
    <2> QED BY <1>5, <2>4 DEF Tick
  <1>7. count' = Cardinality(Owners')
    <2>1. CASE Live = {}
      <3>1. count = 0 /\ Cardinality(Owners') = 0
        BY <1>2, <1>4, <2>1, FS_EmptySet DEF Serial
      <3> QED BY <3>1 DEF Tick
    <2>2. CASE Live # {}
      <3>1. count' = count
        BY <1>5, <1>6, <2>2 DEF Tick
      <3> QED BY <1>2, <3>1 DEF Serial
    <2> QED BY <2>1, <2>2
  <1>8. \A c \in Conns : check'[c] = "due"
    BY DEF Tick
  <1>9. Fresh'
    <2>1. \A c \in Live' : Renewed(c)'
      BY <1>8 DEF Renewed, Live
    <2> QED BY <1>2, <1>6, <2>1 DEF Fresh
  <1>10. \A c \in Conns : Phase(c)'
    BY <1>3 DEF Phase, Rest
  <1>11. ~Busy
    BY <1>3 DEF Busy, BusyAt
  <1>12. Settled'
    BY <1>1, <1>2, <1>11 DEF Serial, Settled
  <1>13. /\ \A d, e \in Conns : BusyAt(d)' /\ BusyAt(e)' => d = e
         /\ \A d \in Conns : pc'[d] \in Usable => reg'[d]
    BY <1>1, <1>3 DEF Serial, BusyAt
  <1> QED BY <1>7, <1>9, <1>10, <1>12, <1>13 DEF Serial

-----------------------------------------------------------------------------

LEMMA ExactInit == Init => Exact
  <1> SUFFICES ASSUME Init PROVE Serial
    BY DEF Exact
  <1>1. Owners = {} /\ Live = {} /\ ~told /\ count = 0
    BY DEF Init, Owners, Live
  <1>2. \A c \in Conns : pc[c] = "closed"
    BY DEF Init
  <1>3. \A c \in Conns : ~BusyAt(c) /\ pc[c] \notin Usable /\ Phase(c)
    BY <1>2 DEF BusyAt, Rest, Usable, Phase
  <1>4. count = Cardinality(Owners)
    BY <1>1, FS_EmptySet
  <1>5. Fresh /\ Settled
    BY <1>1 DEF Fresh, Settled
  <1> QED BY <1>3, <1>4, <1>5 DEF Serial

LEMMA ExactStutter == CountsInv /\ Exact /\ UNCHANGED vars => Exact'
  <1> SUFFICES ASSUME Exact, UNCHANGED vars PROVE Exact'
    OBVIOUS
  <1>1. Owners' = Owners /\ Live' = Live /\ (Busy' <=> Busy) /\ (Settled' <=> Settled)
    BY DEF vars, Owners, Live, Busy, Settled
  <1>2. \A c \in Conns : (BusyAt(c)' <=> BusyAt(c)) /\ (Phase(c)' <=> Phase(c))
    BY <1>1 DEF vars, BusyAt, Phase
  <1>3. Fresh' <=> Fresh
    BY <1>1 DEF vars, Fresh, Renewed
  <1>4. Serial => Serial'
    BY <1>1, <1>2, <1>3 DEF vars, Serial
  <1> QED BY <1>4 DEF Exact, vars

LEMMA ExactStep == CountsInv /\ Exact /\ [Next]_vars => Exact'
  <1> SUFFICES ASSUME CountsInv, Exact, Next, ~overlap', mishaps' = 0 PROVE Serial'
    BY ExactStutter DEF Exact
  <1>1. ~Mishap
    BY MishapCounts DEF CountsInv
  <1>2. mishaps = 0 /\ ~overlap
    <2>1. mishaps' = mishaps
      BY <1>1 DEF Next, Connect, UserOnline, Close, Handle, Recheck, Tick, Crash, CheckSocket, CheckSet,
         CheckExpire, Incr, ExpireCount, SetKey, TellOnline, TouchSet, TouchTTL, CloseRejected, Decr,
         DelCount, DelKey, TellOffline, Keep, Forget
    <2>2. overlap => overlap'
      BY DEF Next, Connect, UserOnline, Close, Handle, Recheck, Tick, Crash, CheckSocket, CheckSet,
         CheckExpire, Incr, ExpireCount, SetKey, TellOnline, TouchSet, TouchTTL, CloseRejected, Decr,
         DelCount, DelKey, TellOffline, Keep, Forget, Began
    <2> QED BY <2>1, <2>2
  <1>3. Serial
    BY <1>2 DEF Exact
  <1>4. ASSUME NEW c \in Conns, Handle(c) PROVE Serial'
    BY <1>1, <1>3, <1>4, SerialIncr, SerialExpireCount, SerialSetKey, SerialTellOnline, SerialHeard,
       SerialRejected, SerialDecr, SerialDelCount, SerialDelKey, SerialTellOffline, SerialKeep DEF Handle
  <1>5. ASSUME NEW p \in Procs, Crash(p) PROVE Serial'
    BY <1>1, <1>5 DEF Crash
  <1> QED BY <1>1, <1>3, <1>4, <1>5, SerialConnect, SerialHeard, SerialClose, SerialRecheck, SerialTick
       DEF Next

LEMMA ExactImplies == CountsInv /\ Exact => SerialExact
  <1> SUFFICES ASSUME CountsInv, Exact, Quiet, ~overlap, mishaps = 0
               PROVE  count = Cardinality(Live) /\ (Live # {} => key > 0) /\ told = (Live # {})
    BY DEF SerialExact
  <1>1. Serial
    BY DEF Exact
  <1>2. ~Busy /\ Owners = Live
    BY DEF Quiet, Busy, Rest, Owners, Live
  <1>3. count = Cardinality(Live)
    BY <1>1, <1>2, Zenon DEF Serial
  <1>4. Live # {} => key > 0
    BY <1>1, LiveTyped DEF Serial, Fresh, CountsInv
  <1>5. told <=> Live # {}
    BY <1>1, <1>2 DEF Serial, Settled
  <1>6. told = (Live # {})
    BY <1>5, LiveTyped, Zenon DEF CountsInv
  <1> QED BY <1>3, <1>4, <1>6

\* As long as a user's sockets open and close one at a time and Redis answers, the
\* counter is the number of registered sockets, presence:<id> lives while there is
\* one, and the peers were last told so: for any sockets, processes and lifetimes.
THEOREM SerialHeld == Spec => []SerialExact
  <1>1. CountsInv /\ [Next]_vars => CountsInv'
    BY CountsStep
  <1>2. CountsInv /\ Exact /\ [Next]_vars => Exact'
    BY ExactStep
  <1> QED BY <1>1, <1>2, CountsInit, ExactInit, ExactImplies, PTL DEF Spec
=============================================================================
