---------------------------- MODULE ReactionProofs ----------------------------
(* Theorems about components that ContentMC puts together, for every value of the *)
(* constants their assumptions allow: what reactions leave behind - likes and      *)
(* bookmarks, a reel's views, comments and affinities - and the pages of the feed. *)
EXTENDS ContentMC, WellFoundedInduction, FiniteSetTheorems, SequenceTheorems, TLAPS

-----------------------------------------------------------------------------
(* Toggles.                                                                     *)

LEMMA ToggleSizes == \A S : T!Cardinality(S) = Cardinality(S) /\ (T!IsFiniteSet(S) <=> IsFiniteSet(S))
  BY DEF Cardinality, IsFiniteSet, T!Cardinality, T!IsFiniteSet

\* A toggle nothing has overlapped is the only one under way, and what it has counted is
\* the number of likes there are.
Unlapped(r) ==
  r \in T!Toggling => /\ T!Toggling = {r}
                      /\ T!At(r, "sync") => tReq[r].n = T!LikeCount("post")

\* What a handler knows of its item and its bookmark.
ToggleKnows(r) ==
  LET q == tReq[r] IN
  /\ q.pc # "idle" => q.user \in Likers /\ q.item \in T!Targets
  /\ q.pc = "sync" => q.item = "post"
  /\ q.pc \in {"inc", "dec"} => q.item = "reel"
  /\ q.pc \in {"save", "unsave"} => q.n \in 1 .. MaxCalls

Adding == {r \in Requests : T!At(r, "inc")}
Removing == {r \in Requests : T!At(r, "dec")}
\* Who has removed a bookmark has yet to take it off, and who has put one to add it.
SavesAhead ==
  ~tBroken => tSaves + T!Cardinality(Adding) >= T!Cardinality(T!Saved("reel")) + T!Cardinality(Removing)

ToggleInv ==
  /\ T!TypeOK
  /\ \A r \in Requests : ToggleKnows(r)
  /\ \A r \in tAlone : Unlapped(r)
  /\ T!LikesSettle
  /\ SavesAhead

LEMMA ToggleFacts == MaxCalls \in Nat /\ T!IsFiniteSet(Likers) /\ T!IsFiniteSet(Requests)
  BY ToggleBounds DEF T!TogglesAssumption

TogglePCs == {"idle", "delete", "insert", "count", "sync", "unsave", "dec", "save", "inc"}
ToggleCall == [pc : TogglePCs, user : Likers \cup {None}, item : T!Targets \cup {None}, n : Nat]

LEMMA ToggleTyped ==
  ASSUME T!TypeOK
  PROVE  /\ tLive \subseteq T!Targets /\ tLikes \subseteq Likers \X T!Targets /\ tShown \in [T!Targets -> Int]
         /\ tBooks \in [Likers \X T!Targets -> 0 .. MaxCalls] /\ tSaves \in Nat
         /\ tReq \in [Requests -> ToggleCall] /\ tCalls \in 0 .. MaxCalls /\ tAlone \subseteq Requests
         /\ \A r \in Requests : /\ tReq[r] \in ToggleCall /\ tReq[r].pc \in TogglePCs
                                /\ tReq[r].user \in Likers \cup {None}
                                /\ tReq[r].item \in T!Targets \cup {None} /\ tReq[r].n \in Nat
  <1>1. tReq \in [Requests -> ToggleCall]
    BY DEF T!TypeOK, ToggleCall, TogglePCs
  <1>2. \A r \in Requests : /\ tReq[r] \in ToggleCall /\ tReq[r].pc \in TogglePCs
                            /\ tReq[r].user \in Likers \cup {None}
                            /\ tReq[r].item \in T!Targets \cup {None} /\ tReq[r].n \in Nat
    BY <1>1 DEF ToggleCall
  <1> QED BY <1>1, <1>2 DEF T!TypeOK

\* Sets of requests and of users are finite; one more and one less.
LEMMA SetsCounted ==
  ASSUME NEW S, T!IsFiniteSet(S)
  PROVE  /\ T!Cardinality(S) \in Nat
         /\ \A x : x \notin S => T!Cardinality(S \cup {x}) = T!Cardinality(S) + 1
         /\ \A x : x \in S => T!Cardinality(S \ {x}) = T!Cardinality(S) - 1
         /\ \A U : U \subseteq S => T!IsFiniteSet(U)
  <1>1. T!Cardinality(S) \in Nat
    BY ToggleSizes, FS_CardinalityType
  <1>2. \A x : x \notin S => T!Cardinality(S \cup {x}) = T!Cardinality(S) + 1
    BY ToggleSizes, FS_AddElement
  <1>3. \A x : x \in S => T!Cardinality(S \ {x}) = T!Cardinality(S) - 1
    BY ToggleSizes, FS_RemoveElement
  <1>4. \A U : U \subseteq S => T!IsFiniteSet(U)
    BY ToggleSizes, FS_Subset
  <1> QED BY <1>1, <1>2, <1>3, <1>4

LEMMA TogglesFinite ==
  ASSUME ToggleInv
  PROVE  /\ T!IsFiniteSet(Adding) /\ T!IsFiniteSet(Removing) /\ T!IsFiniteSet(T!Saved("reel"))
         /\ T!Cardinality(Adding) \in Nat /\ T!Cardinality(Removing) \in Nat
         /\ T!Cardinality(T!Saved("reel")) \in Nat
  <1>1. Adding \subseteq Requests /\ Removing \subseteq Requests /\ T!Saved("reel") \subseteq Likers
    BY DEF Adding, Removing, T!Saved
  <1> QED BY <1>1, ToggleFacts, SetsCounted

\* Where a handler goes.
OtherToggles(r) == \A k \in Requests \ {r} : tReq'[k] = tReq[k]

LEMMA ToggleMoves ==
  ASSUME T!TypeOK, NEW r \in Requests, NEW q \in ToggleCall, tReq' = [tReq EXCEPT ![r] = q]
  PROVE  tReq' \in [Requests -> ToggleCall] /\ OtherToggles(r) /\ tReq'[r] = q
  BY ToggleTyped DEF OtherToggles

LEMMA ToggleGoes ==
  ASSUME T!TypeOK, NEW r \in Requests, NEW pc \in TogglePCs, NEW n \in Nat, T!Goto(r, pc, n)
  PROVE  /\ tReq' \in [Requests -> ToggleCall] /\ OtherToggles(r)
         /\ tReq'[r].pc = pc /\ tReq'[r].n = n
         /\ tReq'[r].user = tReq[r].user /\ tReq'[r].item = tReq[r].item
  <1>1. PICK q : q = [tReq[r] EXCEPT !.pc = pc, !.n = n]
    OBVIOUS
  <1>2. tReq[r] \in ToggleCall
    BY ToggleTyped
  <1>3. q \in ToggleCall /\ q.pc = pc /\ q.n = n /\ q.user = tReq[r].user /\ q.item = tReq[r].item
    BY <1>1, <1>2 DEF ToggleCall
  <1>4. tReq' = [tReq EXCEPT ![r] = q]
    BY <1>1, ToggleTyped DEF T!Goto
  <1> QED BY <1>3, <1>4, ToggleMoves

LEMMA ToggleRests ==
  ASSUME T!TypeOK, NEW r \in Requests, tReq' = [tReq EXCEPT ![r] = T!Idle]
  PROVE  /\ tReq' \in [Requests -> ToggleCall] /\ OtherToggles(r)
         /\ tReq'[r].pc = "idle" /\ tReq'[r].item = None
  <1>1. T!Idle \in ToggleCall /\ T!Idle.pc = "idle" /\ T!Idle.item = None
    BY DEF T!Idle, ToggleCall, TogglePCs
  <1> QED BY <1>1, ToggleMoves

\* What the other handlers know is their own.
LEMMA OthersKnow ==
  ASSUME ToggleInv, NEW r \in Requests, OtherToggles(r)
  PROVE  \A k \in Requests \ {r} : ToggleKnows(k)'
  BY Zenon DEF ToggleInv, OtherToggles, ToggleKnows

\* A step that is none of a toggle of the post: the toggles under way, and what they know,
\* stay as they are.
LEMMA LikesAside ==
  ASSUME ToggleInv, NEW r \in Requests, OtherToggles(r),
         r \notin T!Toggling, r \notin T!Toggling',
         T!LikeCount("post")' = T!LikeCount("post"), tShown' = tShown, tAlone' = tAlone,
         tSettled' => tSettled
  PROVE  (\A k \in tAlone' : Unlapped(k)') /\ T!LikesSettle'
  <1>1. T!Toggling' = T!Toggling
    BY DEF T!Toggling, OtherToggles
  <1>2. ASSUME NEW k \in tAlone PROVE Unlapped(k)'
    <2>1. Unlapped(k)
      BY DEF ToggleInv
    <2>2. k \in T!Toggling => k # r /\ k \in Requests
      BY DEF T!Toggling
    <2>3. k \in T!Toggling => tReq'[k] = tReq[k]
      BY <2>2 DEF OtherToggles
    <2> QED BY <1>1, <2>1, <2>3 DEF Unlapped, T!At
  <1>3. T!LikesSettle'
    BY <1>1 DEF T!LikesSettle, ToggleInv
  <1> QED BY <1>2, <1>3

\* A step that is none of a bookmark.
LEMMA SavesAside ==
  ASSUME ToggleInv, NEW r \in Requests, OtherToggles(r), tReq'[r].pc \notin {"inc", "dec"},
         tReq[r].pc \notin {"inc", "dec"}, tBooks' = tBooks, tSaves' = tSaves, tBroken' = tBroken
  PROVE  SavesAhead'
  <1>1. Adding' = Adding /\ Removing' = Removing
    BY DEF Adding, Removing, T!At, OtherToggles
  <1>2. T!Saved("reel")' = T!Saved("reel")
    BY DEF T!Saved
  <1> QED BY <1>1, <1>2 DEF SavesAhead, ToggleInv

\* A step of a toggle of the post that goes on.
LEMMA LikesWithin ==
  ASSUME ToggleInv, NEW r \in Requests, OtherToggles(r), r \in T!Toggling, r \in T!Toggling',
         tAlone' = tAlone, T!At(r, "sync")' => tReq'[r].n = T!LikeCount("post")'
  PROVE  (\A k \in tAlone' : Unlapped(k)') /\ T!LikesSettle'
  <1>1. T!Toggling' = T!Toggling
    BY DEF T!Toggling, OtherToggles
  <1>2. ASSUME NEW k \in tAlone PROVE Unlapped(k)'
    <2>1. k \in T!Toggling => T!Toggling = {k}
      BY DEF ToggleInv, Unlapped
    <2>2. k \in T!Toggling => k = r
      BY <2>1
    <2> QED BY <1>1, <2>1, <2>2 DEF Unlapped
  <1>3. T!LikesSettle'
    BY DEF T!LikesSettle
  <1> QED BY <1>2, <1>3

\* The last step of one.
LEMMA LikesEnd ==
  ASSUME ToggleInv, NEW r \in Requests, OtherToggles(r), r \in T!Toggling, r \notin T!Toggling', tAlone' = tAlone
  PROVE  \A k \in tAlone' : Unlapped(k)'
  <1>1. ASSUME NEW k \in tAlone, k \in T!Toggling' PROVE FALSE
    <2>1. k # r /\ k \in Requests
      BY <1>1 DEF T!Toggling
    <2>2. k \in T!Toggling
      BY <1>1, <2>1 DEF T!Toggling, OtherToggles
    <2>3. T!Toggling = {k}
      BY <2>2 DEF ToggleInv, Unlapped
    <2> QED BY <2>1, <2>3
  <1> QED BY <1>1 DEF Unlapped

LEMMA ToggleBegun ==
  ASSUME ToggleInv, NEW r \in Requests, NEW u \in Likers, NEW i \in T!Targets,
         NEW pc \in {"delete", "unsave", "save"}, NEW n \in Nat, pc # "delete" => n \in 1 .. MaxCalls,
         T!Begin(r, pc, u, i, n)
  PROVE  ToggleInv'
  <1>1. T!TypeOK /\ MaxCalls \in Nat
    BY ToggleFacts DEF ToggleInv
  <1>2. PICK q : q = [pc |-> pc, user |-> u, item |-> i, n |-> n]
    OBVIOUS
  <1>3. q \in ToggleCall /\ q.pc = pc /\ q.user = u /\ q.item = i /\ q.n = n
    BY <1>2 DEF ToggleCall, TogglePCs
  <1>4. tReq' = [tReq EXCEPT ![r] = q]
    BY <1>2 DEF T!Begin
  <1>5. tReq' \in [Requests -> ToggleCall] /\ OtherToggles(r) /\ tReq'[r] = q
    BY <1>1, <1>3, <1>4, ToggleMoves
  <1>6. /\ tLive' = tLive /\ tLikes' = tLikes /\ tShown' = tShown /\ tBooks' = tBooks /\ tSaves' = tSaves
        /\ tSettled' = tSettled /\ tBroken' = tBroken /\ tCalls < MaxCalls /\ tCalls' = tCalls + 1
        /\ tReq[r].pc = "idle"
        /\ tAlone' = IF pc # "delete" \/ i # "post" THEN tAlone ELSE IF T!Toggling = {} THEN {r} ELSE {}
    BY DEF T!Begin, T!documents, T!At
  <1>7. tCalls' \in 0 .. MaxCalls /\ tAlone' \subseteq Requests
    BY <1>1, <1>6, ToggleTyped
  <1>8. T!TypeOK'
    BY <1>1, <1>5, <1>6, <1>7 DEF T!TypeOK, ToggleCall, TogglePCs
  <1>9. ToggleKnows(r)'
    BY <1>3, <1>5 DEF ToggleKnows
  <1>10. SavesAhead'
    BY <1>3, <1>5, <1>6, SavesAside
  <1>11. T!LikeCount("post")' = T!LikeCount("post")
    BY <1>6 DEF T!LikeCount
  <1>12. r \notin T!Toggling
    BY <1>6 DEF T!Toggling, T!Liking
  <1>13. CASE pc # "delete" \/ i # "post"
    <2>1. r \notin T!Toggling'
      BY <1>3, <1>5, <1>13 DEF T!Toggling, T!Liking
    <2>2. tAlone' = tAlone
      BY <1>6, <1>13
    <2> QED BY <2>1, <2>2, <1>5, <1>6, <1>8, <1>9, <1>10, <1>11, <1>12, LikesAside, OthersKnow DEF ToggleInv
  <1>14. CASE ~(pc # "delete" \/ i # "post")
    <2>1. r \in T!Toggling' /\ \A k \in Requests \ {r} : k \in T!Toggling' <=> k \in T!Toggling
      BY <1>3, <1>5, <1>14 DEF T!Toggling, T!Liking, OtherToggles
    <2>2. T!LikesSettle'
      BY <2>1 DEF T!LikesSettle
    <2>3. ASSUME NEW k \in tAlone' PROVE Unlapped(k)'
      <3>1. k = r /\ T!Toggling = {}
        BY <2>3, <1>6, <1>14
      <3>2. T!Toggling' = {r}
        BY <2>1, <3>1 DEF T!Toggling
      <3>3. ~T!At(r, "sync")'
        BY <1>3, <1>5 DEF T!At
      <3> QED BY <3>1, <3>2, <3>3 DEF Unlapped
    <2> QED BY <2>2, <2>3, <1>5, <1>8, <1>9, <1>10, OthersKnow DEF ToggleInv
  <1> QED BY <1>13, <1>14

\* The steps between the first and the last of a toggle of a like: the likes change and the
\* handler goes on.
LEMMA LikeStep ==
  ASSUME ToggleInv, NEW r \in Requests, tReq[r].pc \in {"delete", "insert", "count"},
         NEW pc \in {"insert", "count", "sync"}, NEW n \in Nat, T!Goto(r, pc, n), T!Stepped,
         UNCHANGED <<tLive, tShown, tBooks, tSaves>>, tLikes' \subseteq Likers \X T!Targets,
         tReq[r].item = "reel" => pc # "sync" /\ \A u \in Likers : <<u, "post">> \in tLikes' <=> <<u, "post">> \in tLikes,
         pc = "sync" => n = T!LikeCount("post")'
  PROVE  ToggleInv'
  <1>1. T!TypeOK /\ ToggleKnows(r)
    BY DEF ToggleInv
  <1>2. pc \in TogglePCs
    BY DEF TogglePCs
  <1>3. /\ tReq' \in [Requests -> ToggleCall] /\ OtherToggles(r) /\ tReq'[r].pc = pc /\ tReq'[r].n = n
        /\ tReq'[r].user = tReq[r].user /\ tReq'[r].item = tReq[r].item
    BY <1>1, <1>2, ToggleGoes
  <1>4. /\ tLive' = tLive /\ tShown' = tShown /\ tBooks' = tBooks /\ tSaves' = tSaves
        /\ tCalls' = tCalls /\ tAlone' = tAlone /\ tSettled' = tSettled /\ tBroken' = tBroken
    BY DEF T!Stepped
  <1>5. T!TypeOK'
    BY <1>1, <1>3, <1>4 DEF T!TypeOK, ToggleCall, TogglePCs
  <1>6. tReq[r].user \in Likers /\ tReq[r].item \in T!Targets
    BY <1>1 DEF ToggleKnows
  <1>7. ToggleKnows(r)'
    BY <1>3, <1>6 DEF ToggleKnows, T!Targets
  <1>8. SavesAhead'
    BY <1>3, <1>4, SavesAside
  <1>9. CASE tReq[r].item = "reel"
    <2>1. r \notin T!Toggling /\ r \notin T!Toggling'
      BY <1>3, <1>9 DEF T!Toggling
    <2>2. {u \in Likers : <<u, "post">> \in tLikes'} = {u \in Likers : <<u, "post">> \in tLikes}
      BY <1>9
    <2>3. T!LikeCount("post")' = T!LikeCount("post")
      BY <2>2 DEF T!LikeCount
    <2> QED BY <2>1, <2>3, <1>3, <1>4, <1>5, <1>7, <1>8, LikesAside, OthersKnow DEF ToggleInv
  <1>10. CASE tReq[r].item = "post"
    <2>1. r \in T!Toggling /\ r \in T!Toggling'
      BY <1>3, <1>10 DEF T!Toggling, T!Liking
    <2>2. T!At(r, "sync")' => tReq'[r].n = T!LikeCount("post")'
      BY <1>3 DEF T!At
    <2> QED BY <2>1, <2>2, <1>3, <1>4, <1>5, <1>7, <1>8, LikesWithin, OthersKnow DEF ToggleInv
  <1> QED BY <1>6, <1>9, <1>10 DEF T!Targets

\* A step that ends a handler and touches no like.
LEMMA ToggleEnds ==
  ASSUME ToggleInv, NEW r \in Requests, tReq[r].pc # "idle", tReq' = [tReq EXCEPT ![r] = T!Idle],
         tLive' = tLive, tLikes' = tLikes, tCalls' = tCalls, tAlone' = tAlone, tBooks' \in [Likers \X T!Targets -> 0 .. MaxCalls],
         tSaves' \in Nat, tShown' \in [T!Targets -> Int], tSettled' \in BOOLEAN, tBroken' \in BOOLEAN,
         r \in T!Toggling => (tSettled' => r \in tAlone /\ tShown'["post"] = T!LikeCount("post")),
         r \notin T!Toggling => tShown' = tShown /\ (tSettled' => tSettled),
         SavesAhead'
  PROVE  ToggleInv'
  <1>1. T!TypeOK
    BY DEF ToggleInv
  <1>2. tReq' \in [Requests -> ToggleCall] /\ OtherToggles(r) /\ tReq'[r].pc = "idle" /\ tReq'[r].item = None
    BY <1>1, ToggleRests
  <1>3. T!TypeOK'
    BY <1>1, <1>2 DEF T!TypeOK, ToggleCall, TogglePCs
  <1>4. ToggleKnows(r)'
    BY <1>2 DEF ToggleKnows
  <1>5. T!LikeCount("post")' = T!LikeCount("post") /\ r \notin T!Toggling'
    BY <1>2 DEF T!LikeCount, T!Toggling, T!Liking
  <1>6. CASE r \in T!Toggling
    <2>1. \A k \in tAlone' : Unlapped(k)'
      BY <1>2, <1>5, <1>6, LikesEnd
    <2>2. T!LikesSettle'
      BY <1>5, <1>6 DEF T!LikesSettle
    <2> QED BY <2>1, <2>2, <1>2, <1>3, <1>4, OthersKnow DEF ToggleInv
  <1>7. CASE r \notin T!Toggling
    BY <1>2, <1>3, <1>4, <1>5, <1>7, LikesAside, OthersKnow DEF ToggleInv
  <1> QED BY <1>6, <1>7

LEMMA Liked ==
  ASSUME ToggleInv, NEW r \in Requests, T!LikeDelete(r) \/ T!LikeInsert(r) \/ T!LikeRecount(r)
  PROVE  ToggleInv'
  <1>1. ToggleKnows(r) /\ tLikes \subseteq Likers \X T!Targets
    BY ToggleTyped DEF ToggleInv
  <1> DEFINE mine == <<tReq[r].user, tReq[r].item>>
  <1>2. tReq[r].pc # "idle" => tReq[r].user \in Likers /\ tReq[r].item \in T!Targets
    BY <1>1 DEF ToggleKnows
  <1>3. CASE T!LikeDelete(r)
    <2>1. tReq[r].pc = "delete" /\ tLikes' = tLikes \ {mine} /\ UNCHANGED <<tLive, tShown, tBooks, tSaves>>
      BY <1>3 DEF T!LikeDelete, T!At
    <2>2. PICK pc \in {"insert", "count"} : T!Goto(r, pc, 0) /\ T!Stepped
      BY <1>3 DEF T!LikeDelete
    <2>3. tReq[r].item = "reel" => \A u \in Likers : <<u, "post">> \in tLikes' <=> <<u, "post">> \in tLikes
      BY <2>1
    <2>4. pc # "sync" /\ pc \in {"insert", "count", "sync"}
      BY <2>2
    <2> QED BY <2>1, <2>2, <2>3, <2>4, <1>1, LikeStep
  <1>4. CASE T!LikeInsert(r)
    <2>1. /\ tReq[r].pc = "insert" /\ tLikes' = tLikes \cup {mine} /\ UNCHANGED <<tLive, tShown, tBooks, tSaves>>
          /\ T!Goto(r, "count", 0) /\ T!Stepped
      BY <1>4 DEF T!LikeInsert, T!At
    <2>2. tReq[r].item = "reel" => \A u \in Likers : <<u, "post">> \in tLikes' <=> <<u, "post">> \in tLikes
      BY <2>1
    <2>3. tLikes' \subseteq Likers \X T!Targets
      BY <2>1, <1>1, <1>2
    <2> QED BY <2>1, <2>2, <2>3, LikeStep
  <1>5. CASE T!LikeRecount(r)
    <2>1. tReq[r].pc = "count" /\ UNCHANGED T!documents
      BY <1>5 DEF T!LikeRecount, T!At
    <2>2. /\ tLive' = tLive /\ tLikes' = tLikes /\ tShown' = tShown /\ tBooks' = tBooks /\ tSaves' = tSaves
      BY <2>1 DEF T!documents
    <2>3. CASE tReq[r].item = "post"
      <3>1. T!Goto(r, "sync", T!LikeCount("post")) /\ T!Stepped
        BY <1>5, <2>3 DEF T!LikeRecount
      <3>2. T!LikeCount("post") \in Nat /\ T!LikeCount("post")' = T!LikeCount("post")
        <4>1. {u \in Likers : <<u, "post">> \in tLikes} \subseteq Likers
          OBVIOUS
        <4> QED BY <4>1, <2>2, ToggleFacts, SetsCounted DEF T!LikeCount
      <3>3. PICK n \in Nat : n = T!LikeCount("post")
        BY <3>2
      <3>4. T!Goto(r, "sync", n) /\ n = T!LikeCount("post")'
        BY <3>1, <3>2, <3>3
      <3> QED BY <2>1, <2>2, <2>3, <3>1, <3>4, <1>1, LikeStep
    <2>4. CASE tReq[r].item # "post"
      <3>1. tReq' = [tReq EXCEPT ![r] = T!Idle] /\ T!Stepped
        BY <1>5, <2>4 DEF T!LikeRecount, T!End
      <3>2. tCalls' = tCalls /\ tAlone' = tAlone /\ tSettled' = tSettled /\ tBroken' = tBroken
        BY <3>1 DEF T!Stepped
      <3>3. OtherToggles(r) /\ tReq'[r].pc = "idle"
        BY <3>1, ToggleRests DEF ToggleInv
      <3>4. SavesAhead'
        BY <2>1, <2>2, <3>2, <3>3, SavesAside
      <3>5. r \notin T!Toggling
        BY <2>4 DEF T!Toggling
      <3> QED BY <2>1, <2>2, <3>1, <3>2, <3>4, <3>5, ToggleTyped, ToggleEnds DEF ToggleInv, T!TypeOK
    <2> QED BY <2>3, <2>4
  <1> QED BY <1>3, <1>4, <1>5

LEMMA LikeStored ==
  ASSUME ToggleInv, NEW r \in Requests, T!LikeSync(r)
  PROVE  ToggleInv'
  <1>1. /\ tReq[r].pc = "sync" /\ tReq' = [tReq EXCEPT ![r] = T!Idle] /\ tSettled' = (r \in tAlone)
        /\ tShown' = [tShown EXCEPT !["post"] = tReq[r].n]
        /\ UNCHANGED <<tLive, tLikes, tBooks, tSaves, tCalls, tAlone, tBroken>>
    BY DEF T!LikeSync, T!At
  <1>2. tReq[r].item = "post" /\ r \in T!Toggling /\ tReq[r].n \in Nat
    BY <1>1, ToggleTyped DEF ToggleInv, ToggleKnows, T!Toggling, T!Liking
  <1>3. tShown' \in [T!Targets -> Int] /\ tShown'["post"] = tReq[r].n
    BY <1>1, <1>2, ToggleTyped DEF ToggleInv, T!Targets
  <1>4. r \in tAlone => tReq[r].n = T!LikeCount("post")
    BY <1>1, <1>2 DEF ToggleInv, Unlapped, T!At
  <1>5. OtherToggles(r) /\ tReq'[r].pc = "idle"
    BY <1>1, ToggleRests DEF ToggleInv
  <1>6. SavesAhead'
    BY <1>1, <1>5, SavesAside
  <1>7. tSettled' \in BOOLEAN /\ tBroken' \in BOOLEAN
    BY <1>1 DEF ToggleInv, T!TypeOK
  <1> QED BY <1>1, <1>2, <1>3, <1>4, <1>6, <1>7, ToggleTyped, ToggleEnds DEF ToggleInv

LEMMA ToggleBroken ==
  ASSUME ToggleInv, NEW r \in Requests, T!BreakOff(r)
  PROVE  ToggleInv'
  <1>1. /\ tReq[r].pc # "idle" /\ tReq' = [tReq EXCEPT ![r] = T!Idle]
        /\ tSettled' = (tSettled /\ r \notin T!Toggling) /\ tBroken' = TRUE
        /\ tLive' = tLive /\ tLikes' = tLikes /\ tShown' = tShown /\ tBooks' = tBooks /\ tSaves' = tSaves
        /\ tCalls' = tCalls /\ tAlone' = tAlone
    BY DEF T!BreakOff, T!At, T!documents
  <1>2. SavesAhead'
    BY <1>1 DEF SavesAhead
  <1>3. tSettled' \in BOOLEAN /\ tBroken' \in BOOLEAN
    BY <1>1 DEF ToggleInv, T!TypeOK
  <1>4. /\ r \in T!Toggling => ~tSettled'
        /\ tSettled' => tSettled
    BY <1>1
  <1> QED BY <1>1, <1>2, <1>3, <1>4, ToggleTyped, ToggleEnds DEF ToggleInv

\* A bookmark is deleted by the one request whose id it has, which goes on to take one off.
LEMMA BookDeleted ==
  ASSUME ToggleInv, NEW r \in Requests, T!BookDelete(r)
  PROVE  ToggleInv'
  <1> DEFINE q == tReq[r]
             mine == <<q.user, q.item>>
             there == tBooks[mine] = q.n
  <1>0. T!TypeOK
    BY DEF ToggleInv
  <1>1. /\ q.pc = "unsave" /\ tBooks' = (IF there THEN [tBooks EXCEPT ![mine] = T!NoBook] ELSE tBooks)
        /\ IF there /\ q.item = "reel" THEN T!Goto(r, "dec", 0) /\ T!Stepped ELSE T!End(r)
        /\ tLive' = tLive /\ tLikes' = tLikes /\ tShown' = tShown /\ tSaves' = tSaves
    BY DEF T!BookDelete, T!At
  <1>2. T!Stepped
    BY <1>1 DEF T!End
  <1>3. tCalls' = tCalls /\ tAlone' = tAlone /\ tSettled' = tSettled /\ tBroken' = tBroken
    BY <1>2 DEF T!Stepped
  <1>4. q.user \in Likers /\ q.item \in T!Targets /\ q.n \in 1 .. MaxCalls /\ r \notin T!Toggling
    BY <1>1 DEF ToggleInv, ToggleKnows, T!Toggling, T!Liking
  <1>5. 0 \in 0 .. MaxCalls /\ tBooks \in [Likers \X T!Targets -> 0 .. MaxCalls]
    BY <1>0, ToggleFacts, ToggleTyped
  <1>6. tBooks' \in [Likers \X T!Targets -> 0 .. MaxCalls]
    BY <1>1, <1>5 DEF T!NoBook
  <1>7. r \notin Adding /\ r \notin Removing
    BY <1>1 DEF Adding, Removing, T!At
  <1>8. CASE there /\ q.item = "reel"
    <2>1. T!Goto(r, "dec", 0) /\ "dec" \in TogglePCs
      BY <1>1, <1>8 DEF TogglePCs
    <2>2. /\ tReq' \in [Requests -> ToggleCall] /\ OtherToggles(r) /\ tReq'[r].pc = "dec"
          /\ tReq'[r].user = q.user /\ tReq'[r].item = q.item
      BY <2>1, <1>0, ToggleGoes
    <2>3. T!TypeOK'
      BY <1>0, <1>1, <1>3, <1>6, <2>2 DEF T!TypeOK, ToggleCall, TogglePCs
    <2>4. ToggleKnows(r)' /\ r \notin T!Toggling'
      BY <2>2, <1>4, <1>8 DEF ToggleKnows, T!Toggling, T!Liking
    <2>5. T!LikeCount("post")' = T!LikeCount("post")
      BY <1>1 DEF T!LikeCount
    <2>6. Adding' = Adding /\ Removing' = Removing \cup {r}
      BY <2>2, <1>7 DEF Adding, Removing, T!At, OtherToggles
    <2>7. T!Saved("reel")' = T!Saved("reel") \ {q.user} /\ q.user \in T!Saved("reel")
      <3>1. tBooks' = [tBooks EXCEPT ![mine] = T!NoBook]
        BY <1>1, <1>8
      <3>2. \A u \in Likers : tBooks'[<<u, "reel">>] # T!NoBook <=> tBooks[<<u, "reel">>] # T!NoBook /\ u # q.user
        BY <3>1, <1>4, <1>5, <1>8 DEF T!Targets
      <3>3. tBooks[<<q.user, "reel">>] # T!NoBook
        BY <1>4, <1>8 DEF T!NoBook
      <3> HIDE DEF q
      <3> QED BY <3>2, <3>3, <1>4 DEF T!Saved
    <2>8. SavesAhead'
      <3>1. T!Cardinality(Removing \cup {r}) = T!Cardinality(Removing) + 1
        BY <1>7, TogglesFinite, SetsCounted
      <3>2. T!Cardinality(T!Saved("reel") \ {q.user}) = T!Cardinality(T!Saved("reel")) - 1
        BY <2>7, TogglesFinite, SetsCounted
      <3>3. T!Cardinality(T!Saved("reel"))' = T!Cardinality(T!Saved("reel")) - 1
        BY <2>7, <3>2
      <3>4. T!Cardinality(Removing)' = T!Cardinality(Removing) + 1 /\ T!Cardinality(Adding)' = T!Cardinality(Adding)
        BY <2>6, <3>1
      <3>5. tSaves \in Nat
        BY <1>0, ToggleTyped
      <3> QED BY <3>3, <3>4, <3>5, <1>1, <1>3, TogglesFinite DEF SavesAhead, ToggleInv
    <2> QED BY <2>2, <2>3, <2>4, <2>5, <2>8, <1>1, <1>3, <1>4, LikesAside, OthersKnow DEF ToggleInv
  <1>9. CASE ~(there /\ q.item = "reel")
    <2>1. tReq' = [tReq EXCEPT ![r] = T!Idle]
      BY <1>1, <1>9 DEF T!End
    <2>2. OtherToggles(r) /\ tReq'[r].pc = "idle"
      BY <2>1, <1>0, ToggleRests
    <2>3. Adding' = Adding /\ Removing' = Removing
      BY <2>2, <1>7 DEF Adding, Removing, T!At, OtherToggles
    <2>4. T!Saved("reel")' = T!Saved("reel")
      <3>1. \A u \in Likers : tBooks'[<<u, "reel">>] = tBooks[<<u, "reel">>]
        BY <1>1, <1>4, <1>5, <1>9 DEF T!Targets
      <3> QED BY <3>1 DEF T!Saved
    <2>5. SavesAhead'
      BY <2>3, <2>4, <1>1, <1>3 DEF SavesAhead, ToggleInv
    <2> QED BY <2>1, <2>5, <1>0, <1>1, <1>3, <1>4, <1>6, ToggleTyped, ToggleEnds DEF T!TypeOK
  <1> QED BY <1>8, <1>9

LEMMA BookPut ==
  ASSUME ToggleInv, NEW r \in Requests, T!BookInsert(r)
  PROVE  ToggleInv'
  <1> DEFINE q == tReq[r]
             mine == <<q.user, q.item>>
             taken == tBooks[mine] # T!NoBook
  <1>0. T!TypeOK
    BY DEF ToggleInv
  <1>1. /\ q.pc = "save"
        /\ taken => T!End(r) /\ tBooks' = tBooks
        /\ ~taken => /\ tBooks' = [tBooks EXCEPT ![mine] = q.n]
                     /\ IF q.item = "reel" THEN T!Goto(r, "inc", 0) /\ T!Stepped ELSE T!End(r)
        /\ tLive' = tLive /\ tLikes' = tLikes /\ tShown' = tShown /\ tSaves' = tSaves
    BY DEF T!BookInsert, T!At
  <1>2. T!Stepped
    BY <1>1 DEF T!End
  <1>3. tCalls' = tCalls /\ tAlone' = tAlone /\ tSettled' = tSettled /\ tBroken' = tBroken
    BY <1>2 DEF T!Stepped
  <1>4. q.user \in Likers /\ q.item \in T!Targets /\ q.n \in 1 .. MaxCalls /\ r \notin T!Toggling
    BY <1>1 DEF ToggleInv, ToggleKnows, T!Toggling, T!Liking
  <1>5. q.n \in 0 .. MaxCalls /\ tBooks \in [Likers \X T!Targets -> 0 .. MaxCalls]
    BY <1>0, <1>4, ToggleFacts, ToggleTyped
  <1>6. tBooks' \in [Likers \X T!Targets -> 0 .. MaxCalls]
    BY <1>1, <1>5 DEF T!NoBook
  <1>7. r \notin Adding /\ r \notin Removing
    BY <1>1 DEF Adding, Removing, T!At
  <1>8. CASE ~taken /\ q.item = "reel"
    <2>1. T!Goto(r, "inc", 0) /\ "inc" \in TogglePCs
      BY <1>1, <1>8 DEF TogglePCs
    <2>2. /\ tReq' \in [Requests -> ToggleCall] /\ OtherToggles(r) /\ tReq'[r].pc = "inc"
          /\ tReq'[r].user = q.user /\ tReq'[r].item = q.item
      BY <2>1, <1>0, ToggleGoes
    <2>3. T!TypeOK'
      BY <1>0, <1>1, <1>3, <1>6, <2>2 DEF T!TypeOK, ToggleCall, TogglePCs
    <2>4. ToggleKnows(r)' /\ r \notin T!Toggling'
      BY <2>2, <1>4, <1>8 DEF ToggleKnows, T!Toggling, T!Liking
    <2>5. T!LikeCount("post")' = T!LikeCount("post")
      BY <1>1 DEF T!LikeCount
    <2>6. Removing' = Removing /\ Adding' = Adding \cup {r}
      BY <2>2, <1>7 DEF Adding, Removing, T!At, OtherToggles
    <2>7. T!Saved("reel")' = T!Saved("reel") \cup {q.user} /\ q.user \notin T!Saved("reel")
      <3>1. tBooks' = [tBooks EXCEPT ![mine] = q.n] /\ q.n # T!NoBook
        BY <1>1, <1>4, <1>8 DEF T!NoBook
      <3>2. \A u \in Likers : tBooks'[<<u, "reel">>] # T!NoBook <=> tBooks[<<u, "reel">>] # T!NoBook \/ u = q.user
        BY <3>1, <1>4, <1>5, <1>8 DEF T!Targets
      <3>3. tBooks[<<q.user, "reel">>] = T!NoBook
        BY <1>8
      <3> HIDE DEF q
      <3> QED BY <3>2, <3>3, <1>4 DEF T!Saved
    <2>8. SavesAhead'
      <3>1. T!Cardinality(Adding \cup {r}) = T!Cardinality(Adding) + 1
        BY <1>7, TogglesFinite, SetsCounted
      <3>2. T!Cardinality(T!Saved("reel") \cup {q.user}) = T!Cardinality(T!Saved("reel")) + 1
        BY <2>7, TogglesFinite, SetsCounted
      <3>3. T!Cardinality(T!Saved("reel"))' = T!Cardinality(T!Saved("reel")) + 1
        BY <2>7, <3>2
      <3>4. T!Cardinality(Adding)' = T!Cardinality(Adding) + 1 /\ T!Cardinality(Removing)' = T!Cardinality(Removing)
        BY <2>6, <3>1
      <3>5. tSaves \in Nat
        BY <1>0, ToggleTyped
      <3> QED BY <3>3, <3>4, <3>5, <1>1, <1>3, TogglesFinite DEF SavesAhead, ToggleInv
    <2> QED BY <2>2, <2>3, <2>4, <2>5, <2>8, <1>1, <1>3, <1>4, LikesAside, OthersKnow DEF ToggleInv
  <1>9. CASE ~(~taken /\ q.item = "reel")
    <2>1. tReq' = [tReq EXCEPT ![r] = T!Idle]
      BY <1>1, <1>9 DEF T!End
    <2>2. OtherToggles(r) /\ tReq'[r].pc = "idle"
      BY <2>1, <1>0, ToggleRests
    <2>3. Adding' = Adding /\ Removing' = Removing
      BY <2>2, <1>7 DEF Adding, Removing, T!At, OtherToggles
    <2>4. T!Saved("reel")' = T!Saved("reel")
      <3>1. \A u \in Likers : tBooks'[<<u, "reel">>] = tBooks[<<u, "reel">>]
        BY <1>1, <1>4, <1>5, <1>9 DEF T!Targets
      <3> QED BY <3>1 DEF T!Saved
    <2>5. SavesAhead'
      BY <2>3, <2>4, <1>1, <1>3 DEF SavesAhead, ToggleInv
    <2> QED BY <2>1, <2>5, <1>0, <1>1, <1>3, <1>4, <1>6, ToggleTyped, ToggleEnds DEF T!TypeOK
  <1> QED BY <1>8, <1>9

\* The two counters of saves.
LEMMA SavesMoved ==
  ASSUME ToggleInv, NEW r \in Requests, T!SavesInc(r) \/ T!SavesDec(r)
  PROVE  ToggleInv'
  <1>0. T!TypeOK /\ tSaves \in Nat
    BY ToggleTyped DEF ToggleInv
  <1>1. /\ tReq[r].pc \in {"inc", "dec"} /\ T!End(r)
        /\ tReq[r].pc = "inc" => tSaves' = tSaves + 1
        /\ tReq[r].pc = "dec" => tSaves' = IF tSaves > 0 THEN tSaves - 1 ELSE tSaves
        /\ tLive' = tLive /\ tLikes' = tLikes /\ tShown' = tShown /\ tBooks' = tBooks
    BY DEF T!SavesInc, T!SavesDec, T!At
  <1>2. /\ tReq' = [tReq EXCEPT ![r] = T!Idle]
        /\ tCalls' = tCalls /\ tAlone' = tAlone /\ tSettled' = tSettled /\ tBroken' = tBroken
    BY <1>1 DEF T!End, T!Stepped
  <1>3. OtherToggles(r) /\ tReq'[r].pc = "idle" /\ r \notin T!Toggling
    BY <1>0, <1>1, <1>2, ToggleRests DEF T!Toggling, T!Liking
  <1>4. T!Saved("reel")' = T!Saved("reel")
    BY <1>1 DEF T!Saved
  <1>5. tSaves' \in Nat
    BY <1>0, <1>1
  <1>6. CASE tReq[r].pc = "inc"
    <2>1. Adding' = Adding \ {r} /\ r \in Adding /\ Removing' = Removing
      BY <1>3, <1>6 DEF Adding, Removing, T!At, OtherToggles
    <2>2. T!Cardinality(Adding \ {r}) = T!Cardinality(Adding) - 1
      BY <2>1, TogglesFinite, SetsCounted
    <2>3. T!Cardinality(Adding)' = T!Cardinality(Adding) - 1
      BY <2>1, <2>2
    <2> QED
      <3>1. SavesAhead'
        BY <2>1, <2>3, <1>0, <1>1, <1>2, <1>4, <1>6, TogglesFinite DEF SavesAhead, ToggleInv
      <3> QED BY <3>1, <1>0, <1>1, <1>2, <1>3, <1>5, ToggleTyped, ToggleEnds DEF T!TypeOK
  <1>7. CASE tReq[r].pc = "dec"
    <2>1. Removing' = Removing \ {r} /\ r \in Removing /\ Adding' = Adding
      BY <1>3, <1>7 DEF Adding, Removing, T!At, OtherToggles
    <2>2. T!Cardinality(Removing \ {r}) = T!Cardinality(Removing) - 1
      BY <2>1, TogglesFinite, SetsCounted
    <2>3. T!Cardinality(Removing)' = T!Cardinality(Removing) - 1
      BY <2>1, <2>2
    <2> QED
      <3>1. SavesAhead'
        BY <2>1, <2>3, <1>0, <1>1, <1>2, <1>4, <1>7, TogglesFinite DEF SavesAhead, ToggleInv
      <3> QED BY <3>1, <1>0, <1>1, <1>2, <1>3, <1>5, ToggleTyped, ToggleEnds DEF T!TypeOK
  <1> QED BY <1>1, <1>6, <1>7

LEMMA ToggleSame ==
  ASSUME ToggleInv, tLive' \subseteq tLive, tLikes' = tLikes, tShown' = tShown, tBooks' = tBooks,
         tSaves' = tSaves, tReq' = tReq, tCalls' = tCalls, tAlone' = tAlone, tSettled' = tSettled,
         tBroken' = tBroken
  PROVE  ToggleInv'
  <1>1. T!TypeOK'
    BY DEF ToggleInv, T!TypeOK
  <1>2. T!Toggling' = T!Toggling /\ T!LikeCount("post")' = T!LikeCount("post") /\ T!Saved("reel")' = T!Saved("reel")
    BY DEF T!Toggling, T!LikeCount, T!Saved
  <1>3. Adding' = Adding /\ Removing' = Removing
    BY DEF Adding, Removing, T!At
  <1>4. \A r \in Requests : ToggleKnows(r)'
    BY Zenon DEF ToggleInv, ToggleKnows
  <1>5. \A r \in tAlone' : Unlapped(r)'
    BY <1>2 DEF ToggleInv, Unlapped, T!At
  <1> QED BY <1>1, <1>2, <1>3, <1>4, <1>5 DEF ToggleInv, T!LikesSettle, SavesAhead

LEMMA ToggleInit == T!Init => ToggleInv
  <1> SUFFICES ASSUME T!Init PROVE ToggleInv
    OBVIOUS
  <1>1. \A r \in Requests : tReq[r].pc = "idle"
    BY DEF T!Init, T!Idle
  <1>2. T!Idle \in ToggleCall /\ 0 \in 0 .. MaxCalls
    BY ToggleFacts DEF T!Idle, ToggleCall, TogglePCs
  <1>3. T!TypeOK
    <2>1. tReq \in [Requests -> ToggleCall]
      BY <1>2 DEF T!Init
    <2>2. tBooks \in [Likers \X T!Targets -> 0 .. MaxCalls]
      BY <1>2 DEF T!Init, T!NoBook
    <2>3. tShown \in [T!Targets -> Int]
      BY DEF T!Init
    <2> QED BY <2>1, <2>2, <2>3, <1>2 DEF T!Init, T!TypeOK, ToggleCall, TogglePCs
  <1>4. Adding = {} /\ Removing = {} /\ T!Saved("reel") = {}
    BY <1>1 DEF Adding, Removing, T!Saved, T!At, T!Init, T!Targets
  <1>5. T!Cardinality({}) = 0
    BY ToggleSizes, FS_EmptySet
  <1>6. SavesAhead
    BY <1>4, <1>5 DEF SavesAhead, T!Init
  <1>7. T!LikesSettle
    <2>1. {u \in Likers : <<u, "post">> \in tLikes} = {}
      BY DEF T!Init
    <2> QED BY <2>1, <1>5 DEF T!LikesSettle, T!LikeCount, T!Init, T!Targets
  <1>8. \A r \in Requests : ToggleKnows(r)
    BY <1>1 DEF ToggleKnows
  <1>9. tAlone = {}
    BY DEF T!Init
  <1> QED BY <1>3, <1>6, <1>7, <1>8, <1>9 DEF ToggleInv

LEMMA ToggleStep == ToggleInv /\ [T!Next]_ofToggles => ToggleInv'
  <1> SUFFICES ASSUME ToggleInv, [T!Next]_ofToggles PROVE ToggleInv'
    OBVIOUS
  <1>1. ASSUME NEW r \in Requests, NEW u \in Likers, NEW i \in T!Targets, T!LikeFind(r, u, i) PROVE ToggleInv'
    <2>1. T!Begin(r, "delete", u, i, 0)
      BY <1>1 DEF T!LikeFind
    <2> QED BY <2>1, ToggleBegun
  <1>2. ASSUME NEW r \in Requests, NEW u \in Likers, NEW i \in T!Targets, T!BookFind(r, u, i) PROVE ToggleInv'
    <2>1. tCalls \in 0 .. MaxCalls /\ tBooks[<<u, i>>] \in 0 .. MaxCalls /\ MaxCalls \in Nat
      BY ToggleFacts, ToggleTyped DEF ToggleInv
    <2>2. CASE tBooks[<<u, i>>] # T!NoBook
      <3>1. PICK n \in 1 .. MaxCalls : n = tBooks[<<u, i>>]
        BY <2>1, <2>2 DEF T!NoBook
      <3>2. n \in Nat /\ T!Begin(r, "unsave", u, i, n)
        BY <1>2, <2>1, <2>2, <3>1 DEF T!BookFind
      <3> QED BY <3>2, ToggleBegun
    <2>3. CASE tBooks[<<u, i>>] = T!NoBook
      <3>1. tCalls < MaxCalls /\ T!Begin(r, "save", u, i, tCalls + 1)
        BY <1>2, <2>3 DEF T!BookFind, T!Begin
      <3>2. tCalls + 1 \in 1 .. MaxCalls /\ tCalls + 1 \in Nat
        BY <2>1, <3>1
      <3> QED BY <3>1, <3>2, ToggleBegun
    <2> QED BY <2>2, <2>3
  <1>3. CASE UNCHANGED ofToggles
    <2>1. /\ tLive' = tLive /\ tLikes' = tLikes /\ tShown' = tShown /\ tBooks' = tBooks /\ tSaves' = tSaves
          /\ tReq' = tReq /\ tCalls' = tCalls /\ tAlone' = tAlone /\ tSettled' = tSettled
          /\ tBroken' = tBroken
      BY <1>3 DEF ofToggles
    <2> QED BY <2>1, ToggleSame
  <1>4. CASE T!Retire
    BY <1>4, ToggleSame DEF T!Retire
  <1>5. CASE T!Next
    BY <1>1, <1>2, <1>4, <1>5, Liked, LikeStored, ToggleBroken, BookDeleted, BookPut, SavesMoved DEF T!Next
  <1> QED BY <1>3, <1>5

LEMMA ToggleTrue == ToggleInv => T!TypeOK /\ T!LikesSettle /\ T!SavesNotUnder
  <1> SUFFICES ASSUME ToggleInv PROVE T!TypeOK /\ T!LikesSettle /\ T!SavesNotUnder
    OBVIOUS
  <1>1. {r \in Requests : T!At(r, "inc")} = Adding
    BY DEF Adding
  <1>2. tSaves \in Nat
    BY ToggleTyped DEF ToggleInv
  <1>3. ~tBroken => tSaves + T!Cardinality(Adding) >= T!Cardinality(T!Saved("reel"))
    BY <1>2, TogglesFinite DEF ToggleInv, SavesAhead
  <1>4. T!SavesNotUnder
    BY <1>1, <1>3 DEF T!SavesNotUnder
  <1> QED BY <1>4 DEF ToggleInv

-----------------------------------------------------------------------------
(* Engagement.                                                                  *)

LEMMA ViewSizes == \A S : E!Cardinality(S) = Cardinality(S) /\ (E!IsFiniteSet(S) <=> IsFiniteSet(S))
  BY DEF Cardinality, IsFiniteSet, E!Cardinality, E!IsFiniteSet

ReelDoc == [up : BOOLEAN, views : Nat, watched : Nat, over : Nat \ {0}, shares : Nat,
            comments : Nat]
PairDoc == [raw : Nat, age : E!Ages, affinity : Nat, there : BOOLEAN]
ViewCall == [pc : {"idle", "view", "signal", "comment", "count", "share", "affinity"},
             user : Viewers \cup {Author, None}, signal : E!Signals, n : Int]
DecayJob == [pc : {"rest", "read", "save"}, user : Viewers \cup {None}, n : Nat,
             done : SUBSET Viewers]

EngageStored ==
  /\ vReel \in ReelDoc
  /\ vThere \in Nat /\ vSum \in Nat /\ vSilent \in Nat
  /\ vPair \in [Viewers -> PairDoc]
  /\ vReq \in [Requests -> ViewCall]
  /\ vJob \in DecayJob
  /\ vCalls \in 0 .. MaxViews /\ vDecays \in 0 .. MaxDecays
  /\ vAlone \in [Viewers -> Requests \cup {"decay", None}]
  /\ vSettled \subseteq Viewers

\* What a handler knows, and the job.
ViewKnows(r) ==
  LET q == vReq[r] IN
  /\ q.pc # "idle" => q.user \in Viewers \cup {Author} /\ vReel.up
  /\ q.pc = "view" => q.n \in {-1, 0, 1}
  /\ q.pc = "affinity" => q.user \in Viewers /\ q.n \in Nat
DecayKnows == E!JobAt("save") => vJob.user \in Viewers

\* What writer w of the affinity of u has read of the pair is still so, if the pair is there.
ReadOf(u, w) ==
  /\ w \in Requests => vReq[w].n = vPair[u].raw /\ vPair[u].age = 0
  /\ w = "decay" => vJob.n = E!AffinityOf(vPair[u].raw, vPair[u].age)
\* A writer nothing has overlapped is the only one.
OneWriter(u) ==
  vAlone[u] \in E!Writing(u) => /\ E!Writing(u) = {vAlone[u]}
                                /\ vPair[u].there => ReadOf(u, vAlone[u])

Counting == {r \in Requests : E!At(r, "count")}

EngageInv ==
  /\ EngageStored
  /\ \A r \in Requests : ViewKnows(r)
  /\ DecayKnows
  /\ ~vReel.up => vReel = E!NoReel
  /\ \A u \in Viewers : ~vPair[u].there => vPair[u] = E!NoPair
  /\ \A u \in Viewers : OneWriter(u)
  /\ E!AffinitySettles
  /\ E!CountersExact

LEMMA ViewFacts ==
  /\ MaxViews \in Nat /\ MaxDecays \in Nat /\ E!IsFiniteSet(Requests)
  /\ "decay" \notin Requests /\ None \notin Requests /\ None # "decay"
  BY ViewBounds DEF E!EngagementAssumption

LEMMA WeightsKept == E!Signals = {"views", "likes", "comments", "shares"} /\ \A s \in E!Signals : E!Weights[s] \in Nat
  <1>1. E!Signals = {"views", "likes", "comments", "shares"}
    BY DEF E!Signals, E!Weights
  <1>2. E!Weights["views"] \in Nat /\ E!Weights["likes"] \in Nat /\ E!Weights["comments"] \in Nat
        /\ E!Weights["shares"] \in Nat
    BY DEF E!Weights
  <1> QED BY <1>1, <1>2

LEMMA AffinityKept ==
  /\ \A raw \in Nat, age \in E!Ages : E!AffinityOf(raw, age) \in Nat
  /\ E!AffinityOf(0, 0) = 0
  BY DEF E!AffinityOf, E!Ages

LEMMA ViewTyped ==
  ASSUME EngageStored, NEW r \in Requests
  PROVE  /\ vReq[r] \in ViewCall
         /\ vReq[r].user \in Viewers \cup {Author, None} /\ vReq[r].signal \in E!Signals /\ vReq[r].n \in Int
         /\ vReq[r].pc \in {"idle", "view", "signal", "comment", "count", "share", "affinity"}
  <1>1. vReq[r] \in ViewCall
    BY DEF EngageStored
  <1> QED BY <1>1 DEF ViewCall

LEMMA PairTyped ==
  ASSUME EngageStored, NEW u \in Viewers
  PROVE  /\ vPair[u] \in PairDoc
         /\ vPair[u].raw \in Nat /\ vPair[u].age \in E!Ages /\ vPair[u].affinity \in Nat
         /\ vPair[u].there \in BOOLEAN
  <1>1. vPair[u] \in PairDoc
    BY DEF EngageStored
  <1> QED BY <1>1 DEF PairDoc

LEMMA ReelTyped ==
  ASSUME EngageStored
  PROVE  /\ vReel \in ReelDoc /\ vReel.up \in BOOLEAN
         /\ vReel.views \in Nat /\ vReel.watched \in Nat /\ vReel.over \in Nat \ {0}
         /\ vReel.shares \in Nat /\ vReel.comments \in Nat
  <1>1. vReel \in ReelDoc
    BY DEF EngageStored
  <1> QED BY <1>1 DEF ReelDoc

LEMMA DecayTyped ==
  ASSUME EngageStored
  PROVE  /\ vJob \in DecayJob /\ vJob.pc \in {"rest", "read", "save"}
         /\ vJob.user \in Viewers \cup {None} /\ vJob.n \in Nat /\ vJob.done \subseteq Viewers
  <1>1. vJob \in DecayJob
    BY DEF EngageStored
  <1> QED BY <1>1 DEF DecayJob

\* Where a handler goes.
OtherViews(r) == \A k \in Requests \ {r} : vReq'[k] = vReq[k]

LEMMA ViewMoves ==
  ASSUME EngageStored, NEW r \in Requests, NEW q \in ViewCall, vReq' = [vReq EXCEPT ![r] = q]
  PROVE  vReq' \in [Requests -> ViewCall] /\ OtherViews(r) /\ vReq'[r] = q
  BY DEF OtherViews, EngageStored

LEMMA ViewGoes ==
  ASSUME EngageStored, NEW r \in Requests, NEW n \in Int,
         NEW pc \in {"idle", "view", "signal", "comment", "count", "share", "affinity"},
         E!Goto(r, pc, n)
  PROVE  /\ vReq' \in [Requests -> ViewCall] /\ OtherViews(r)
         /\ vReq'[r].pc = pc /\ vReq'[r].n = n /\ vReq'[r].user = vReq[r].user
  <1>1. PICK q : q = [vReq[r] EXCEPT !.pc = pc, !.n = n]
    OBVIOUS
  <1>2. q \in ViewCall /\ q.pc = pc /\ q.n = n /\ q.user = vReq[r].user
    BY <1>1, ViewTyped DEF ViewCall
  <1>3. vReq' = [vReq EXCEPT ![r] = q]
    BY <1>1 DEF E!Goto, EngageStored
  <1> QED BY <1>2, <1>3, ViewMoves

LEMMA ViewRests ==
  ASSUME EngageStored, NEW r \in Requests, vReq' = [vReq EXCEPT ![r] = E!Idle]
  PROVE  vReq' \in [Requests -> ViewCall] /\ OtherViews(r) /\ vReq'[r].pc = "idle"
  <1>1. E!Idle \in ViewCall /\ E!Idle.pc = "idle"
    BY WeightsKept DEF E!Idle, ViewCall
  <1> QED BY <1>1, ViewMoves

\* What the other handlers know is their own.
LEMMA OtherViewsKnow ==
  ASSUME EngageInv, NEW r \in Requests, OtherViews(r), vReel'.up = vReel.up
  PROVE  \A k \in Requests \ {r} : ViewKnows(k)'
  BY Zenon DEF EngageInv, OtherViews, ViewKnows

\* The writers of an affinity, and what they have read, stay.
SameWriters(u) ==
  /\ E!Writing(u)' = E!Writing(u)
  /\ \A w \in E!Writing(u) : /\ w \in Requests => vReq'[w].n = vReq[w].n
                             /\ w = "decay" => vJob'.n = vJob.n
WritersStay == \A u \in Viewers : SameWriters(u)

LEMMA NotWriting ==
  ASSUME EngageStored, NEW r \in Requests, OtherViews(r), vReq[r].pc # "affinity",
         vReq'[r].pc # "affinity", vJob' = vJob
  PROVE  WritersStay
  <1> SUFFICES ASSUME NEW u \in Viewers
               PROVE  /\ E!Writing(u)' = E!Writing(u)
                      /\ \A w \in E!Writing(u) : /\ w \in Requests => vReq'[w].n = vReq[w].n
                                                 /\ w = "decay" => vJob'.n = vJob.n
    BY DEF WritersStay, SameWriters
  <1>1. {k \in Requests : vReq'[k].user = u /\ E!At(k, "affinity")'}
          = {k \in Requests : vReq[k].user = u /\ E!At(k, "affinity")}
    BY DEF OtherViews, E!At
  <1>2. E!Writing(u)' = E!Writing(u)
    BY <1>1 DEF E!Writing, E!JobAt
  <1>3. \A w \in E!Writing(u) : w \in Requests => w # r
    BY ViewFacts DEF E!Writing, E!At, E!JobAt
  <1> QED BY <1>2, <1>3 DEF OtherViews

LEMMA PairsAside ==
  ASSUME EngageInv, vPair' = vPair, vAlone' = vAlone, vSettled' = vSettled, WritersStay
  PROVE  /\ \A u \in Viewers : ~vPair'[u].there => vPair'[u] = E!NoPair
         /\ \A u \in Viewers : OneWriter(u)'
         /\ E!AffinitySettles'
  <1>1. \A u \in Viewers : ~vPair'[u].there => vPair'[u] = E!NoPair
    BY DEF EngageInv
  <1>2. ASSUME NEW u \in Viewers PROVE OneWriter(u)'
    <2>1. OneWriter(u)
      BY DEF EngageInv
    <2>2. E!Writing(u)' = E!Writing(u)
          /\ \A w \in E!Writing(u) : /\ w \in Requests => vReq'[w].n = vReq[w].n
                                     /\ w = "decay" => vJob'.n = vJob.n
      BY DEF WritersStay, SameWriters
    <2>3. vAlone[u] \in E!Writing(u) /\ ReadOf(u, vAlone[u]) => ReadOf(u, vAlone[u])'
      BY <2>2 DEF ReadOf
    <2> QED BY <2>1, <2>2, <2>3 DEF OneWriter
  <1>3. E!AffinitySettles'
    <2>1. \A u \in vSettled : u \in Viewers
      BY DEF EngageInv, EngageStored
    <2> QED BY <2>1 DEF E!AffinitySettles, WritersStay, SameWriters, EngageInv
  <1> QED BY <1>1, <1>2, <1>3

\* The counters of the reel, and who counts a comment.
LEMMA CountersAside ==
  ASSUME EngageInv, NEW r \in Requests, OtherViews(r), vReq[r].pc # "count",
         vReq'[r].pc # "count", vReel' = vReel, vThere' = vThere, vSum' = vSum,
         vSilent' = vSilent, vBroken' = vBroken
  PROVE  E!CountersExact'
  <1>1. {k \in Requests : E!At(k, "count")}' = {k \in Requests : E!At(k, "count")}
    BY DEF OtherViews, E!At
  <1> QED BY <1>1 DEF E!CountersExact, EngageInv

\* A handler that counts nothing on the reel and writes no affinity moves on.
LEMMA HandlerMoves ==
  ASSUME EngageInv, NEW r \in Requests, OtherViews(r), vReq' \in [Requests -> ViewCall],
         ViewKnows(r)', vReq[r].pc # "affinity", vReq'[r].pc # "affinity",
         vReel' \in ReelDoc, vReel'.up = vReel.up, vReel.up, vThere' \in Nat, vSum' \in Nat,
         vSilent' \in Nat, E!CountersExact',
         UNCHANGED <<vPair, vJob, vDecays, vAlone, vSettled>>, vCalls' \in 0 .. MaxViews
  PROVE  EngageInv'
  <1>1. EngageStored'
    BY DEF EngageInv, EngageStored
  <1>2. \A k \in Requests : ViewKnows(k)'
    BY OtherViewsKnow
  <1>3. DecayKnows'
    BY DEF EngageInv, DecayKnows, E!JobAt
  <1>4. WritersStay
    BY NotWriting DEF EngageInv
  <1>5. vPair' = vPair /\ vAlone' = vAlone /\ vSettled' = vSettled
    OBVIOUS
  <1>6. /\ \A u \in Viewers : ~vPair'[u].there => vPair'[u] = E!NoPair
        /\ \A u \in Viewers : OneWriter(u)'
        /\ E!AffinitySettles'
    BY <1>4, <1>5, PairsAside
  <1> QED BY <1>1, <1>2, <1>3, <1>6 DEF EngageInv

LEMMA BeginHolds ==
  ASSUME EngageInv, NEW r \in Requests, NEW u \in Viewers \cup {Author}, NEW signal \in E!Signals,
         NEW n \in Int, NEW pc \in {"view", "signal", "comment", "share"},
         pc = "view" => n \in {-1, 0, 1}, E!Begin(r, pc, u, signal, n)
  PROVE  EngageInv'
  <1>1. PICK q : q = [pc |-> pc, user |-> u, signal |-> signal, n |-> n]
    OBVIOUS
  <1>2. q \in ViewCall /\ q.pc = pc /\ q.user = u /\ q.n = n
    BY <1>1 DEF ViewCall
  <1>3. vReq' = [vReq EXCEPT ![r] = q]
    BY <1>1 DEF E!Begin
  <1>4. vReq' \in [Requests -> ViewCall] /\ OtherViews(r) /\ vReq'[r] = q
    BY <1>2, <1>3, ViewMoves DEF EngageInv
  <1>5. vReq[r].pc = "idle" /\ vReel.up /\ vReel' = vReel /\ vThere' = vThere /\ vSum' = vSum
        /\ vSilent' = vSilent /\ vBroken' = vBroken
    BY DEF E!Begin, E!At
  <1>6. ViewKnows(r)'
    BY <1>2, <1>4, <1>5 DEF ViewKnows
  <1>7. E!CountersExact'
    BY <1>2, <1>4, <1>5, CountersAside
  <1>8. vReel' \in ReelDoc /\ vThere' \in Nat /\ vSum' \in Nat /\ vSilent' \in Nat
        /\ vCalls' \in 0 .. MaxViews
    BY <1>5, ViewFacts DEF EngageInv, EngageStored, E!Begin
  <1>9. UNCHANGED <<vPair, vJob, vDecays, vAlone, vSettled>>
    BY DEF E!Begin
  <1> QED BY <1>2, <1>4, <1>5, <1>6, <1>7, <1>8, <1>9, HandlerMoves

\* The average over one view more.
LEMMA OneViewMore ==
  ASSUME NEW w \in Nat, NEW v \in Nat, NEW s \in Nat, NEW o \in Nat, w * v = s * o, NEW f \in {0, 1}
  PROVE  (w * v + f * o) * (v + 1) = (s + f) * (o * (v + 1))
  <1>1. CASE f = 0
    <2>1. w * v + f * o = s * o /\ s + f = s
      BY <1>1
    <2>2. (s * o) * (v + 1) = s * (o * (v + 1))
      OBVIOUS
    <2> QED BY <2>1, <2>2
  <1>2. CASE f = 1
    <2>1. w * v + f * o = (s + 1) * o
      BY <1>2
    <2>2. ((s + 1) * o) * (v + 1) = (s + 1) * (o * (v + 1))
      OBVIOUS
    <2> QED BY <1>2, <2>1, <2>2
  <1> QED BY <1>1, <1>2

LEMMA CountViewHolds ==
  ASSUME EngageInv, NEW r \in Requests, E!CountView(r)
  PROVE  EngageInv'
  <1> DEFINE f == vReq[r].n
             views == vReel.views
  <1>0. EngageStored /\ ViewKnows(r)
    BY DEF EngageInv
  <1>1. vReq[r].pc = "view" /\ f \in {-1, 0, 1} /\ vReel.up /\ vReq[r].user \in Viewers \cup {Author}
    BY <1>0 DEF E!CountView, E!At, ViewKnows
  <1>2. /\ vReq' \in [Requests -> ViewCall] /\ OtherViews(r)
        /\ vReq'[r].pc = "signal" /\ vReq'[r].user = vReq[r].user
    BY <1>0, ViewGoes DEF E!CountView
  <1>3. PICK w \in Nat, o \in Nat \ {0} :
          /\ vReel' = [vReel EXCEPT !.views = views + 1, !.watched = w, !.over = o]
          /\ f # -1 => w = vReel.watched * views + f * vReel.over /\ o = vReel.over * (views + 1)
    <2>1. CASE f = -1
      <3>1. vReel' = [vReel EXCEPT !.views = views + 1]
        BY <2>1 DEF E!CountView
      <3>2. PICK w : w = vReel.watched
        OBVIOUS
      <3>3. PICK o : o = vReel.over
        OBVIOUS
      <3>4. w \in Nat /\ o \in Nat \ {0}
        BY <1>0, <3>2, <3>3, ReelTyped
      <3>5. vReel' = [vReel EXCEPT !.views = views + 1, !.watched = w, !.over = o]
        BY <1>0, <3>1, <3>2, <3>3, ReelTyped DEF ReelDoc
      <3> QED BY <2>1, <3>4, <3>5
    <2>2. CASE f # -1
      <3>1. PICK w : w = vReel.watched * views + f * vReel.over
        OBVIOUS
      <3>2. PICK o : o = vReel.over * (views + 1)
        OBVIOUS
      <3>3. vReel.watched \in Nat /\ views \in Nat /\ vReel.over \in Nat \ {0}
        BY <1>0, ReelTyped
      <3>4. f \in {0, 1}
        BY <1>1, <2>2
      <3>5. w \in Nat
        <4> HIDE DEF f, views
        <4> QED BY <3>1, <3>3, <3>4
      <3>6. o \in Nat \ {0}
        <4> HIDE DEF views
        <4> QED BY <3>2, <3>3
      <3>7. vReel' = [vReel EXCEPT !.views = views + 1, !.watched = w, !.over = o]
        BY <2>2, <3>1, <3>2 DEF E!CountView
      <3> QED BY <3>1, <3>2, <3>5, <3>6, <3>7
    <2> QED BY <2>1, <2>2
  <1>4. /\ vReel' \in ReelDoc /\ vReel'.up = vReel.up /\ vReel'.views = views + 1
        /\ vReel'.watched = w /\ vReel'.over = o /\ vReel'.comments = vReel.comments
    <2>1. vReel \in ReelDoc /\ views \in Nat
      BY <1>0, ReelTyped
    <2>2. PICK n : n = views + 1
      OBVIOUS
    <2>3. n \in Nat
      <3> HIDE DEF views
      <3> QED BY <2>1, <2>2
    <2>4. vReel' = [vReel EXCEPT !.views = n, !.watched = w, !.over = o]
      BY <1>3, <2>2
    <2>5. PICK d : d = [vReel EXCEPT !.views = n, !.watched = w, !.over = o]
      OBVIOUS
    <2>6. /\ d \in ReelDoc /\ d.up = vReel.up /\ d.views = n
          /\ d.watched = w /\ d.over = o /\ d.comments = vReel.comments
      <3> HIDE DEF views
      <3> QED BY <1>3, <2>1, <2>3, <2>5 DEF ReelDoc
    <2> QED BY <2>2, <2>4, <2>5, <2>6
  <1>5. vThere' = vThere /\ vBroken' = vBroken /\ vCalls' = vCalls
        /\ UNCHANGED <<vPair, vJob, vDecays, vAlone, vSettled>>
    BY DEF E!CountView, E!Rest
  <1>6. vSum' = IF f = -1 THEN vSum ELSE vSum + f
    BY DEF E!CountView
  <1>7. vSilent' = IF f = -1 THEN vSilent + 1 ELSE vSilent
    BY DEF E!CountView
  <1>8. vSum \in Nat /\ vSilent \in Nat /\ vThere \in Nat /\ vCalls \in 0 .. MaxViews
    BY <1>0 DEF EngageStored
  <1>9. vSum' \in Nat /\ vSilent' \in Nat
    <2> HIDE DEF f
    <2> QED BY <1>1, <1>6, <1>7, <1>8
  <1>10. ViewKnows(r)'
    BY <1>1, <1>2, <1>4 DEF ViewKnows
  <1>11. E!CountersExact'
    <2>1. {k \in Requests : E!At(k, "count")}' = {k \in Requests : E!At(k, "count")}
      BY <1>1, <1>2 DEF OtherViews, E!At
    <2>2. ~vBroken' => vReel'.comments + E!Cardinality({k \in Requests : E!At(k, "count")})' = vThere'
      BY <1>4, <1>5, <2>1 DEF EngageInv, E!CountersExact
    <2>3. ASSUME vSilent' = 0 PROVE vReel'.watched * vReel'.views = vSum' * vReel'.over
      <3>1. f \in {0, 1}
        <4> HIDE DEF f
        <4> QED BY <1>1, <1>7, <1>8, <2>3
      <3>2. vSilent = 0 /\ vSum' = vSum + f
        BY <1>6, <1>7, <2>3, <3>1
      <3>3. vReel.watched * views = vSum * vReel.over
        BY <3>2 DEF EngageInv, E!CountersExact
      <3>4. vReel.watched \in Nat /\ views \in Nat /\ vReel.over \in Nat
        BY <1>0, ReelTyped
      <3>5. (vReel.watched * views + f * vReel.over) * (views + 1)
              = (vSum + f) * (vReel.over * (views + 1))
        <4> HIDE DEF f, views
        <4> QED BY <1>8, <3>1, <3>3, <3>4, OneViewMore
      <3>6. w = vReel.watched * views + f * vReel.over /\ o = vReel.over * (views + 1)
        BY <1>3, <3>1
      <3> HIDE DEF f, views
      <3> QED BY <1>4, <3>2, <3>5, <3>6
    <2> QED BY <2>2, <2>3 DEF E!CountersExact
  <1> QED BY <1>1, <1>2, <1>4, <1>5, <1>8, <1>9, <1>10, <1>11, HandlerMoves

LEMMA CountersCounted ==
  /\ E!IsFiniteSet(Counting) /\ E!Cardinality(Counting) \in Nat
  /\ \A r \in Requests : r \notin Counting => E!Cardinality(Counting \cup {r}) = E!Cardinality(Counting) + 1
  /\ \A r \in Counting : E!Cardinality(Counting \ {r}) = E!Cardinality(Counting) - 1
  <1>1. E!IsFiniteSet(Counting)
    <2>1. Counting \subseteq Requests
      BY DEF Counting
    <2> QED BY <2>1, ViewFacts, ViewSizes, FS_Subset
  <1>2. E!Cardinality(Counting) \in Nat
    BY <1>1, ViewSizes, FS_CardinalityType
  <1>3. \A r \in Requests : r \notin Counting => E!Cardinality(Counting \cup {r}) = E!Cardinality(Counting) + 1
    BY <1>1, ViewSizes, FS_AddElement
  <1>4. \A r \in Counting : E!Cardinality(Counting \ {r}) = E!Cardinality(Counting) - 1
    BY <1>1, ViewSizes, FS_RemoveElement
  <1> QED BY <1>1, <1>2, <1>3, <1>4

LEMMA CreateHolds ==
  ASSUME EngageInv, E!CreateReel
  PROVE  EngageInv'
  <1>0. EngageStored
    BY DEF EngageInv
  <1>1. ~vReel.up /\ vReel = E!NoReel /\ vReel' = [E!NoReel EXCEPT !.up = TRUE]
    BY DEF E!CreateReel, EngageInv
  <1>2. /\ vReel' \in ReelDoc /\ vReel'.up /\ vReel'.views = 0 /\ vReel'.watched = 0
        /\ vReel'.over = 1 /\ vReel'.comments = 0
    <2>1. PICK d : d = E!NoReel
      OBVIOUS
    <2>2. /\ d \in ReelDoc /\ d.views = 0 /\ d.watched = 0 /\ d.over = 1 /\ d.comments = 0
      BY <2>1 DEF E!NoReel, ReelDoc
    <2>3. PICK e : e = [d EXCEPT !.up = TRUE]
      OBVIOUS
    <2>4. /\ e \in ReelDoc /\ e.up = TRUE /\ e.views = 0 /\ e.watched = 0 /\ e.over = 1
          /\ e.comments = 0
      BY <2>2, <2>3 DEF ReelDoc
    <2>5. vReel' = e
      BY <1>1, <2>1, <2>3
    <2> QED BY <2>4, <2>5
  <1>3. vReel.views = 0 /\ vReel.watched = 0 /\ vReel.over = 1 /\ vReel.comments = 0
    BY <1>1 DEF E!NoReel
  <1>4. vReq' = vReq /\ vThere' = vThere /\ vSum' = vSum /\ vSilent' = vSilent /\ vPair' = vPair
        /\ vJob' = vJob
    BY DEF E!CreateReel, E!Rest
  <1>5. vCalls' = vCalls /\ vDecays' = vDecays /\ vAlone' = vAlone /\ vSettled' = vSettled
        /\ vBroken' = vBroken
    BY DEF E!CreateReel, E!Rest
  <1>6. EngageStored'
    BY <1>0, <1>2, <1>4, <1>5 DEF EngageStored
  <1>7. \A r \in Requests : ViewKnows(r)'
    BY <1>2, <1>4 DEF EngageInv, ViewKnows
  <1>8. DecayKnows'
    BY <1>4 DEF EngageInv, DecayKnows, E!JobAt
  <1>9. WritersStay
    BY <1>4 DEF WritersStay, SameWriters, E!Writing, E!At, E!JobAt
  <1>10. /\ \A u \in Viewers : ~vPair'[u].there => vPair'[u] = E!NoPair
         /\ \A u \in Viewers : OneWriter(u)'
         /\ E!AffinitySettles'
    BY <1>4, <1>5, <1>9, PairsAside
  <1>11. E!CountersExact'
    <2>1. {k \in Requests : E!At(k, "count")}' = {k \in Requests : E!At(k, "count")}
      BY <1>4 DEF E!At
    <2>2. vSilent' = 0 => vReel'.watched * vReel'.views = vSum' * vReel'.over
      BY <1>2, <1>3, <1>4 DEF EngageInv, E!CountersExact
    <2> QED BY <1>2, <1>3, <1>4, <1>5, <2>1, <2>2 DEF EngageInv, E!CountersExact
  <1> QED BY <1>2, <1>6, <1>7, <1>8, <1>10, <1>11 DEF EngageInv

LEMMA InsertCommentHolds ==
  ASSUME EngageInv, NEW r \in Requests, E!InsertComment(r)
  PROVE  EngageInv'
  <1>0. EngageStored /\ ViewKnows(r)
    BY DEF EngageInv
  <1>1. vReq[r].pc = "comment" /\ vReel.up /\ vReq[r].user \in Viewers \cup {Author}
    BY <1>0 DEF E!InsertComment, E!At, ViewKnows
  <1>2. /\ vReq' \in [Requests -> ViewCall] /\ OtherViews(r)
        /\ vReq'[r].pc = "count" /\ vReq'[r].user = vReq[r].user
    BY <1>0, ViewGoes DEF E!InsertComment
  <1>3. vReel' = vReel /\ vThere' = vThere + 1 /\ vSum' = vSum /\ vSilent' = vSilent
        /\ vBroken' = vBroken /\ vCalls' = vCalls
    BY DEF E!InsertComment, E!Rest
  <1>4. UNCHANGED <<vPair, vJob, vDecays, vAlone, vSettled>>
    BY DEF E!InsertComment, E!Rest
  <1>5. vReel' \in ReelDoc /\ vThere' \in Nat /\ vSum' \in Nat /\ vSilent' \in Nat
        /\ vCalls' \in 0 .. MaxViews
    BY <1>0, <1>3 DEF EngageStored
  <1>6. ViewKnows(r)'
    BY <1>1, <1>2, <1>3 DEF ViewKnows
  <1>7. E!CountersExact'
    <2>1. r \notin Counting /\ Counting' = Counting \cup {r}
      BY <1>1, <1>2 DEF OtherViews, Counting, E!At
    <2>2. E!Cardinality(Counting') = E!Cardinality(Counting) + 1
      BY <2>1, CountersCounted
    <2>3. ~vBroken => vReel.comments + E!Cardinality(Counting) = vThere
      BY DEF Counting, EngageInv, E!CountersExact
    <2>4. vReel.comments \in Nat /\ vThere \in Nat /\ E!Cardinality(Counting) \in Nat
      BY <1>0, ReelTyped, CountersCounted DEF EngageStored
    <2>5. ~vBroken' => vReel'.comments + E!Cardinality(Counting') = vThere'
      BY <1>3, <2>2, <2>3, <2>4
    <2>6. vSilent' = 0 => vReel'.watched * vReel'.views = vSum' * vReel'.over
      BY <1>3 DEF EngageInv, E!CountersExact
    <2> QED BY <2>5, <2>6 DEF Counting, E!CountersExact
  <1> QED BY <1>1, <1>2, <1>3, <1>4, <1>5, <1>6, <1>7, HandlerMoves

LEMMA CountCommentHolds ==
  ASSUME EngageInv, NEW r \in Requests, E!CountComment(r)
  PROVE  EngageInv'
  <1>0. EngageStored /\ ViewKnows(r)
    BY DEF EngageInv
  <1>1. vReq[r].pc = "count" /\ vReel.up /\ vReq[r].user \in Viewers \cup {Author}
    BY <1>0 DEF E!CountComment, E!At, ViewKnows
  <1>2. /\ vReq' \in [Requests -> ViewCall] /\ OtherViews(r)
        /\ vReq'[r].pc = "signal" /\ vReq'[r].user = vReq[r].user
    BY <1>0, ViewGoes DEF E!CountComment
  <1>3. vReel' = [vReel EXCEPT !.comments = @ + 1] /\ vThere' = vThere /\ vSum' = vSum
        /\ vSilent' = vSilent /\ vBroken' = vBroken /\ vCalls' = vCalls
    BY DEF E!CountComment, E!Rest
  <1>4. UNCHANGED <<vPair, vJob, vDecays, vAlone, vSettled>>
    BY DEF E!CountComment, E!Rest
  <1>5. /\ vReel' \in ReelDoc /\ vReel'.up = vReel.up /\ vReel'.views = vReel.views
        /\ vReel'.watched = vReel.watched /\ vReel'.over = vReel.over
        /\ vReel'.comments = vReel.comments + 1
    BY <1>0, <1>3, ReelTyped DEF ReelDoc
  <1>6. vThere' \in Nat /\ vSum' \in Nat /\ vSilent' \in Nat /\ vCalls' \in 0 .. MaxViews
    BY <1>0, <1>3 DEF EngageStored
  <1>7. ViewKnows(r)'
    BY <1>1, <1>2, <1>5 DEF ViewKnows
  <1>8. E!CountersExact'
    <2>1. r \in Counting /\ Counting' = Counting \ {r}
      BY <1>1, <1>2 DEF OtherViews, Counting, E!At
    <2>2. E!Cardinality(Counting') = E!Cardinality(Counting) - 1
      BY <2>1, CountersCounted
    <2>3. ~vBroken => vReel.comments + E!Cardinality(Counting) = vThere
      BY DEF Counting, EngageInv, E!CountersExact
    <2>4. vReel.comments \in Nat /\ vThere \in Nat /\ E!Cardinality(Counting) \in Nat
      BY <1>0, ReelTyped, CountersCounted DEF EngageStored
    <2>5. ~vBroken' => vReel'.comments + E!Cardinality(Counting') = vThere'
      BY <1>3, <1>5, <2>2, <2>3, <2>4
    <2>6. vSilent' = 0 => vReel'.watched * vReel'.views = vSum' * vReel'.over
      BY <1>3, <1>5 DEF EngageInv, E!CountersExact
    <2> QED BY <2>5, <2>6 DEF Counting, E!CountersExact
  <1> QED BY <1>1, <1>2, <1>4, <1>5, <1>6, <1>7, <1>8, HandlerMoves

LEMMA CountShareHolds ==
  ASSUME EngageInv, NEW r \in Requests, E!CountShare(r)
  PROVE  EngageInv'
  <1>0. EngageStored /\ ViewKnows(r)
    BY DEF EngageInv
  <1>1. vReq[r].pc = "share" /\ vReel.up /\ vReq[r].user \in Viewers \cup {Author}
    BY <1>0 DEF E!CountShare, E!At, ViewKnows
  <1>2. /\ vReq' \in [Requests -> ViewCall] /\ OtherViews(r)
        /\ vReq'[r].pc = "signal" /\ vReq'[r].user = vReq[r].user
    BY <1>0, ViewGoes DEF E!CountShare
  <1>3. vReel' = [vReel EXCEPT !.shares = @ + 1] /\ vThere' = vThere /\ vSum' = vSum
        /\ vSilent' = vSilent /\ vBroken' = vBroken /\ vCalls' = vCalls
    BY DEF E!CountShare, E!Rest
  <1>4. UNCHANGED <<vPair, vJob, vDecays, vAlone, vSettled>>
    BY DEF E!CountShare, E!Rest
  <1>5. /\ vReel' \in ReelDoc /\ vReel'.up = vReel.up /\ vReel'.views = vReel.views
        /\ vReel'.watched = vReel.watched /\ vReel'.over = vReel.over
        /\ vReel'.comments = vReel.comments
    BY <1>0, <1>3, ReelTyped DEF ReelDoc
  <1>6. vThere' \in Nat /\ vSum' \in Nat /\ vSilent' \in Nat /\ vCalls' \in 0 .. MaxViews
    BY <1>0, <1>3 DEF EngageStored
  <1>7. ViewKnows(r)'
    BY <1>1, <1>2, <1>5 DEF ViewKnows
  <1>8. E!CountersExact'
    <2>1. {k \in Requests : E!At(k, "count")}' = {k \in Requests : E!At(k, "count")}
      BY <1>1, <1>2 DEF OtherViews, E!At
    <2>2. vSilent' = 0 => vReel'.watched * vReel'.views = vSum' * vReel'.over
      BY <1>3, <1>5 DEF EngageInv, E!CountersExact
    <2>3. ~vBroken' => vReel'.comments + E!Cardinality({k \in Requests : E!At(k, "count")})' = vThere'
      BY <1>3, <1>5, <2>1 DEF EngageInv, E!CountersExact
    <2> QED BY <2>2, <2>3 DEF E!CountersExact
  <1> QED BY <1>1, <1>2, <1>4, <1>5, <1>6, <1>7, <1>8, HandlerMoves

\* A writer of the affinity of u, and of no other, begins and ends.
LEMMA OtherPair ==
  ASSUME EngageInv, NEW v \in Viewers, SameWriters(v), vPair'[v] = vPair[v], vAlone'[v] = vAlone[v]
  PROVE  /\ OneWriter(v)'
         /\ v \in vSettled /\ E!Writing(v)' = {}
              => vPair'[v].affinity = E!AffinityOf(vPair'[v].raw, vPair'[v].age)
  <1>1. OneWriter(v)
    BY DEF EngageInv
  <1>2. vAlone[v] \in E!Writing(v) /\ ReadOf(v, vAlone[v]) => ReadOf(v, vAlone[v])'
    BY DEF ReadOf, SameWriters
  <1>3. OneWriter(v)'
    BY <1>1, <1>2 DEF OneWriter, SameWriters
  <1>4. v \in vSettled /\ E!Writing(v) = {} => vPair[v].affinity = E!AffinityOf(vPair[v].raw, vPair[v].age)
    BY DEF EngageInv, E!AffinitySettles
  <1> QED BY <1>3, <1>4 DEF SameWriters

LEMMA WriterBegins ==
  ASSUME EngageInv, NEW u \in Viewers, NEW w \in Requests \cup {"decay"}, E!Starts(u, w),
         vSettled' = vSettled, E!Writing(u)' = E!Writing(u) \cup {w}, ReadOf(u, w)',
         \A v \in Viewers \ {u} : SameWriters(v) /\ vPair'[v] = vPair[v]
  PROVE  (\A v \in Viewers : OneWriter(v)') /\ E!AffinitySettles'
         /\ vAlone' \in [Viewers -> Requests \cup {"decay", None}]
  <1>1. vAlone \in [Viewers -> Requests \cup {"decay", None}]
    BY DEF EngageInv, EngageStored
  <1>2. /\ vAlone'[u] = IF E!Writing(u) = {} THEN w ELSE None
        /\ \A v \in Viewers \ {u} : vAlone'[v] = vAlone[v]
        /\ vAlone' \in [Viewers -> Requests \cup {"decay", None}]
    BY <1>1 DEF E!Starts
  <1>3. None \notin E!Writing(u)'
    <2>1. E!Writing(u) \subseteq Requests \cup {"decay"}
      BY DEF E!Writing
    <2> QED BY <2>1, ViewFacts
  <1>4. OneWriter(u)'
    <2>1. CASE E!Writing(u) = {}
      <3>1. vAlone'[u] = w /\ E!Writing(u)' = {w}
        BY <1>2, <2>1
      <3> QED BY <3>1 DEF OneWriter
    <2>2. CASE E!Writing(u) # {}
      BY <1>2, <1>3, <2>2 DEF OneWriter
    <2> QED BY <2>1, <2>2
  <1>5. ASSUME NEW v \in Viewers \ {u}
        PROVE  /\ OneWriter(v)'
               /\ v \in vSettled /\ E!Writing(v)' = {}
                    => vPair'[v].affinity = E!AffinityOf(vPair'[v].raw, vPair'[v].age)
    <2>1. SameWriters(v) /\ vPair'[v] = vPair[v] /\ vAlone'[v] = vAlone[v]
      BY <1>2
    <2> QED BY <2>1, OtherPair
  <1>6. E!AffinitySettles'
    <2>1. vSettled' \subseteq Viewers
      BY DEF EngageInv, EngageStored
    <2>2. E!Writing(u)' # {}
      OBVIOUS
    <2> QED BY <1>5, <2>1, <2>2 DEF E!AffinitySettles
  <1>7. \A v \in Viewers : OneWriter(v)'
    BY <1>4, <1>5
  <1> QED BY <1>2, <1>6, <1>7

LEMMA WriterEnds ==
  ASSUME EngageInv, NEW u \in Viewers, NEW w \in E!Writing(u), E!Ends(u, w), vAlone' = vAlone,
         E!Writing(u)' = E!Writing(u) \ {w},
         ~vPair[u].there => vPair'[u] = vPair[u],
         vPair[u].there /\ ReadOf(u, w)
           => vPair'[u].affinity = E!AffinityOf(vPair'[u].raw, vPair'[u].age),
         \A v \in Viewers \ {u} : SameWriters(v) /\ vPair'[v] = vPair[v]
  PROVE  (\A v \in Viewers : OneWriter(v)') /\ E!AffinitySettles' /\ vSettled' \subseteq Viewers
  <1>1. OneWriter(u)
    BY DEF EngageInv
  <1>2. OneWriter(u)'
    BY <1>1 DEF OneWriter
  <1>3. ASSUME NEW v \in Viewers \ {u}
        PROVE  /\ OneWriter(v)'
               /\ v \in vSettled /\ E!Writing(v)' = {}
                    => vPair'[v].affinity = E!AffinityOf(vPair'[v].raw, vPair'[v].age)
    BY OtherPair
  <1>4. vSettled' \subseteq Viewers /\ \A v \in vSettled' : v # u => v \in vSettled
    BY DEF E!Ends, EngageInv, EngageStored
  <1>5. ASSUME u \in vSettled'
        PROVE  vPair'[u].affinity = E!AffinityOf(vPair'[u].raw, vPair'[u].age)
    <2>1. vAlone[u] = w
      BY <1>5 DEF E!Ends
    <2>2. vPair[u].there => ReadOf(u, w)
      BY <1>1, <2>1 DEF OneWriter
    <2>3. ~vPair[u].there => vPair[u] = E!NoPair
      BY DEF EngageInv
    <2>4. E!NoPair.affinity = 0 /\ E!NoPair.raw = 0 /\ E!NoPair.age = 0
      BY DEF E!NoPair
    <2> QED BY <2>2, <2>3, <2>4, AffinityKept
  <1>6. E!AffinitySettles'
    BY <1>3, <1>4, <1>5 DEF E!AffinitySettles
  <1>7. \A v \in Viewers : OneWriter(v)'
    BY <1>2, <1>3
  <1> QED BY <1>4, <1>6, <1>7

\* A pair and the pairs there are after a step.
LEMMA PairChanges ==
  ASSUME EngageInv, NEW u \in Viewers, NEW p \in PairDoc, vPair' = [vPair EXCEPT ![u] = p],
         p.there
  PROVE  /\ vPair' \in [Viewers -> PairDoc] /\ vPair'[u] = p
         /\ \A v \in Viewers \ {u} : vPair'[v] = vPair[v]
         /\ \A v \in Viewers : ~vPair'[v].there => vPair'[v] = E!NoPair
  <1>1. vPair \in [Viewers -> PairDoc]
    BY DEF EngageInv, EngageStored
  <1>2. /\ vPair' \in [Viewers -> PairDoc] /\ vPair'[u] = p
        /\ \A v \in Viewers \ {u} : vPair'[v] = vPair[v]
    BY <1>1
  <1> QED BY <1>2 DEF EngageInv

\* No handler's step on the pair moves the counters.
LEMMA ReelAside ==
  ASSUME EngageInv, NEW r \in Requests, OtherViews(r), vReq[r].pc # "count",
         vReq'[r].pc # "count", vReel' = vReel, vThere' = vThere, vSum' = vSum,
         vSilent' = vSilent, vBroken' = vBroken
  PROVE  E!CountersExact' /\ (~vReel'.up => vReel' = E!NoReel)
         /\ \A k \in Requests \ {r} : ViewKnows(k)'
  <1>1. E!CountersExact'
    BY CountersAside
  <1>2. ~vReel'.up => vReel' = E!NoReel
    BY DEF EngageInv
  <1> QED BY <1>1, <1>2, OtherViewsKnow

LEMMA SignalHolds ==
  ASSUME EngageInv, NEW r \in Requests, E!AddSignal(r), vReq[r].user # Author
  PROVE  EngageInv'
  <1>0. EngageStored /\ ViewKnows(r)
    BY DEF EngageInv
  <1>1. PICK u \in Viewers : u = vReq[r].user
    BY <1>0 DEF E!AddSignal, E!At, ViewKnows
  <1>2. vReq[r].pc = "signal" /\ vReel.up
    BY <1>0 DEF E!AddSignal, E!At, ViewKnows
  <1>3. PICK raw : raw = vPair[u].raw + E!Weights[vReq[r].signal]
    OBVIOUS
  <1>4. raw \in Nat
    <2>1. vPair[u].raw \in Nat
      BY <1>0, <1>1, PairTyped
    <2>2. E!Weights[vReq[r].signal] \in Nat
      BY <1>0, ViewTyped, WeightsKept
    <2> QED BY <1>3, <2>1, <2>2
  <1>5. vPair' = [vPair EXCEPT ![u].raw = raw, ![u].age = 0, ![u].there = TRUE]
        /\ E!Goto(r, "affinity", raw) /\ E!Starts(u, r)
    BY <1>1, <1>3 DEF E!AddSignal
  <1>6. /\ vReq' \in [Requests -> ViewCall] /\ OtherViews(r)
        /\ vReq'[r].pc = "affinity" /\ vReq'[r].n = raw /\ vReq'[r].user = u
    BY <1>0, <1>1, <1>4, <1>5, ViewGoes
  <1>7. PICK p : /\ p \in PairDoc /\ p.there = TRUE /\ p.raw = raw /\ p.age = 0
                 /\ p = [vPair[u] EXCEPT !.raw = raw, !.age = 0, !.there = TRUE]
    <2>1. PICK d \in PairDoc : d = vPair[u]
      BY <1>0, <1>1, PairTyped
    <2>2. PICK d2 : d2 = [d EXCEPT !.raw = raw, !.age = 0]
      OBVIOUS
    <2>3. d2 \in PairDoc /\ d2.raw = raw /\ d2.age = 0
      <3>1. 0 \in E!Ages
        BY DEF E!Ages
      <3>2. PICK d1 : d1 = [d EXCEPT !.raw = raw]
        OBVIOUS
      <3>3. d1 \in PairDoc /\ d1.raw = raw
        BY <1>4, <2>1, <3>2 DEF PairDoc
      <3>4. d2 = [d1 EXCEPT !.age = 0]
        BY <2>2, <3>2
      <3> QED BY <3>1, <3>3, <3>4 DEF PairDoc
    <2>4. PICK p : p = [d2 EXCEPT !.there = TRUE]
      OBVIOUS
    <2>5. p \in PairDoc /\ p.there = TRUE /\ p.raw = raw /\ p.age = 0
      BY <2>3, <2>4 DEF PairDoc
    <2>6. p = [vPair[u] EXCEPT !.raw = raw, !.age = 0, !.there = TRUE]
      BY <2>1, <2>2, <2>4
    <2> QED BY <2>5, <2>6
  <1>8. vPair' = [vPair EXCEPT ![u] = p]
    <2>1. vPair \in [Viewers -> PairDoc]
      BY <1>0 DEF EngageStored
    <2> QED BY <1>1, <1>5, <1>7, <2>1
  <1>9. /\ vPair' \in [Viewers -> PairDoc] /\ vPair'[u] = p
        /\ \A v \in Viewers \ {u} : vPair'[v] = vPair[v]
        /\ \A v \in Viewers : ~vPair'[v].there => vPair'[v] = E!NoPair
    BY <1>1, <1>7, <1>8, PairChanges
  <1>10. vReel' = vReel /\ vThere' = vThere /\ vJob' = vJob /\ vCalls' = vCalls
         /\ vDecays' = vDecays /\ vSum' = vSum
    BY DEF E!AddSignal
  <1>11. vSilent' = vSilent /\ vSettled' = vSettled /\ vBroken' = vBroken
    BY DEF E!AddSignal
  <1>12. ASSUME NEW v \in Viewers
         PROVE  E!Writing(v)' = IF v = u THEN E!Writing(v) \cup {r} ELSE E!Writing(v)
    <2>1. {k \in Requests : vReq'[k].user = v /\ E!At(k, "affinity")'}
            = {k \in Requests : vReq[k].user = v /\ E!At(k, "affinity")}
                 \cup (IF v = u THEN {r} ELSE {})
      BY <1>1, <1>2, <1>6 DEF OtherViews, E!At
    <2> QED BY <1>10, <2>1 DEF E!Writing, E!JobAt
  <1>13. \A v \in Viewers : r \notin E!Writing(v)
    BY <1>2, ViewFacts DEF E!Writing, E!At, E!JobAt
  <1>14. ASSUME NEW v \in Viewers \ {u} PROVE SameWriters(v)
    <2>1. E!Writing(v)' = E!Writing(v)
      BY <1>12
    <2> QED BY <1>6, <1>10, <1>13, <2>1 DEF SameWriters, OtherViews
  <1>15. ReadOf(u, r)'
    BY <1>6, <1>7, <1>9, ViewFacts DEF ReadOf
  <1>16. (\A v \in Viewers : OneWriter(v)') /\ E!AffinitySettles'
         /\ vAlone' \in [Viewers -> Requests \cup {"decay", None}]
    <2>1. E!Writing(u)' = E!Writing(u) \cup {r}
      BY <1>1, <1>12
    <2> QED BY <1>1, <1>5, <1>9, <1>11, <1>14, <1>15, <2>1, WriterBegins
  <1>17. EngageStored'
    BY <1>0, <1>6, <1>9, <1>10, <1>11, <1>16 DEF EngageStored
  <1>18. E!CountersExact' /\ (~vReel'.up => vReel' = E!NoReel)
         /\ \A k \in Requests \ {r} : ViewKnows(k)'
    BY <1>2, <1>6, <1>10, <1>11, ReelAside
  <1>19. ViewKnows(r)'
    BY <1>1, <1>2, <1>4, <1>6, <1>10 DEF ViewKnows
  <1>20. DecayKnows'
    BY <1>10 DEF EngageInv, DecayKnows, E!JobAt
  <1> QED BY <1>9, <1>16, <1>17, <1>18, <1>19, <1>20 DEF EngageInv

LEMMA AddSignalHolds ==
  ASSUME EngageInv, NEW r \in Requests, E!AddSignal(r)
  PROVE  EngageInv'
  <1>1. CASE vReq[r].user # Author
    BY <1>1, SignalHolds
  <1>2. CASE vReq[r].user = Author
    <2>0. EngageStored /\ ViewKnows(r)
      BY DEF EngageInv
    <2>1. vReq[r].pc = "signal" /\ vReel.up
      BY <2>0 DEF E!AddSignal, E!At, ViewKnows
    <2>2. vReq' \in [Requests -> ViewCall] /\ OtherViews(r) /\ vReq'[r].pc = "idle"
      BY <1>2, <2>0, ViewRests DEF E!AddSignal
    <2>3. vReel' = vReel /\ vThere' = vThere /\ vSum' = vSum /\ vSilent' = vSilent
          /\ vBroken' = vBroken /\ vCalls' = vCalls
      BY DEF E!AddSignal
    <2>4. UNCHANGED <<vPair, vJob, vDecays, vAlone, vSettled>>
      BY <1>2 DEF E!AddSignal
    <2>5. vReel' \in ReelDoc /\ vThere' \in Nat /\ vSum' \in Nat /\ vSilent' \in Nat
          /\ vCalls' \in 0 .. MaxViews
      BY <2>0, <2>3 DEF EngageStored
    <2>6. ViewKnows(r)'
      BY <2>2 DEF ViewKnows
    <2>7. E!CountersExact'
      BY <2>1, <2>2, <2>3, CountersAside
    <2> QED BY <2>1, <2>2, <2>3, <2>4, <2>5, <2>6, <2>7, HandlerMoves
  <1> QED BY <1>1, <1>2

\* A score is written to the pair, when it is there.
LEMMA ScoreWritten ==
  ASSUME EngageInv, NEW u \in Viewers, NEW n \in Nat,
         vPair' = IF vPair[u].there THEN [vPair EXCEPT ![u].affinity = n] ELSE vPair
  PROVE  /\ vPair' \in [Viewers -> PairDoc]
         /\ \A v \in Viewers \ {u} : vPair'[v] = vPair[v]
         /\ \A v \in Viewers : ~vPair'[v].there => vPair'[v] = E!NoPair
         /\ ~vPair[u].there => vPair'[u] = vPair[u]
         /\ vPair[u].there => /\ vPair'[u].affinity = n /\ vPair'[u].raw = vPair[u].raw
                              /\ vPair'[u].age = vPair[u].age
  <1>0. EngageStored /\ vPair \in [Viewers -> PairDoc]
    BY DEF EngageInv, EngageStored
  <1>1. CASE vPair[u].there
    <2>1. PICK d \in PairDoc : d = vPair[u]
      BY <1>0
    <2>2. PICK p : p = [d EXCEPT !.affinity = n]
      OBVIOUS
    <2>3. p \in PairDoc /\ p.affinity = n /\ p.raw = d.raw /\ p.age = d.age /\ p.there = d.there
      BY <2>1, <2>2 DEF PairDoc
    <2>4. vPair' = [vPair EXCEPT ![u] = p]
      BY <1>0, <1>1, <2>1, <2>2
    <2>5. p.there
      BY <1>1, <2>1, <2>3
    <2> QED BY <1>1, <2>1, <2>3, <2>4, <2>5, PairChanges
  <1>2. CASE ~vPair[u].there
    BY <1>0, <1>2 DEF EngageInv
  <1> QED BY <1>1, <1>2

LEMMA SetAffinityHolds ==
  ASSUME EngageInv, NEW r \in Requests, E!SetAffinity(r)
  PROVE  EngageInv'
  <1>0. EngageStored /\ ViewKnows(r)
    BY DEF EngageInv
  <1>1. PICK u \in Viewers : u = vReq[r].user
    BY <1>0 DEF E!SetAffinity, E!At, ViewKnows
  <1>2. vReq[r].pc = "affinity" /\ vReq[r].n \in Nat
    BY <1>0 DEF E!SetAffinity, E!At, ViewKnows
  <1>3. PICK n \in Nat : n = E!AffinityOf(vReq[r].n, 0)
    BY <1>2, AffinityKept DEF E!Ages
  <1>4. vPair' = IF vPair[u].there THEN [vPair EXCEPT ![u].affinity = n] ELSE vPair
    BY <1>1, <1>3 DEF E!SetAffinity
  <1>5. /\ vPair' \in [Viewers -> PairDoc]
        /\ \A v \in Viewers \ {u} : vPair'[v] = vPair[v]
        /\ \A v \in Viewers : ~vPair'[v].there => vPair'[v] = E!NoPair
        /\ ~vPair[u].there => vPair'[u] = vPair[u]
        /\ vPair[u].there => /\ vPair'[u].affinity = n /\ vPair'[u].raw = vPair[u].raw
                             /\ vPair'[u].age = vPair[u].age
    BY <1>4, ScoreWritten
  <1>6. vReq' \in [Requests -> ViewCall] /\ OtherViews(r) /\ vReq'[r].pc = "idle"
    BY <1>0, ViewRests DEF E!SetAffinity
  <1>7. vReel' = vReel /\ vThere' = vThere /\ vJob' = vJob /\ vCalls' = vCalls
        /\ vDecays' = vDecays /\ vSum' = vSum
    BY DEF E!SetAffinity
  <1>8. vSilent' = vSilent /\ vAlone' = vAlone /\ vBroken' = vBroken /\ E!Ends(u, r)
    BY <1>1 DEF E!SetAffinity
  <1>9. ASSUME NEW v \in Viewers
        PROVE  E!Writing(v)' = IF v = u THEN E!Writing(v) \ {r} ELSE E!Writing(v)
    <2>1. {k \in Requests : vReq'[k].user = v /\ E!At(k, "affinity")'}
            = {k \in Requests : vReq[k].user = v /\ E!At(k, "affinity")} \ {r}
      BY <1>2, <1>6 DEF OtherViews, E!At
    <2>2. E!Writing(v)' = E!Writing(v) \ {r}
      BY <1>7, <2>1, ViewFacts DEF E!Writing, E!JobAt
    <2>3. v # u => r \notin E!Writing(v)
      BY <1>1, ViewFacts DEF E!Writing
    <2> QED BY <2>2, <2>3
  <1>10. r \in E!Writing(u)
    BY <1>1, <1>2 DEF E!Writing, E!At
  <1>11. ASSUME NEW v \in Viewers \ {u} PROVE SameWriters(v)
    <2>1. E!Writing(v)' = E!Writing(v) /\ r \notin E!Writing(v)
      BY <1>1, <1>9, ViewFacts DEF E!Writing
    <2> QED BY <1>6, <1>7, <2>1 DEF SameWriters, OtherViews
  <1>12. vPair[u].there /\ ReadOf(u, r)
           => vPair'[u].affinity = E!AffinityOf(vPair'[u].raw, vPair'[u].age)
    BY <1>3, <1>5 DEF ReadOf
  <1>13. (\A v \in Viewers : OneWriter(v)') /\ E!AffinitySettles' /\ vSettled' \subseteq Viewers
    <2>1. E!Writing(u)' = E!Writing(u) \ {r}
      BY <1>1, <1>9
    <2> QED BY <1>1, <1>5, <1>8, <1>10, <1>11, <1>12, <2>1, WriterEnds
  <1>14. EngageStored'
    BY <1>0, <1>5, <1>6, <1>7, <1>8, <1>13 DEF EngageStored
  <1>15. E!CountersExact' /\ (~vReel'.up => vReel' = E!NoReel)
         /\ \A k \in Requests \ {r} : ViewKnows(k)'
    BY <1>2, <1>6, <1>7, <1>8, ReelAside
  <1>16. ViewKnows(r)'
    BY <1>6 DEF ViewKnows
  <1>17. DecayKnows'
    BY <1>7 DEF EngageInv, DecayKnows, E!JobAt
  <1> QED BY <1>5, <1>13, <1>14, <1>15, <1>16, <1>17 DEF EngageInv

LEMMA BreakHolds ==
  ASSUME EngageInv, NEW r \in Requests, E!BreakOff(r)
  PROVE  EngageInv'
  <1>0. EngageStored /\ ViewKnows(r)
    BY DEF EngageInv
  <1>1. vReq' \in [Requests -> ViewCall] /\ OtherViews(r) /\ vReq'[r].pc = "idle"
    BY <1>0, ViewRests DEF E!BreakOff
  <1>2. vReel' = vReel /\ vThere' = vThere /\ vPair' = vPair /\ vJob' = vJob /\ vCalls' = vCalls
        /\ vDecays' = vDecays
    BY DEF E!BreakOff
  <1>3. vSum' = vSum /\ vSilent' = vSilent /\ vAlone' = vAlone /\ vBroken' = TRUE
    BY DEF E!BreakOff
  <1>4. vSettled' = IF E!At(r, "affinity") THEN vSettled \ {vReq[r].user} ELSE vSettled
    BY DEF E!BreakOff
  <1>5. vSettled' \subseteq vSettled /\ vSettled \subseteq Viewers
    BY <1>0, <1>4 DEF EngageStored
  <1>6. ASSUME NEW v \in Viewers
        PROVE  /\ E!Writing(v)' = E!Writing(v) \ {r}
               /\ r \in E!Writing(v) => E!At(r, "affinity") /\ vReq[r].user = v
    <2>1. {k \in Requests : vReq'[k].user = v /\ E!At(k, "affinity")'}
            = {k \in Requests : vReq[k].user = v /\ E!At(k, "affinity")} \ {r}
      BY <1>1 DEF OtherViews, E!At
    <2>2. E!Writing(v)' = E!Writing(v) \ {r}
      BY <1>2, <2>1, ViewFacts DEF E!Writing, E!JobAt
    <2> QED BY <2>2, ViewFacts DEF E!Writing
  <1>7. ASSUME NEW v \in Viewers PROVE OneWriter(v)'
    <2>1. OneWriter(v)
      BY DEF EngageInv
    <2>2. \A w \in E!Writing(v)' : /\ w \in Requests => vReq'[w].n = vReq[w].n
                                   /\ w = "decay" => vJob'.n = vJob.n
      BY <1>1, <1>2, <1>6 DEF OtherViews
    <2>3. vAlone[v] \in E!Writing(v)' => (ReadOf(v, vAlone[v]) => ReadOf(v, vAlone[v])')
      BY <1>2, <1>3, <2>2 DEF ReadOf
    <2> QED BY <1>2, <1>3, <1>6, <2>1, <2>3 DEF OneWriter
  <1>8. E!AffinitySettles'
    <2>1. ASSUME NEW v \in vSettled', E!Writing(v)' = {}
          PROVE  vPair'[v].affinity = E!AffinityOf(vPair'[v].raw, vPair'[v].age)
      <3>1. v \in vSettled /\ v \in Viewers
        BY <1>5, <2>1
      <3>2. r \notin E!Writing(v)
        BY <1>4, <1>6, <2>1, <3>1
      <3>3. E!Writing(v) = {}
        BY <1>6, <2>1, <3>1, <3>2
      <3> QED BY <1>2, <3>1, <3>3 DEF EngageInv, E!AffinitySettles
    <2> QED BY <2>1 DEF E!AffinitySettles
  <1>9. EngageStored'
    BY <1>0, <1>1, <1>2, <1>3, <1>5 DEF EngageStored
  <1>10. E!CountersExact'
    BY <1>2, <1>3 DEF EngageInv, E!CountersExact
  <1>11. \A k \in Requests : ViewKnows(k)'
    <2>1. \A k \in Requests \ {r} : ViewKnows(k)'
      BY <1>1, <1>2, OtherViewsKnow
    <2>2. ViewKnows(r)'
      BY <1>1 DEF ViewKnows
    <2> QED BY <2>1, <2>2
  <1>12. DecayKnows'
    BY <1>2 DEF EngageInv, DecayKnows, E!JobAt
  <1>13. (~vReel'.up => vReel' = E!NoReel)
         /\ \A v \in Viewers : ~vPair'[v].there => vPair'[v] = E!NoPair
    BY <1>2 DEF EngageInv
  <1> QED BY <1>7, <1>8, <1>9, <1>10, <1>11, <1>12, <1>13 DEF EngageInv

\* No step of the job, or of time, moves the reel, its counters or a handler.
LEMMA HandlersAside ==
  ASSUME EngageInv, vReel' = vReel, vThere' = vThere, vReq' = vReq, vSum' = vSum,
         vSilent' = vSilent, vBroken' = vBroken
  PROVE  /\ E!CountersExact' /\ (~vReel'.up => vReel' = E!NoReel)
         /\ \A r \in Requests : ViewKnows(r)'
         /\ vReel' \in ReelDoc /\ vThere' \in Nat /\ vSum' \in Nat /\ vSilent' \in Nat
         /\ vReq' \in [Requests -> ViewCall]
  <1>1. {k \in Requests : E!At(k, "count")}' = {k \in Requests : E!At(k, "count")}
    BY DEF E!At
  <1>2. E!CountersExact'
    BY <1>1 DEF EngageInv, E!CountersExact
  <1>3. \A r \in Requests : ViewKnows(r)'
    BY DEF EngageInv, ViewKnows
  <1>4. vReel' \in ReelDoc /\ vThere' \in Nat /\ vSum' \in Nat /\ vSilent' \in Nat
        /\ vReq' \in [Requests -> ViewCall]
    BY DEF EngageInv, EngageStored
  <1> QED BY <1>2, <1>3, <1>4 DEF EngageInv

\* Where no save is under way before or after, the writers are handlers.
LEMMA NoSave ==
  ASSUME vReq' = vReq, ~E!JobAt("save"), ~E!JobAt("save")'
  PROVE  WritersStay
  <1> SUFFICES ASSUME NEW v \in Viewers PROVE SameWriters(v)
    BY DEF WritersStay
  <1>1. E!Writing(v)' = E!Writing(v) /\ E!Writing(v) \subseteq Requests
    BY DEF E!Writing, E!At
  <1> QED BY <1>1, ViewFacts DEF SameWriters

LEMMA DecayDeleteHolds ==
  ASSUME EngageInv, E!DecayDelete
  PROVE  EngageInv'
  <1> DEFINE gone == {u \in Viewers : vPair[u].age = 2 /\ vPair[u].affinity < E!One}
  <1>0. EngageStored
    BY DEF EngageInv
  <1>1. vReel' = vReel /\ vThere' = vThere /\ vReq' = vReq /\ vSum' = vSum /\ vSilent' = vSilent
        /\ vBroken' = vBroken
    BY DEF E!DecayDelete
  <1>2. vCalls' = vCalls /\ vAlone' = vAlone /\ vJob.pc = "rest"
        /\ vDecays < MaxDecays /\ vDecays' = vDecays + 1
    BY DEF E!DecayDelete, E!JobAt
  <1>3. vJob' = [E!Resting EXCEPT !.pc = "read"]
    BY DEF E!DecayDelete
  <1>4. vPair' = [u \in Viewers |-> IF u \in gone THEN E!NoPair ELSE vPair[u]]
    BY DEF E!DecayDelete
  <1>5. vSettled' = vSettled \cup {u \in gone : E!Writing(u) = {}}
    BY DEF E!DecayDelete
  <1>6. vJob' \in DecayJob /\ vJob'.pc = "read"
    BY <1>3 DEF E!Resting, DecayJob
  <1>7. E!NoPair \in PairDoc /\ E!NoPair.there = FALSE /\ E!NoPair.raw = 0 /\ E!NoPair.age = 0
        /\ E!NoPair.affinity = 0
    BY DEF E!NoPair, PairDoc, E!Ages
  <1>8. /\ vPair' \in [Viewers -> PairDoc]
        /\ \A u \in Viewers : vPair'[u] = IF u \in gone THEN E!NoPair ELSE vPair[u]
    <2> HIDE DEF gone
    <2> QED BY <1>0, <1>4, <1>7 DEF EngageStored
  <1>9. vSettled' \subseteq Viewers
    BY <1>0, <1>5 DEF EngageStored
  <1>10. vDecays' \in 0 .. MaxDecays
    BY <1>0, <1>2, ViewFacts DEF EngageStored
  <1>11. EngageStored'
    <2> HIDE DEF gone
    <2> QED BY <1>0, <1>1, <1>2, <1>6, <1>8, <1>9, <1>10 DEF EngageStored
  <1>12. WritersStay
    BY <1>1, <1>2, <1>6, NoSave DEF E!JobAt
  <1>13. ASSUME NEW u \in Viewers PROVE OneWriter(u)' /\ (~vPair'[u].there => vPair'[u] = E!NoPair)
    <2>1. OneWriter(u) /\ (~vPair[u].there => vPair[u] = E!NoPair)
      BY DEF EngageInv
    <2>2. vPair'[u] = E!NoPair \/ vPair'[u] = vPair[u]
      BY <1>8
    <2>3. vAlone[u] \in E!Writing(u) /\ vPair'[u] = vPair[u]
            => (ReadOf(u, vAlone[u]) => ReadOf(u, vAlone[u])')
      BY <1>2, <1>12 DEF ReadOf, WritersStay, SameWriters
    <2>4. E!Writing(u)' = E!Writing(u)
      BY <1>12 DEF WritersStay, SameWriters
    <2> QED BY <1>2, <1>7, <2>1, <2>2, <2>3, <2>4 DEF OneWriter
  <1>14. E!AffinitySettles'
    <2>1. ASSUME NEW u \in vSettled', E!Writing(u)' = {}
          PROVE  vPair'[u].affinity = E!AffinityOf(vPair'[u].raw, vPair'[u].age)
      <3>1. u \in Viewers
        BY <1>9, <2>1
      <3>2. CASE u \in gone
        <4>1. vPair'[u] = E!NoPair
          BY <1>8, <3>1, <3>2
        <4> QED BY <1>7, <4>1, AffinityKept
      <3>3. CASE u \notin gone
        <4>1. vPair'[u] = vPair[u] /\ u \in vSettled
          BY <1>5, <1>8, <2>1, <3>1, <3>3
        <4>2. E!Writing(u) = {}
          BY <1>12, <2>1, <3>1 DEF WritersStay, SameWriters
        <4> QED BY <4>1, <4>2 DEF EngageInv, E!AffinitySettles
      <3> QED BY <3>2, <3>3
    <2> QED BY <2>1 DEF E!AffinitySettles
  <1>15. DecayKnows'
    BY <1>6 DEF DecayKnows, E!JobAt
  <1> QED BY <1>1, <1>11, <1>13, <1>14, <1>15, HandlersAside DEF EngageInv

LEMMA DecayReadHolds ==
  ASSUME EngageInv, NEW u \in Viewers, E!DecayRead(u)
  PROVE  EngageInv'
  <1>0. EngageStored
    BY DEF EngageInv
  <1>1. vReel' = vReel /\ vThere' = vThere /\ vReq' = vReq /\ vSum' = vSum /\ vSilent' = vSilent
        /\ vBroken' = vBroken
    BY DEF E!DecayRead
  <1>2. vCalls' = vCalls /\ vDecays' = vDecays /\ vPair' = vPair /\ vSettled' = vSettled
        /\ vJob.pc = "read" /\ E!Starts(u, "decay")
    BY DEF E!DecayRead, E!JobAt
  <1>3. PICK n \in Nat : n = E!AffinityOf(vPair[u].raw, vPair[u].age)
    BY <1>0, PairTyped, AffinityKept
  <1>4. vJob' = [vJob EXCEPT !.pc = "save", !.user = u, !.n = n, !.done = @ \cup {u}]
    BY <1>3 DEF E!DecayRead
  <1>5. vJob' \in DecayJob /\ vJob'.pc = "save" /\ vJob'.user = u /\ vJob'.n = n
    <2>1. PICK j : j = [vJob EXCEPT !.pc = "save", !.user = u]
      OBVIOUS
    <2>2. j \in DecayJob /\ j.pc = "save" /\ j.user = u
      BY <1>0, <2>1, DecayTyped DEF DecayJob
    <2>3. vJob' = [j EXCEPT !.n = n, !.done = @ \cup {u}]
      BY <1>4, <2>1
    <2>4. PICK k : k = [j EXCEPT !.n = n, !.done = @ \cup {u}]
      OBVIOUS
    <2>5. k \in DecayJob /\ k.pc = "save" /\ k.user = u /\ k.n = n
      BY <2>2, <2>4 DEF DecayJob
    <2> QED BY <2>3, <2>4, <2>5
  <1>6. ASSUME NEW v \in Viewers
        PROVE  E!Writing(v)' = (IF v = u THEN E!Writing(v) \cup {"decay"} ELSE E!Writing(v))
               /\ "decay" \notin E!Writing(v)
    <2>1. {k \in Requests : vReq[k].user = v /\ E!At(k, "affinity")}'
            = {k \in Requests : vReq[k].user = v /\ E!At(k, "affinity")}
      BY <1>1 DEF E!At
    <2>2. E!Writing(v) = {k \in Requests : vReq[k].user = v /\ E!At(k, "affinity")}
      BY <1>2 DEF E!Writing, E!JobAt
    <2> QED BY <1>5, <2>1, <2>2, ViewFacts DEF E!Writing, E!JobAt
  <1>7. ASSUME NEW v \in Viewers \ {u} PROVE SameWriters(v)
    BY <1>1, <1>6 DEF SameWriters
  <1>8. ReadOf(u, "decay")'
    BY <1>2, <1>3, <1>5, ViewFacts DEF ReadOf
  <1>9. (\A v \in Viewers : OneWriter(v)') /\ E!AffinitySettles'
         /\ vAlone' \in [Viewers -> Requests \cup {"decay", None}]
    <2>1. E!Writing(u)' = E!Writing(u) \cup {"decay"}
      BY <1>6
    <2> QED BY <1>2, <1>7, <1>8, <2>1, WriterBegins
  <1>10. EngageStored'
    BY <1>0, <1>1, <1>2, <1>5, <1>9 DEF EngageStored
  <1>11. DecayKnows'
    BY <1>5 DEF DecayKnows
  <1>12. \A v \in Viewers : ~vPair'[v].there => vPair'[v] = E!NoPair
    BY <1>2 DEF EngageInv
  <1> QED BY <1>1, <1>9, <1>10, <1>11, <1>12, HandlersAside DEF EngageInv

LEMMA DecaySaveHolds ==
  ASSUME EngageInv, E!DecaySave
  PROVE  EngageInv'
  <1>0. EngageStored /\ DecayKnows
    BY DEF EngageInv
  <1>1. PICK u \in Viewers : u = vJob.user
    BY <1>0 DEF E!DecaySave, DecayKnows
  <1>2. vReel' = vReel /\ vThere' = vThere /\ vReq' = vReq /\ vSum' = vSum /\ vSilent' = vSilent
        /\ vBroken' = vBroken
    BY DEF E!DecaySave
  <1>3. vCalls' = vCalls /\ vDecays' = vDecays /\ vAlone' = vAlone /\ vJob.pc = "save"
        /\ E!Ends(u, "decay")
    BY <1>1 DEF E!DecaySave, E!JobAt
  <1>4. PICK n \in Nat : n = vJob.n
    BY <1>0, DecayTyped
  <1>5. vPair' = IF vPair[u].there THEN [vPair EXCEPT ![u].affinity = n] ELSE vPair
    BY <1>1, <1>4 DEF E!DecaySave
  <1>6. /\ vPair' \in [Viewers -> PairDoc]
        /\ \A v \in Viewers \ {u} : vPair'[v] = vPair[v]
        /\ \A v \in Viewers : ~vPair'[v].there => vPair'[v] = E!NoPair
        /\ ~vPair[u].there => vPair'[u] = vPair[u]
        /\ vPair[u].there => /\ vPair'[u].affinity = n /\ vPair'[u].raw = vPair[u].raw
                             /\ vPair'[u].age = vPair[u].age
    BY <1>5, ScoreWritten
  <1>7. vJob' \in DecayJob /\ vJob'.pc = "read"
    <2>1. vJob' = [vJob EXCEPT !.pc = "read", !.user = None, !.n = 0]
      BY DEF E!DecaySave
    <2>2. PICK j : j = [vJob EXCEPT !.pc = "read", !.user = None]
      OBVIOUS
    <2>3. j \in DecayJob /\ j.pc = "read"
      BY <1>0, <2>2, DecayTyped DEF DecayJob
    <2>4. PICK k : k = [j EXCEPT !.n = 0]
      OBVIOUS
    <2>5. k \in DecayJob /\ k.pc = "read"
      BY <2>3, <2>4 DEF DecayJob
    <2> QED BY <2>1, <2>2, <2>4, <2>5
  <1>8. ASSUME NEW v \in Viewers
        PROVE  E!Writing(v) = (IF v = u THEN E!Writing(v)' \cup {"decay"} ELSE E!Writing(v)')
               /\ "decay" \notin E!Writing(v)'
    <2>1. {k \in Requests : vReq[k].user = v /\ E!At(k, "affinity")}'
            = {k \in Requests : vReq[k].user = v /\ E!At(k, "affinity")}
      BY <1>2 DEF E!At
    <2>2. E!Writing(v)' = {k \in Requests : vReq[k].user = v /\ E!At(k, "affinity")}
      BY <1>7, <2>1 DEF E!Writing, E!JobAt
    <2> QED BY <1>1, <1>3, <2>2, ViewFacts DEF E!Writing, E!JobAt
  <1>9. ASSUME NEW v \in Viewers \ {u} PROVE SameWriters(v)
    BY <1>2, <1>8 DEF SameWriters
  <1>10. vPair[u].there /\ ReadOf(u, "decay")
           => vPair'[u].affinity = E!AffinityOf(vPair'[u].raw, vPair'[u].age)
    BY <1>4, <1>6 DEF ReadOf
  <1>11. (\A v \in Viewers : OneWriter(v)') /\ E!AffinitySettles' /\ vSettled' \subseteq Viewers
    <2>1. "decay" \in E!Writing(u) /\ E!Writing(u)' = E!Writing(u) \ {"decay"}
      BY <1>8
    <2> QED BY <1>3, <1>6, <1>9, <1>10, <2>1, WriterEnds
  <1>12. EngageStored'
    BY <1>0, <1>2, <1>3, <1>6, <1>7, <1>11 DEF EngageStored
  <1>13. DecayKnows'
    BY <1>7 DEF DecayKnows, E!JobAt
  <1> QED BY <1>2, <1>6, <1>11, <1>12, <1>13, HandlersAside DEF EngageInv

LEMMA DecayEndsHolds ==
  ASSUME EngageInv, E!DecayEnds
  PROVE  EngageInv'
  <1>0. EngageStored
    BY DEF EngageInv
  <1>1. vReel' = vReel /\ vThere' = vThere /\ vReq' = vReq /\ vSum' = vSum /\ vSilent' = vSilent
        /\ vBroken' = vBroken
    BY DEF E!DecayEnds
  <1>2. vCalls' = vCalls /\ vDecays' = vDecays /\ vAlone' = vAlone /\ vPair' = vPair
        /\ vSettled' = vSettled /\ vJob.pc = "read" /\ vJob' = E!Resting
    BY DEF E!DecayEnds, E!JobAt
  <1>3. vJob' \in DecayJob /\ vJob'.pc = "rest"
    BY <1>2 DEF E!Resting, DecayJob
  <1>4. WritersStay
    BY <1>1, <1>2, <1>3, NoSave DEF E!JobAt
  <1>5. EngageStored'
    BY <1>0, <1>1, <1>2, <1>3 DEF EngageStored
  <1>6. DecayKnows'
    BY <1>3 DEF DecayKnows, E!JobAt
  <1> QED BY <1>1, <1>2, <1>4, <1>5, <1>6, PairsAside, HandlersAside DEF EngageInv

LEMMA TimeHolds ==
  ASSUME EngageInv, E!TimePasses
  PROVE  EngageInv'
  <1>0. EngageStored
    BY DEF EngageInv
  <1>1. vReel' = vReel /\ vThere' = vThere /\ vReq' = vReq /\ vSum' = vSum /\ vSilent' = vSilent
        /\ vBroken' = vBroken
    BY DEF E!TimePasses
  <1>2. vCalls' = vCalls /\ vDecays' = vDecays /\ vAlone' = vAlone /\ vJob' = vJob
        /\ vJob.pc = "rest"
    BY DEF E!TimePasses, E!JobAt
  <1>3. vPair' = [u \in Viewers |-> IF vPair[u].there /\ vPair[u].age < 2
                                    THEN [vPair[u] EXCEPT !.age = @ + 1] ELSE vPair[u]]
    BY DEF E!TimePasses
  <1>4. vSettled' = {u \in vSettled : ~vPair[u].there}
    BY DEF E!TimePasses
  <1>5. ASSUME NEW u \in Viewers
        PROVE  /\ vPair'[u] \in PairDoc /\ vPair'[u].there = vPair[u].there
               /\ ~vPair[u].there => vPair'[u] = vPair[u]
    <2>1. PICK d \in PairDoc : d = vPair[u]
      BY <1>0, PairTyped
    <2>2. PICK e : e = [d EXCEPT !.age = @ + 1]
      OBVIOUS
    <2>3. d.age < 2 => e \in PairDoc /\ e.there = d.there
      <3>1. d.age < 2 => d.age + 1 \in E!Ages
        BY <2>1 DEF PairDoc, E!Ages
      <3> QED BY <2>1, <2>2, <3>1 DEF PairDoc
    <2>4. vPair'[u] = IF d.there /\ d.age < 2 THEN e ELSE d
      BY <1>3, <2>1, <2>2
    <2> QED BY <2>1, <2>3, <2>4
  <1>6. vPair' \in [Viewers -> PairDoc]
    <2>1. PICK f : f = [u \in Viewers |-> IF vPair[u].there /\ vPair[u].age < 2
                                           THEN [vPair[u] EXCEPT !.age = @ + 1] ELSE vPair[u]]
      OBVIOUS
    <2>2. \A u \in Viewers : f[u] \in PairDoc
      BY <1>3, <1>5, <2>1
    <2>3. f \in [Viewers -> PairDoc]
      BY <2>1, <2>2
    <2> QED BY <1>3, <2>1, <2>3
  <1>7. \A u \in Viewers : E!Writing(u) = {} /\ E!Writing(u)' = {}
    <2>1. \A r \in Requests : vReq[r].pc = "idle"
      BY DEF E!TimePasses, E!At
    <2> QED BY <1>1, <1>2, <2>1 DEF E!Writing, E!At, E!JobAt
  <1>8. \A u \in Viewers : OneWriter(u)'
    BY <1>7 DEF OneWriter
  <1>9. E!AffinitySettles'
    <2>1. ASSUME NEW u \in vSettled'
          PROVE  vPair'[u].affinity = E!AffinityOf(vPair'[u].raw, vPair'[u].age)
      <3>1. u \in vSettled /\ u \in Viewers /\ ~vPair[u].there
        BY <1>0, <1>4, <2>1 DEF EngageStored
      <3> QED BY <1>5, <1>7, <3>1 DEF EngageInv, E!AffinitySettles
    <2> QED BY <2>1 DEF E!AffinitySettles
  <1>10. \A u \in Viewers : ~vPair'[u].there => vPair'[u] = E!NoPair
    BY <1>5 DEF EngageInv
  <1>11. EngageStored'
    <2>1. vSettled' \subseteq Viewers
      BY <1>0, <1>4 DEF EngageStored
    <2> QED BY <1>0, <1>1, <1>2, <1>6, <2>1 DEF EngageStored
  <1>12. DecayKnows'
    BY <1>2 DEF DecayKnows, E!JobAt
  <1> QED BY <1>1, <1>8, <1>9, <1>10, <1>11, <1>12, HandlersAside DEF EngageInv

LEMMA EngageStart ==
  ASSUME E!Fresh, vCalls \in 0 .. MaxViews, vDecays \in 0 .. MaxDecays
  PROVE  EngageInv
  <1>1. vReel = E!NoReel /\ vThere = 0 /\ vSum = 0 /\ vSilent = 0 /\ vBroken = FALSE
    BY DEF E!Fresh
  <1>2. vPair = [u \in Viewers |-> E!NoPair]
    BY DEF E!Fresh
  <1>3. vReq = [r \in Requests |-> E!Idle] /\ vJob = E!Resting
    BY DEF E!Fresh
  <1>4. vAlone = [u \in Viewers |-> None] /\ vSettled = Viewers
    BY DEF E!Fresh
  <1>5. E!NoReel \in ReelDoc /\ E!NoReel.up = FALSE /\ E!NoReel.views = 0 /\ E!NoReel.watched = 0
        /\ E!NoReel.comments = 0 /\ E!NoReel.over = 1
    BY DEF E!NoReel, ReelDoc
  <1>6. E!NoPair \in PairDoc /\ E!NoPair.affinity = 0 /\ E!NoPair.raw = 0 /\ E!NoPair.age = 0
    BY DEF E!NoPair, PairDoc, E!Ages
  <1>7. E!Idle \in ViewCall /\ E!Idle.pc = "idle"
    BY WeightsKept DEF E!Idle, ViewCall
  <1>8. E!Resting \in DecayJob /\ E!Resting.pc = "rest"
    BY DEF E!Resting, DecayJob
  <1>9. EngageStored
    <2>1. vPair \in [Viewers -> PairDoc]
      BY <1>2, <1>6
    <2>2. vReq \in [Requests -> ViewCall]
      BY <1>3, <1>7
    <2>3. vAlone \in [Viewers -> Requests \cup {"decay", None}] /\ vSettled \subseteq Viewers
      BY <1>4
    <2>4. vReel \in ReelDoc /\ vJob \in DecayJob /\ vThere \in Nat /\ vSum \in Nat /\ vSilent \in Nat
      BY <1>1, <1>3, <1>5, <1>8
    <2> QED BY <2>1, <2>2, <2>3, <2>4 DEF EngageStored
  <1>10. \A r \in Requests : vReq[r].pc = "idle"
    BY <1>3, <1>7
  <1>11. \A r \in Requests : ViewKnows(r)
    BY <1>10 DEF ViewKnows
  <1>12. DecayKnows
    BY <1>3, <1>8 DEF DecayKnows, E!JobAt
  <1>13. \A u \in Viewers : vPair[u] = E!NoPair /\ E!Writing(u) = {}
    BY <1>2, <1>3, <1>8, <1>10 DEF E!Writing, E!At, E!JobAt
  <1>14. \A u \in Viewers : OneWriter(u)
    BY <1>13 DEF OneWriter
  <1>15. E!AffinitySettles
    BY <1>4, <1>6, <1>13, AffinityKept DEF E!AffinitySettles
  <1>16. E!CountersExact
    <2>1. {r \in Requests : E!At(r, "count")} = {}
      BY <1>10 DEF E!At
    <2>2. E!Cardinality({}) = 0
      BY ViewSizes, FS_EmptySet
    <2> QED BY <1>1, <1>5, <2>1, <2>2 DEF E!CountersExact
  <1> QED BY <1>1, <1>9, <1>11, <1>12, <1>13, <1>14, <1>15, <1>16 DEF EngageInv

LEMMA EngageStays ==
  ASSUME EngageInv, UNCHANGED ofReels
  PROVE  EngageInv'
  <1>1. vReel' = vReel /\ vThere' = vThere /\ vReq' = vReq /\ vSum' = vSum /\ vSilent' = vSilent
        /\ vBroken' = vBroken
    BY DEF ofReels
  <1>2. vCalls' = vCalls /\ vDecays' = vDecays /\ vAlone' = vAlone /\ vPair' = vPair
        /\ vSettled' = vSettled /\ vJob' = vJob
    BY DEF ofReels
  <1>3. WritersStay
    BY <1>1, <1>2 DEF WritersStay, SameWriters, E!Writing, E!At, E!JobAt
  <1>4. EngageStored'
    BY <1>1, <1>2 DEF EngageInv, EngageStored
  <1>5. DecayKnows'
    BY <1>2 DEF EngageInv, DecayKnows, E!JobAt
  <1> QED BY <1>1, <1>2, <1>3, <1>4, <1>5, PairsAside, HandlersAside DEF EngageInv

LEMMA CallBegins ==
  ASSUME EngageInv, NEW r \in Requests, NEW u \in Viewers \cup {Author}
  PROVE  /\ \A fraction \in {-1, 0, 1} : E!TrackViewFind(r, u, fraction) => EngageInv'
         /\ E!LikeReel(r, u) \/ E!CommentFind(r, u) \/ E!ShareFind(r, u) => EngageInv'
  <1>1. /\ "views" \in E!Signals /\ "likes" \in E!Signals /\ "comments" \in E!Signals
        /\ "shares" \in E!Signals
    BY WeightsKept
  <1>2. ASSUME NEW fraction \in {-1, 0, 1}, E!TrackViewFind(r, u, fraction) PROVE EngageInv'
    <2>1. E!Begin(r, "view", u, "views", fraction) /\ fraction \in Int
      BY <1>2 DEF E!TrackViewFind
    <2> QED BY <1>1, <2>1, BeginHolds
  <1>3. ASSUME E!LikeReel(r, u) PROVE EngageInv'
    <2>1. E!Begin(r, "signal", u, "likes", 0)
      BY <1>3 DEF E!LikeReel
    <2> QED BY <1>1, <2>1, BeginHolds
  <1>4. ASSUME E!CommentFind(r, u) PROVE EngageInv'
    <2>1. E!Begin(r, "comment", u, "comments", 0)
      BY <1>4 DEF E!CommentFind
    <2> QED BY <1>1, <2>1, BeginHolds
  <1>5. ASSUME E!ShareFind(r, u) PROVE EngageInv'
    <2>1. E!Begin(r, "share", u, "shares", 0)
      BY <1>5 DEF E!ShareFind
    <2> QED BY <1>1, <2>1, BeginHolds
  <1> QED BY <1>2, <1>3, <1>4, <1>5

LEMMA EngageStep ==
  ASSUME EngageInv, E!Next \/ UNCHANGED ofReels
  PROVE  EngageInv'
  <1>1. ASSUME NEW r \in Requests, NEW u \in Viewers \cup {Author},
               \/ \E fraction \in {-1, 0, 1} : E!TrackViewFind(r, u, fraction)
               \/ E!LikeReel(r, u) \/ E!CommentFind(r, u) \/ E!ShareFind(r, u)
        PROVE  EngageInv'
    BY <1>1, CallBegins
  <1>2. ASSUME NEW r \in Requests,
               \/ E!CountView(r) \/ E!InsertComment(r) \/ E!CountComment(r) \/ E!CountShare(r)
               \/ E!AddSignal(r) \/ E!SetAffinity(r) \/ E!BreakOff(r)
        PROVE  EngageInv'
    BY <1>2, CountViewHolds, InsertCommentHolds, CountCommentHolds, CountShareHolds,
       AddSignalHolds, SetAffinityHolds, BreakHolds
  <1>3. CASE E!CreateReel
    BY <1>3, CreateHolds
  <1>4. CASE E!DecayDelete \/ (\E u \in Viewers : E!DecayRead(u)) \/ E!DecaySave \/ E!DecayEnds
    BY <1>4, DecayDeleteHolds, DecayReadHolds, DecaySaveHolds, DecayEndsHolds
  <1>5. CASE E!TimePasses
    BY <1>5, TimeHolds
  <1>6. CASE UNCHANGED ofReels
    BY <1>6, EngageStays
  <1> QED BY <1>1, <1>2, <1>3, <1>4, <1>5, <1>6 DEF E!Next

LEMMA EngageTrue ==
  ASSUME EngageInv
  PROVE  E!TypeOK /\ E!CountersExact /\ E!AffinitySettles
  <1>0. EngageStored
    BY DEF EngageInv
  <1>1. vReel.up \in BOOLEAN /\ vReel.views \in Nat /\ vReel.watched \in Nat
        /\ vReel.over \in Nat \ {0}
    BY <1>0, ReelTyped
  <1>2. vPair \in [Viewers -> [raw : Nat, age : E!Ages, affinity : Nat, there : BOOLEAN]]
    BY <1>0 DEF EngageStored, PairDoc
  <1>3. \A r \in Requests : vReq[r].user \in Viewers \cup {Author, None}
    BY <1>0, ViewTyped
  <1>4. vJob.pc \in {"rest", "read", "save"}
    BY <1>0, DecayTyped
  <1>5. vThere \in Nat /\ vCalls \in 0 .. MaxViews /\ vDecays \in 0 .. MaxDecays
        /\ vSettled \subseteq Viewers
    BY <1>0 DEF EngageStored
  <1>6. E!TypeOK
    BY <1>1, <1>2, <1>3, <1>4, <1>5 DEF E!TypeOK
  <1> QED BY <1>6 DEF EngageInv

-----------------------------------------------------------------------------
(* The components put together: a step is one of a component, and leaves the      *)
(* others as they are.                                                            *)

LEMMA TogglesAlways == MCSpec => []ToggleInv
  <1>1. MCInit => ToggleInv
    BY ToggleInit DEF MCInit
  <1>2. ToggleInv /\ [MCNext]_<<part, ofToggles, ofPosts, ofReels, ofChains, ofScores, ofDna,
                                ofRoulette, ofEgo, ofTaste, ofFeeds>> => ToggleInv'
    BY ToggleStep DEF MCNext, Rest
  <1> QED BY <1>1, <1>2, PTL DEF MCSpec

LEMMA ReelsAlways == MCSpec => []EngageInv
  <1>1. MCInit => EngageInv
    <2>1. 2 <= MaxViews /\ MaxViews \in Nat /\ MaxDecays \in Nat
      BY StartBounds, ViewFacts
    <2>2. CASE ReelsStart
      <3>1. E!Fresh /\ ((vCalls = MaxViews - 2 /\ vDecays = 0) \/ (vCalls = 0 /\ vDecays = MaxDecays))
        BY <2>2, Zenon DEF ReelsStart
      <3>2. vCalls \in 0 .. MaxViews /\ vDecays \in 0 .. MaxDecays
        BY <2>1, <3>1
      <3> QED BY <3>1, <3>2, EngageStart
    <2>3. CASE E!Init
      <3>1. E!Fresh /\ vCalls = 0 /\ vDecays = 0
        BY <2>3 DEF E!Init
      <3>2. vCalls \in 0 .. MaxViews /\ vDecays \in 0 .. MaxDecays
        BY <2>1, <3>1
      <3> QED BY <3>1, <3>2, EngageStart
    <2> QED BY <2>2, <2>3 DEF MCInit
  <1>2. EngageInv /\ [MCNext]_<<part, ofToggles, ofPosts, ofReels, ofChains, ofScores, ofDna,
                                ofRoulette, ofEgo, ofTaste, ofFeeds>> => EngageInv'
    BY EngageStep DEF MCNext, Rest
  <1> QED BY <1>1, <1>2, PTL DEF MCSpec

\* A toggle of a like nothing has overlapped leaves the count of the likes there are, a reel
\* never shows fewer saves than it has bookmarks unless a handler has broken off, its average
\* watched and its comments are exact, and an affinity whose last writer nothing has
\* overlapped is that of the signals as they are (toggleLike, the bookmark controller,
\* ReelController, recordSignal, applyGlobalDecay).
THEOREM CountersHeld == MCSpec => []CountersSettle
  <1>1. ToggleInv /\ EngageInv => CountersSettle
    BY ToggleTrue, EngageTrue DEF CountersSettle
  <1> QED BY <1>1, TogglesAlways, ReelsAlways, PTL
-----------------------------------------------------------------------------
(* What the caches, the handlers and the histories hold.                         *)

FItem == [author : Authors \cup {None}, visibility : H!Visibilities, active : BOOLEAN, at : Nat]
Cached == [left : Nat, who : SUBSET Authors, items : SUBSET Items]
ReaderPCs == {"idle", "load", "fetch", "wait", "store", "ready", "drop", "dropReels"}
Reader == [pc : ReaderPCs, user : Readers \cup {None}, kind : H!Kinds, step : {1, 2},
           who : SUBSET Authors, items : SUBSET Items, val : Cached,
           of : Requests \cup {None}, late : BOOLEAN]
FeedAges == [public : [Items -> Nat], shared : [Items -> Nat], followed : [Readers \X Authors -> Nat]]
Turned == [by : Readers \cup {None}, before : Nat, owed : SUBSET Items,
           blind : SUBSET (Authors \cup {None}), shown : SUBSET Items,
           twice : BOOLEAN, over : BOOLEAN, cut : BOOLEAN]

FeedTyped ==
  /\ hItems \in [Items -> FItem] /\ hFollows \subseteq Readers \X Authors
  /\ hCache \in [H!Keys -> Cached] /\ hReq \in [Requests -> Reader]
  /\ hCalls \in 0 .. MaxFeedCalls /\ hGone \in FeedAges /\ hWalk \in Turned

\* A handler is at a cache only where its kind of page is made from one.
AtCache == {"load", "fetch", "wait", "store"}
Flying == {"fetch", "store"}
TwoCaches == {"foryou", "global", "reels"}
KeyOf(q) == H!Plan(q.kind, q.user)[q.step]
HandlerOK(q) ==
  /\ q.pc = "idle" => q = H!Idle
  /\ q.pc # "idle" => q.user \in Readers
  /\ q.pc \in AtCache => q.kind # "nearby" /\ (q.step = 2 => q.kind \in TwoCaches)
\* Who waits does so for a handler that fills the same cache.
WaitOK(q, handlers) ==
  q.pc = "wait" => /\ q.of \in Requests /\ handlers[q.of].pc \in Flying
                   /\ KeyOf(handlers[q.of]) = KeyOf(q)

\* What a handler holds was true when the cache it came from was filled, at most a life
\* and a tick ago, and what it has fetched itself in this tick or the one before.
Late(q) == IF q.late THEN 1 ELSE 0
Recent(q, gone) ==
  /\ \A p \in q.items : gone.public[p] <= PoolTTL + 1 + Late(q)
  /\ \A a \in q.who : gone.followed[<<q.user, a>>] <= GraphTTL + 1 + Late(q)
  /\ \A p \in q.val.items : gone.public[p] <= Late(q)
  /\ \A a \in q.val.who : gone.followed[<<q.user, a>>] <= Late(q)
\* What is cached gets older as its life gets shorter.
CacheOK(k, c, gone) ==
  /\ k[1] \in H!Pools => \A p \in c.items : gone.public[p] + c.left <= PoolTTL + 2
  /\ k[1] \notin H!Pools => \A a \in c.who : gone.followed[<<k[2], a>>] + c.left <= GraphTTL + 2

HandlersOK(handlers, gone) ==
  \A r \in Requests : /\ HandlerOK(handlers[r]) /\ Recent(handlers[r], gone)
                      /\ WaitOK(handlers[r], handlers)
CachesOK(cache, gone) == \A k \in H!Keys : CacheOK(k, cache[k], gone)
AgesOK(items, edges, gone) ==
  /\ \A p \in Items : /\ H!IsPublic(items[p]) => gone.public[p] = 0
                      /\ H!IsShared(items[p]) => gone.shared[p] = 0
  /\ \A e \in edges : gone.followed[e] = 0
ItemsOK(items) == \A p \in Items : items[p] # H!NoItem => items[p].at > 0

\* Of one instant with no other.
Single(p, items) == \A x \in Items \ {p} : items[x].at # items[p].at
\* What is owed, alone in its instant, and of an author nobody was blind to, was shown,
\* or is still before the cursor.
Due(p, w, items) == p \in w.owed /\ Single(p, items) /\ items[p].author \notin w.blind
WalkOK(w, items) ==
  /\ ~w.twice
  /\ \A p \in w.shown : items[p] # H!NoItem /\ w.before > 0 /\ w.before <= items[p].at
  /\ \A p \in w.owed : p \notin Reels /\ H!IsShared(items[p])
  /\ \A p \in Items : Due(p, w, items) =>
       /\ p \in w.shown \/ w.before = 0 \/ items[p].at < w.before
       /\ w.over /\ ~w.cut => p \in w.shown

FeedInv ==
  /\ FeedTyped /\ HandlersOK(hReq, hGone) /\ CachesOK(hCache, hGone)
  /\ AgesOK(hItems, hFollows, hGone) /\ ItemsOK(hItems)
  /\ WalkOK(hWalk, hItems) /\ hOld = {}

LEMMA FeedFacts ==
  /\ Readers \subseteq People /\ Authors \subseteq People /\ Served \subseteq H!Kinds
  /\ Items # {} /\ IsFiniteSet(Items) /\ Reels \subseteq Items
  /\ Limit \in Nat /\ Limit > 0 /\ PoolTTL \in Nat /\ GraphTTL \in Nat
  /\ MaxFeedCalls \in Nat /\ 1 <= MaxFeedCalls
BY FeedBounds, StartBounds DEF H!FeedsAssumption, IsFiniteSet, H!IsFiniteSet

LEMMA ReaderFields == ASSUME NEW q \in Reader
  PROVE  /\ q.pc \in ReaderPCs /\ q.user \in Readers \cup {None} /\ q.kind \in H!Kinds
         /\ q.step \in {1, 2} /\ q.who \subseteq Authors /\ q.items \subseteq Items
         /\ q.val \in Cached /\ q.of \in Requests \cup {None} /\ q.late \in BOOLEAN
BY DEF Reader

LEMMA CachedFields == ASSUME NEW c \in Cached
  PROVE c.left \in Nat /\ c.who \subseteq Authors /\ c.items \subseteq Items
BY DEF Cached

LEMMA AgeFields == ASSUME NEW g \in FeedAges
  PROVE /\ g.public \in [Items -> Nat] /\ g.shared \in [Items -> Nat]
        /\ g.followed \in [Readers \X Authors -> Nat]
BY DEF FeedAges

LEMMA AbsentCached == H!Absent \in Cached /\ H!Absent.who = {} /\ H!Absent.items = {}
                      /\ H!Absent.left = 0
BY DEF H!Absent, Cached

LEMMA IdleReader ==
  /\ H!Idle \in Reader /\ HandlerOK(H!Idle) /\ H!Idle.pc = "idle"
  /\ H!Idle.who = {} /\ H!Idle.items = {} /\ H!Idle.val.who = {} /\ H!Idle.val.items = {}
  /\ H!Idle.user = None /\ H!Idle.kind = "home" /\ H!Idle.late = FALSE /\ H!Idle.step = 1
<1>1. H!Absent \in Cached /\ H!Absent.who = {} /\ H!Absent.items = {} BY AbsentCached
<1>2. H!Idle \in Reader BY <1>1 DEF H!Idle, Reader, ReaderPCs, H!Kinds
<1>. QED BY <1>1, <1>2 DEF H!Idle, HandlerOK, AtCache

LEMMA IdleRecent == ASSUME NEW gone PROVE Recent(H!Idle, gone) /\ WaitOK(H!Idle, hReq)
BY IdleReader DEF Recent, WaitOK

\* The cache a handler is at is one of the model's, and a user's own, or all users'.
LEMMA KeyOfHandler ==
  ASSUME NEW q \in Reader, HandlerOK(q), q.pc \in AtCache
  PROVE  /\ KeyOf(q) \in H!Keys /\ q.user \in Readers
         /\ KeyOf(q)[1] \in H!Pools \/ KeyOf(q)[2] = q.user
<1>1. q.kind \in H!Kinds /\ q.step \in {1, 2} /\ q.user \in Readers
  BY ReaderFields DEF HandlerOK, AtCache
<1>2. q.kind # "nearby" /\ (q.step = 2 => q.kind \in TwoCaches) BY DEF HandlerOK
<1>3. PICK v \in Readers : v = q.user BY <1>1
<1>4. KeyOf(q) \in {<<"graph", v>>, <<"reelgraph", v>>, <<"foryou", None>>, <<"global", None>>,
                    <<"trending", None>>, <<"reels", None>>}
  <2>1. CASE q.kind \in {"home", "following"}
    BY <1>1, <1>2, <1>3, <2>1 DEF KeyOf, H!Plan, TwoCaches
  <2>2. CASE q.kind \in {"foryou", "global"}
    <3>1. KeyOf(q) = <<<<"graph", v>>, <<q.kind, None>>>>[q.step]
      BY <1>1, <1>3, <2>2 DEF KeyOf, H!Plan
    <3>. QED BY <1>1, <2>2, <3>1
  <2>3. CASE q.kind = "trending"
    BY <1>1, <1>2, <1>3, <2>3 DEF KeyOf, H!Plan, TwoCaches
  <2>4. CASE q.kind = "reels"
    <3>1. KeyOf(q) = <<<<"reels", None>>, <<"reelgraph", v>>>>[q.step]
      BY <1>1, <1>3, <2>4 DEF KeyOf, H!Plan
    <3>. QED BY <1>1, <3>1
  <2>. QED BY <1>1, <1>2, <2>1, <2>2, <2>3, <2>4 DEF H!Kinds
<1>5. CASE KeyOf(q) \in {<<"graph", v>>, <<"reelgraph", v>>}
  <2>1. KeyOf(q) \in {"graph", "reelgraph"} \X Readers /\ KeyOf(q)[2] = v BY <1>5
  <2>. QED BY <1>3, <2>1 DEF H!Keys
<1>6. CASE KeyOf(q) \in {<<"foryou", None>>, <<"global", None>>, <<"trending", None>>, <<"reels", None>>}
  <2>1. KeyOf(q) \in H!Pools \X {None} /\ KeyOf(q)[1] \in H!Pools BY <1>6 DEF H!Pools
  <2>. QED BY <1>3, <2>1 DEF H!Keys
<1>. QED BY <1>4, <1>5, <1>6

\* A handler goes on with a value that is recent enough.
LEMMA GoesOn ==
  ASSUME NEW q \in Reader, HandlerOK(q), q.pc \in AtCache, NEW gone \in FeedAges, Recent(q, gone),
         NEW k, k = KeyOf(q), NEW c \in Cached, NEW z, z = H!With(q, k, c),
         k[1] \in H!Pools => \A p \in c.items : gone.public[p] <= PoolTTL + 1,
         k[1] \notin H!Pools => \A a \in c.who : gone.followed[<<q.user, a>>] <= GraphTTL + 1
  PROVE  z \in Reader /\ HandlerOK(z) /\ Recent(z, gone) /\ z.pc \in {"ready", "load"}
<1>1. /\ q.kind \in H!Kinds /\ q.step \in {1, 2} /\ q.user \in Readers /\ q.who \subseteq Authors
      /\ q.items \subseteq Items /\ q.late \in BOOLEAN /\ c.who \subseteq Authors /\ c.items \subseteq Items
  BY ReaderFields, CachedFields, KeyOfHandler
<1>2. PICK pc \in {"ready", "load"}, step \in {1, 2}, who \in SUBSET Authors, items \in SUBSET Items :
        /\ z = [q EXCEPT !.pc = pc, !.step = step, !.of = None, !.val = H!Absent, !.who = who,
                         !.items = items]
        /\ pc = "load" => step = 2 /\ q.kind \notin {"home", "following", "trending"}
        /\ IF k[1] \in H!Pools THEN who = q.who /\ items = c.items ELSE who = c.who /\ items = q.items
  <2>1. CASE q.step = 2 \/ q.kind \in {"home", "following", "trending"}
    BY <1>1, <2>1 DEF H!With
  <2>2. CASE ~(q.step = 2 \/ q.kind \in {"home", "following", "trending"})
    BY <1>1, <2>2 DEF H!With
  <2>. QED BY <2>1, <2>2
<1>3. /\ z.pc = pc /\ z.step = step /\ z.of = None /\ z.val = H!Absent /\ z.who = who /\ z.items = items
      /\ z.user = q.user /\ z.kind = q.kind /\ z.late = q.late
  BY <1>2 DEF Reader
<1>4. z \in Reader
  <2>1. H!Absent \in Cached /\ pc \in ReaderPCs BY AbsentCached DEF ReaderPCs
  <2>. QED BY <1>2, <2>1 DEF Reader
<1>5. HandlerOK(z)
  <2>1. z.pc # "idle" /\ z.user \in Readers BY <1>1, <1>2, <1>3
  <2>2. z.pc \in AtCache => z.kind # "nearby" /\ z.kind \in TwoCaches
    BY <1>1, <1>2, <1>3 DEF HandlerOK, AtCache, TwoCaches, H!Kinds
  <2>. QED BY <2>1, <2>2 DEF HandlerOK
<1>6. Late(z) = Late(q) /\ Late(z) \in {0, 1} BY <1>1, <1>3 DEF Late
<1>7. \A p \in Items : gone.public[p] \in Nat BY AgeFields
<1>8. \A a \in Authors : gone.followed[<<q.user, a>>] \in Nat BY <1>1, AgeFields
<1>9. PICK l \in {0, 1} : l = Late(q) BY <1>6
<1>10. PoolTTL \in Nat /\ GraphTTL \in Nat BY FeedFacts
<1>11. \A p \in items : gone.public[p] <= PoolTTL + 1 + l
  <2>1. CASE k[1] \in H!Pools
    <3>1. items \subseteq Items /\ \A p \in items : gone.public[p] <= PoolTTL + 1 BY <1>2, <2>1
    <3>. QED BY <1>7, <1>9, <1>10, <3>1
  <2>2. CASE k[1] \notin H!Pools
    <3>1. items = q.items BY <1>2, <2>2
    <3>. QED BY <1>9, <3>1 DEF Recent
  <2>. QED BY <2>1, <2>2
<1>12. \A a \in who : gone.followed[<<q.user, a>>] <= GraphTTL + 1 + l
  <2>1. CASE k[1] \notin H!Pools
    <3>1. who \subseteq Authors /\ \A a \in who : gone.followed[<<q.user, a>>] <= GraphTTL + 1 BY <1>2, <2>1
    <3>. QED BY <1>8, <1>9, <1>10, <3>1
  <2>2. CASE k[1] \in H!Pools
    <3>1. who = q.who BY <1>2, <2>2
    <3>. QED BY <1>9, <3>1 DEF Recent
  <2>. QED BY <2>1, <2>2
<1>13. Recent(z, gone)
  <2>1. z.val.items = {} /\ z.val.who = {} BY <1>3, AbsentCached
  <2>. QED BY <1>3, <1>6, <1>9, <1>11, <1>12, <2>1 DEF Recent
<1>. QED BY <1>3, <1>4, <1>5, <1>13, <1>2

\* Nothing was held longer ago than it was before.
Fresher(gone, was) ==
  /\ \A p \in Items : gone.public[p] <= was.public[p]
  /\ \A e \in Readers \X Authors : gone.followed[e] <= was.followed[e]

LEMMA StillRecent ==
  ASSUME NEW q \in Reader, NEW was \in FeedAges, NEW gone \in FeedAges, Fresher(gone, was), Recent(q, was),
         HandlerOK(q)
  PROVE  Recent(q, gone)
<1>1. CASE q.pc = "idle"
  <2>1. q = H!Idle BY <1>1 DEF HandlerOK
  <2>. QED BY <2>1, IdleRecent
<1>2. CASE q.pc # "idle"
  <2>1. q.user \in Readers BY <1>2 DEF HandlerOK
  <2>2. /\ q.who \subseteq Authors /\ q.items \subseteq Items
        /\ q.val.who \subseteq Authors /\ q.val.items \subseteq Items /\ Late(q) \in Int
    BY ReaderFields, CachedFields DEF Late
  <2>3. \A p \in Items : gone.public[p] \in Nat /\ was.public[p] \in Nat BY AgeFields
  <2>4. \A a \in Authors : /\ gone.followed[<<q.user, a>>] \in Nat
                           /\ was.followed[<<q.user, a>>] \in Nat
                           /\ gone.followed[<<q.user, a>>] <= was.followed[<<q.user, a>>]
    BY <2>1, AgeFields DEF Fresher
  <2>5. PoolTTL \in Nat /\ GraphTTL \in Nat BY FeedFacts
  <2>6. PICK l \in Int : l = Late(q) BY <2>2
  <2>7. \A p \in q.items : gone.public[p] <= PoolTTL + 1 + l
    <3>. SUFFICES ASSUME NEW p \in q.items PROVE gone.public[p] <= PoolTTL + 1 + l OBVIOUS
    <3>1. was.public[p] <= PoolTTL + 1 + l /\ p \in Items BY <2>2, <2>6 DEF Recent
    <3>2. gone.public[p] <= was.public[p] BY <3>1 DEF Fresher
    <3>. QED BY <2>3, <2>5, <3>1, <3>2
  <2>8. \A a \in q.who : gone.followed[<<q.user, a>>] <= GraphTTL + 1 + l
    <3>. SUFFICES ASSUME NEW a \in q.who PROVE gone.followed[<<q.user, a>>] <= GraphTTL + 1 + l OBVIOUS
    <3>1. was.followed[<<q.user, a>>] <= GraphTTL + 1 + l /\ a \in Authors BY <2>2, <2>6 DEF Recent
    <3>. QED BY <2>4, <2>5, <3>1
  <2>9. \A p \in q.val.items : gone.public[p] <= l
    <3>. SUFFICES ASSUME NEW p \in q.val.items PROVE gone.public[p] <= l OBVIOUS
    <3>1. was.public[p] <= l /\ p \in Items BY <2>2, <2>6 DEF Recent
    <3>2. gone.public[p] <= was.public[p] BY <3>1 DEF Fresher
    <3>. QED BY <2>3, <3>1, <3>2
  <2>10. \A a \in q.val.who : gone.followed[<<q.user, a>>] <= l
    <3>. SUFFICES ASSUME NEW a \in q.val.who PROVE gone.followed[<<q.user, a>>] <= l OBVIOUS
    <3>1. was.followed[<<q.user, a>>] <= l /\ a \in Authors BY <2>2, <2>6 DEF Recent
    <3>. QED BY <2>4, <3>1
  <2>. QED BY <2>6, <2>7, <2>8, <2>9, <2>10 DEF Recent
<1>. QED BY <1>1, <1>2

LEMMA KeyParts == ASSUME NEW k \in H!Keys PROVE k[1] \notin H!Pools => k[2] \in Readers
<1>1. k \in {"graph", "reelgraph"} \X Readers \/ k \in H!Pools \X {None} BY DEF H!Keys
<1>. QED BY <1>1

LEMMA StillCached ==
  ASSUME NEW k \in H!Keys, NEW c \in Cached, NEW was \in FeedAges, NEW gone \in FeedAges,
         Fresher(gone, was), CacheOK(k, c, was)
  PROVE  CacheOK(k, c, gone)
<1>1. c.left \in Nat /\ c.who \subseteq Authors /\ c.items \subseteq Items BY CachedFields
<1>2. PoolTTL \in Nat /\ GraphTTL \in Nat BY FeedFacts
<1>3. PICK n \in Nat : n = c.left BY <1>1
<1>4. ASSUME k[1] \in H!Pools, NEW p \in c.items PROVE gone.public[p] + n <= PoolTTL + 2
  <2>1. was.public[p] + n <= PoolTTL + 2 BY <1>3, <1>4 DEF CacheOK
  <2>2. gone.public[p] \in Nat /\ was.public[p] \in Nat BY <1>1, <1>4, AgeFields
  <2>3. gone.public[p] <= was.public[p] BY <1>1, <1>4 DEF Fresher
  <2>. QED BY <1>2, <2>1, <2>2, <2>3
<1>5. ASSUME k[1] \notin H!Pools, NEW a \in c.who PROVE gone.followed[<<k[2], a>>] + n <= GraphTTL + 2
  <2>1. was.followed[<<k[2], a>>] + n <= GraphTTL + 2 BY <1>3, <1>5 DEF CacheOK
  <2>2. <<k[2], a>> \in Readers \X Authors BY <1>1, <1>5, KeyParts
  <2>3. gone.followed[<<k[2], a>>] \in Nat /\ was.followed[<<k[2], a>>] \in Nat BY <2>2, AgeFields
  <2>4. gone.followed[<<k[2], a>>] <= was.followed[<<k[2], a>>] BY <2>2 DEF Fresher
  <2>. QED BY <1>2, <2>1, <2>3, <2>4
<1>. QED BY <1>3, <1>4, <1>5 DEF CacheOK

LEMMA SameAges == ASSUME NEW gone \in FeedAges PROVE Fresher(gone, gone)
<1>1. \A p \in Items : gone.public[p] \in Nat BY AgeFields
<1>2. \A e \in Readers \X Authors : gone.followed[e] \in Nat BY AgeFields
<1>. QED BY <1>1, <1>2 DEF Fresher

\* One handler moves; who waits for it still has it to wait for.
LEMMA OneHandler ==
  ASSUME hReq \in [Requests -> Reader], hGone \in FeedAges, HandlersOK(hReq, hGone),
         NEW gone \in FeedAges, Fresher(gone, hGone), NEW r \in Requests, NEW q \in Reader,
         HandlerOK(q), Recent(q, gone), NEW handlers, handlers = [hReq EXCEPT ![r] = q],
         WaitOK(q, handlers),
         hReq[r].pc \in Flying => q.pc \in Flying /\ KeyOf(q) = KeyOf(hReq[r])
  PROVE  handlers \in [Requests -> Reader] /\ HandlersOK(handlers, gone)
<1>1. handlers \in [Requests -> Reader] OBVIOUS
<1>2. ASSUME NEW o \in Requests PROVE HandlerOK(handlers[o]) /\ Recent(handlers[o], gone)
  <2>1. CASE o = r BY <2>1
  <2>2. CASE o # r
    <3>1. handlers[o] = hReq[o] /\ hReq[o] \in Reader BY <2>2
    <3>2. HandlerOK(hReq[o]) /\ Recent(hReq[o], hGone) BY DEF HandlersOK
    <3>. QED BY <3>1, <3>2, StillRecent
  <2>. QED BY <2>1, <2>2
<1>3. ASSUME NEW o \in Requests PROVE WaitOK(handlers[o], handlers)
  <2>1. CASE o = r BY <2>1
  <2>2. CASE o # r
    <3>1. handlers[o] = hReq[o] /\ WaitOK(hReq[o], hReq) BY <2>2 DEF HandlersOK
    <3>2. ASSUME hReq[o].pc = "wait"
          PROVE  /\ hReq[o].of \in Requests /\ handlers[hReq[o].of].pc \in Flying
                 /\ KeyOf(handlers[hReq[o].of]) = KeyOf(hReq[o])
      <4>1. PICK f \in Requests : f = hReq[o].of /\ hReq[f].pc \in Flying
                                  /\ KeyOf(hReq[f]) = KeyOf(hReq[o])
        BY <3>1, <3>2 DEF WaitOK
      <4>2. CASE f = r
        <5>1. handlers[f] = q BY <4>2
        <5>. QED BY <4>1, <4>2, <5>1
      <4>3. CASE f # r
        <5>1. handlers[f] = hReq[f] BY <4>3
        <5>. QED BY <4>1, <5>1
      <4>. QED BY <4>2, <4>3
    <3>. QED BY <3>1, <3>2 DEF WaitOK
  <2>. QED BY <2>1, <2>2
<1>. QED BY <1>1, <1>2, <1>3 DEF HandlersOK

-----------------------------------------------------------------------------
(* Time, and what it is measured for.                                            *)

LEMMA MinTwo ==
  ASSUME NEW a \in Nat, NEW b \in Nat
  PROVE  H!Min({a, b}) \in {a, b} /\ H!Min({a, b}) <= a /\ H!Min({a, b}) <= b
<1>1. \E x \in {a, b} : \A y \in {a, b} : x =< y
  <2>1. CASE a <= b BY <2>1
  <2>2. CASE b <= a BY <2>2
  <2>. QED BY <2>1, <2>2
<1>. QED BY <1>1 DEF H!Min

\* Others publish, hide and follow: what is there now has been gone for no time.
LEMMA SeenAges ==
  ASSUME hGone \in FeedAges, NEW items \in [Items -> FItem], NEW edges, edges \subseteq Readers \X Authors,
         H!Seen(items, edges)
  PROVE  hGone' \in FeedAges /\ AgesOK(items, edges, hGone') /\ Fresher(hGone', hGone)
<1>1. hGone' = [public |-> [p \in Items |-> IF H!IsPublic(items[p]) THEN 0 ELSE hGone.public[p]],
                shared |-> [p \in Items |-> IF H!IsShared(items[p]) THEN 0 ELSE hGone.shared[p]],
                followed |-> [e \in Readers \X Authors |-> IF e \in edges THEN 0 ELSE hGone.followed[e]]]
  BY DEF H!Seen, H!LastHeld
<1>2. \A p \in Items : hGone.public[p] \in Nat /\ hGone.shared[p] \in Nat BY AgeFields
<1>3. \A e \in Readers \X Authors : hGone.followed[e] \in Nat BY AgeFields
<1>4. hGone' \in FeedAges BY <1>1, <1>2, <1>3 DEF FeedAges
<1>5. \A p \in Items : /\ hGone'.public[p] = IF H!IsPublic(items[p]) THEN 0 ELSE hGone.public[p]
                       /\ hGone'.shared[p] = IF H!IsShared(items[p]) THEN 0 ELSE hGone.shared[p]
  BY <1>1
<1>6. \A e \in Readers \X Authors : hGone'.followed[e] = IF e \in edges THEN 0 ELSE hGone.followed[e]
  BY <1>1
<1>7. AgesOK(items, edges, hGone') BY <1>5, <1>6 DEF AgesOK
<1>8. Fresher(hGone', hGone) BY <1>2, <1>3, <1>5, <1>6 DEF Fresher
<1>. QED BY <1>4, <1>7, <1>8

\* A tick later.
LEMMA TickAges ==
  ASSUME hGone \in FeedAges, hFollows \subseteq Readers \X Authors, H!Tick
  PROVE  /\ hGone' \in FeedAges /\ AgesOK(hItems, hFollows, hGone')
         /\ \A p \in Items : hGone'.public[p] <= hGone.public[p] + 1
         /\ \A e \in Readers \X Authors : hGone'.followed[e] <= hGone.followed[e] + 1
<1>. DEFINE Up(n) == H!Min({n + 1, H!Long})
<1>1. hGone' = [public |-> [p \in Items |-> IF H!IsPublic(hItems[p]) THEN 0 ELSE Up(hGone.public[p])],
                shared |-> [p \in Items |-> IF H!IsShared(hItems[p]) THEN 0 ELSE Up(hGone.shared[p])],
                followed |-> [e \in Readers \X Authors |-> IF e \in hFollows THEN 0
                                                           ELSE Up(hGone.followed[e])]]
  BY DEF H!Tick, H!LastHeld
<1>2. \A n \in Nat : Up(n) \in Nat /\ Up(n) <= n + 1
  <2>. SUFFICES ASSUME NEW n \in Nat PROVE Up(n) \in Nat /\ Up(n) <= n + 1 OBVIOUS
  <2>1. PICK a \in Nat, b \in Nat : a = n + 1 /\ b = H!Long BY FeedFacts DEF H!Long
  <2>2. H!Min({a, b}) \in {a, b} /\ H!Min({a, b}) <= a BY MinTwo
  <2>. QED BY <2>1, <2>2
<1>. HIDE DEF Up
<1>3. \A p \in Items : hGone.public[p] \in Nat /\ hGone.shared[p] \in Nat BY AgeFields
<1>4. \A e \in Readers \X Authors : hGone.followed[e] \in Nat BY AgeFields
<1>5. hGone' \in FeedAges BY <1>1, <1>2, <1>3, <1>4 DEF FeedAges
<1>6. \A p \in Items : /\ hGone'.public[p] = IF H!IsPublic(hItems[p]) THEN 0 ELSE Up(hGone.public[p])
                       /\ hGone'.shared[p] = IF H!IsShared(hItems[p]) THEN 0 ELSE Up(hGone.shared[p])
  BY <1>1
<1>7. \A e \in Readers \X Authors :
        hGone'.followed[e] = IF e \in hFollows THEN 0 ELSE Up(hGone.followed[e])
  BY <1>1
<1>8. AgesOK(hItems, hFollows, hGone') BY <1>6, <1>7 DEF AgesOK
<1>9. \A p \in Items : hGone'.public[p] <= hGone.public[p] + 1 BY <1>2, <1>3, <1>6
<1>10. \A e \in Readers \X Authors : hGone'.followed[e] <= hGone.followed[e] + 1 BY <1>2, <1>4, <1>7
<1>. QED BY <1>5, <1>8, <1>9, <1>10

-----------------------------------------------------------------------------
(* The walk through the feed by date.                                             *)

LEMMA TurnedFields == ASSUME NEW w \in Turned
  PROVE /\ w.by \in Readers \cup {None} /\ w.before \in Nat /\ w.owed \subseteq Items
        /\ w.shown \subseteq Items /\ w.twice \in BOOLEAN /\ w.over \in BOOLEAN
        /\ w.blind \subseteq Authors \cup {None} /\ w.cut \in BOOLEAN
BY DEF Turned

LEMMA ItemFields == ASSUME NEW d \in FItem
  PROVE d.author \in Authors \cup {None} /\ d.visibility \in H!Visibilities /\ d.active \in BOOLEAN
        /\ d.at \in Nat
BY DEF FItem

LEMMA NoItemHidden == /\ H!NoItem \in FItem /\ H!NoItem.at = 0
                      /\ ~H!IsShared(H!NoItem) /\ ~H!IsPublic(H!NoItem)
BY DEF H!NoItem, FItem, H!Visibilities, H!IsShared, H!IsPublic

LEMMA NoWalkOK == ASSUME NEW items PROVE H!NoWalk \in Turned /\ WalkOK(H!NoWalk, items)
BY DEF H!NoWalk, Turned, WalkOK, Due

\* What was published stays of its instant and author, and others publish beside it.
Beside(items, was) ==
  \A p \in Items : was[p] # H!NoItem =>
    /\ items[p] # H!NoItem /\ items[p].at = was[p].at /\ items[p].author = was[p].author

LEMMA WalkChanges ==
  ASSUME hWalk \in Turned, hItems \in [Items -> FItem], WalkOK(hWalk, hItems), ItemsOK(hItems),
         NEW items \in [Items -> FItem], NEW edges, Beside(items, hItems), ItemsOK(items),
         H!Owed(items, edges)
  PROVE  hWalk' \in Turned /\ WalkOK(hWalk', items)
<1>1. PICK owed \in SUBSET hWalk.owed : /\ hWalk' = [hWalk EXCEPT !.owed = owed]
                                        /\ \A p \in owed : H!IsShared(items[p])
  <2>. DEFINE Still == {p \in hWalk.owed :
                          H!InFollowing(hWalk.by, items[p], H!FollowedBy(hWalk.by, edges))}
  <2>1. hWalk' = [hWalk EXCEPT !.owed = Still] BY DEF H!Owed
  <2>2. Still \in SUBSET hWalk.owed /\ \A p \in Still : H!IsShared(items[p]) BY DEF H!InFollowing
  <2>. HIDE DEF Still
  <2>. QED BY <2>1, <2>2
<1>2. owed \subseteq Items BY <1>1, TurnedFields
<1>3. hWalk' \in Turned BY <1>1, <1>2 DEF Turned
<1>4. /\ hWalk'.before = hWalk.before /\ hWalk'.shown = hWalk.shown /\ hWalk'.twice = hWalk.twice
      /\ hWalk'.over = hWalk.over /\ hWalk'.owed = owed
      /\ hWalk'.blind = hWalk.blind /\ hWalk'.cut = hWalk.cut
  BY <1>1 DEF Turned
<1>5. \A p \in hWalk.shown : items[p] # H!NoItem /\ hWalk.before > 0 /\ hWalk.before <= items[p].at
  <2>. SUFFICES ASSUME NEW p \in hWalk.shown
                PROVE  items[p] # H!NoItem /\ hWalk.before > 0 /\ hWalk.before <= items[p].at
    OBVIOUS
  <2>1. p \in Items BY TurnedFields
  <2>2. hItems[p] # H!NoItem /\ hWalk.before > 0 /\ hWalk.before <= hItems[p].at BY DEF WalkOK
  <2>. QED BY <2>1, <2>2 DEF Beside
<1>6. \A p \in owed : p \notin Reels /\ H!IsShared(items[p]) BY <1>1 DEF WalkOK
<1>7. ASSUME NEW p \in Items, Due(p, hWalk', items)
      PROVE  /\ p \in hWalk.shown \/ hWalk.before = 0 \/ items[p].at < hWalk.before
             /\ hWalk.over /\ ~hWalk.cut => p \in hWalk.shown
  <2>0. p \in owed /\ Single(p, items) /\ items[p].author \notin hWalk.blind
    BY <1>4, <1>7 DEF Due
  <2>1. p \in Items /\ p \in hWalk.owed /\ H!IsShared(hItems[p]) BY <1>1, <1>2, <2>0 DEF WalkOK
  <2>2. hItems[p] # H!NoItem BY <2>1, NoItemHidden
  <2>3. items[p].at = hItems[p].at /\ items[p].author = hItems[p].author BY <2>1, <2>2 DEF Beside
  <2>4. hItems[p].at > 0 BY <2>1, <2>2 DEF ItemsOK
  <2>5. Single(p, hItems)
    <3>. SUFFICES ASSUME NEW x \in Items \ {p}, hItems[x].at = hItems[p].at PROVE FALSE BY DEF Single
    <3>1. CASE hItems[x] = H!NoItem
      <4>1. hItems[x].at = 0 BY <3>1, NoItemHidden
      <4>. QED BY <2>1, <2>4, <4>1
    <3>2. CASE hItems[x] # H!NoItem
      <4>1. items[x].at = hItems[x].at BY <3>2 DEF Beside
      <4>. QED BY <2>0, <2>3, <4>1 DEF Single
    <3>. QED BY <3>1, <3>2
  <2>6. Due(p, hWalk, hItems) BY <2>0, <2>1, <2>3, <2>5 DEF Due
  <2>. QED BY <2>1, <2>3, <2>6 DEF WalkOK
<1>8. ~hWalk.twice BY DEF WalkOK
<1>. QED BY <1>3, <1>4, <1>5, <1>6, <1>7, <1>8 DEF WalkOK

-----------------------------------------------------------------------------
(* The first and the last instant of a set of items.                             *)

\* A family of sets that has the empty set, and with a set also that with one more
\* element of S, has S.
LEMMA SetInduction ==
  ASSUME NEW A, IsFiniteSet(A), NEW F, {} \in F,
         \A M \in SUBSET A : \A x \in A \ M : M \in F => M \cup {x} \in F
  PROVE  A \in F
<1>1. FiniteSubsetsOf(A) = SUBSET A BY FS_FiniteSubsetsOfFinite
<1>2. IsWellFoundedOn(StrictSubsetOrdering(A), SUBSET A)
  BY <1>1, FS_StrictSubsetOrderingWellFounded
<1>. DEFINE Bad == {M \in SUBSET A : M \notin F}
<1>3. SUFFICES ASSUME Bad # {} PROVE FALSE OBVIOUS
<1>4. PICK M \in Bad : \A N \in Bad : ~(<<N, M>> \in StrictSubsetOrdering(A))
  <2>1. Bad \subseteq SUBSET A OBVIOUS
  <2>. HIDE DEF Bad
  <2>2. \E x \in Bad : \A y \in Bad : ~(<<y, x>> \in StrictSubsetOrdering(A))
    BY <1>2, <1>3, <2>1, WFMin
  <2>. QED BY <2>2
<1>5. PICK x \in M : TRUE BY <1>4
<1>6. M \ {x} \notin Bad
  <2>1. <<M \ {x}, M>> \in StrictSubsetOrdering(A) BY <1>4, <1>5 DEF StrictSubsetOrdering
  <2>. QED BY <1>4, <2>1
<1>7. M \ {x} \in F /\ M \ {x} \in SUBSET A /\ x \in A \ (M \ {x}) BY <1>4, <1>5, <1>6
<1>8. (M \ {x}) \cup {x} = M BY <1>5
<1>. QED BY <1>4, <1>7, <1>8

LEMMA LatestAt ==
  ASSUME hItems \in [Items -> FItem] PROVE H!Latest \in Nat
<1>. DEFINE F == {M \in SUBSET Items : M = {} \/ \E p \in M : \A q \in M : hItems[p].at >= hItems[q].at}
<1>1. \A p \in Items : hItems[p].at \in Nat BY ItemFields
<1>2. {} \in F OBVIOUS
<1>3. ASSUME NEW M \in SUBSET Items, NEW x \in Items \ M, M \in F PROVE M \cup {x} \in F
  <2>1. CASE M = {}
    <3>1. \A q \in M \cup {x} : hItems[x].at >= hItems[q].at BY <1>1, <2>1
    <3>. QED BY <3>1
  <2>2. CASE M # {}
    <3>1. PICK p \in M : \A q \in M : hItems[p].at >= hItems[q].at BY <1>3, <2>2
    <3>2. CASE hItems[x].at >= hItems[p].at
      <4>1. \A q \in M \cup {x} : hItems[x].at >= hItems[q].at BY <1>1, <3>1, <3>2
      <4>. QED BY <4>1
    <3>3. CASE hItems[p].at >= hItems[x].at
      <4>1. \A q \in M \cup {x} : hItems[p].at >= hItems[q].at BY <3>1, <3>3
      <4>. QED BY <4>1
    <3>. QED BY <1>1, <3>1, <3>2, <3>3
  <2>. QED BY <2>1, <2>2
<1>4. Items \in F
  <2>. HIDE DEF F
  <2>. QED BY <1>2, <1>3, FeedFacts, SetInduction
<1>5. PICK p \in Items : \A q \in Items : hItems[p].at >= hItems[q].at BY <1>4, FeedFacts
<1>. DEFINE S == {hItems[p_1].at : p_1 \in Items}
<1>6. \E x \in S : \A y \in S : x >= y
  <2>1. hItems[p].at \in S /\ \A y \in S : hItems[p].at >= y BY <1>5
  <2>. QED BY <2>1
<1>7. S \subseteq Nat BY <1>1
<1>8. H!Latest = CHOOSE x \in S : \A y \in S : x >= y BY DEF H!Latest, H!Max
<1>. HIDE DEF S
<1>9. H!Latest \in S BY <1>6, <1>8
<1>. QED BY <1>7, <1>9

\* The cursor is the instant of the page's last post.
LEMMA CursorAt ==
  ASSUME hItems \in [Items -> FItem], NEW page \in SUBSET Items, page # {}, NEW rest,
         NEW c, c = H!Cursor(page, rest)
  PROVE  c \in Nat /\ (\E p \in page : c = hItems[p].at) /\ \A p \in page : c <= hItems[p].at
<1>. DEFINE S == {hItems[p].at : p \in page}
<1>1. \A p \in page : hItems[p].at \in Nat /\ hItems[p].at \in S BY ItemFields
<1>2. S \subseteq Nat /\ S # {} BY <1>1
<1>3. H!Cursor(page, rest) = CHOOSE x \in S : \A y \in S : x =< y BY DEF H!Cursor, H!Min
<1>4. \A x \in S : \E p \in page : x = hItems[p].at OBVIOUS
<1>. HIDE DEF S
<1>5. \E x \in S : \A y \in S : x =< y
  <2>1. IsWellFoundedOn(OpToRel(<, Nat), Nat) BY NatLessThanWellFounded
  <2>2. PICK x \in S : \A y \in S : ~(<<y, x>> \in OpToRel(<, Nat)) BY <1>2, <2>1, WFMin
  <2>3. \A y \in S : ~(y < x) BY <1>2, <2>2 DEF OpToRel
  <2>. QED BY <1>2, <2>3
<1>6. c \in S /\ \A y \in S : c =< y BY <1>3, <1>5
<1>. QED BY <1>1, <1>2, <1>4, <1>6

\* What getFollowingFeed finds, and where the walk stands after a page of it.
Found(v, who) == {p \in Items \ Reels : /\ H!InFollowing(v, hItems[p], who)
                                        /\ hWalk.before > 0 => hItems[p].at < hWalk.before}
Blinded(who) == {hItems[p].author : p \in hWalk.owed} \ who
Turn(blind, page, before, over, cut) ==
  [hWalk EXCEPT !.blind = blind, !.twice = hWalk.twice \/ page \cap hWalk.shown # {},
                !.shown = hWalk.shown \cup page, !.before = before, !.over = over, !.cut = cut]

\* A page of the feed by date: the latest before the cursor, of those that the reader may
\* see and whose authors he follows, as it was cached.
LEMMA PageTurned ==
  ASSUME hWalk \in Turned, hItems \in [Items -> FItem], WalkOK(hWalk, hItems), ItemsOK(hItems),
         NEW v, NEW who, NEW found, found = Found(v, who), NEW page \in SUBSET found,
         \A p \in page, x \in found \ page : hItems[x].at <= hItems[p].at,
         NEW blind, blind = hWalk.blind \cup Blinded(who), NEW over \in BOOLEAN, NEW cut \in BOOLEAN,
         over /\ ~cut => found = page,
         NEW before, before = (IF page = {} THEN hWalk.before ELSE H!Cursor(page, found \ page)),
         NEW w, w = Turn(blind, page, before, over, cut)
  PROVE  w \in Turned /\ WalkOK(w, hItems)
<1>1. found \subseteq Items /\ page \subseteq Items BY DEF Found
<1>2. \A p \in Items : hItems[p].at \in Nat BY ItemFields
<1>3. \A p \in page : /\ hItems[p] # H!NoItem
                      /\ hWalk.before > 0 => hItems[p].at < hWalk.before
  BY NoItemHidden DEF Found, H!InFollowing
<1>4. PICK b0 \in Nat : b0 = hWalk.before BY TurnedFields
<1>5. \A p \in page : hItems[p].at > 0 BY <1>1, <1>3 DEF ItemsOK
<1>6. before \in Nat /\ (page = {} => before = b0)
      /\ (page # {} => (\E p \in page : before = hItems[p].at) /\ \A p \in page : before <= hItems[p].at)
  <2>1. CASE page = {} BY <1>4, <2>1
  <2>2. CASE page # {}
    <3>1. PICK rest : rest = found \ page OBVIOUS
    <3>2. page \in SUBSET Items /\ before = H!Cursor(page, rest) BY <1>1, <2>2, <3>1
    <3>3. before \in Nat /\ (\E p \in page : before = hItems[p].at)
          /\ \A p \in page : before <= hItems[p].at
      BY <2>2, <3>2, CursorAt
    <3>. QED BY <2>2, <3>3
  <2>. QED BY <2>1, <2>2
<1>7. page # {} => before > 0 /\ (b0 > 0 => before < b0)
  <2>. SUFFICES ASSUME page # {} PROVE before > 0 /\ (b0 > 0 => before < b0) OBVIOUS
  <2>1. PICK p \in page : before = hItems[p].at BY <1>6
  <2>. QED BY <1>3, <1>4, <1>5, <2>1
<1>8. page \cap hWalk.shown = {}
  <2>. SUFFICES ASSUME NEW p \in page, p \in hWalk.shown PROVE FALSE OBVIOUS
  <2>1. b0 > 0 /\ b0 <= hItems[p].at BY <1>4 DEF WalkOK
  <2>2. hItems[p].at < b0 /\ hItems[p].at \in Nat BY <1>1, <1>2, <1>3, <1>4, <2>1
  <2>. QED BY <2>1, <2>2
<1>9. /\ w.by = hWalk.by /\ w.before = before /\ w.owed = hWalk.owed /\ w.blind = blind
      /\ w.shown = hWalk.shown \cup page /\ w.over = over /\ w.cut = cut
      /\ w.twice = (hWalk.twice \/ page \cap hWalk.shown # {})
  BY DEF Turn, Turned
<1>10. w \in Turned
  <2>0. \A p \in hWalk.owed : hItems[p].author \in Authors \cup {None} BY TurnedFields, ItemFields
  <2>1. /\ blind \subseteq Authors \cup {None} /\ hWalk.shown \cup page \subseteq Items
        /\ (hWalk.twice \/ page \cap hWalk.shown # {}) \in BOOLEAN
    BY <1>1, <2>0, TurnedFields DEF Blinded
  <2>. QED BY <1>6, <2>1 DEF Turn, Turned
<1>11. ~w.twice BY <1>8, <1>9 DEF WalkOK
<1>12. ASSUME NEW p \in w.shown PROVE hItems[p] # H!NoItem /\ w.before > 0 /\ w.before <= hItems[p].at
  <2>1. CASE p \in page BY <1>3, <1>6, <1>7, <1>9, <2>1
  <2>2. CASE p \in hWalk.shown
    <3>1. hItems[p] # H!NoItem /\ b0 > 0 /\ b0 <= hItems[p].at BY <1>4, <2>2 DEF WalkOK
    <3>2. before > 0 /\ before <= b0 BY <1>4, <1>6, <1>7, <3>1
    <3>3. hItems[p].at \in Nat BY <1>2, <2>2, TurnedFields
    <3>. QED BY <1>4, <1>6, <1>9, <3>1, <3>2, <3>3
  <2>. QED BY <1>9, <1>12, <2>1, <2>2
<1>13. ASSUME NEW p \in w.owed PROVE p \notin Reels /\ H!IsShared(hItems[p]) BY <1>9, <1>13 DEF WalkOK
<1>14. ASSUME NEW p \in Items, Due(p, w, hItems)
       PROVE  /\ p \in w.shown \/ w.before = 0 \/ hItems[p].at < w.before
              /\ w.over /\ ~w.cut => p \in w.shown
  <2>0. /\ p \in hWalk.owed /\ Single(p, hItems)
        /\ hItems[p].author \notin hWalk.blind /\ hItems[p].author \in who
    BY <1>9, <1>14 DEF Due, Blinded
  <2>1. p \notin Reels /\ H!IsShared(hItems[p]) BY <1>9, <1>13, <2>0
  <2>2. p \in hWalk.shown \/ b0 = 0 \/ hItems[p].at < b0 BY <1>4, <2>0 DEF WalkOK, Due
  <2>3. CASE p \in hWalk.shown \/ p \in page BY <1>9, <2>3
  <2>4. CASE p \notin hWalk.shown /\ p \notin page
    <3>1. b0 = 0 \/ hItems[p].at < b0 BY <2>2, <2>4
    <3>2. p \in found
      <4>1. b0 > 0 => hItems[p].at < b0 BY <3>1
      <4>. QED BY <1>4, <2>0, <2>1, <4>1 DEF Found, H!InFollowing
    <3>3. found # page BY <2>4, <3>2
    <3>6. ~(w.over /\ ~w.cut) BY <1>9, <3>3
    <3>4. CASE page = {} BY <1>6, <1>9, <3>1, <3>4, <3>6
    <3>5. CASE page # {}
      <4>1. PICK x \in page : before = hItems[x].at BY <1>6, <3>5
      <4>2. hItems[p].at <= hItems[x].at BY <2>4, <3>2
      <4>3. hItems[x].at # hItems[p].at BY <1>1, <2>0, <2>4 DEF Single
      <4>4. hItems[p].at \in Nat /\ hItems[x].at \in Nat BY <1>1, <1>2
      <4>5. hItems[p].at < before BY <4>1, <4>2, <4>3, <4>4
      <4>. QED BY <1>9, <3>6, <4>5
    <3>. QED BY <3>4, <3>5
  <2>. QED BY <2>3, <2>4
<1>. QED BY <1>10, <1>11, <1>12, <1>13, <1>14 DEF WalkOK

-----------------------------------------------------------------------------
(* The steps of others, and of time.                                             *)

LEMMA FeedFields == ASSUME FeedInv
  PROVE /\ hItems \in [Items -> FItem] /\ hFollows \subseteq Readers \X Authors
        /\ hCache \in [H!Keys -> Cached] /\ hReq \in [Requests -> Reader]
        /\ hCalls \in 0 .. MaxFeedCalls /\ hGone \in FeedAges /\ hWalk \in Turned
        /\ HandlersOK(hReq, hGone) /\ CachesOK(hCache, hGone) /\ AgesOK(hItems, hFollows, hGone)
        /\ ItemsOK(hItems) /\ WalkOK(hWalk, hItems) /\ hOld = {}
BY DEF FeedInv, FeedTyped

LEMMA Spent == ASSUME H!Spend, hCalls \in 0 .. MaxFeedCalls PROVE hCalls' \in 0 .. MaxFeedCalls
BY FeedFacts DEF H!Spend

LEMMA OthersAct ==
  ASSUME FeedInv, hItems' \in [Items -> FItem], hFollows' \subseteq Readers \X Authors,
         H!Changes(hItems', hFollows'), Beside(hItems', hItems), ItemsOK(hItems'),
         hCache' = hCache, hOld' = hOld, hCalls' \in 0 .. MaxFeedCalls
  PROVE  /\ hGone' \in FeedAges /\ Fresher(hGone', hGone)
         /\ hReq' \in [Requests -> Reader] /\ HandlersOK(hReq', hGone') => FeedInv'
<1>1. H!Seen(hItems', hFollows') /\ H!Owed(hItems', hFollows') BY DEF H!Changes
<1>2. PICK items, edges : items = hItems' /\ edges = hFollows' OBVIOUS
<1>3. hGone' \in FeedAges /\ AgesOK(items, edges, hGone') /\ Fresher(hGone', hGone)
  <2>1. H!Seen(items, edges) BY <1>1, <1>2
  <2>. QED BY <1>2, <2>1, FeedFields, SeenAges
<1>4. hWalk' \in Turned /\ WalkOK(hWalk', items)
  <2>1. H!Owed(items, edges) BY <1>1, <1>2
  <2>. QED BY <1>2, <2>1, FeedFields, WalkChanges
<1>5. CachesOK(hCache, hGone')
  <2>. SUFFICES ASSUME NEW k \in H!Keys PROVE CacheOK(k, hCache[k], hGone') BY DEF CachesOK
  <2>1. hCache[k] \in Cached /\ CacheOK(k, hCache[k], hGone) BY FeedFields DEF CachesOK
  <2>. QED BY <1>3, <2>1, FeedFields, StillCached
<1>6. ASSUME hReq' \in [Requests -> Reader], HandlersOK(hReq', hGone') PROVE FeedInv'
  <2>1. FeedTyped' BY <1>3, <1>4, <1>6, FeedFields DEF FeedTyped
  <2>2. AgesOK(hItems', hFollows', hGone') /\ WalkOK(hWalk', hItems') BY <1>2, <1>3, <1>4
  <2>3. CachesOK(hCache', hGone') BY <1>5
  <2>4. hOld' = {} BY FeedFields
  <2>. QED BY <1>6, <2>1, <2>2, <2>3, <2>4 DEF FeedInv
<1>. QED BY <1>3, <1>6

\* Nobody's handler moves.
LEMMA HandlersStay ==
  ASSUME hReq \in [Requests -> Reader], hGone \in FeedAges, HandlersOK(hReq, hGone),
         NEW gone \in FeedAges, Fresher(gone, hGone)
  PROVE  HandlersOK(hReq, gone)
<1>. SUFFICES ASSUME NEW r \in Requests
              PROVE  HandlerOK(hReq[r]) /\ Recent(hReq[r], gone) /\ WaitOK(hReq[r], hReq)
  BY DEF HandlersOK
<1>1. HandlerOK(hReq[r]) /\ Recent(hReq[r], hGone) /\ WaitOK(hReq[r], hReq) /\ hReq[r] \in Reader
  BY DEF HandlersOK
<1>. QED BY <1>1, StillRecent

LEMMA PublishHolds ==
  ASSUME FeedInv, NEW p \in Items, NEW a \in Authors, NEW visibility \in H!Visibilities,
         H!Publish(p, a, visibility)
  PROVE  FeedInv'
<1>1. hItems \in [Items -> FItem] /\ ItemsOK(hItems) /\ hItems[p] = H!NoItem
  BY FeedFields DEF H!Publish, H!Exists
<1>2. PICK at \in {H!Latest, H!Latest + 1} \ {0} :
        hItems' = [hItems EXCEPT ![p] = [author |-> a, visibility |-> visibility,
                                         active |-> TRUE, at |-> at]]
  BY DEF H!Publish
<1>3. at \in Nat /\ at > 0 BY <1>1, <1>2, LatestAt
<1>4. PICK d \in FItem : d = [author |-> a, visibility |-> visibility, active |-> TRUE, at |-> at]
                         /\ d.at = at
  <2>1. PICK d : d = [author |-> a, visibility |-> visibility, active |-> TRUE, at |-> at] OBVIOUS
  <2>2. d \in FItem BY <1>3, <2>1 DEF FItem
  <2>3. d.at = at BY <2>1
  <2>. QED BY <2>1, <2>2, <2>3
<1>5. hItems' = [hItems EXCEPT ![p] = d] /\ d # H!NoItem BY <1>2, <1>3, <1>4, NoItemHidden
<1>6. hItems' \in [Items -> FItem] /\ Beside(hItems', hItems) /\ ItemsOK(hItems')
  BY <1>1, <1>3, <1>4, <1>5 DEF Beside, ItemsOK
<1>7. /\ hFollows' = hFollows /\ hCache' = hCache /\ hReq' = hReq /\ hOld' = hOld
      /\ H!Changes(hItems', hFollows) /\ H!Spend
  BY DEF H!Publish
<1>8. H!Changes(hItems', hFollows') BY <1>7
<1>9. hCalls' \in 0 .. MaxFeedCalls BY <1>7, Spent, FeedFields
<1>10. /\ hGone' \in FeedAges /\ Fresher(hGone', hGone)
       /\ hReq' \in [Requests -> Reader] /\ HandlersOK(hReq', hGone') => FeedInv'
  BY <1>6, <1>7, <1>8, <1>9, OthersAct, FeedFields
<1>11. HandlersOK(hReq, hGone') BY <1>10, FeedFields, HandlersStay
<1>. QED BY <1>7, <1>10, <1>11, FeedFields

LEMMA HideHolds == ASSUME FeedInv, NEW p \in Items, H!Hide(p) PROVE FeedInv'
<1>1. hItems \in [Items -> FItem] /\ ItemsOK(hItems) /\ hItems[p] # H!NoItem /\ hItems[p] \in FItem
  BY FeedFields DEF H!Hide, H!Exists
<1>2. hItems[p].at > 0 /\ hItems[p].at \in Nat BY <1>1, ItemFields DEF ItemsOK
<1>3. PICK d \in FItem : /\ d.at = hItems[p].at /\ d.author = hItems[p].author
                         /\ hItems' = [hItems EXCEPT ![p] = d]
  <2>1. CASE \E visibility \in H!Visibilities \ {hItems[p].visibility} :
               hItems' = [hItems EXCEPT ![p].visibility = visibility]
    <3>1. PICK visibility \in H!Visibilities : hItems' = [hItems EXCEPT ![p].visibility = visibility]
      BY <2>1
    <3>2. PICK d : d = [hItems[p] EXCEPT !.visibility = visibility] OBVIOUS
    <3>3. d \in FItem /\ d.at = hItems[p].at /\ d.author = hItems[p].author BY <1>1, <3>2 DEF FItem
    <3>4. hItems' = [hItems EXCEPT ![p] = d] BY <3>1, <3>2
    <3>. QED BY <3>3, <3>4
  <2>2. CASE hItems' = [hItems EXCEPT ![p].active = FALSE]
    <3>1. PICK d : d = [hItems[p] EXCEPT !.active = FALSE] OBVIOUS
    <3>2. d \in FItem /\ d.at = hItems[p].at /\ d.author = hItems[p].author BY <1>1, <3>1 DEF FItem
    <3>3. hItems' = [hItems EXCEPT ![p] = d] BY <2>2, <3>1
    <3>. QED BY <3>2, <3>3
  <2>. QED BY <2>1, <2>2 DEF H!Hide
<1>4. d # H!NoItem BY <1>2, <1>3, NoItemHidden
<1>5. hItems' \in [Items -> FItem] /\ Beside(hItems', hItems) /\ ItemsOK(hItems')
  BY <1>1, <1>2, <1>3, <1>4 DEF Beside, ItemsOK
<1>6. /\ hFollows' = hFollows /\ hCache' = hCache /\ hReq' = hReq /\ hOld' = hOld
      /\ H!Changes(hItems', hFollows) /\ H!Spend
  BY DEF H!Hide
<1>7. H!Changes(hItems', hFollows') BY <1>6
<1>8. hCalls' \in 0 .. MaxFeedCalls BY <1>6, Spent, FeedFields
<1>9. /\ hGone' \in FeedAges /\ Fresher(hGone', hGone)
      /\ hReq' \in [Requests -> Reader] /\ HandlersOK(hReq', hGone') => FeedInv'
  BY <1>5, <1>6, <1>7, <1>8, OthersAct, FeedFields
<1>10. HandlersOK(hReq, hGone') BY <1>9, FeedFields, HandlersStay
<1>. QED BY <1>6, <1>9, <1>10, FeedFields

LEMMA ToggleHolds ==
  ASSUME FeedInv, NEW r \in Requests, NEW v \in Readers, NEW a \in Authors, H!ToggleFollow(r, v, a)
  PROVE  FeedInv'
<1>1. hReq[r].pc = "idle" /\ hReq[r] \in Reader /\ HandlerOK(hReq[r])
  BY FeedFields DEF H!ToggleFollow, H!At, HandlersOK
<1>2. hReq[r] = H!Idle BY <1>1 DEF HandlerOK
<1>3. hFollows' \subseteq Readers \X Authors BY FeedFields DEF H!ToggleFollow
<1>4. /\ hItems' = hItems /\ hCache' = hCache /\ hOld' = hOld /\ H!Changes(hItems, hFollows')
      /\ H!Spend /\ hReq' = [hReq EXCEPT ![r].pc = "drop", ![r].user = v]
  BY DEF H!ToggleFollow
<1>5. hCalls' \in 0 .. MaxFeedCalls BY <1>4, Spent, FeedFields
<1>6. Beside(hItems', hItems) /\ ItemsOK(hItems') /\ hItems' \in [Items -> FItem]
  BY <1>4, FeedFields DEF Beside
<1>7. H!Changes(hItems', hFollows') BY <1>4
<1>8. /\ hGone' \in FeedAges /\ Fresher(hGone', hGone)
      /\ hReq' \in [Requests -> Reader] /\ HandlersOK(hReq', hGone') => FeedInv'
  BY <1>3, <1>4, <1>5, <1>6, <1>7, OthersAct
<1>9. PICK q : q = [H!Idle EXCEPT !.pc = "drop", !.user = v] OBVIOUS
<1>10. /\ q.pc = "drop" /\ q.user = v /\ q.who = {} /\ q.items = {} /\ q.val = H!Idle.val
  BY <1>9, IdleReader DEF Reader
<1>11. q \in Reader
  <2>1. "drop" \in ReaderPCs BY DEF ReaderPCs
  <2>. QED BY <1>9, <2>1, IdleReader DEF Reader
<1>12. hReq' = [hReq EXCEPT ![r] = q] BY <1>2, <1>4, <1>9
<1>13. HandlerOK(q) BY <1>10 DEF HandlerOK, AtCache
<1>14. Recent(q, hGone') BY <1>10, IdleReader DEF Recent
<1>15. WaitOK(q, hReq') BY <1>10 DEF WaitOK
<1>16. hReq[r].pc \notin Flying BY <1>1 DEF Flying
<1>17. PICK gone \in FeedAges : gone = hGone' BY <1>8
<1>18. PICK handlers : handlers = hReq' OBVIOUS
<1>19. handlers \in [Requests -> Reader] /\ HandlersOK(handlers, gone)
  BY <1>8, <1>11, <1>12, <1>13, <1>14, <1>15, <1>16, <1>17, <1>18, OneHandler, FeedFields
<1>. QED BY <1>8, <1>17, <1>18, <1>19

\* A tick later, everything held was true a tick longer ago.
LEMMA TickHolds == ASSUME FeedInv, H!Tick PROVE FeedInv'
<1>1. /\ hGone' \in FeedAges /\ AgesOK(hItems, hFollows, hGone')
      /\ \A p \in Items : hGone'.public[p] <= hGone.public[p] + 1
      /\ \A e \in Readers \X Authors : hGone'.followed[e] <= hGone.followed[e] + 1
  BY FeedFields, TickAges
<1>2. /\ hItems' = hItems /\ hFollows' = hFollows /\ hCalls' = hCalls /\ hOld' = hOld /\ hWalk' = hWalk
      /\ \A r \in Requests : ~hReq[r].late
      /\ hReq' = [r \in Requests |-> [hReq[r] EXCEPT !.late = hReq[r].pc # "idle"]]
      /\ hCache' = [k \in H!Keys |-> IF hCache[k].left <= 1 THEN H!Absent
                                     ELSE [hCache[k] EXCEPT !.left = hCache[k].left - 1]]
  BY DEF H!Tick
<1>3. hGone \in FeedAges /\ hReq \in [Requests -> Reader] /\ hCache \in [H!Keys -> Cached] BY FeedFields
<1>4. PoolTTL \in Nat /\ GraphTTL \in Nat BY FeedFacts
<1>5. \A p \in Items : hGone.public[p] \in Nat /\ hGone'.public[p] \in Nat BY <1>1, <1>3, AgeFields
<1>6. \A e \in Readers \X Authors : hGone.followed[e] \in Nat /\ hGone'.followed[e] \in Nat
  BY <1>1, <1>3, AgeFields
<1>7. ASSUME NEW r \in Requests
      PROVE  /\ hReq'[r] \in Reader /\ HandlerOK(hReq'[r]) /\ Recent(hReq'[r], hGone')
             /\ hReq'[r].pc = hReq[r].pc /\ hReq'[r].of = hReq[r].of
             /\ KeyOf(hReq'[r]) = KeyOf(hReq[r])
  <2>1. hReq[r] \in Reader /\ HandlerOK(hReq[r]) /\ Recent(hReq[r], hGone) BY FeedFields DEF HandlersOK
  <2>2. PICK q, z : q = hReq[r] /\ z = hReq'[r] /\ z = [q EXCEPT !.late = q.pc # "idle"] BY <1>2
  <2>3. ~q.late BY <1>2, <2>2
  <2>4. q \in Reader /\ z \in Reader /\ (q.pc # "idle") \in BOOLEAN BY <2>1, <2>2 DEF Reader
  <2>5. /\ z.pc = q.pc /\ z.user = q.user /\ z.kind = q.kind /\ z.step = q.step /\ z.who = q.who
        /\ z.items = q.items /\ z.val = q.val /\ z.of = q.of /\ z.late = (q.pc # "idle")
    BY <2>2, <2>4 DEF Reader
  <2>6. KeyOf(z) = KeyOf(q) BY <2>5 DEF KeyOf
  <2>7. CASE q.pc = "idle"
    <3>1. q = H!Idle BY <2>1, <2>2, <2>7 DEF HandlerOK
    <3>2. z = H!Idle
      <4>1. z = [q EXCEPT !.late = FALSE] BY <2>2, <2>7
      <4>2. q.late = FALSE BY <3>1, IdleReader
      <4>. QED BY <2>4, <3>1, <4>1, <4>2 DEF Reader
    <3>. QED BY <2>2, <2>4, <2>5, <2>6, <3>2, IdleReader, IdleRecent
  <2>8. CASE q.pc # "idle"
    <3>1. HandlerOK(z) BY <2>1, <2>2, <2>5, <2>8 DEF HandlerOK
    <3>2. Late(q) = 0 /\ Late(z) = 1 BY <2>3, <2>5, <2>8 DEF Late
    <3>3. Recent(q, hGone) BY <2>1, <2>2
    <3>4. q.user \in Readers BY <2>1, <2>2, <2>8 DEF HandlerOK
    <3>5. q.who \subseteq Authors /\ q.items \subseteq Items /\ q.val.who \subseteq Authors
          /\ q.val.items \subseteq Items
      BY <2>4, ReaderFields, CachedFields
    <3>6. \A p \in q.items : hGone'.public[p] <= PoolTTL + 1 + 1
      <4>. SUFFICES ASSUME NEW p \in q.items PROVE hGone'.public[p] <= PoolTTL + 1 + 1 OBVIOUS
      <4>1. hGone.public[p] <= PoolTTL + 1 + 0 BY <3>2, <3>3 DEF Recent
      <4>2. p \in Items BY <3>5
      <4>. QED BY <1>1, <1>4, <1>5, <4>1, <4>2
    <3>7. \A a \in q.who : hGone'.followed[<<q.user, a>>] <= GraphTTL + 1 + 1
      <4>. SUFFICES ASSUME NEW a \in q.who PROVE hGone'.followed[<<q.user, a>>] <= GraphTTL + 1 + 1 OBVIOUS
      <4>1. hGone.followed[<<q.user, a>>] <= GraphTTL + 1 + 0 BY <3>2, <3>3 DEF Recent
      <4>2. <<q.user, a>> \in Readers \X Authors BY <3>4, <3>5
      <4>. QED BY <1>1, <1>4, <1>6, <4>1, <4>2
    <3>8. \A p \in q.val.items : hGone'.public[p] <= 1
      <4>. SUFFICES ASSUME NEW p \in q.val.items PROVE hGone'.public[p] <= 1 OBVIOUS
      <4>1. hGone.public[p] <= 0 BY <3>2, <3>3 DEF Recent
      <4>2. p \in Items BY <3>5
      <4>. QED BY <1>1, <1>5, <4>1, <4>2
    <3>9. \A a \in q.val.who : hGone'.followed[<<q.user, a>>] <= 1
      <4>. SUFFICES ASSUME NEW a \in q.val.who PROVE hGone'.followed[<<q.user, a>>] <= 1 OBVIOUS
      <4>1. hGone.followed[<<q.user, a>>] <= 0 BY <3>2, <3>3 DEF Recent
      <4>2. <<q.user, a>> \in Readers \X Authors BY <3>4, <3>5
      <4>. QED BY <1>1, <1>6, <4>1, <4>2
    <3>10. Recent(z, hGone') BY <2>5, <3>2, <3>6, <3>7, <3>8, <3>9 DEF Recent
    <3>. QED BY <2>2, <2>4, <2>5, <2>6, <3>1, <3>10
  <2>. QED BY <2>7, <2>8
<1>8. hReq' \in [Requests -> Reader] BY <1>2, <1>7
<1>9. ASSUME NEW r \in Requests PROVE WaitOK(hReq'[r], hReq')
  <2>1. WaitOK(hReq[r], hReq) BY FeedFields DEF HandlersOK
  <2>. SUFFICES ASSUME hReq[r].pc = "wait"
                PROVE  /\ hReq'[r].of \in Requests /\ hReq'[hReq'[r].of].pc \in Flying
                       /\ KeyOf(hReq'[hReq'[r].of]) = KeyOf(hReq'[r])
    BY <1>7 DEF WaitOK
  <2>2. PICK f \in Requests : f = hReq[r].of /\ hReq[f].pc \in Flying /\ KeyOf(hReq[f]) = KeyOf(hReq[r])
    BY <2>1 DEF WaitOK
  <2>. QED BY <1>7, <2>2
<1>10. HandlersOK(hReq', hGone') BY <1>7, <1>9 DEF HandlersOK
<1>11. ASSUME NEW k \in H!Keys PROVE hCache'[k] \in Cached /\ CacheOK(k, hCache'[k], hGone')
  <2>1. hCache[k] \in Cached /\ CacheOK(k, hCache[k], hGone) BY FeedFields DEF CachesOK
  <2>2. PICK c : c = hCache[k] OBVIOUS
  <2>3. c.left \in Nat /\ c.who \subseteq Authors /\ c.items \subseteq Items BY <2>1, <2>2, CachedFields
  <2>4. CASE c.left <= 1
    <3>1. hCache'[k] = H!Absent BY <1>2, <2>2, <2>4
    <3>. QED BY <3>1, AbsentCached DEF CacheOK
  <2>5. CASE c.left > 1
    <3>1. PICK z : z = hCache'[k] /\ z = [c EXCEPT !.left = c.left - 1] BY <1>2, <2>2, <2>3, <2>5
    <3>2. PICK n \in Nat : n = c.left BY <2>3
    <3>3. n - 1 \in Nat BY <2>5, <3>2
    <3>4. z \in Cached /\ z.left = n - 1 /\ z.who = c.who /\ z.items = c.items
      BY <2>1, <2>2, <3>1, <3>2, <3>3 DEF Cached
    <3>5. ASSUME k[1] \in H!Pools, NEW p \in c.items PROVE hGone'.public[p] + (n - 1) <= PoolTTL + 2
      <4>1. hGone.public[p] + n <= PoolTTL + 2 BY <2>1, <2>2, <3>2, <3>5 DEF CacheOK
      <4>2. p \in Items BY <2>3, <3>5
      <4>. QED BY <1>1, <1>4, <1>5, <4>1, <4>2
    <3>6. ASSUME k[1] \notin H!Pools, NEW a \in c.who
          PROVE  hGone'.followed[<<k[2], a>>] + (n - 1) <= GraphTTL + 2
      <4>1. hGone.followed[<<k[2], a>>] + n <= GraphTTL + 2 BY <2>1, <2>2, <3>2, <3>6 DEF CacheOK
      <4>2. <<k[2], a>> \in Readers \X Authors BY <2>3, <3>6, KeyParts
      <4>. QED BY <1>1, <1>4, <1>6, <4>1, <4>2
    <3>7. CacheOK(k, z, hGone') BY <3>4, <3>5, <3>6 DEF CacheOK
    <3>. QED BY <3>1, <3>4, <3>7
  <2>. QED BY <2>3, <2>4, <2>5
<1>12. hCache' \in [H!Keys -> Cached] BY <1>2, <1>11
<1>13. CachesOK(hCache', hGone') BY <1>11 DEF CachesOK
<1>14. FeedTyped' BY <1>1, <1>2, <1>8, <1>12, FeedFields DEF FeedTyped
<1>15. AgesOK(hItems', hFollows', hGone') /\ ItemsOK(hItems') /\ WalkOK(hWalk', hItems') /\ hOld' = {}
  BY <1>1, <1>2, FeedFields
<1>. QED BY <1>10, <1>13, <1>14, <1>15 DEF FeedInv

-----------------------------------------------------------------------------
(* The steps of a handler.                                                       *)

LEMMA OwnStep ==
  ASSUME FeedInv, hItems' = hItems, hFollows' = hFollows, hGone' = hGone, hOld' = {},
         hCalls' \in 0 .. MaxFeedCalls, hCache' \in [H!Keys -> Cached], CachesOK(hCache', hGone),
         hReq' \in [Requests -> Reader], HandlersOK(hReq', hGone),
         hWalk' \in Turned, WalkOK(hWalk', hItems)
  PROVE  FeedInv'
<1>1. FeedTyped' BY FeedFields DEF FeedTyped
<1>2. AgesOK(hItems', hFollows', hGone') /\ ItemsOK(hItems') BY FeedFields
<1>. QED BY <1>1, <1>2 DEF FeedInv

\* A handler that touches neither cache nor page.
LEMMA OwnMove ==
  ASSUME FeedInv, hItems' = hItems, hFollows' = hFollows, hGone' = hGone, hOld' = hOld,
         hCalls' = hCalls, hCache' = hCache, hWalk' = hWalk,
         NEW r \in Requests, NEW q \in Reader, HandlerOK(q), Recent(q, hGone),
         hReq' = [hReq EXCEPT ![r] = q], WaitOK(q, hReq'),
         hReq[r].pc \in Flying => q.pc \in Flying /\ KeyOf(q) = KeyOf(hReq[r])
  PROVE  FeedInv'
<1>1. Fresher(hGone, hGone) BY FeedFields, SameAges
<1>2. PICK handlers : handlers = hReq' OBVIOUS
<1>3. handlers \in [Requests -> Reader] /\ HandlersOK(handlers, hGone)
  BY <1>1, <1>2, OneHandler, FeedFields
<1>. QED BY <1>2, <1>3, OwnStep, FeedFields

LEMMA KeyIs == ASSUME NEW r PROVE H!Key(r) = KeyOf(hReq[r])
BY DEF H!Key, KeyOf

LEMMA AbsentOK == ASSUME NEW k, NEW gone PROVE CacheOK(k, H!Absent, gone)
BY AbsentCached DEF CacheOK

\* The two caches of who is followed are dropped one after the other.
LEMMA DropHolds == ASSUME FeedInv, NEW r \in Requests, H!DropGraph(r) PROVE FeedInv'
<1>1. hReq[r] \in Reader /\ HandlerOK(hReq[r]) /\ Recent(hReq[r], hGone) /\ hReq[r].pc = "drop"
  BY FeedFields DEF HandlersOK, H!DropGraph, H!At
<1>2. PICK q : q = [hReq[r] EXCEPT !.pc = "dropReels"] OBVIOUS
<1>3. /\ q \in Reader /\ q.pc = "dropReels" /\ q.user = hReq[r].user /\ q.who = hReq[r].who
      /\ q.items = hReq[r].items /\ q.val = hReq[r].val /\ q.late = hReq[r].late
  BY <1>1, <1>2 DEF Reader, ReaderPCs
<1>4. HandlerOK(q) BY <1>1, <1>3 DEF HandlerOK, AtCache
<1>5. Recent(q, hGone) BY <1>1, <1>3 DEF Recent, Late
<1>6. hReq' = [hReq EXCEPT ![r] = q] BY <1>2 DEF H!DropGraph
<1>7. WaitOK(q, hReq') /\ hReq[r].pc \notin Flying BY <1>1, <1>3 DEF WaitOK, Flying
<1>8. PICK handlers : handlers = hReq' OBVIOUS
<1>9. handlers \in [Requests -> Reader] /\ HandlersOK(handlers, hGone)
  BY <1>3, <1>4, <1>5, <1>6, <1>7, <1>8, OneHandler, FeedFields, SameAges
<1>10. hCache' \in [H!Keys -> Cached] /\ CachesOK(hCache', hGone)
  <2>1. PICK k : hCache' = [hCache EXCEPT ![k] = H!Absent] BY DEF H!DropGraph
  <2>. QED BY <2>1, FeedFields, AbsentCached, AbsentOK DEF CachesOK
<1>11. /\ hItems' = hItems /\ hFollows' = hFollows /\ hGone' = hGone /\ hOld' = hOld
       /\ hCalls' = hCalls /\ hWalk' = hWalk
  BY DEF H!DropGraph
<1>. QED BY <1>8, <1>9, <1>10, <1>11, OwnStep, FeedFields

LEMMA DropReelsHolds == ASSUME FeedInv, NEW r \in Requests, H!DropReelGraph(r) PROVE FeedInv'
<1>1. hReq[r].pc = "dropReels" BY DEF H!DropReelGraph, H!At
<1>2. hReq' = [hReq EXCEPT ![r] = H!Idle] BY DEF H!DropReelGraph
<1>3. WaitOK(H!Idle, hReq') /\ hReq[r].pc \notin Flying BY <1>1, IdleReader DEF WaitOK, Flying
<1>4. PICK handlers : handlers = hReq' OBVIOUS
<1>5. PICK q \in Reader : q = H!Idle /\ HandlerOK(q) /\ Recent(q, hGone) BY IdleReader, IdleRecent
<1>6. handlers \in [Requests -> Reader] /\ HandlersOK(handlers, hGone)
  BY <1>2, <1>3, <1>4, <1>5, OneHandler, FeedFields, SameAges
<1>7. hCache' \in [H!Keys -> Cached] /\ CachesOK(hCache', hGone)
  <2>1. PICK k : hCache' = [hCache EXCEPT ![k] = H!Absent] BY DEF H!DropReelGraph
  <2>. QED BY <2>1, FeedFields, AbsentCached, AbsentOK DEF CachesOK
<1>8. /\ hItems' = hItems /\ hFollows' = hFollows /\ hGone' = hGone /\ hOld' = hOld
      /\ hCalls' = hCalls /\ hWalk' = hWalk
  BY DEF H!DropReelGraph
<1>. QED BY <1>4, <1>6, <1>7, <1>8, OwnStep, FeedFields

\* What is cached is recent enough for who loads it.
LEMMA HitRecent ==
  ASSUME FeedInv, NEW k \in H!Keys, hCache[k].left > 0
  PROVE  /\ hCache[k] \in Cached
         /\ k[1] \in H!Pools => \A p \in hCache[k].items : hGone.public[p] <= PoolTTL + 1
         /\ k[1] \notin H!Pools => \A a \in hCache[k].who : hGone.followed[<<k[2], a>>] <= GraphTTL + 1
<1>1. hCache[k] \in Cached /\ CacheOK(k, hCache[k], hGone) BY FeedFields DEF CachesOK
<1>2. PICK c : c = hCache[k] OBVIOUS
<1>3. c.left \in Nat /\ c.who \subseteq Authors /\ c.items \subseteq Items BY <1>1, <1>2, CachedFields
<1>4. PICK n \in Nat : n = c.left /\ n > 0 BY <1>2, <1>3
<1>5. PoolTTL \in Nat /\ GraphTTL \in Nat BY FeedFacts
<1>6. ASSUME k[1] \in H!Pools, NEW p \in c.items PROVE hGone.public[p] <= PoolTTL + 1
  <2>1. hGone.public[p] + n <= PoolTTL + 2 BY <1>1, <1>2, <1>4, <1>6 DEF CacheOK
  <2>2. hGone.public[p] \in Nat BY <1>3, <1>6, FeedFields, AgeFields
  <2>. QED BY <1>4, <1>5, <2>1, <2>2
<1>7. ASSUME k[1] \notin H!Pools, NEW a \in c.who PROVE hGone.followed[<<k[2], a>>] <= GraphTTL + 1
  <2>1. hGone.followed[<<k[2], a>>] + n <= GraphTTL + 2 BY <1>1, <1>2, <1>4, <1>7 DEF CacheOK
  <2>2. <<k[2], a>> \in Readers \X Authors BY <1>3, <1>7, KeyParts
  <2>3. hGone.followed[<<k[2], a>>] \in Nat BY <2>2, FeedFields, AgeFields
  <2>. QED BY <1>4, <1>5, <2>1, <2>3
<1>. QED BY <1>1, <1>2, <1>6, <1>7

LEMMA LoadHolds == ASSUME FeedInv, NEW r \in Requests, H!Load(r) PROVE FeedInv'
<1>1. PICK s : s = hReq[r] OBVIOUS
<1>2. s \in Reader /\ HandlerOK(s) /\ Recent(s, hGone) /\ s.pc = "load"
  BY <1>1, FeedFields DEF HandlersOK, H!Load, H!At
<1>3. PICK k : k = KeyOf(s) /\ k = H!Key(r) BY <1>1, KeyIs
<1>4. s.pc \in AtCache /\ s.pc \notin Flying BY <1>2 DEF AtCache, Flying
<1>5. k \in H!Keys /\ s.user \in Readers /\ (k[1] \in H!Pools \/ k[2] = s.user)
  BY <1>2, <1>3, <1>4, KeyOfHandler
<1>6. /\ hItems' = hItems /\ hFollows' = hFollows /\ hGone' = hGone /\ hOld' = hOld
      /\ hCalls' = hCalls /\ hCache' = hCache /\ hWalk' = hWalk
  BY DEF H!Load
<1>7. CASE hCache[k].left > 0 /\ hReq' = [hReq EXCEPT ![r] = H!With(hReq[r], k, hCache[k])]
  <2>1. PICK c \in Cached : /\ c = hCache[k]
                            /\ k[1] \in H!Pools => \A p \in c.items : hGone.public[p] <= PoolTTL + 1
                            /\ k[1] \notin H!Pools =>
                                 \A a \in c.who : hGone.followed[<<k[2], a>>] <= GraphTTL + 1
    BY <1>5, <1>7, HitRecent
  <2>2. k[1] \notin H!Pools => \A a \in c.who : hGone.followed[<<s.user, a>>] <= GraphTTL + 1
    BY <1>5, <2>1
  <2>3. PICK q : q = H!With(s, k, c) OBVIOUS
  <2>4. q \in Reader /\ HandlerOK(q) /\ Recent(q, hGone) /\ q.pc \in {"ready", "load"}
    BY <1>2, <1>3, <1>4, <2>1, <2>2, <2>3, GoesOn, FeedFields
  <2>5. hReq' = [hReq EXCEPT ![r] = q] BY <1>1, <1>7, <2>1, <2>3
  <2>6. WaitOK(q, hReq') BY <2>4 DEF WaitOK
  <2>. QED BY <1>1, <1>4, <1>6, <2>4, <2>5, <2>6, OwnMove
<1>8. CASE hReq' = [hReq EXCEPT ![r].pc = "fetch"]
  <2>1. PICK q : q = [s EXCEPT !.pc = "fetch"] OBVIOUS
  <2>2. /\ q \in Reader /\ q.pc = "fetch" /\ q.user = s.user /\ q.kind = s.kind /\ q.step = s.step
        /\ q.who = s.who /\ q.items = s.items /\ q.val = s.val /\ q.late = s.late
    BY <1>2, <2>1 DEF Reader, ReaderPCs
  <2>3. HandlerOK(q) BY <1>2, <2>2 DEF HandlerOK, AtCache
  <2>4. Recent(q, hGone) BY <1>2, <2>2 DEF Recent, Late
  <2>5. hReq' = [hReq EXCEPT ![r] = q] BY <1>1, <1>8, <2>1
  <2>6. WaitOK(q, hReq') BY <2>2 DEF WaitOK
  <2>. QED BY <1>1, <1>4, <1>6, <2>2, <2>3, <2>4, <2>5, <2>6, OwnMove
<1>9. ASSUME NEW o \in Requests \ {r}, H!Flies(o, k),
             hReq' = [hReq EXCEPT ![r].pc = "wait", ![r].of = o]
      PROVE  FeedInv'
  <2>1. PICK q : q = [s EXCEPT !.pc = "wait", !.of = o] OBVIOUS
  <2>2. /\ q \in Reader /\ q.pc = "wait" /\ q.user = s.user /\ q.kind = s.kind /\ q.step = s.step
        /\ q.who = s.who /\ q.items = s.items /\ q.val = s.val /\ q.late = s.late /\ q.of = o
    BY <1>2, <2>1 DEF Reader, ReaderPCs
  <2>3. HandlerOK(q) BY <1>2, <2>2 DEF HandlerOK, AtCache
  <2>4. Recent(q, hGone) BY <1>2, <2>2 DEF Recent, Late
  <2>5. hReq' = [hReq EXCEPT ![r] = q] BY <1>1, <1>9, <2>1
  <2>6. hReq'[o] = hReq[o] /\ hReq[o].pc \in Flying /\ KeyOf(hReq[o]) = k
    <3>1. hReq[o].pc \in Flying /\ H!Key(o) = k BY <1>9 DEF H!Flies, Flying
    <3>2. hReq'[o] = hReq[o] BY <1>9, <2>5, FeedFields
    <3>3. H!Key(o) = KeyOf(hReq[o]) BY KeyIs
    <3>. QED BY <3>1, <3>2, <3>3
  <2>7. KeyOf(q) = k BY <1>3, <2>2 DEF KeyOf
  <2>8. WaitOK(q, hReq') BY <2>2, <2>6, <2>7 DEF WaitOK
  <2>. QED BY <1>1, <1>4, <1>6, <2>2, <2>3, <2>4, <2>5, <2>8, OwnMove
<1>. QED BY <1>3, <1>7, <1>8, <1>9 DEF H!Load

\* What is found now has been gone for no time.
LEMMA FetchedNow ==
  ASSUME FeedInv, NEW k \in H!Keys, NEW c, c = H!Fetched(k)
  PROVE  /\ c \in Cached /\ \A p \in c.items : hGone.public[p] = 0
         /\ k[1] \notin H!Pools => \A a \in c.who : hGone.followed[<<k[2], a>>] = 0
         /\ k[1] \in H!Pools => c.who = {}
         /\ k[1] \notin H!Pools => c.items = {}
<1>1. CASE k[1] \in H!Pools
  <2>1. c = [H!Absent EXCEPT !.items = H!Candidates(k)] BY <1>1 DEF H!Fetched
  <2>2. H!Candidates(k) \subseteq Items /\ \A p \in H!Candidates(k) : hGone.public[p] = 0
    <3>1. AgesOK(hItems, hFollows, hGone) BY FeedFields
    <3>. QED BY <3>1 DEF H!Candidates, AgesOK
  <2>3. c \in Cached /\ c.items = H!Candidates(k) /\ c.who = {} BY <2>1, <2>2, AbsentCached DEF Cached
  <2>. QED BY <1>1, <2>2, <2>3
<1>2. CASE k[1] \notin H!Pools
  <2>1. c = [H!Absent EXCEPT !.who = H!FollowedBy(k[2], hFollows)] BY <1>2 DEF H!Fetched
  <2>2. \A a \in H!FollowedBy(k[2], hFollows) : <<k[2], a>> \in hFollows /\ a \in Authors
    BY FeedFields DEF H!FollowedBy
  <2>3. c \in Cached /\ c.who = H!FollowedBy(k[2], hFollows) /\ c.items = {}
    BY <2>1, <2>2, AbsentCached DEF Cached
  <2>4. AgesOK(hItems, hFollows, hGone) BY FeedFields
  <2>. QED BY <1>2, <2>2, <2>3, <2>4 DEF AgesOK
<1>. QED BY <1>1, <1>2

LEMMA FetchHolds == ASSUME FeedInv, NEW r \in Requests, H!Fetch(r) PROVE FeedInv'
<1>1. PICK s : s = hReq[r] OBVIOUS
<1>2. s \in Reader /\ HandlerOK(s) /\ Recent(s, hGone) /\ s.pc = "fetch"
  BY <1>1, FeedFields DEF HandlersOK, H!Fetch, H!At
<1>3. PICK k : k = KeyOf(s) /\ k = H!Key(r) BY <1>1, KeyIs
<1>4. s.pc \in AtCache BY <1>2 DEF AtCache
<1>5. k \in H!Keys /\ s.user \in Readers /\ (k[1] \in H!Pools \/ k[2] = s.user)
  BY <1>2, <1>3, <1>4, KeyOfHandler
<1>6. /\ hItems' = hItems /\ hFollows' = hFollows /\ hGone' = hGone /\ hOld' = hOld
      /\ hCalls' = hCalls /\ hCache' = hCache /\ hWalk' = hWalk
  BY DEF H!Fetch
<1>7. PICK c \in Cached : /\ hReq' = [hReq EXCEPT ![r].pc = "store", ![r].val = c]
                          /\ \A p \in c.items : hGone.public[p] <= Late(s)
                          /\ \A a \in c.who : hGone.followed[<<s.user, a>>] <= Late(s)
  <2>1. CASE hReq' = [hReq EXCEPT ![r].pc = "store", ![r].val = H!Fetched(H!Key(r))]
    <3>1. PICK c : c = H!Fetched(k) OBVIOUS
    <3>2. /\ c \in Cached /\ \A p \in c.items : hGone.public[p] = 0
          /\ k[1] \notin H!Pools => \A a \in c.who : hGone.followed[<<k[2], a>>] = 0
          /\ k[1] \in H!Pools => c.who = {}
      BY <1>5, <3>1, FetchedNow
    <3>3. PICK l \in {0, 1} : l = Late(s) BY DEF Late
    <3>4. \A p \in c.items : hGone.public[p] <= l BY <3>2, <3>3
    <3>5. \A a \in c.who : hGone.followed[<<s.user, a>>] <= l BY <1>5, <3>2, <3>3
    <3>. QED BY <1>3, <2>1, <3>1, <3>2, <3>3, <3>4, <3>5
  <2>2. CASE hReq' = [hReq EXCEPT ![r].pc = "store"]
    <3>1. PICK c \in Cached : c = s.val BY <1>2, ReaderFields
    <3>2. PICK q : q = [s EXCEPT !.pc = "store"] OBVIOUS
    <3>3. PICK z : z = [s EXCEPT !.pc = "store", !.val = c] OBVIOUS
    <3>4. q = z BY <1>2, <3>1, <3>2, <3>3 DEF Reader
    <3>5. hReq' = [hReq EXCEPT ![r] = q] BY <1>1, <2>2, <3>2
    <3>6. hReq' = [hReq EXCEPT ![r].pc = "store", ![r].val = c] BY <1>1, <3>3, <3>4, <3>5
    <3>. QED BY <1>2, <3>1, <3>6 DEF Recent
  <2>. QED BY <2>1, <2>2 DEF H!Fetch
<1>8. PICK q : q = [s EXCEPT !.pc = "store", !.val = c] OBVIOUS
<1>9. /\ q \in Reader /\ q.pc = "store" /\ q.user = s.user /\ q.kind = s.kind /\ q.step = s.step
      /\ q.who = s.who /\ q.items = s.items /\ q.val = c /\ q.late = s.late
  BY <1>2, <1>7, <1>8 DEF Reader, ReaderPCs
<1>10. HandlerOK(q) BY <1>2, <1>9 DEF HandlerOK, AtCache
<1>11. Recent(q, hGone) BY <1>2, <1>7, <1>9 DEF Recent, Late
<1>12. hReq' = [hReq EXCEPT ![r] = q] BY <1>1, <1>7, <1>8
<1>13. WaitOK(q, hReq') BY <1>9 DEF WaitOK
<1>14. q.pc \in Flying /\ KeyOf(q) = KeyOf(s) BY <1>9 DEF Flying, KeyOf
<1>. QED BY <1>1, <1>6, <1>9, <1>10, <1>11, <1>12, <1>13, <1>14, OwnMove

\* A flight ends: who was on it goes on, or breaks off.
OnFlight(o, r) == o = r \/ (hReq[o].pc = "wait" /\ hReq[o].of = r)

LEMMA FlightEnds ==
  ASSUME FeedInv, NEW r \in Requests, hReq[r].pc \in Flying, NEW handlers,
         DOMAIN handlers = Requests, handlers = [o \in Requests |-> handlers[o]],
         \A o \in Requests : OnFlight(o, r) => /\ handlers[o] \in Reader /\ HandlerOK(handlers[o])
                                               /\ Recent(handlers[o], hGone)
                                               /\ handlers[o].pc # "wait",
         \A o \in Requests : ~OnFlight(o, r) => handlers[o] = hReq[o]
  PROVE  handlers \in [Requests -> Reader] /\ HandlersOK(handlers, hGone)
<1>1. ASSUME NEW o \in Requests
      PROVE  /\ handlers[o] \in Reader /\ HandlerOK(handlers[o]) /\ Recent(handlers[o], hGone)
             /\ WaitOK(handlers[o], handlers)
  <2>1. CASE OnFlight(o, r) BY <2>1 DEF WaitOK
  <2>2. CASE ~OnFlight(o, r)
    <3>1. handlers[o] = hReq[o] BY <2>2
    <3>2. hReq[o] \in Reader /\ HandlerOK(hReq[o]) /\ Recent(hReq[o], hGone) /\ WaitOK(hReq[o], hReq)
      BY FeedFields DEF HandlersOK
    <3>3. ASSUME hReq[o].pc = "wait"
          PROVE  /\ hReq[o].of \in Requests /\ handlers[hReq[o].of].pc \in Flying
                 /\ KeyOf(handlers[hReq[o].of]) = KeyOf(hReq[o])
      <4>1. PICK f \in Requests : f = hReq[o].of /\ hReq[f].pc \in Flying
                                  /\ KeyOf(hReq[f]) = KeyOf(hReq[o])
        BY <3>2, <3>3 DEF WaitOK
      <4>2. f # r /\ hReq[f].pc # "wait" BY <2>2, <3>3, <4>1 DEF OnFlight, Flying
      <4>3. handlers[f] = hReq[f] BY <4>2 DEF OnFlight
      <4>. QED BY <4>1, <4>3
    <3>4. WaitOK(hReq[o], handlers) BY <3>3 DEF WaitOK
    <3>. QED BY <3>1, <3>2, <3>4
  <2>. QED BY <2>1, <2>2
<1>. QED BY <1>1 DEF HandlersOK

LEMMA StoreHolds == ASSUME FeedInv, NEW r \in Requests, H!Store(r) PROVE FeedInv'
<1>1. PICK s : s = hReq[r] OBVIOUS
<1>2. s \in Reader /\ HandlerOK(s) /\ Recent(s, hGone) /\ s.pc = "store"
  BY <1>1, FeedFields DEF HandlersOK, H!Store, H!At
<1>3. PICK k : k = KeyOf(s) /\ k = H!Key(r) BY <1>1, KeyIs
<1>4. s.pc \in AtCache /\ s.pc \in Flying BY <1>2 DEF AtCache, Flying
<1>5. k \in H!Keys /\ s.user \in Readers /\ (k[1] \in H!Pools \/ k[2] = s.user)
  BY <1>2, <1>3, <1>4, KeyOfHandler
<1>6. /\ hItems' = hItems /\ hFollows' = hFollows /\ hGone' = hGone /\ hOld' = hOld
      /\ hCalls' = hCalls /\ hWalk' = hWalk
  BY DEF H!Store
<1>7. PICK c \in Cached : c = s.val BY <1>2, ReaderFields
<1>8. PoolTTL \in Nat /\ GraphTTL \in Nat BY FeedFacts
<1>9. c.who \subseteq Authors /\ c.items \subseteq Items BY CachedFields
<1>10. PICK l \in {0, 1} : l = Late(s) BY DEF Late
<1>11. \A p \in c.items : hGone.public[p] <= 1
  <2>. SUFFICES ASSUME NEW p \in c.items PROVE hGone.public[p] <= 1 OBVIOUS
  <2>1. hGone.public[p] <= l BY <1>2, <1>7, <1>10 DEF Recent
  <2>2. hGone.public[p] \in Nat BY <1>9, FeedFields, AgeFields
  <2>. QED BY <2>1, <2>2
<1>12. \A a \in c.who : hGone.followed[<<s.user, a>>] <= 1
  <2>. SUFFICES ASSUME NEW a \in c.who PROVE hGone.followed[<<s.user, a>>] <= 1 OBVIOUS
  <2>1. hGone.followed[<<s.user, a>>] <= l BY <1>2, <1>7, <1>10 DEF Recent
  <2>2. <<s.user, a>> \in Readers \X Authors BY <1>5, <1>9
  <2>3. hGone.followed[<<s.user, a>>] \in Nat BY <2>2, FeedFields, AgeFields
  <2>. QED BY <2>1, <2>3
<1>13. PICK handlers : /\ handlers = hReq'
                       /\ handlers = [o \in Requests |->
                            IF o = r \/ (H!At(o, "wait") /\ hReq[o].of = r)
                            THEN H!With(hReq[o], k, c) ELSE hReq[o]]
  BY <1>1, <1>3, <1>7 DEF H!Store
<1>14. ASSUME NEW o \in Requests, OnFlight(o, r)
       PROVE  /\ handlers[o] \in Reader /\ HandlerOK(handlers[o]) /\ Recent(handlers[o], hGone)
              /\ handlers[o].pc # "wait"
  <2>1. PICK q \in Reader : q = hReq[o] /\ HandlerOK(q) /\ Recent(q, hGone) /\ WaitOK(q, hReq)
    BY FeedFields DEF HandlersOK
  <2>2. q.pc \in AtCache /\ KeyOf(q) = k
    <3>1. CASE o = r BY <1>1, <1>3, <1>4, <2>1, <3>1
    <3>2. CASE q.pc = "wait" /\ q.of = r BY <1>1, <1>3, <2>1, <3>2 DEF WaitOK, AtCache
    <3>. QED BY <1>14, <2>1, <3>1, <3>2 DEF OnFlight
  <2>3. q.user \in Readers /\ (k[1] \notin H!Pools => q.user = s.user) BY <1>5, <2>1, <2>2, KeyOfHandler
  <2>4. k[1] \in H!Pools => \A p \in c.items : hGone.public[p] <= PoolTTL + 1
    <3>. SUFFICES ASSUME NEW p \in c.items PROVE hGone.public[p] <= PoolTTL + 1 OBVIOUS
    <3>1. hGone.public[p] <= 1 /\ hGone.public[p] \in Nat BY <1>9, <1>11, FeedFields, AgeFields
    <3>. QED BY <1>8, <3>1
  <2>5. k[1] \notin H!Pools => \A a \in c.who : hGone.followed[<<q.user, a>>] <= GraphTTL + 1
    <3>. SUFFICES ASSUME k[1] \notin H!Pools, NEW a \in c.who
                  PROVE  hGone.followed[<<q.user, a>>] <= GraphTTL + 1
      OBVIOUS
    <3>1. hGone.followed[<<q.user, a>>] <= 1 BY <1>12, <2>3
    <3>2. <<q.user, a>> \in Readers \X Authors BY <1>9, <2>3
    <3>3. hGone.followed[<<q.user, a>>] \in Nat BY <3>2, FeedFields, AgeFields
    <3>. QED BY <1>8, <3>1, <3>3
  <2>6. PICK z : z = H!With(q, k, c) OBVIOUS
  <2>7. z \in Reader /\ HandlerOK(z) /\ Recent(z, hGone) /\ z.pc \in {"ready", "load"}
    BY <2>1, <2>2, <2>4, <2>5, <2>6, GoesOn, FeedFields
  <2>8. handlers[o] = z BY <1>13, <1>14, <2>1, <2>6 DEF OnFlight, H!At
  <2>. QED BY <2>7, <2>8
<1>15. \A o \in Requests : ~OnFlight(o, r) => handlers[o] = hReq[o] BY <1>13 DEF OnFlight, H!At
<1>16. handlers \in [Requests -> Reader] /\ HandlersOK(handlers, hGone)
  <2>1. DOMAIN handlers = Requests /\ handlers = [o \in Requests |-> handlers[o]] BY <1>13
  <2>. QED BY <1>1, <1>4, <1>14, <1>15, <2>1, FlightEnds
<1>17. hCache' \in [H!Keys -> Cached] /\ CachesOK(hCache', hGone)
  <2>1. CASE hCache' = hCache BY <2>1, FeedFields
  <2>2. CASE hCache' = [hCache EXCEPT ![k] = [c EXCEPT !.left = H!Lives(k)]]
    <3>1. PICK n \in Nat : n = H!Lives(k) /\ n = IF k[1] \in H!Pools THEN PoolTTL + 1 ELSE GraphTTL + 1
      BY <1>8 DEF H!Lives, H!TTL
    <3>2. PICK d : d = [c EXCEPT !.left = n] OBVIOUS
    <3>3. d \in Cached /\ d.left = n /\ d.who = c.who /\ d.items = c.items BY <3>2 DEF Cached
    <3>4. CacheOK(k, d, hGone)
      <4>1. ASSUME k[1] \in H!Pools, NEW p \in c.items PROVE hGone.public[p] + n <= PoolTTL + 2
        <5>1. hGone.public[p] <= 1 /\ hGone.public[p] \in Nat BY <1>9, <1>11, <4>1, FeedFields, AgeFields
        <5>. QED BY <1>8, <3>1, <4>1, <5>1
      <4>2. ASSUME k[1] \notin H!Pools, NEW a \in c.who
            PROVE  hGone.followed[<<k[2], a>>] + n <= GraphTTL + 2
        <5>1. k[2] = s.user /\ <<s.user, a>> \in Readers \X Authors BY <1>5, <1>9, <4>2
        <5>2. hGone.followed[<<s.user, a>>] <= 1 /\ hGone.followed[<<s.user, a>>] \in Nat
          BY <1>12, <4>2, <5>1, FeedFields, AgeFields
        <5>. QED BY <1>8, <3>1, <4>2, <5>1, <5>2
      <4>. QED BY <3>3, <4>1, <4>2 DEF CacheOK
    <3>5. hCache' = [hCache EXCEPT ![k] = d] BY <2>2, <3>1, <3>2
    <3>6. ASSUME NEW j \in H!Keys PROVE CacheOK(j, hCache'[j], hGone)
      <4>1. CASE j = k BY <3>4, <3>5, <4>1, FeedFields
      <4>2. CASE j # k BY <3>5, <4>2, FeedFields DEF CachesOK
      <4>. QED BY <4>1, <4>2
    <3>. QED BY <3>3, <3>5, <3>6, FeedFields DEF CachesOK
  <2>. QED BY <1>1, <1>3, <1>7, <2>1, <2>2 DEF H!Store
<1>. QED BY <1>6, <1>13, <1>16, <1>17, OwnStep, FeedFields

LEMMA ThrowsHolds == ASSUME FeedInv, NEW r \in Requests, H!FetchThrows(r) PROVE FeedInv'
<1>1. PICK s : s = hReq[r] OBVIOUS
<1>2. s \in Reader /\ HandlerOK(s) /\ s.pc = "fetch"
  BY <1>1, FeedFields DEF HandlersOK, H!FetchThrows, H!At
<1>3. s.pc \in AtCache /\ s.pc \in Flying BY <1>2 DEF AtCache, Flying
<1>4. /\ hItems' = hItems /\ hFollows' = hFollows /\ hGone' = hGone /\ hOld' = hOld
      /\ hCalls' = hCalls /\ hCache' = hCache
  BY DEF H!FetchThrows
<1>5. PICK handlers : /\ handlers = hReq'
                      /\ handlers = [o \in Requests |->
                           IF o # r /\ ~(H!At(o, "wait") /\ hReq[o].of = r) THEN hReq[o]
                           ELSE IF hReq[o].kind = "reels" THEN H!With(hReq[o], H!Key(o), H!Absent)
                           ELSE H!Idle]
  BY DEF H!FetchThrows
<1>6. ASSUME NEW o \in Requests, OnFlight(o, r)
      PROVE  /\ handlers[o] \in Reader /\ HandlerOK(handlers[o]) /\ Recent(handlers[o], hGone)
             /\ handlers[o].pc # "wait"
  <2>1. PICK q \in Reader : q = hReq[o] /\ HandlerOK(q) /\ Recent(q, hGone)
    BY FeedFields DEF HandlersOK
  <2>2. q.pc \in AtCache BY <1>1, <1>3, <1>6, <2>1 DEF OnFlight, AtCache
  <2>3. PICK k : k = KeyOf(q) /\ k = H!Key(o) BY <2>1, KeyIs
  <2>4. PICK c \in Cached : c = H!Absent /\ c.items = {} /\ c.who = {} BY AbsentCached
  <2>5. PICK z : z = H!With(q, k, c) OBVIOUS
  <2>6. z \in Reader /\ HandlerOK(z) /\ Recent(z, hGone) /\ z.pc \in {"ready", "load"}
    BY <2>1, <2>2, <2>3, <2>4, <2>5, GoesOn, FeedFields
  <2>7. handlers[o] \in {z, H!Idle} BY <1>5, <1>6, <2>1, <2>3, <2>4, <2>5 DEF OnFlight, H!At
  <2>. QED BY <2>6, <2>7, IdleReader, IdleRecent
<1>7. \A o \in Requests : ~OnFlight(o, r) => handlers[o] = hReq[o] BY <1>5 DEF OnFlight, H!At
<1>8. handlers \in [Requests -> Reader] /\ HandlersOK(handlers, hGone)
  <2>1. DOMAIN handlers = Requests /\ handlers = [o \in Requests |-> handlers[o]] BY <1>5
  <2>. QED BY <1>1, <1>3, <1>6, <1>7, <2>1, FlightEnds
<1>9. hWalk' \in Turned /\ WalkOK(hWalk', hItems) BY FeedFields DEF H!FetchThrows
<1>. QED BY <1>4, <1>5, <1>8, <1>9, OwnStep, FeedFields

LEMMA AskHolds ==
  ASSUME FeedInv, NEW r \in Requests, NEW v \in Readers, NEW kind \in Served, H!Ask(r, v, kind)
  PROVE  FeedInv'
<1>1. hReq[r] \in Reader /\ HandlerOK(hReq[r]) /\ hReq[r].pc = "idle"
  BY FeedFields DEF HandlersOK, H!Ask, H!At
<1>2. hReq[r] = H!Idle /\ kind \in H!Kinds BY <1>1, FeedFacts DEF HandlerOK
<1>3. /\ hItems' = hItems /\ hFollows' = hFollows /\ hGone' = hGone /\ hOld' = hOld
      /\ hCache' = hCache /\ H!Spend
  BY DEF H!Ask
<1>4. PICK pc : pc = (IF H!Plan(kind, v) = <<>> THEN "ready" ELSE "load") OBVIOUS
<1>5. pc \in {"ready", "load"} /\ (kind = "nearby" => pc = "ready") BY <1>4 DEF H!Plan
<1>6. PICK q : q = [H!Idle EXCEPT !.pc = pc, !.user = v, !.kind = kind] OBVIOUS
<1>7. /\ q \in Reader /\ q.pc = pc /\ q.user = v /\ q.kind = kind /\ q.step = 1
      /\ q.who = {} /\ q.items = {} /\ q.val = H!Idle.val
  <2>1. pc \in ReaderPCs BY <1>5 DEF ReaderPCs
  <2>. QED BY <1>2, <1>6, <2>1, IdleReader DEF Reader
<1>8. HandlerOK(q) BY <1>5, <1>7 DEF HandlerOK, AtCache
<1>9. Recent(q, hGone) BY <1>7, IdleReader DEF Recent
<1>10. hReq' = [hReq EXCEPT ![r] = q]
  <2>1. hReq' = [hReq EXCEPT ![r].pc = pc, ![r].user = v, ![r].kind = kind] BY <1>4 DEF H!Ask
  <2>. QED BY <1>2, <1>6, <2>1
<1>11. WaitOK(q, hReq') /\ hReq[r].pc \notin Flying BY <1>1, <1>5, <1>7 DEF WaitOK, Flying
<1>12. PICK handlers : handlers = hReq' OBVIOUS
<1>13. handlers \in [Requests -> Reader] /\ HandlersOK(handlers, hGone)
  BY <1>7, <1>8, <1>9, <1>10, <1>11, <1>12, OneHandler, FeedFields, SameAges
<1>14. hWalk' \in Turned /\ WalkOK(hWalk', hItems)
  <2>1. CASE hWalk' = hWalk BY <2>1, FeedFields
  <2>2. CASE hWalk' = [H!NoWalk EXCEPT !.by = v, !.owed =
                        {p \in Items \ Reels : H!InFollowing(v, hItems[p], H!FollowedBy(v, hFollows))}]
    <3>1. PICK owed \in SUBSET (Items \ Reels) : /\ hWalk' = [H!NoWalk EXCEPT !.by = v, !.owed = owed]
                                                 /\ \A p \in owed : H!IsShared(hItems[p])
      <4>. DEFINE O == {p \in Items \ Reels : H!InFollowing(v, hItems[p], H!FollowedBy(v, hFollows))}
      <4>1. O \in SUBSET (Items \ Reels) /\ \A p \in O : H!IsShared(hItems[p]) BY DEF H!InFollowing
      <4>2. hWalk' = [H!NoWalk EXCEPT !.by = v, !.owed = O] BY <2>2
      <4>. HIDE DEF O
      <4>. QED BY <4>1, <4>2
    <3>2. /\ hWalk'.by = v /\ hWalk'.before = 0 /\ hWalk'.owed = owed /\ hWalk'.shown = {}
          /\ hWalk'.twice = FALSE /\ hWalk'.over = FALSE
      BY <3>1 DEF H!NoWalk
    <3>3. hWalk' \in Turned BY <3>1 DEF H!NoWalk, Turned
    <3>. QED BY <3>1, <3>2, <3>3 DEF WalkOK, Due
  <2>. QED BY <2>1, <2>2 DEF H!Ask
<1>15. hCalls' \in 0 .. MaxFeedCalls BY <1>3, Spent, FeedFields
<1>. QED BY <1>3, <1>12, <1>13, <1>14, <1>15, OwnStep, FeedFields

\* A page is shown whose items are in time.
LEMMA ShowHolds ==
  ASSUME FeedInv, NEW r \in Requests, hReq[r].pc = "ready", NEW items,
         \A p \in items : H!InTime(hReq[r].user, hReq[r].kind, p), H!Show(r, items),
         hWalk' \in Turned, WalkOK(hWalk', hItems)
  PROVE  FeedInv'
<1>1. /\ hItems' = hItems /\ hFollows' = hFollows /\ hGone' = hGone /\ hCalls' = hCalls
      /\ hCache' = hCache /\ hReq' = [hReq EXCEPT ![r] = H!Idle]
      /\ hOld' = hOld \cup {p \in items : ~H!InTime(hReq[r].user, hReq[r].kind, p)}
  BY DEF H!Show
<1>2. hOld' = {} BY <1>1, FeedFields
<1>3. WaitOK(H!Idle, hReq') /\ hReq[r].pc \notin Flying BY IdleReader DEF WaitOK, Flying
<1>4. PICK handlers : handlers = hReq' OBVIOUS
<1>5. PICK q \in Reader : q = H!Idle /\ HandlerOK(q) /\ Recent(q, hGone) BY IdleReader, IdleRecent
<1>6. handlers \in [Requests -> Reader] /\ HandlersOK(handlers, hGone)
  BY <1>1, <1>3, <1>4, <1>5, OneHandler, FeedFields, SameAges
<1>. QED BY <1>1, <1>2, <1>4, <1>6, OwnStep, FeedFields

\* What a handler that is ready holds, and what there is now.
LEMMA HeldInTime ==
  ASSUME FeedInv, NEW r \in Requests, hReq[r].pc = "ready", NEW q, q = hReq[r]
  PROVE  /\ q \in Reader /\ q.user \in Readers
         /\ q.kind \in {"foryou", "global", "trending", "reels"} =>
              \A p \in q.items : H!InTime(q.user, q.kind, p)
         /\ \A p \in Items : H!IsPublic(hItems[p]) => H!InTime(q.user, q.kind, p)
         /\ q.kind \in {"home", "following"} =>
              \A p \in Items : H!IsShared(hItems[p]) /\ hItems[p].author \in q.who \cup {q.user}
                                 => H!InTime(q.user, q.kind, p)
<1>1. q \in Reader /\ HandlerOK(q) /\ Recent(q, hGone) BY FeedFields DEF HandlersOK
<1>2. q.user \in Readers /\ q.who \subseteq Authors /\ q.items \subseteq Items
  BY <1>1, ReaderFields DEF HandlerOK
<1>3. PoolTTL \in Nat /\ GraphTTL \in Nat BY FeedFacts
<1>4. PICK l \in {0, 1} : l = Late(q) BY DEF Late
<1>5. AgesOK(hItems, hFollows, hGone) BY FeedFields
<1>6. PICK may \in Int : may = H!Life(q.kind) + 2 /\ may \in {GraphTTL + 2, PoolTTL + 2, 0}
  <2>1. H!Life(q.kind) \in {GraphTTL, PoolTTL, -2} BY DEF H!Life
  <2>. QED BY <1>3, <2>1
<1>7. may >= 0 BY <1>3, <1>6
<1>8. ASSUME q.kind \in {"foryou", "global", "trending", "reels"}, NEW p \in q.items
      PROVE  H!InTime(q.user, q.kind, p)
  <2>1. hGone.public[p] <= PoolTTL + 1 + l BY <1>1, <1>4 DEF Recent
  <2>2. H!Life(q.kind) = PoolTTL BY <1>8 DEF H!Life
  <2>3. hGone.public[p] \in Nat BY <1>2, FeedFields, AgeFields
  <2>4. hGone.public[p] <= may BY <1>3, <1>6, <2>1, <2>2, <2>3
  <2>. QED BY <1>6, <2>4 DEF H!InTime
<1>9. ASSUME NEW p \in Items, H!IsPublic(hItems[p]) PROVE H!InTime(q.user, q.kind, p)
  <2>1. hGone.public[p] = 0 BY <1>5, <1>9 DEF AgesOK
  <2>2. hGone.public[p] <= may BY <1>7, <2>1
  <2>. QED BY <1>6, <2>2 DEF H!InTime
<1>10. ASSUME q.kind \in {"home", "following"}, NEW p \in Items, H!IsShared(hItems[p]),
              hItems[p].author \in q.who \cup {q.user}
       PROVE  H!InTime(q.user, q.kind, p)
  <2>1. hGone.shared[p] = 0 BY <1>5, <1>10 DEF AgesOK
  <2>2. hGone.shared[p] <= may BY <1>7, <2>1
  <2>3. PICK a : a = hItems[p].author OBVIOUS
  <2>4. a = q.user \/ hGone.followed[<<q.user, a>>] <= may
    <3>1. CASE a = q.user BY <3>1
    <3>2. CASE a \in q.who
      <4>1. hGone.followed[<<q.user, a>>] <= GraphTTL + 1 + l BY <1>1, <1>4, <3>2 DEF Recent
      <4>2. H!Life(q.kind) = GraphTTL BY <1>10 DEF H!Life
      <4>3. <<q.user, a>> \in Readers \X Authors BY <1>2, <3>2
      <4>4. hGone.followed[<<q.user, a>>] \in Nat BY <4>3, FeedFields, AgeFields
      <4>. QED BY <1>3, <1>6, <4>1, <4>2, <4>4
    <3>. QED BY <1>10, <2>3, <3>1, <3>2
  <2>. QED BY <1>6, <2>2, <2>3, <2>4 DEF H!InTime
<1>. QED BY <1>1, <1>2, <1>8, <1>9, <1>10

LEMMA HomeHolds == ASSUME FeedInv, NEW r \in Requests, H!HomeFeed(r) PROVE FeedInv'
<1>1. PICK q : q = hReq[r] OBVIOUS
<1>2. hReq[r].pc = "ready" /\ q.kind = "home" /\ hWalk' = hWalk BY <1>1 DEF H!HomeFeed, H!At
<1>3. PICK shown : /\ shown \subseteq {p \in Items \ Reels : H!HomeFilter(q.user, hItems[p], q.who)}
                   /\ H!Show(r, shown)
  BY <1>1 DEF H!HomeFeed, H!Vibed, H!RankPosts
<1>4. \A p \in shown : H!InTime(q.user, q.kind, p)
  <2>. SUFFICES ASSUME NEW p \in shown PROVE H!InTime(q.user, q.kind, p) OBVIOUS
  <2>1. p \in Items /\ H!HomeFilter(q.user, hItems[p], q.who) BY <1>3
  <2>. QED BY <1>1, <1>2, <2>1, HeldInTime DEF H!HomeFilter
<1>. QED BY <1>1, <1>2, <1>3, <1>4, ShowHolds, FeedFields

LEMMA NearbyHolds == ASSUME FeedInv, NEW r \in Requests, H!NearbyPosts(r) PROVE FeedInv'
<1>1. PICK q : q = hReq[r] OBVIOUS
<1>2. hReq[r].pc = "ready" /\ hWalk' = hWalk BY DEF H!NearbyPosts, H!At
<1>3. PICK shown : /\ shown = {p \in Items \ Reels : H!IsPublic(hItems[p])} /\ H!Show(r, shown)
  BY DEF H!NearbyPosts
<1>4. \A p \in shown : H!InTime(q.user, q.kind, p) BY <1>1, <1>2, <1>3, HeldInTime
<1>. QED BY <1>1, <1>2, <1>3, <1>4, ShowHolds, FeedFields

LEMMA ForYouHolds == ASSUME FeedInv, NEW r \in Requests, H!ForYouFeed(r) PROVE FeedInv'
<1>1. PICK q : q = hReq[r] OBVIOUS
<1>2. hReq[r].pc = "ready" /\ q.kind = "foryou" /\ hWalk' = hWalk BY <1>1 DEF H!ForYouFeed, H!At
<1>3. PICK retrieved, shown :
        /\ retrieved \in H!Retrieved(q.user)
        /\ shown = {p \in retrieved \cup q.items : hItems[p].author # q.user} /\ H!Show(r, shown)
  BY <1>1 DEF H!ForYouFeed, H!RankPosts
<1>4. \A p \in shown : H!InTime(q.user, q.kind, p)
  <2>. SUFFICES ASSUME NEW p \in shown PROVE H!InTime(q.user, q.kind, p) OBVIOUS
  <2>1. CASE p \in q.items BY <1>1, <1>2, <2>1, HeldInTime
  <2>2. CASE p \in retrieved
    <3>1. p \in Items /\ H!IsPublic(hItems[p]) BY <1>3, <2>2 DEF H!Retrieved
    <3>. QED BY <1>1, <1>2, <3>1, HeldInTime
  <2>. QED BY <1>3, <2>1, <2>2
<1>. QED BY <1>1, <1>2, <1>3, <1>4, ShowHolds, FeedFields

LEMMA PoolHolds == ASSUME FeedInv, NEW r \in Requests, H!PoolFeed(r) PROVE FeedInv'
<1>1. PICK q : q = hReq[r] OBVIOUS
<1>2. hReq[r].pc = "ready" /\ q.kind \in {"global", "trending"} /\ hWalk' = hWalk
  BY <1>1 DEF H!PoolFeed, H!At
<1>3. H!Show(r, q.items) BY <1>1 DEF H!PoolFeed, H!RankPosts
<1>4. \A p \in q.items : H!InTime(q.user, q.kind, p) BY <1>1, <1>2, HeldInTime
<1>. QED BY <1>1, <1>2, <1>3, <1>4, ShowHolds, FeedFields

LEMMA ReelsHolds == ASSUME FeedInv, NEW r \in Requests, H!ReelsFeed(r) PROVE FeedInv'
<1>1. PICK q : q = hReq[r] OBVIOUS
<1>2. hReq[r].pc = "ready" /\ q.kind = "reels" /\ hWalk' = hWalk BY <1>1 DEF H!ReelsFeed, H!At
<1>3. PICK shown \in {H!FollowedReels(q), q.items} : H!Show(r, shown)
  BY <1>1 DEF H!ReelsFeed, H!RankReels
<1>4. shown \subseteq q.items BY <1>3 DEF H!FollowedReels
<1>5. \A p \in shown : H!InTime(q.user, q.kind, p) BY <1>1, <1>2, <1>4, HeldInTime
<1>. QED BY <1>1, <1>2, <1>3, <1>5, ShowHolds, FeedFields

\* A page of the feed by date, whole or broken off.
LEMMA TurnHolds ==
  ASSUME FeedInv, NEW r \in Requests, NEW found, found = H!Found(r), NEW page \in SUBSET found,
         NEW broken \in BOOLEAN, H!TurnPage(r, found, page, broken)
  PROVE  FeedInv'
<1>1. PICK q : q = hReq[r] OBVIOUS
<1>2. hReq[r].pc = "ready" /\ q.kind = "following" /\ H!Show(r, page)
      /\ \A p \in page, x \in found \ page : hItems[x].at <= hItems[p].at
  BY <1>1 DEF H!TurnPage, H!At
<1>3. PICK v, who : v = q.user /\ who = q.who OBVIOUS
<1>4. found = Found(v, who) BY <1>1, <1>3 DEF Found, H!Found
<1>5. PICK blind, before :
        /\ blind = hWalk.blind \cup Blinded(who)
        /\ before = (IF page = {} THEN hWalk.before ELSE H!Cursor(page, found \ page))
  OBVIOUS
<1>6. PICK over \in BOOLEAN, cut \in BOOLEAN :
        over = (broken \/ found = page) /\ cut = (broken /\ found # page)
  OBVIOUS
<1>7. PICK w : w = Turn(blind, page, before, over, cut) OBVIOUS
<1>8. hWalk' = w BY <1>1, <1>3, <1>5, <1>6, <1>7 DEF H!TurnPage, Turn, Blinded
<1>9. over /\ ~cut => found = page BY <1>6
<1>10. w \in Turned /\ WalkOK(w, hItems) BY <1>2, <1>4, <1>5, <1>7, <1>9, FeedFields, PageTurned
<1>11. \A p \in page : H!InTime(q.user, q.kind, p)
  <2>. SUFFICES ASSUME NEW p \in page PROVE H!InTime(q.user, q.kind, p) OBVIOUS
  <2>1. p \in Items /\ H!InFollowing(q.user, hItems[p], q.who) BY <1>3, <1>4 DEF Found
  <2>. QED BY <1>1, <1>2, <2>1, HeldInTime DEF H!InFollowing
<1>. QED BY <1>1, <1>2, <1>8, <1>10, <1>11, ShowHolds

LEMMA FollowingHolds == ASSUME FeedInv, NEW r \in Requests, H!FollowingFeed(r) PROVE FeedInv'
<1>1. PICK found : found = H!Found(r) OBVIOUS
<1>2. PICK page \in SUBSET found : H!TurnPage(r, found, page, FALSE) BY <1>1 DEF H!FollowingFeed
<1>. QED BY <1>1, <1>2, TurnHolds

LEMMA FailsHolds == ASSUME FeedInv, NEW r \in Requests, H!FollowingFails(r) PROVE FeedInv'
<1>1. PICK found : found = H!Found(r) OBVIOUS
<1>2. PICK page \in SUBSET found : H!TurnPage(r, found, page, TRUE) BY <1>1 DEF H!FollowingFails
<1>. QED BY <1>1, <1>2, TurnHolds

-----------------------------------------------------------------------------
(* The pages, from the starts that ContentMC gives them.                         *)

LEMMA UnreadHolds ==
  ASSUME hItems \in [Items -> FItem], ItemsOK(hItems), hFollows \subseteq Readers \X Authors,
         hCalls \in 0 .. MaxFeedCalls, H!Unread,
         hCache = [k \in H!Keys |-> H!Absent]
           \/ hCache = [k \in H!Keys |-> [H!Fetched(k) EXCEPT !.left = H!Lives(k)]]
  PROVE  FeedInv
<1>1. /\ hReq = [r \in Requests |-> H!Idle] /\ hOld = {} /\ hWalk = H!NoWalk
      /\ hGone = [public |-> [p \in Items |-> IF H!IsPublic(hItems[p]) THEN 0 ELSE H!Long],
                  shared |-> [p \in Items |-> IF H!IsShared(hItems[p]) THEN 0 ELSE H!Long],
                  followed |-> [e \in Readers \X Authors |-> IF e \in hFollows THEN 0 ELSE H!Long]]
  BY DEF H!Unread
<1>2. H!Long \in Nat BY FeedFacts DEF H!Long
<1>3. hGone \in FeedAges BY <1>1, <1>2 DEF FeedAges
<1>4. /\ \A p \in Items : /\ H!IsPublic(hItems[p]) => hGone.public[p] = 0
                          /\ H!IsShared(hItems[p]) => hGone.shared[p] = 0
      /\ \A e \in Readers \X Authors : e \in hFollows => hGone.followed[e] = 0
  BY <1>1
<1>5. AgesOK(hItems, hFollows, hGone) BY <1>4 DEF AgesOK
<1>6. hReq \in [Requests -> Reader] /\ HandlersOK(hReq, hGone)
  <2>1. \A r \in Requests : hReq[r] = H!Idle BY <1>1
  <2>2. hReq \in [Requests -> Reader] BY <1>1, IdleReader
  <2>. QED BY <2>1, <2>2, IdleReader, IdleRecent DEF HandlersOK
<1>7. hWalk \in Turned /\ WalkOK(hWalk, hItems) BY <1>1, NoWalkOK
<1>8. ASSUME NEW k \in H!Keys PROVE hCache[k] \in Cached /\ CacheOK(k, hCache[k], hGone)
  <2>1. CASE hCache = [j \in H!Keys |-> H!Absent]
    <3>1. hCache[k] = H!Absent BY <2>1
    <3>. QED BY <3>1, AbsentCached, AbsentOK
  <2>2. CASE hCache = [j \in H!Keys |-> [H!Fetched(j) EXCEPT !.left = H!Lives(j)]]
    <3>1. PoolTTL \in Nat /\ GraphTTL \in Nat BY FeedFacts
    <3>2. PICK n \in Nat : n = H!Lives(k) /\ n = IF k[1] \in H!Pools THEN PoolTTL + 1 ELSE GraphTTL + 1
      BY <3>1 DEF H!Lives, H!TTL
    <3>3. PICK c, d : c = H!Fetched(k) /\ d = [c EXCEPT !.left = n] OBVIOUS
    <3>4. hCache[k] = d BY <2>2, <3>2, <3>3
    <3>5. c \in Cached
      <4>1. CASE k[1] \in H!Pools
        <5>1. c = [H!Absent EXCEPT !.items = H!Candidates(k)] BY <3>3, <4>1 DEF H!Fetched
        <5>2. H!Candidates(k) \subseteq Items BY DEF H!Candidates
        <5>. QED BY <5>1, <5>2, AbsentCached DEF Cached
      <4>2. CASE k[1] \notin H!Pools
        <5>1. c = [H!Absent EXCEPT !.who = H!FollowedBy(k[2], hFollows)] BY <3>3, <4>2 DEF H!Fetched
        <5>2. H!FollowedBy(k[2], hFollows) \subseteq Authors BY DEF H!FollowedBy
        <5>. QED BY <5>1, <5>2, AbsentCached DEF Cached
      <4>. QED BY <4>1, <4>2
    <3>6. d \in Cached /\ d.left = n /\ d.who = c.who /\ d.items = c.items BY <3>3, <3>5 DEF Cached
    <3>7. ASSUME k[1] \in H!Pools, NEW p \in c.items PROVE hGone.public[p] + n <= PoolTTL + 2
      <4>1. c.items = H!Candidates(k)
        BY <3>3, <3>7, AbsentCached DEF H!Fetched, Cached
      <4>2. hGone.public[p] = 0 BY <1>4, <3>7, <4>1 DEF H!Candidates
      <4>. QED BY <3>1, <3>2, <3>7, <4>2
    <3>8. ASSUME k[1] \notin H!Pools, NEW a \in c.who PROVE hGone.followed[<<k[2], a>>] + n <= GraphTTL + 2
      <4>1. c.who = H!FollowedBy(k[2], hFollows)
        BY <3>3, <3>8, AbsentCached DEF H!Fetched, Cached
      <4>2. <<k[2], a>> \in hFollows BY <3>8, <4>1 DEF H!FollowedBy
      <4>3. hGone.followed[<<k[2], a>>] = 0 BY <1>4, <4>2
      <4>. QED BY <3>1, <3>2, <3>8, <4>3
    <3>. QED BY <3>4, <3>6, <3>7, <3>8 DEF CacheOK
  <2>. QED BY <2>1, <2>2
<1>9. hCache \in [H!Keys -> Cached] /\ CachesOK(hCache, hGone)
  <2>1. DOMAIN hCache = H!Keys /\ hCache = [k \in H!Keys |-> hCache[k]] OBVIOUS
  <2>. QED BY <1>8, <2>1 DEF CachesOK
<1>10. FeedTyped BY <1>3, <1>6, <1>7, <1>9 DEF FeedTyped
<1>. QED BY <1>1, <1>5, <1>6, <1>7, <1>9, <1>10 DEF FeedInv

LEMMA PublishedAt ==
  ASSUME NEW a \in Authors, NEW visibility \in H!Visibilities, NEW at \in Nat
  PROVE  Shown(a, visibility, at) \in FItem /\ Shown(a, visibility, at).at = at
BY DEF Shown, FItem

LEMMA FeedBegun == MCInit => FeedInv
<1>1. /\ MaxFeedCalls \in Nat /\ 1 <= MaxFeedCalls /\ 0 \in 0 .. MaxFeedCalls /\ 1 \in 0 .. MaxFeedCalls
  BY FeedFacts
<1>2. {"public", "followers"} \subseteq H!Visibilities BY DEF H!Visibilities
<1>3. ASSUME H!Init PROVE FeedInv
  <2>1. /\ hItems = [p \in Items |-> H!NoItem] /\ hFollows = {} /\ hCalls = 0 /\ H!Unread
        /\ hCache = [k \in H!Keys |-> H!Absent]
    BY <1>3 DEF H!Init
  <2>2. hItems \in [Items -> FItem] /\ ItemsOK(hItems) BY <2>1, NoItemHidden DEF ItemsOK
  <2>. QED BY <1>1, <2>1, <2>2, UnreadHolds
<1>4. ASSUME WalkStart PROVE FeedInv
  <2>1. PICK a \in Authors, at \in {1, 2} :
          hItems = [p \in Items |-> IF p \in Reels THEN H!NoItem
                                    ELSE IF p = Early THEN Shown(a, "public", 1)
                                    ELSE Shown(a, "followers", at)]
    BY <1>4 DEF WalkStart
  <2>2. \A p \in Items : hItems[p] \in FItem /\ (hItems[p] = H!NoItem \/ hItems[p].at > 0)
    BY <1>2, <2>1, NoItemHidden, PublishedAt
  <2>3. hItems \in [Items -> FItem] /\ ItemsOK(hItems) BY <2>1, <2>2 DEF ItemsOK
  <2>4. /\ hFollows = Readers \X Authors /\ hCalls = 0 /\ H!Unread
        /\ hCache = [k \in H!Keys |-> H!Absent]
    BY <1>4 DEF WalkStart
  <2>. QED BY <1>1, <2>3, <2>4, UnreadHolds
<1>5. ASSUME PagesStart PROVE FeedInv
  <2>1. PICK a \in Authors, visibility \in {"public", "followers"} :
          hItems = [p \in Items |-> IF p \in Reels THEN Shown(a, "public", 1)
                                    ELSE IF p = Early THEN Shown(a, visibility, 1) ELSE H!NoItem]
    BY <1>5 DEF PagesStart
  <2>2. \A p \in Items : hItems[p] \in FItem /\ (hItems[p] = H!NoItem \/ hItems[p].at > 0)
    BY <1>2, <2>1, NoItemHidden, PublishedAt
  <2>3. hItems \in [Items -> FItem] /\ ItemsOK(hItems) BY <2>1, <2>2 DEF ItemsOK
  <2>4. /\ hFollows = Readers \X Authors /\ hCalls = 1 /\ H!Unread
        /\ hCache = [k \in H!Keys |-> H!Absent]
           \/ hCache = [k \in H!Keys |-> [H!Fetched(k) EXCEPT !.left = H!Lives(k)]]
    BY <1>5 DEF PagesStart
  <2>. QED BY <1>1, <2>3, <2>4, UnreadHolds
<1>. QED BY <1>3, <1>4, <1>5 DEF MCInit

LEMMA FeedStep == ASSUME FeedInv, H!Next \/ UNCHANGED ofFeeds PROVE FeedInv'
<1>1. ASSUME NEW p \in Items,
             (\E a \in Authors, visibility \in H!Visibilities : H!Publish(p, a, visibility)) \/ H!Hide(p)
      PROVE  FeedInv'
  BY <1>1, PublishHolds, HideHolds
<1>2. CASE H!Tick BY <1>2, TickHolds
<1>3. ASSUME NEW r \in Requests, NEW v \in Readers,
             (\E a \in Authors : H!ToggleFollow(r, v, a)) \/ (\E kind \in Served : H!Ask(r, v, kind))
      PROVE  FeedInv'
  BY <1>3, ToggleHolds, AskHolds
<1>4. ASSUME NEW r \in Requests,
             \/ H!DropGraph(r) \/ H!DropReelGraph(r) \/ H!Load(r) \/ H!Fetch(r) \/ H!FetchThrows(r)
             \/ H!Store(r)
      PROVE  FeedInv'
  BY <1>4, DropHolds, DropReelsHolds, LoadHolds, FetchHolds, ThrowsHolds, StoreHolds
<1>5. ASSUME NEW r \in Requests,
             \/ H!HomeFeed(r) \/ H!NearbyPosts(r) \/ H!ForYouFeed(r) \/ H!PoolFeed(r) \/ H!ReelsFeed(r)
             \/ H!FollowingFeed(r) \/ H!FollowingFails(r)
      PROVE  FeedInv'
  BY <1>5, HomeHolds, NearbyHolds, ForYouHolds, PoolHolds, ReelsHolds, FollowingHolds, FailsHolds
<1>6. CASE UNCHANGED ofFeeds
  <2>1. /\ hItems' = hItems /\ hFollows' = hFollows /\ hCache' = hCache /\ hReq' = hReq
        /\ hCalls' = hCalls /\ hGone' = hGone /\ hOld' = hOld /\ hWalk' = hWalk
    BY <1>6 DEF ofFeeds
  <2>. QED BY <2>1, OwnStep, FeedFields
<1>. QED BY <1>1, <1>2, <1>3, <1>4, <1>5, <1>6 DEF H!Next

LEMMA FeedTrue == ASSUME FeedInv PROVE H!TypeOK /\ H!PagesFresh /\ H!WalkComplete
<1>1. H!TypeOK
  <2>1. \A p \in Items : hItems[p].author \in Authors \cup {None} /\ hItems[p].visibility \in H!Visibilities
    BY FeedFields, ItemFields
  <2>2. \A k \in H!Keys : hCache[k].left >= 0 /\ hCache[k].who \subseteq Authors /\ hCache[k].items \subseteq Items
    BY FeedFields, CachedFields
  <2>3. \A r \in Requests : hReq[r].pc \in ReaderPCs BY FeedFields, ReaderFields
  <2>4. ASSUME NEW r \in Requests, H!At(r, "wait") PROVE H!Flies(hReq[r].of, H!Key(r))
    <3>1. WaitOK(hReq[r], hReq) /\ hReq[r].pc = "wait" BY <2>4, FeedFields DEF HandlersOK, H!At
    <3>2. PICK f \in Requests : f = hReq[r].of /\ hReq[f].pc \in Flying /\ KeyOf(hReq[f]) = KeyOf(hReq[r])
      BY <3>1 DEF WaitOK
    <3>3. H!Key(f) = H!Key(r) BY <3>2, KeyIs
    <3>. QED BY <3>2, <3>3 DEF H!Flies, Flying
  <2>. QED BY <2>1, <2>2, <2>3, <2>4, FeedFields DEF H!TypeOK, ReaderPCs
<1>2. H!PagesFresh BY FeedFields DEF H!PagesFresh
<1>3. H!WalkComplete
  <2>1. WalkOK(hWalk, hItems) /\ hWalk.owed \subseteq Items BY FeedFields, TurnedFields
  <2>2. ASSUME NEW p \in hWalk.owed, \A x \in Items \ {p} : hItems[x].at # hItems[p].at,
               hItems[p].author \notin hWalk.blind
        PROVE  /\ p \in hWalk.shown \/ hWalk.before = 0 \/ hItems[p].at < hWalk.before
               /\ hWalk.over /\ ~hWalk.cut => p \in hWalk.shown
    <3>1. p \in Items /\ Due(p, hWalk, hItems) BY <2>1, <2>2 DEF Due, Single
    <3>. QED BY <2>1, <3>1 DEF WalkOK
  <2>3. ~hWalk.twice BY <2>1 DEF WalkOK
  <2>. QED BY <2>2, <2>3 DEF H!WalkComplete
<1>. QED BY <1>1, <1>2, <1>3

LEMMA FeedAlways == MCSpec => []FeedInv
<1>1. MCInit => FeedInv BY FeedBegun
<1>2. FeedInv /\ [MCNext]_<<part, ofToggles, ofPosts, ofReels, ofChains, ofScores, ofDna,
                            ofRoulette, ofEgo, ofTaste, ofFeeds>> => FeedInv'
  BY FeedStep DEF MCNext, Rest
<1>. QED BY <1>1, <1>2, PTL DEF MCSpec

\* Whatever the caches behind a page hold and whichever handler filled them, a page shows
\* nothing that was not public, or shared and its author followed, within the life of the
\* cache and the two ticks of the handlers.  Who turns the pages of the feed by date sees
\* no post twice, and the cursor passes over none that was there all the time, is alone in
\* its instant and of an author whom no page's cached graph lacked: it is shown before the
\* cursor is beyond it, and by the page that says there is no more, unless a find broke off
\* behind that page, which then leaves what is older unseen (FeedService,
\* CacheService::getOrSet, getReelsFeed, toggleFollow).
THEOREM PagesHeld == MCSpec => []PagesHonest
<1>1. FeedInv => PagesHonest BY FeedTrue DEF PagesHonest
<1>. QED BY <1>1, FeedAlways, PTL
=============================================================================
