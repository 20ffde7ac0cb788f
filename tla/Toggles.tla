------------------------------- MODULE Toggles -------------------------------
(* Likes and bookmarks of a post and of a reel: toggleLike of the model like,    *)
(* the handlers of the post and the reel controller that call it, and the        *)
(* bookmark controller.  Every command is a step; several requests of one user   *)
(* and of others run at once.  Both collections have a unique index.             *)
EXTENDS Integers, FiniteSets

CONSTANTS
  Users,
  Requests,
  None,
  MaxCalls     \* bound: requests

TogglesAssumption == MaxCalls \in Nat /\ IsFiniteSet(Users) /\ IsFiniteSet(Requests)

VARIABLES
  tLive,       \* items that may be liked and saved
  tLikes,      \* the collection of likes: <<user, item>>
  tShown,      \* stats.likes of an item
  tBooks,      \* the collection of bookmarks: the id of a user's bookmark of an item
  tSaves,      \* stats.saves of the reel
  tReq,        \* handlers
  tCalls,      \* what MaxCalls bounds; the id of the next bookmark
  tAlone,      \* history: toggles of the post's like that no other one overlaps
  tSettled,    \* history: the last of them to end was one
  tBroken      \* history: a handler broke off between two of its commands

Targets == {"post", "reel"}
tVars == <<tLive, tLikes, tShown, tBooks, tSaves, tReq, tCalls, tAlone, tSettled, tBroken>>
documents == <<tLive, tLikes, tShown, tBooks, tSaves>>

NoBook == 0
Idle == [pc |-> "idle", user |-> None, item |-> None, n |-> 0]
At(r, pc) == tReq[r].pc = pc
Goto(r, pc, n) == tReq' = [tReq EXCEPT ![r].pc = pc, ![r].n = n]

LikeCount(i) == Cardinality({u \in Users : <<u, i>> \in tLikes})
Saved(i) == {u \in Users : tBooks[<<u, i>>] # NoBook}
Liking == {"delete", "insert", "count", "sync"}
Toggling == {r \in Requests : tReq[r].item = "post" /\ tReq[r].pc \in Liking}

\* A request begins once its first read is done.
Begin(r, pc, u, i, n) ==
  /\ At(r, "idle")
  /\ tCalls < MaxCalls
  /\ tCalls' = tCalls + 1
  /\ tReq' = [tReq EXCEPT ![r] = [pc |-> pc, user |-> u, item |-> i, n |-> n]]
  /\ tAlone' = IF pc # "delete" \/ i # "post" THEN tAlone
               ELSE IF Toggling = {} THEN {r} ELSE {}
  /\ UNCHANGED <<documents, tSettled, tBroken>>

Stepped == UNCHANGED <<tCalls, tAlone, tSettled, tBroken>>
End(r) == tReq' = [tReq EXCEPT ![r] = Idle] /\ Stepped

-----------------------------------------------------------------------------
(* Likes.                                                                       *)
LikeFind(r, u, i) == i \in tLive /\ Begin(r, "delete", u, i, 0)

\* The deletion is the test and the removal in one.
LikeDelete(r) ==
  LET mine == <<tReq[r].user, tReq[r].item>> IN
  /\ At(r, "delete")
  /\ tLikes' = tLikes \ {mine}
  /\ Goto(r, IF mine \in tLikes THEN "count" ELSE "insert", 0)
  /\ Stepped
  /\ UNCHANGED <<tLive, tShown, tBooks, tSaves>>

\* A duplicate is no error: the index has kept the other request's like.
LikeInsert(r) ==
  /\ At(r, "insert")
  /\ tLikes' = tLikes \cup {<<tReq[r].user, tReq[r].item>>}
  /\ Goto(r, "count", 0)
  /\ Stepped
  /\ UNCHANGED <<tLive, tShown, tBooks, tSaves>>

\* The reel's handler answers with the count; the post's goes on to store it.
LikeRecount(r) ==
  /\ At(r, "count")
  /\ IF tReq[r].item = "post"
     THEN Goto(r, "sync", LikeCount("post")) /\ Stepped
     ELSE End(r)
  /\ UNCHANGED documents

\* Mutant: the count kept with the post is moved, not replaced.
LikeSyncMoving(r) ==
  /\ At(r, "sync")
  /\ tShown' = [tShown EXCEPT !["post"] =
                  IF <<tReq[r].user, "post">> \in tLikes THEN @ + 1 ELSE @ - 1]
  /\ tReq' = [tReq EXCEPT ![r] = Idle]
  /\ tSettled' = (r \in tAlone)
  /\ UNCHANGED <<tLive, tLikes, tBooks, tSaves, tCalls, tAlone, tBroken>>

LikeSync(r) ==
  /\ At(r, "sync")
  /\ tShown' = [tShown EXCEPT !["post"] = tReq[r].n]
  /\ tReq' = [tReq EXCEPT ![r] = Idle]
  /\ tSettled' = (r \in tAlone)
  /\ UNCHANGED <<tLive, tLikes, tBooks, tSaves, tCalls, tAlone, tBroken>>

-----------------------------------------------------------------------------
(* Bookmarks.                                                                   *)
BookFind(r, u, i) ==
  LET id == tBooks[<<u, i>>] IN
  IF id # NoBook THEN Begin(r, "unsave", u, i, id)
  ELSE i \in tLive /\ Begin(r, "save", u, i, tCalls + 1)

\* Mutant: the request that deleted nothing counts as well.
BookDeleteTwice(r) ==
  LET q == tReq[r]
      mine == <<q.user, q.item>> IN
  /\ At(r, "unsave")
  /\ tBooks' = IF tBooks[mine] = q.n THEN [tBooks EXCEPT ![mine] = NoBook] ELSE tBooks
  /\ IF q.item = "reel" THEN Goto(r, "dec", 0) /\ Stepped ELSE End(r)
  /\ UNCHANGED <<tLive, tLikes, tShown, tSaves>>

\* The bookmark that was read is deleted by its id.
BookDelete(r) ==
  LET q == tReq[r]
      mine == <<q.user, q.item>>
      there == tBooks[mine] = q.n IN
  /\ At(r, "unsave")
  /\ tBooks' = IF there THEN [tBooks EXCEPT ![mine] = NoBook] ELSE tBooks
  /\ IF there /\ q.item = "reel" THEN Goto(r, "dec", 0) /\ Stepped ELSE End(r)
  /\ UNCHANGED <<tLive, tLikes, tShown, tSaves>>

SavesDec(r) ==
  /\ At(r, "dec")
  /\ tSaves' = IF tSaves > 0 THEN tSaves - 1 ELSE tSaves
  /\ End(r)
  /\ UNCHANGED <<tLive, tLikes, tShown, tBooks>>

\* The unique index refuses the second bookmark, and its request fails.
BookInsert(r) ==
  LET q == tReq[r]
      mine == <<q.user, q.item>> IN
  /\ At(r, "save")
  /\ IF tBooks[mine] # NoBook
     THEN End(r) /\ UNCHANGED tBooks
     ELSE /\ tBooks' = [tBooks EXCEPT ![mine] = q.n]
          /\ IF q.item = "reel" THEN Goto(r, "inc", 0) /\ Stepped ELSE End(r)
  /\ UNCHANGED <<tLive, tLikes, tShown, tSaves>>

SavesInc(r) ==
  /\ At(r, "inc")
  /\ tSaves' = tSaves + 1
  /\ End(r)
  /\ UNCHANGED <<tLive, tLikes, tShown, tBooks>>

-----------------------------------------------------------------------------
\* The item goes: PostController::deletePost.
Retire ==
  /\ tLive' = tLive \ {"post"}
  /\ UNCHANGED <<tLikes, tShown, tBooks, tSaves, tReq, tCalls, tAlone, tSettled, tBroken>>

\* The process dies, or a command throws, between two commands.
BreakOff(r) ==
  /\ ~At(r, "idle")
  /\ tReq' = [tReq EXCEPT ![r] = Idle]
  /\ tSettled' = (tSettled /\ r \notin Toggling)
  /\ tBroken' = TRUE
  /\ UNCHANGED <<documents, tCalls, tAlone>>

Init ==
  /\ tLive = Targets
  /\ tLikes = {}
  /\ tShown = [i \in Targets |-> 0]
  /\ tBooks = [p \in Users \X Targets |-> NoBook]
  /\ tSaves = 0
  /\ tReq = [r \in Requests |-> Idle]
  /\ tCalls = 0
  /\ tAlone = {}
  /\ tSettled = TRUE
  /\ tBroken = FALSE

Next ==
  \/ \E r \in Requests :
       \/ \E u \in Users, i \in Targets : LikeFind(r, u, i) \/ BookFind(r, u, i)
       \/ LikeDelete(r) \/ LikeInsert(r) \/ LikeRecount(r) \/ LikeSync(r)
       \/ BookDelete(r) \/ SavesDec(r) \/ BookInsert(r) \/ SavesInc(r)
       \/ BreakOff(r)
  \/ Retire

-----------------------------------------------------------------------------
TypeOK ==
  /\ tLive \subseteq Targets
  /\ tLikes \subseteq Users \X Targets
  /\ tShown \in [Targets -> Int]
  /\ tBooks \in [Users \X Targets -> 0 .. MaxCalls]
  /\ tSaves \in Nat
  /\ tReq \in [Requests -> [pc : {"idle", "delete", "insert", "count", "sync", "unsave", "dec",
                                  "save", "inc"},
                            user : Users \cup {None}, item : Targets \cup {None},
                            n : Nat]]
  /\ tCalls \in 0 .. MaxCalls
  /\ tAlone \subseteq Requests
  /\ tSettled \in BOOLEAN
  /\ tBroken \in BOOLEAN

\* Toggles that overlap may store an old count over a new one, and a toggle may
\* end before it stores any; but the next one that no other overlaps puts the
\* count of the post right (PostController::toggleLike, "Sync the cached
\* stats.likes count atomically").
LikesSettle ==
  Toggling = {} /\ tSettled => tShown["post"] = LikeCount("post")

\* As long as no handler breaks off, the reel never shows fewer saves than there
\* are bookmarks, whatever requests have overlapped: only a request that removed
\* a bookmark takes one off (BookmarkController::toggleBookmark).
SavesNotUnder ==
  ~tBroken =>
    tSaves + Cardinality({r \in Requests : At(r, "inc")}) >= Cardinality(Saved("reel"))
=============================================================================
