------------------------------- MODULE SocialGraph ------------------------------
(* Who follows whom and who posted what, and the counters every user document  *)
(* keeps of it: toggling a follow (UserController::toggleFollow), blocking,    *)
(* creating and deleting a post, deleting an account, and the profile request  *)
(* that compares the counters with the collections and repairs them            *)
(* (getCurrentUser).                                                           *)
EXTENDS Community, Integers

CONSTANTS
  PostIds,
  MaxChanges    \* bound: requests other than profile reads, and handlers cut off

\* Nothing is not the id of a post, and the posts are finitely many.
GraphAssumption == None \notin PostIds /\ IsFiniteSet(PostIds) /\ MaxChanges \in Nat

VARIABLES
  gFollows,     \* collection follows: pairs of follower and followed
  gBlocked,     \* blockedUsers: pairs of blocker and blocked
  gPosts,       \* collection posts: author and isActive
  gStats,       \* stats.followers, stats.following, stats.posts
  gGone,        \* users whose account is deleted
  gReq,         \* handlers
  gBegun        \* what MaxChanges bounds

gData == <<gFollows, gBlocked, gPosts, gGone>>
gVars == <<gData, gStats, gReq, gBegun>>

Counters == {"followers", "following", "posts"}
Unmade == [author |-> None, active |-> FALSE]
Post == [author : Users \cup {None}, active : BOOLEAN]

Idle == [pc |-> "idle", op |-> "idle", user |-> None, other |-> None, post |-> None,
         counts |-> [c \in Counters |-> 0], cached |-> [c \in Counters |-> 0]]
Call == [pc : {"idle", "delete", "insert", "countFollowers", "countFollowing",
               "setFollowers", "setFollowing", "block", "unfollow", "unfollowBack",
               "unblock", "insertPost", "incPosts", "deactivate", "decPosts",
               "leave", "hidePosts", "dropFollows",
               "readStats", "ownFollowers", "ownFollowing", "ownPosts", "repair"},
         op : {"idle", "follow", "block", "unblock", "create", "remove", "leave", "profile"},
         user : Users \cup {None}, other : Users \cup {None}, post : PostIds \cup {None},
         counts : [Counters -> Nat], cached : [Counters -> Int]]

Init ==
  /\ gFollows = {} /\ gBlocked = {} /\ gGone = {}
  /\ gPosts = [p \in PostIds |-> Unmade]
  /\ gStats = [u \in Users |-> [c \in Counters |-> 0]]
  /\ gReq = [r \in Requests |-> Idle]
  /\ gBegun = 0

At(r, pc) == gReq[r].pc = pc
Goto(r, pc) == gReq' = [gReq EXCEPT ![r].pc = pc]
End(r) == gReq' = [gReq EXCEPT ![r] = Idle]

Followers(u) == Cardinality({v \in Users : <<v, u>> \in gFollows})
Following(u) == Cardinality({v \in Users : <<u, v>> \in gFollows})
ActivePosts(u) == Cardinality({p \in PostIds : gPosts[p] = [author |-> u, active |-> TRUE]})

Begin(r, op, pc, u, v, p) ==
  /\ At(r, "idle") /\ u \notin gGone
  /\ gBegun < MaxChanges
  /\ gBegun' = gBegun + 1
  /\ gReq' = [gReq EXCEPT ![r] = [Idle EXCEPT
       !.pc = pc, !.op = op, !.user = u, !.other = v, !.post = p]]
  /\ UNCHANGED <<gData, gStats>>

-----------------------------------------------------------------------------
(* toggleFollow: delete, else insert; count again; store both counts.          *)
BeginFollow(r, u, v) == u # v /\ Begin(r, "follow", "delete", u, v, None)

DeleteFollow(r) ==
  LET pair == <<gReq[r].user, gReq[r].other>> IN
  /\ At(r, "delete")
  /\ gFollows' = gFollows \ {pair}
  /\ Goto(r, IF pair \in gFollows THEN "countFollowers" ELSE "insert")
  /\ UNCHANGED <<gBlocked, gPosts, gGone, gStats, gBegun>>

\* A duplicate of a concurrent follow is swallowed.
InsertFollow(r) ==
  /\ At(r, "insert")
  /\ gFollows' = gFollows \cup {<<gReq[r].user, gReq[r].other>>}
  /\ Goto(r, "countFollowers")
  /\ UNCHANGED <<gBlocked, gPosts, gGone, gStats, gBegun>>

CountFollowers(r) ==
  /\ At(r, "countFollowers")
  /\ gReq' = [gReq EXCEPT ![r] = [@ EXCEPT !.pc = "countFollowing",
       !.counts["followers"] = Followers(gReq[r].other)]]
  /\ UNCHANGED <<gData, gStats, gBegun>>

CountFollowing(r) ==
  /\ At(r, "countFollowing")
  /\ gReq' = [gReq EXCEPT ![r] = [@ EXCEPT !.pc = "setFollowers",
       !.counts["following"] = Following(gReq[r].user)]]
  /\ UNCHANGED <<gData, gStats, gBegun>>

SetFollowers(r) ==
  /\ At(r, "setFollowers")
  /\ gStats' = [gStats EXCEPT ![gReq[r].other]["followers"] = gReq[r].counts["followers"]]
  /\ Goto(r, "setFollowing")
  /\ UNCHANGED <<gData, gBegun>>

SetFollowing(r) ==
  /\ At(r, "setFollowing")
  /\ gStats' = [gStats EXCEPT ![gReq[r].user]["following"] = gReq[r].counts["following"]]
  /\ End(r)
  /\ UNCHANGED <<gData, gBegun>>

-----------------------------------------------------------------------------
(* blockUser ends both follows and leaves the counters; unblockUser.           *)
BeginBlock(r, u, v) == u # v /\ Begin(r, "block", "block", u, v, None)
BeginUnblock(r, u, v) == u # v /\ Begin(r, "unblock", "unblock", u, v, None)

Block(r) ==
  /\ At(r, "block")
  /\ gBlocked' = gBlocked \cup {<<gReq[r].user, gReq[r].other>>}
  /\ Goto(r, "unfollow")
  /\ UNCHANGED <<gFollows, gPosts, gGone, gStats, gBegun>>

Unfollow(r) ==
  /\ At(r, "unfollow")
  /\ gFollows' = gFollows \ {<<gReq[r].user, gReq[r].other>>}
  /\ Goto(r, "unfollowBack")
  /\ UNCHANGED <<gBlocked, gPosts, gGone, gStats, gBegun>>

UnfollowBack(r) ==
  /\ At(r, "unfollowBack")
  /\ gFollows' = gFollows \ {<<gReq[r].other, gReq[r].user>>}
  /\ End(r)
  /\ UNCHANGED <<gBlocked, gPosts, gGone, gStats, gBegun>>

Unblock(r) ==
  /\ At(r, "unblock")
  /\ gBlocked' = gBlocked \ {<<gReq[r].user, gReq[r].other>>}
  /\ End(r)
  /\ UNCHANGED <<gFollows, gPosts, gGone, gStats, gBegun>>

-----------------------------------------------------------------------------
(* createPost and deletePost: the document, then the author's counter; the     *)
(* second is best effort.                                                      *)
BeginCreate(r, u, p) ==
  /\ gPosts[p] = Unmade
  /\ \A q \in Requests : gReq[q].post # p
  /\ Begin(r, "create", "insertPost", u, None, p)
BeginRemove(r, p) ==
  /\ gPosts[p] # Unmade
  /\ Begin(r, "remove", "deactivate", gPosts[p].author, None, p)

InsertPost(r) ==
  /\ At(r, "insertPost")
  /\ gPosts' = [gPosts EXCEPT ![gReq[r].post] = [author |-> gReq[r].user, active |-> TRUE]]
  /\ Goto(r, "incPosts")
  /\ UNCHANGED <<gFollows, gBlocked, gGone, gStats, gBegun>>

IncPosts(r) ==
  /\ At(r, "incPosts")
  /\ gStats' = [gStats EXCEPT ![gReq[r].user]["posts"] = @ + 1]
  /\ End(r)
  /\ UNCHANGED <<gData, gBegun>>

\* Only the request that ends the post counts it down.
DeactivatePost(r) ==
  LET p == gReq[r].post IN
  /\ At(r, "deactivate")
  /\ gPosts' = [gPosts EXCEPT ![p].active = FALSE]
  /\ IF gPosts[p].active THEN Goto(r, "decPosts") ELSE End(r)
  /\ UNCHANGED <<gFollows, gBlocked, gGone, gStats, gBegun>>

DecPosts(r) ==
  /\ At(r, "decPosts")
  /\ gStats' = [gStats EXCEPT ![gReq[r].user]["posts"] = @ - 1]
  /\ End(r)
  /\ UNCHANGED <<gData, gBegun>>

-----------------------------------------------------------------------------
(* deleteAccount: the user document (his sessions are AuthSession's), then his  *)
(* posts, which may fail, and his follows.                                     *)
BeginLeave(r, u) == Begin(r, "leave", "leave", u, None, None)

Leave(r) ==
  /\ At(r, "leave")
  /\ gGone' = gGone \cup {gReq[r].user}
  /\ Goto(r, "hidePosts")
  /\ UNCHANGED <<gFollows, gBlocked, gPosts, gStats, gBegun>>

HidePosts(r) ==
  /\ At(r, "hidePosts")
  /\ gPosts' \in {gPosts, [p \in PostIds |->
       IF gPosts[p].author = gReq[r].user
       THEN [gPosts[p] EXCEPT !.active = FALSE] ELSE gPosts[p]]}
  /\ Goto(r, "dropFollows")
  /\ UNCHANGED <<gFollows, gBlocked, gGone, gStats, gBegun>>

DropFollows(r) ==
  /\ At(r, "dropFollows")
  /\ gFollows' = {pair \in gFollows : gReq[r].user \notin {pair[1], pair[2]}}
  /\ End(r)
  /\ UNCHANGED <<gBlocked, gPosts, gGone, gStats, gBegun>>

-----------------------------------------------------------------------------
(* getCurrentUser: the document, three counts, and the repair where they       *)
(* differ from what the document said.                                         *)
BeginProfile(r, u) ==
  /\ At(r, "idle") /\ u \notin gGone
  /\ gReq' = [gReq EXCEPT ![r] = [Idle EXCEPT !.pc = "readStats", !.op = "profile", !.user = u]]
  /\ UNCHANGED <<gData, gStats, gBegun>>

ReadStats(r) ==
  /\ At(r, "readStats")
  /\ gReq' = [gReq EXCEPT ![r] = [@ EXCEPT !.pc = "ownFollowers", !.cached = gStats[gReq[r].user]]]
  /\ UNCHANGED <<gData, gStats, gBegun>>

OwnFollowers(r) ==
  /\ At(r, "ownFollowers")
  /\ gReq' = [gReq EXCEPT ![r] = [@ EXCEPT !.pc = "ownFollowing",
       !.counts["followers"] = Followers(gReq[r].user)]]
  /\ UNCHANGED <<gData, gStats, gBegun>>

OwnFollowing(r) ==
  /\ At(r, "ownFollowing")
  /\ gReq' = [gReq EXCEPT ![r] = [@ EXCEPT !.pc = "ownPosts",
       !.counts["following"] = Following(gReq[r].user)]]
  /\ UNCHANGED <<gData, gStats, gBegun>>

\* Mutant: posts alone do not count as a drift.
DriftedFollows(q) ==
  \E c \in {"followers", "following"} : q.cached[c] # q.counts[c]

Drifted(q) == q.cached # q.counts

OwnPosts(r) ==
  LET q == [gReq[r] EXCEPT !.counts["posts"] = ActivePosts(gReq[r].user)] IN
  /\ At(r, "ownPosts")
  /\ IF Drifted(q)
     THEN gReq' = [gReq EXCEPT ![r] = [q EXCEPT !.pc = "repair"]]
     ELSE End(r)
  /\ UNCHANGED <<gData, gStats, gBegun>>

Repair(r) ==
  /\ At(r, "repair")
  /\ gStats' = [gStats EXCEPT ![gReq[r].user] = gReq[r].counts]
  /\ End(r)
  /\ UNCHANGED <<gData, gBegun>>

-----------------------------------------------------------------------------
\* A handler that throws or whose process dies.
Abort(r) ==
  /\ ~At(r, "idle")
  /\ gBegun < MaxChanges
  /\ gBegun' = gBegun + 1
  /\ End(r)
  /\ UNCHANGED <<gData, gStats>>

Step(r) ==
  \/ DeleteFollow(r) \/ InsertFollow(r) \/ CountFollowers(r) \/ CountFollowing(r)
  \/ SetFollowers(r) \/ SetFollowing(r)
  \/ Block(r) \/ Unfollow(r) \/ UnfollowBack(r) \/ Unblock(r)
  \/ InsertPost(r) \/ IncPosts(r) \/ DeactivatePost(r) \/ DecPosts(r)
  \/ Leave(r) \/ HidePosts(r) \/ DropFollows(r)
  \/ ReadStats(r) \/ OwnFollowers(r) \/ OwnFollowing(r) \/ OwnPosts(r) \/ Repair(r)

Next ==
  \/ \E r \in Requests :
       \/ \E u \in Users :
            \/ \E v \in Users : BeginFollow(r, u, v) \/ BeginBlock(r, u, v) \/ BeginUnblock(r, u, v)
            \/ \E p \in PostIds : BeginCreate(r, u, p)
            \/ BeginLeave(r, u)
            \/ BeginProfile(r, u)
       \/ \E p \in PostIds : BeginRemove(r, p)
       \/ Step(r) \/ Abort(r)

Spec == Init /\ [][Next]_gVars

\* A worker finishes its handler, and users look at their own profiles again
\* and again.
Fairness ==
  /\ \A r \in Requests : WF_gVars(Step(r))
  /\ \A u \in Users : SF_gVars(\E r \in Requests : BeginProfile(r, u))
FairSpec == Spec /\ Fairness

-----------------------------------------------------------------------------
(* Properties                                                                  *)

TypeOK ==
  /\ gFollows \subseteq Users \X Users
  /\ gBlocked \subseteq Users \X Users
  /\ gPosts \in [PostIds -> Post]
  /\ gGone \subseteq Users
  /\ gStats \in [Users -> [Counters -> Int]]
  /\ gReq \in [Requests -> Call]
  /\ gBegun \in 0 .. MaxChanges

Exact(u) ==
  gStats[u] = [followers |-> Followers(u), following |-> Following(u), posts |-> ActivePosts(u)]

\* Counters drift when requests overlap, after a block and after a deleted
\* account, but only for a while: once nothing changes any more, a user who
\* looks at his profile has exact counters and keeps them ("sync stats if
\* drifted", getCurrentUser).
DriftHeals ==
  \A u \in Users :
    <>[](\A r \in Requests : gReq[r].op \in {"idle", "profile"}) =>
      <>[](u \in gGone \/ Exact(u))
=============================================================================
