--------------------------------- MODULE Feeds ---------------------------------
(* The pages users read: FeedService and ReelController::getReelsFeed.  What a  *)
(* page is made from is partly cached: the followed of a user for a minute, the *)
(* pools of candidates, one for all users, for half of one.  A cache is filled  *)
(* by one handler of a process for all that ask meanwhile, and the fetch, the   *)
(* SETEX and the use of the value are apart.  An order of posts is left open,   *)
(* but for the feed by date; likes shown with a post are left out.              *)
EXTENDS Integers, FiniteSets, FiniteSetsExt

CONSTANTS
  People,
  Readers,     \* of People
  Authors,     \* of People
  Items,       \* posts and reels
  Reels,       \* of Items
  Requests,    \* handlers
  None,
  Served,      \* the kinds of pages asked for
  Limit,       \* posts on a page of the feed by date
  PoolTTL,     \* ticks; a tick is the longest life of a pool, its jitter included
  GraphTTL,
  MaxFeedCalls \* bound: requests, edits and changes of the follow graph

VARIABLES
  hItems,      \* the collections of posts and of reels
  hFollows,    \* the collection of follows
  hCache,      \* Redis
  hReq,        \* handlers
  hCalls,      \* what MaxFeedCalls bounds
  hGone,       \* history: ticks since an item was public, or shared, or its author followed
  hOld,        \* history: items a page showed after their time
  hWalk        \* history: one reader who turns the pages of the feed by date

hVars == <<hItems, hFollows, hCache, hReq, hCalls, hGone, hOld, hWalk>>

Kinds == {"home", "following", "foryou", "global", "trending", "nearby", "reels"}
Visibilities == {"public", "followers", "private"}

\* Who reads or is read is a person; there are finitely many items, some of them reels.
FeedsAssumption ==
  /\ Readers \subseteq People /\ Authors \subseteq People /\ Served \subseteq Kinds
  /\ Items # {} /\ IsFiniteSet(Items) /\ Reels \subseteq Items
  /\ Limit \in Nat \ {0} /\ PoolTTL \in Nat /\ GraphTTL \in Nat /\ MaxFeedCalls \in Nat

NoItem == [author |-> None, visibility |-> "private", active |-> FALSE, at |-> 0]

\* followgraph:{user}, reel:following:{user}, feed:candidate:{kind} and
\* reel:candidate:foryou.
Pools == {"foryou", "global", "trending", "reels"}
Keys == ({"graph", "reelgraph"} \X Readers) \cup (Pools \X {None})
TTL(key) == IF key[1] \in Pools THEN PoolTTL ELSE GraphTTL
\* The caches a page of a kind is made from, in the order they are read.
Plan(kind, v) ==
  CASE kind \in {"home", "following"} -> <<<<"graph", v>>>>
    [] kind \in {"foryou", "global"} -> <<<<"graph", v>>, <<kind, None>>>>
    [] kind = "trending" -> <<<<"trending", None>>>>
    [] kind = "reels" -> <<<<"reels", None>>, <<"reelgraph", v>>>>
    [] kind = "nearby" -> <<>>

Absent == [left |-> 0, who |-> {}, items |-> {}]
NoWalk == [by |-> None, before |-> 0, owed |-> {}, blind |-> {}, shown |-> {}, twice |-> FALSE,
           over |-> FALSE, cut |-> FALSE]
Idle == [pc |-> "idle", user |-> None, kind |-> "home", step |-> 1, who |-> {}, items |-> {},
         val |-> Absent, of |-> None, late |-> FALSE]

At(r, pc) == hReq[r].pc = pc
Key(r) == Plan(hReq[r].kind, hReq[r].user)[hReq[r].step]
Exists(p) == hItems[p] # NoItem
Latest == Max({hItems[p].at : p \in Items})

IsPublic(item) == item.active /\ item.visibility = "public"
IsShared(item) == item.active /\ item.visibility \in {"public", "followers"}
\* What holds now has been gone for no time; the rest, Older says how long.
LastHeld(items, follows, Older(_)) ==
  [public |-> [p \in Items |-> IF IsPublic(items[p]) THEN 0 ELSE Older(hGone.public[p])],
   shared |-> [p \in Items |-> IF IsShared(items[p]) THEN 0 ELSE Older(hGone.shared[p])],
   followed |-> [e \in Readers \X Authors |->
                   IF e \in follows THEN 0 ELSE Older(hGone.followed[e])]]
Seen(items, follows) == hGone' = LastHeld(items, follows, LAMBDA n : n)
\* Longer ago than any page may show.
Long == GraphTTL + 3
\* What the reader on his walk is still owed.
InFollowing(v, item, who) ==
  IsShared(item) /\ item.author \in who
FollowedBy(v, follows) == {a \in People : <<v, a>> \in follows}
Owed(items, follows) ==
  hWalk' = [hWalk EXCEPT !.owed =
              {p \in @ : InFollowing(hWalk.by, items[p], FollowedBy(hWalk.by, follows))}]
Changes(items, follows) == Seen(items, follows) /\ Owed(items, follows)
Spend == hCalls < MaxFeedCalls /\ hCalls' = hCalls + 1

\* The longest life of what a page of a kind is decided by.
Life(kind) == IF kind \in {"home", "following"} THEN GraphTTL
              ELSE IF kind = "nearby" THEN -2 ELSE PoolTTL
\* An item was public, or shared and its author followed by the reader or himself,
\* no longer ago than a page of the kind may be behind.
InTime(v, kind, p) ==
  LET may == Life(kind) + 2
      a == hItems[p].author IN
  \/ hGone.public[p] <= may
  \/ hGone.shared[p] <= may /\ (a = v \/ hGone.followed[v, a] <= may)

-----------------------------------------------------------------------------
(* What others do meanwhile.                                                    *)
\* Two posts may be of one millisecond.
Publish(p, a, visibility) ==
  /\ Spend /\ ~Exists(p)
  /\ p \in Reels => visibility = "public"
  /\ \E at \in {Latest, Latest + 1} \ {0} :
       hItems' = [hItems EXCEPT ![p] = [author |-> a, visibility |-> visibility,
                                        active |-> TRUE, at |-> at]]
  /\ Changes(hItems', hFollows)
  /\ UNCHANGED <<hFollows, hCache, hReq, hOld>>
\* updatePost and deletePost touch no cache.
Hide(p) ==
  /\ Spend /\ Exists(p) /\ hItems[p].active
  /\ \/ /\ p \notin Reels
        /\ \E visibility \in Visibilities \ {hItems[p].visibility} :
             hItems' = [hItems EXCEPT ![p].visibility = visibility]
     \/ hItems' = [hItems EXCEPT ![p].active = FALSE]
  /\ Changes(hItems', hFollows)
  /\ UNCHANGED <<hFollows, hCache, hReq, hOld>>

\* toggleFollow: the graph, and later the two caches of it.
ToggleFollow(r, v, a) ==
  /\ Spend /\ At(r, "idle") /\ v # a
  /\ hFollows' = (IF <<v, a>> \in hFollows THEN hFollows \ {<<v, a>>} ELSE hFollows \cup {<<v, a>>})
  /\ hReq' = [hReq EXCEPT ![r].pc = "drop", ![r].user = v]
  /\ Changes(hItems, hFollows')
  /\ UNCHANGED <<hItems, hCache, hOld>>
DropGraph(r) ==
  /\ At(r, "drop")
  /\ hCache' = [hCache EXCEPT ![<<"graph", hReq[r].user>>] = Absent]
  /\ hReq' = [hReq EXCEPT ![r].pc = "dropReels"]
  /\ UNCHANGED <<hItems, hFollows, hCalls, hGone, hOld, hWalk>>
DropReelGraph(r) ==
  /\ At(r, "dropReels")
  /\ hCache' = [hCache EXCEPT ![<<"reelgraph", hReq[r].user>>] = Absent]
  /\ hReq' = [hReq EXCEPT ![r] = Idle]
  /\ UNCHANGED <<hItems, hFollows, hCalls, hGone, hOld, hWalk>>

\* No handler takes longer than a tick.
Tick ==
  /\ \A r \in Requests : ~hReq[r].late
  /\ hReq' = [r \in Requests |-> [hReq[r] EXCEPT !.late = hReq[r].pc # "idle"]]
  /\ hCache' = [k \in Keys |-> IF hCache[k].left <= 1 THEN Absent
                               ELSE [hCache[k] EXCEPT !.left = @ - 1]]
  /\ hGone' = LastHeld(hItems, hFollows, LAMBDA n : Min({n + 1, Long}))
  /\ UNCHANGED <<hItems, hFollows, hCalls, hOld, hWalk>>

-----------------------------------------------------------------------------
(* CacheService::getOrSet.                                                      *)
\* The value comes to the handler, which goes on to its next cache or is ready.
With(q, k, value) ==
  LET next == IF q.step = 2 \/ q.kind \in {"home", "following", "trending"} THEN "ready" ELSE "load" IN
  [q EXCEPT !.pc = next, !.step = IF next = "load" THEN 2 ELSE q.step, !.of = None, !.val = Absent,
            !.who = IF k[1] \in Pools THEN q.who ELSE value.who,
            !.items = IF k[1] \in Pools THEN value.items ELSE q.items]

Flies(r, k) == hReq[r].pc \in {"fetch", "store"} /\ Key(r) = k
\* A hit; else a flight of its own, or, in the process of one that flies, its result.
Load(r) ==
  LET k == Key(r) IN
  /\ At(r, "load")
  /\ \/ hCache[k].left > 0 /\ hReq' = [hReq EXCEPT ![r] = With(hReq[r], k, hCache[k])]
     \/ hCache[k].left = 0 /\ hReq' = [hReq EXCEPT ![r].pc = "fetch"]
     \/ \E o \in Requests \ {r} :
          /\ hCache[k].left = 0 /\ Flies(o, k)
          /\ hReq' = [hReq EXCEPT ![r].pc = "wait", ![r].of = o]
  /\ UNCHANGED <<hItems, hFollows, hCache, hCalls, hGone, hOld, hWalk>>

\* getCandidateSet, the trending set and fetchReelCandidates.
Candidates(k) ==
  {p \in Items : IsPublic(hItems[p]) /\ (p \in Reels <=> k[1] = "reels")}
Fetched(k) ==
  IF k[1] \in Pools THEN [Absent EXCEPT !.items = Candidates(k)]
  ELSE [Absent EXCEPT !.who = FollowedBy(k[2], hFollows)]
\* A find that breaks off makes a shorter pool, an empty one at worst, which is cached
\* as well.
Fetch(r) ==
  /\ At(r, "fetch")
  /\ \/ hReq' = [hReq EXCEPT ![r].pc = "store", ![r].val = Fetched(Key(r))]
     \/ /\ Key(r)[1] \in Pools
        /\ \E some \in SUBSET Candidates(Key(r)) :
             hReq' = [hReq EXCEPT ![r].pc = "store", ![r].val = [Absent EXCEPT !.items = some]]
  /\ UNCHANGED <<hItems, hFollows, hCache, hCalls, hGone, hOld, hWalk>>

\* The followed cannot be read: a page of posts is refused, to all of the flight, and may
\* be asked for again; one of reels goes on without.
FetchThrows(r) ==
  /\ At(r, "fetch") /\ Key(r)[1] \notin Pools
  /\ hReq' = [o \in Requests |->
                IF o # r /\ ~(At(o, "wait") /\ hReq[o].of = r) THEN hReq[o]
                ELSE IF hReq[o].kind = "reels" THEN With(hReq[o], Key(o), Absent) ELSE Idle]
  /\ UNCHANGED <<hItems, hFollows, hCache, hCalls, hGone, hOld, hWalk>>

\* Mutant: without a time to live.
LivesForGood(k) == GraphTTL + 9
\* A life of n ticks sees n of them begin; a jitter makes it shorter, and pages fresher.
Lives(k) == TTL(k) + 1
\* The set may fail; those who waited have the value all the same.
Store(r) ==
  LET k == Key(r) IN
  /\ At(r, "store")
  /\ \/ hCache' = [hCache EXCEPT ![k] = [hReq[r].val EXCEPT !.left = Lives(k)]]
     \/ UNCHANGED hCache
  /\ hReq' = [o \in Requests |->
                IF o = r \/ (At(o, "wait") /\ hReq[o].of = r)
                THEN With(hReq[o], k, hReq[r].val) ELSE hReq[o]]
  /\ UNCHANGED <<hItems, hFollows, hCalls, hGone, hOld, hWalk>>

-----------------------------------------------------------------------------
(* The pages.                                                                   *)
\* A walk begins with the first page of the feed by date, and goes on with the cursor.
Ask(r, v, kind) ==
  /\ Spend /\ At(r, "idle")
  /\ hReq' = [hReq EXCEPT ![r].pc = IF Plan(kind, v) = <<>> THEN "ready" ELSE "load",
                          ![r].user = v, ![r].kind = kind]
  /\ IF kind # "following" THEN UNCHANGED hWalk
     ELSE /\ \A o \in Requests : hReq[o].kind # "following"
          /\ hWalk' = IF hWalk.by = v /\ ~hWalk.over THEN hWalk
                      ELSE [NoWalk EXCEPT !.by = v, !.owed =
                              {p \in Items \ Reels :
                                 InFollowing(v, hItems[p], FollowedBy(v, hFollows))}]
  /\ UNCHANGED <<hItems, hFollows, hCache, hGone, hOld>>

\* applyVibe: all, or the posts of the vibe that is asked for.
Vibed(items) == SUBSET items
\* rankPosts and rankReels bring what they are given into an order, whatever signals
\* can be read: nothing is added or left out.
RankPosts(items) == items
RankReels(items) == items
\* processPosts masks authors and adds the reader's likes, and drops nothing.
Show(r, items) ==
  /\ hOld' = hOld \cup {p \in items : ~InTime(hReq[r].user, hReq[r].kind, p)}
  /\ hReq' = [hReq EXCEPT ![r] = Idle]
  /\ UNCHANGED <<hItems, hFollows, hCache, hCalls, hGone>>

\* getHomeFeed: the filter of the find, with the followed as they were cached.
HomeFilter(v, item, who) ==
  IsPublic(item) \/ (IsShared(item) /\ item.author \in who \cup {v})

HomeFeed(r) ==
  LET q == hReq[r] IN
  /\ At(r, "ready") /\ q.kind = "home"
  /\ \E shown \in Vibed({p \in Items \ Reels : HomeFilter(q.user, hItems[p], q.who)}) :
       Show(r, RankPosts(shown))
  /\ UNCHANGED hWalk
NearbyPosts(r) ==
  /\ At(r, "ready") /\ hReq[r].kind = "nearby"
  /\ Show(r, {p \in Items \ Reels : IsPublic(hItems[p])})
  /\ UNCHANGED hWalk
\* retrieveCandidates: by the index, or by the cosines of the newest; or it fails.
Retrieved(v) == SUBSET {p \in Items \ Reels : IsPublic(hItems[p]) /\ hItems[p].author # v}
\* getForYouCandidates: what the vectors find is read now, the rest is the pool.
ForYouFeed(r) ==
  LET q == hReq[r] IN
  /\ At(r, "ready") /\ q.kind = "foryou"
  /\ \E retrieved \in Retrieved(q.user) :
       Show(r, RankPosts({p \in retrieved \cup q.items : hItems[p].author # q.user}))
  /\ UNCHANGED hWalk
PoolFeed(r) ==
  /\ At(r, "ready") /\ hReq[r].kind \in {"global", "trending"}
  /\ Show(r, RankPosts(hReq[r].items))
  /\ UNCHANGED hWalk
\* The reels of the followed, or all when there is none; others' reels, or all.
FollowedReels(q) ==
  LET followed == {p \in q.items : hItems[p].author \in q.who \cup {q.user}} IN
  IF followed = {} THEN q.items ELSE followed
ReelsFeed(r) ==
  LET q == hReq[r] IN
  /\ At(r, "ready") /\ q.kind = "reels"
  /\ \E items \in {FollowedReels(q), q.items} : Show(r, RankReels(items))
  /\ UNCHANGED hWalk

Cursor(page, rest) == Min({hItems[p].at : p \in page})
\* getFollowingFeed: the posts of the followed before the cursor,
Found(r) ==
  {p \in Items \ Reels : /\ InFollowing(hReq[r].user, hItems[p], hReq[r].who)
                         /\ hWalk.before > 0 => hItems[p].at < hWalk.before}
\* the latest of them.  The reader is blind to authors the cached graph lacks.
TurnPage(r, found, page, broken) ==
  /\ At(r, "ready") /\ hReq[r].kind = "following"
  /\ \A p \in page, x \in found \ page : hItems[x].at <= hItems[p].at
  /\ Show(r, page)
  /\ hWalk' = [hWalk EXCEPT
       !.blind = @ \cup ({hItems[p].author : p \in hWalk.owed} \ hReq[r].who),
       !.twice = @ \/ page \cap hWalk.shown # {},
       !.shown = @ \cup page,
       !.before = IF page = {} THEN @ ELSE Cursor(page, found \ page),
       !.over = broken \/ found = page,
       !.cut = broken /\ found # page]
\* Limit posts; one more tells there is more.
FollowingFeed(r) ==
  \E page \in SUBSET Found(r) :
    /\ Cardinality(page) = Min({Limit, Cardinality(Found(r))})
    /\ TurnPage(r, Found(r), page, FALSE)
\* The find breaks off: runPostFind keeps what it has read, and the page says that there
\* is no more.
FollowingFails(r) ==
  \E page \in SUBSET Found(r) :
    /\ Cardinality(page) <= Limit
    /\ TurnPage(r, Found(r), page, TRUE)

-----------------------------------------------------------------------------
\* Nobody reads, of the items and follows that are there.
Unread ==
  /\ hReq = [r \in Requests |-> Idle]
  /\ hOld = {}
  /\ hWalk = NoWalk
  /\ hGone = [public |-> [p \in Items |-> IF IsPublic(hItems[p]) THEN 0 ELSE Long],
              shared |-> [p \in Items |-> IF IsShared(hItems[p]) THEN 0 ELSE Long],
              followed |-> [e \in Readers \X Authors |-> IF e \in hFollows THEN 0 ELSE Long]]
Init ==
  /\ hItems = [p \in Items |-> NoItem]
  /\ hFollows = {}
  /\ hCache = [k \in Keys |-> Absent]
  /\ hCalls = 0
  /\ Unread

Next ==
  \/ \E p \in Items :
       \/ \E a \in Authors, visibility \in Visibilities : Publish(p, a, visibility)
       \/ Hide(p)
  \/ Tick
  \/ \E r \in Requests :
       \/ \E v \in Readers, a \in Authors : ToggleFollow(r, v, a)
       \/ \E v \in Readers, kind \in Served : Ask(r, v, kind)
       \/ DropGraph(r) \/ DropReelGraph(r) \/ Load(r) \/ Fetch(r) \/ FetchThrows(r) \/ Store(r)
       \/ HomeFeed(r) \/ NearbyPosts(r) \/ ForYouFeed(r) \/ PoolFeed(r) \/ ReelsFeed(r)
       \/ FollowingFeed(r) \/ FollowingFails(r)

Spec == Init /\ [][Next]_hVars

-----------------------------------------------------------------------------
(* Properties                                                                   *)
TypeOK ==
  /\ \A p \in Items : hItems[p].author \in Authors \cup {None} /\ hItems[p].visibility \in Visibilities
  /\ hFollows \subseteq Readers \X Authors
  /\ \A k \in Keys : /\ hCache[k].left >= 0
                     /\ hCache[k].who \subseteq Authors /\ hCache[k].items \subseteq Items
  /\ \A r \in Requests : hReq[r].pc \in {"idle", "load", "fetch", "wait", "store", "ready", "drop",
                                         "dropReels"}
  /\ \A r \in Requests : At(r, "wait") => Flies(hReq[r].of, Key(r))
  /\ hCalls \in 0 .. MaxFeedCalls

\* What a page shows was public, or was shared and its author followed by the reader
\* or himself, no longer ago than the caches behind the page live and the handlers
\* that filled and used them took.
PagesFresh == hOld = {}

\* Who turns the pages of the feed by date sees no post twice, and the cursor passes over
\* none: a post he might see all the time, of an instant of its own and of an author whom
\* no page's cached graph lacked, is seen before the cursor is beyond it, and by the
\* page that says there is no more.  That page may lie: a find that breaks off is
\* answered like a feed at its end, and what is older than its last post is then left
\* unseen.  Of posts of one millisecond the cursor may pass over the second.
WalkComplete ==
  LET alone(p) == \A x \in Items \ {p} : hItems[x].at # hItems[p].at
      due == {p \in hWalk.owed : alone(p) /\ hItems[p].author \notin hWalk.blind} IN
  /\ ~hWalk.twice
  /\ \A p \in due \ hWalk.shown : hWalk.before = 0 \/ hItems[p].at < hWalk.before
  /\ hWalk.over /\ ~hWalk.cut => due \subseteq hWalk.shown
=============================================================================
