------------------------------- MODULE ContentMC -------------------------------
(* What users make, like, score and share, and whom they meet by chance, for TLC.  *)
(* The components share nothing here, so a behaviour is one of a single component, *)
(* chosen at its start: the state spaces add up and do not multiply.               *)
EXTENDS Integers, Sequences, FiniteSets, TLC

CONSTANTS
  Requests, None,                                       \* handlers, of all components
  Twins,                                                \* model values that are alike
  Likers, MaxCalls,                                     \* Toggles
  People, PostIds, CommentIds, MaxDepth, MaxPostCalls,  \* Posts
  Viewers, Author, MaxViews, MaxDecays,                 \* Engagement
  Writers, Starter, Segments, RequireVotes, MaxSegments, MaxRetries, MaxChainCalls, \* Chains
  Actions, MaxAttempts, MaxHistory, Goal, MaxSignals, MaxDay,                       \* Scores
  Souls, MaxRecounts, MaxSnapshots, MinSignals, MaxTwins, MaxDnaCalls, MaxWeeks,    \* Dna
  Players, MaxSessions, MaxDecisions,                   \* Roulette
  LevelFields, OtherFields, Pieces, MaxLog, MaxPatterns, MaxEgoCalls,               \* AlterEgo
  VecTTL, VelTTL, TrustTTL, MaxTasteCalls,              \* Taste
  Items, Early, Reels, Readers, Authors, Served, Limit, PoolTTL, GraphTTL, MaxFeedCalls \* Feeds

VARIABLES
  part,
  tLive, tLikes, tShown, tBooks, tSaves, tReq, tCalls, tAlone, tSettled, tBroken,
  oPosts, oCount, oComments, oShown, oViews, oTold, oFollows, oReq, oCalls, oWas, oMoved,
  oAnswer, oHidden, oBroken,
  vReel, vThere, vPair, vReq, vJob, vCalls, vDecays, vSum, vSilent, vAlone, vSettled, vBroken,
  kChain, kLedger, kReq, kCalls, kMade, kVoted, kOdd,
  xDoc, xDay, xJob, xCalls, xDone, xDays, xSplit,
  dDoc, dJob, dWeek, dCalls, dWeeks, dVisits, dStale, dTwins,
  docs, made, req, follows, decisions, connected, alone,
  eDoc, eReq, eCalls, eDone,
  bLiked, bDoc, bVec, bVel, bTrust, bReq, bCalls, bLikes, bQuiet, bSeen,
  hItems, hFollows, hCache, hReq, hCalls, hGone, hOld, hWalk

\* kVibeList.
VibeList == <<"chill", "hype", "sad", "funny", "creative">>

T == INSTANCE Toggles WITH Users <- Likers
P == INSTANCE Posts
E == INSTANCE Engagement
K == INSTANCE Chains
X == INSTANCE Scores WITH Handlers <- Requests
D == INSTANCE Dna WITH Hands <- Requests, Vibes <- VibeList
R == INSTANCE Roulette WITH Users <- Players
G == INSTANCE AlterEgo
B == INSTANCE Taste WITH Items <- Twins
H == INSTANCE Feeds

ASSUME ToggleBounds == T!TogglesAssumption
ASSUME PostBounds == P!PostsAssumption
ASSUME ViewBounds == E!EngagementAssumption
ASSUME ChainBounds == K!ChainsAssumption
ASSUME ScoreBounds == X!ScoresAssumption
ASSUME DnaBounds == D!DnaAssumption
ASSUME RouletteBounds == R!RouletteAssumption
ASSUME FeedBounds == H!FeedsAssumption
\* What the starts below count on.
ASSUME StartBounds ==
  /\ MaxSessions <= MaxDecisions /\ 2 <= MaxViews /\ 2 <= MaxDnaCalls /\ 3 <= MaxPostCalls
  /\ 1 <= MaxFeedCalls
  /\ Author \in People
  /\ \E x, y \in Twins : Twins = {x, y}

ofToggles == <<tLive, tLikes, tShown, tBooks, tSaves, tReq, tCalls, tAlone, tSettled, tBroken>>
ofPosts == <<oPosts, oCount, oComments, oShown, oViews, oTold, oFollows, oReq, oCalls, oWas,
             oMoved, oAnswer, oHidden, oBroken>>
ofReels == <<vReel, vThere, vPair, vReq, vJob, vCalls, vDecays, vSum, vSilent, vAlone, vSettled,
             vBroken>>
ofChains == <<kChain, kLedger, kReq, kCalls, kMade, kVoted, kOdd>>
ofScores == <<xDoc, xDay, xJob, xCalls, xDone, xDays, xSplit>>
ofDna == <<dDoc, dJob, dWeek, dCalls, dWeeks, dVisits, dStale, dTwins>>
ofRoulette == <<docs, made, req, follows, decisions, connected, alone>>
ofEgo == <<eDoc, eReq, eCalls, eDone>>
ofTaste == <<bLiked, bDoc, bVec, bVel, bTrust, bReq, bCalls, bLikes, bQuiet, bSeen>>
ofFeeds == <<hItems, hFollows, hCache, hReq, hCalls, hGone, hOld, hWalk>>

\* Posts begin with none, or with one of Author's as CreatePost leaves it; an
\* anonymous one is public then.
Published ==
  /\ \E p \in PostIds, visibility \in P!Visibilities, anonymous \in BOOLEAN :
       /\ anonymous => visibility = "public"
       /\ oPosts = [P!NoPosts EXCEPT ![p] =
                      [author |-> Author, visibility |-> visibility, allow |-> TRUE,
                       anonymous |-> anonymous, active |-> TRUE]]
  /\ oCount = [u \in People |-> IF u = Author THEN 1 ELSE 0]

\* A thread begins with one comment of Author's on a post of his, as addComment leaves
\* it, and a call spent.
Discussed ==
  \E p \in PostIds, c \in CommentIds \ Twins :
    /\ oPosts = [P!NoPosts EXCEPT ![p] = [author |-> Author, visibility |-> "public",
                   allow |-> TRUE, anonymous |-> FALSE, active |-> TRUE]]
    /\ oCount = [u \in People |-> IF u = Author THEN 1 ELSE 0]
    /\ oComments = [d \in CommentIds |-> IF d = c
                      THEN [post |-> p, author |-> Author, parent |-> None, replies |-> {}]
                      ELSE P!NoComment]
    /\ oShown = [q \in PostIds |-> IF q = p THEN 1 ELSE 0]
    /\ oCalls = 1
    /\ P!Unread

\* Where a long run of one kind of call and one of another multiply, a behaviour has
\* the one or the other: the rest of the bound is spent at the start.
PostsStart ==
  /\ P!Uncommented /\ P!Unread
  /\ \/ P!Empty /\ oCalls = MaxPostCalls - 2
     \/ Published /\ oCalls = MaxPostCalls - 3
ReelsStart ==
  /\ E!Fresh
  /\ \/ vCalls = MaxViews - 2 /\ vDecays = 0
     \/ vCalls = 0 /\ vDecays = MaxDecays
DnaStart ==
  /\ D!Fresh
  /\ \/ dCalls = MaxDnaCalls - 2 /\ dWeeks = 0
     \/ dCalls = 0 /\ dWeeks = MaxWeeks

\* Nobody has met; or two chat in the session before the next, with the fewer
\* decisions left the more sessions may begin.
RouletteStart ==
  /\ made \in 0 .. MaxSessions
  /\ docs = [s \in R!Sessions |->
               IF s > made THEN R!Gone("absent") ELSE IF s < made THEN R!Gone("deleted")
               ELSE [R!Gone("chatting") EXCEPT !.fresh = TRUE, !.dies = TRUE,
                       !.dec = [u \in Players |-> IF u \in Twins THEN "pending" ELSE "absent"]]]
  /\ decisions = MaxDecisions - made
  /\ req = [r \in Requests |-> R!Idle]
  /\ follows = {} /\ connected = {} /\ alone = FALSE

\* An alter ego is none, or as it is made; nothing was liked, or one item.
EgoStart == \E doc \in {G!NoEgo, G!NewEgo} : G!Begun(doc)
TasteStart == \E liked \in {{}} \cup {{i} : i \in Twins} : B!After(liked, 1)

\* Every reader follows every author.  A walk through the feed by date begins with two
\* posts, of one instant or of two; the other pages with one post and a reel, and
\* nothing cached or everything.
Shown(a, visibility, at) == [author |-> a, visibility |-> visibility, active |-> TRUE, at |-> at]
WalkStart ==
  /\ \E a \in Authors, at \in {1, 2} :
       hItems = [p \in Items |-> IF p \in Reels THEN H!NoItem
                                ELSE IF p = Early THEN Shown(a, "public", 1)
                                ELSE Shown(a, "followers", at)]
  /\ hFollows = Readers \X Authors
  /\ hCache = [k \in H!Keys |-> H!Absent] /\ hCalls = 0
  /\ H!Unread
PagesStart ==
  /\ \E a \in Authors, visibility \in {"public", "followers"} :
       hItems = [p \in Items |-> IF p \in Reels THEN Shown(a, "public", 1)
                                ELSE IF p = Early THEN Shown(a, visibility, 1) ELSE H!NoItem]
  /\ hFollows = Readers \X Authors
  /\ \/ hCache = [k \in H!Keys |-> H!Absent]
     \/ hCache = [k \in H!Keys |-> [H!Fetched(k) EXCEPT !.left = H!Lives(k)]]
  /\ hCalls = 1
  /\ H!Unread

MCInit ==
  /\ part \in {"toggles", "posts", "thread", "reels", "chains", "scores", "dna", "roulette", "ego",
              "taste", "walk", "pages"}
  /\ IF part = "posts" THEN PostsStart ELSE IF part = "thread" THEN Discussed ELSE P!Init
  /\ IF part = "reels" THEN ReelsStart ELSE E!Init
  /\ IF part = "dna" THEN DnaStart ELSE D!Init
  /\ IF part = "roulette" THEN RouletteStart ELSE R!Init
  /\ IF part = "ego" THEN EgoStart ELSE G!Init
  /\ IF part = "taste" THEN TasteStart ELSE B!Init
  /\ IF part = "walk" THEN WalkStart ELSE IF part = "pages" THEN PagesStart ELSE H!Init
  /\ T!Init /\ K!Init /\ X!Init

\* Two comments are enough beside other calls.
OnPosts == \A c \in CommentIds \ Twins : oComments'[c] = P!NoComment

\* In a thread users comment, all in one name, and read.
OnThread ==
  /\ oPosts' = oPosts /\ oFollows' = oFollows
  /\ \A r \in Requests : oReq'[r].user \in {Author, None}
                         /\ oReq'[r].pc \in {"idle", "comment", "count", "push", "tell", "thread"}

\* On a walk every handler ends in the tick it began in, and only pages of posts are
\* asked for; with other pages nothing is published.
OnWalk ==
  \A r \in Requests : ~hReq'[r].late /\ hReq'[r].kind \in {"home", "following"}
OnPages ==
  /\ hWalk' = hWalk
  /\ \A p \in Items : hItems[p] = H!NoItem => hItems'[p] = H!NoItem

\* The components of the other parts.
Rest ==
  /\ IF part = "toggles" THEN TRUE ELSE UNCHANGED ofToggles
  /\ IF part \in {"posts", "thread"} THEN TRUE ELSE UNCHANGED ofPosts
  /\ IF part = "reels" THEN TRUE ELSE UNCHANGED ofReels
  /\ IF part = "chains" THEN TRUE ELSE UNCHANGED ofChains
  /\ IF part = "scores" THEN TRUE ELSE UNCHANGED ofScores
  /\ IF part = "dna" THEN TRUE ELSE UNCHANGED ofDna
  /\ IF part = "roulette" THEN TRUE ELSE UNCHANGED ofRoulette
  /\ IF part = "ego" THEN TRUE ELSE UNCHANGED ofEgo
  /\ IF part = "taste" THEN TRUE ELSE UNCHANGED ofTaste
  /\ IF part \in {"walk", "pages"} THEN TRUE ELSE UNCHANGED ofFeeds

MCNext ==
  /\ \/ part = "toggles" /\ T!Next
     \/ part = "posts" /\ P!Next /\ OnPosts
     \/ part = "thread" /\ P!Next /\ OnThread
     \/ part = "reels" /\ E!Next
     \/ part = "chains" /\ K!Next
     \/ part = "scores" /\ X!Next
     \/ part = "dna" /\ D!Next
     \/ part = "roulette" /\ R!Next
     \/ part = "ego" /\ G!Next
     \/ part = "taste" /\ B!Next
     \/ part = "walk" /\ H!Next /\ OnWalk
     \/ part = "pages" /\ H!Next /\ OnPages
  /\ Rest
  /\ UNCHANGED part

MCSpec ==
  MCInit /\ [][MCNext]_<<part, ofToggles, ofPosts, ofReels, ofChains, ofScores, ofDna,
                           ofRoulette, ofEgo, ofTaste, ofFeeds>>

\* Handlers are alike, and so are two of the model values: each set of users or ids
\* has both, or neither.
Alike == Permutations(Requests) \cup Permutations(Twins)

-----------------------------------------------------------------------------
(* The properties, each stated in its module; the type invariant of a component  *)
(* is part of the first of them.  A component that another part leaves alone is  *)
(* where it was at the start, and is not looked at again.                        *)

\* A toggle nothing overlaps puts the count of likes right, a reel never shows fewer
\* saves than it has bookmarks (Toggles), and its other counters are exact and
\* affinities settle (Engagement).
CountersSettle ==
  /\ part = "toggles" => T!TypeOK /\ T!LikesSettle /\ T!SavesNotUnder
  /\ part = "reels" => E!TypeOK /\ E!CountersExact /\ E!AffinitySettles
\* Answers hold what the reader might see, and the author of no anonymous post; the
\* posts of an author and the comments of a post are counted, and threads are whole
\* (Posts).
PostsHonest ==
  part \in {"posts", "thread"} => P!TypeOK /\ P!AnswersVisible /\ P!PostsCounted /\ P!ThreadWhole
\* No writer of a chain undoes another's work, nor counts a retry for a vote unless the
\* two overlap (Chains).
ChainWhole == part = "chains" => K!TypeOK /\ K!ChainWhole /\ K!VotesOnce /\ K!LikesAgree
\* No handler loses another's actions, and streaks are runs of days (Scores).
ScoresWhole == part = "scores" => X!TypeOK /\ X!ScoresWhole
\* Shares settle on the signals, and twins are found once (Dna).
DnaSettles == part = "dna" => D!TypeOK /\ D!StrandsSettle /\ D!TwinsOnce
\* An alter ego counts, logs and learns what was done, whatever overlaps (AlterEgo);
\* what a user's likes teach adds up, and heals where it is cached (Taste).
LearningHeals ==
  /\ part = "ego" => G!TypeOK /\ G!EgoWhole
  /\ part = "taste" => B!TypeOK /\ B!TasteHeals
\* A page shows nothing longer than its caches live, and who turns the pages of the
\* feed by date sees every post once (Feeds).
PagesHonest ==
  /\ part \in {"walk", "pages"} => H!TypeOK /\ H!PagesFresh
  /\ part = "walk" => H!WalkComplete
\* A user is in one active session, and every pair is on its way out (Roulette).
PairsHold == part = "roulette" => R!OneActive /\ R!PairsExpire
\* What a pair is told is what both decided (Roulette).
OutcomeHonest == part = "roulette" => R!OutcomeHonest
=============================================================================
