--------------------------------- MODULE Taste ---------------------------------
(* What Pulse learns from a user's likes, and what a page makes of it: the         *)
(* UserBehavior document, FeedbackService::recordEngagement, UserVectorService and *)
(* TrustService.  The document is read and replaced whole; vectors and trust are   *)
(* cached; the handlers of a user's requests run side by side.  A vector is the    *)
(* set of items that shaped it, a trust what was known of the author.              *)
EXTENDS Integers, FiniteSets

CONSTANTS
  Requests,       \* handlers
  None,
  Items,          \* posts, each with a topic of its own
  VecTTL,         \* ticks: USER_VECTOR_TTL_SEC
  VelTTL,         \* VELOCITY_TTL_SEC
  TrustTTL,       \* TRUST_TTL_SEC
  MaxTasteCalls   \* bound: likes, unlikes and pages

VARIABLES
  bLiked,     \* the user's likes
  bDoc,       \* his UserBehavior document
  bVec,       \* Redis uservec:<user>
  bVel,       \* Redis vel:post:<item>
  bTrust,     \* Redis trust:<author>, of the one author
  bReq, bCalls,
  bLikes,     \* history: engagements recorded, each with its age
  bQuiet,     \* history: ticks since a like was under way, taken back or not readable
  bSeen       \* history: all likes; since a document was last overlooked, those learnt
              \* alone; and whether a page used a trust too late

bVars == <<bLiked, bDoc, bVec, bVel, bTrust, bReq, bCalls, bLikes, bQuiet, bSeen>>

Long == VecTTL + VelTTL + TrustTTL + 4
Older(n) == IF n < Long THEN n + 1 ELSE n
\* applyDefaults.
NewDoc == [there |-> TRUE, likes |-> 0, topics |-> {}]
NoDoc == [NewDoc EXCEPT !.there = FALSE]
NoVec == [left |-> 0, of |-> {}]
NoTrust == [left |-> 0, bare |-> FALSE, age |-> 0]
Idle == [pc |-> "idle", item |-> None, doc |-> NoDoc, lone |-> FALSE, of |-> {},
         bare |-> FALSE, age |-> 0, late |-> FALSE]
At(r, pc) == bReq[r].pc = pc
Goto(r, pc) == bReq' = [bReq EXCEPT ![r].pc = pc]
InDoc == {"find", "create", "save"}
Learning == InDoc \cup {"vecGet", "vecSet", "velocity"}
Spend == bCalls < MaxTasteCalls /\ bCalls' = bCalls + 1

-----------------------------------------------------------------------------
(* A like: Like.toggleLike, then recordLike and recordEngagement, each of which may *)
(* fail without the like failing.                                                   *)
Like(r, i) ==
  /\ Spend /\ At(r, "idle") /\ i \notin bLiked
  /\ bLiked' = bLiked \cup {i}
  /\ bReq' = [o \in Requests |->
       IF o = r THEN [Idle EXCEPT !.pc = "find", !.item = i,
                                  !.lone = \A q \in Requests : bReq[q].pc \notin InDoc]
       ELSE [bReq[o] EXCEPT !.lone = FALSE]]
  /\ bQuiet' = 0
  /\ bSeen' = [bSeen EXCEPT !.likes = @ + 1]
  /\ UNCHANGED <<bDoc, bVec, bVel, bTrust, bLikes>>
\* A like taken back teaches nothing.
Unlike(i) ==
  /\ Spend /\ i \in bLiked
  /\ bLiked' = bLiked \ {i}
  /\ bQuiet' = 0
  /\ UNCHANGED <<bDoc, bVec, bVel, bTrust, bReq, bLikes, bSeen>>

\* getOrCreate: the document, or a new one, which is saved first.  findByUser takes a
\* read that failed for a document that is not there.
FindBehavior(r) ==
  /\ At(r, "find")
  /\ \/ /\ bDoc.there
        /\ bReq' = [bReq EXCEPT ![r].pc = "save", ![r].doc = bDoc]
        /\ UNCHANGED bSeen
     \/ /\ bReq' = [bReq EXCEPT ![r].pc = "create", ![r].doc = NewDoc]
        /\ bSeen' = IF bDoc.there THEN [bSeen EXCEPT !.lone = 0, !.topics = {}] ELSE bSeen
  /\ UNCHANGED <<bLiked, bDoc, bVec, bVel, bTrust, bCalls, bLikes, bQuiet>>
\* replace_one with upsert: whatever is there is replaced, unless the save fails.
CreateBehavior(r) ==
  /\ At(r, "create")
  /\ bDoc' \in {NewDoc, bDoc}
  /\ Goto(r, "save")
  /\ UNCHANGED <<bLiked, bVec, bVel, bTrust, bCalls, bLikes, bQuiet, bSeen>>
\* updateAffinitiesFromPost and recordLike, on the document that was read.
Learned(doc, i) == [doc EXCEPT !.topics = @ \cup {i}]
Recorded(doc, i) == Learned([doc EXCEPT !.likes = @ + 1], i)
\* A save that fails is logged.
SaveBehavior(r) ==
  /\ At(r, "save")
  /\ \/ /\ bDoc' = Recorded(bReq[r].doc, bReq[r].item)
        /\ bSeen' = IF bReq[r].lone
                    THEN [bSeen EXCEPT !.lone = @ + 1, !.topics = @ \cup {bReq[r].item}]
                    ELSE bSeen
     \/ UNCHANGED <<bDoc, bSeen>>
  /\ bReq' = [bReq EXCEPT ![r] = [@ EXCEPT !.pc = "vecGet", !.doc = NoDoc, !.lone = FALSE]]
  /\ UNCHANGED <<bLiked, bVec, bVel, bTrust, bCalls, bLikes, bQuiet>>

\* reinforceUserVector: the cached vector, or none, is moved towards the item.
GetVector(r) ==
  /\ At(r, "vecGet")
  /\ bReq' = [bReq EXCEPT ![r].pc = "vecSet", ![r].of = bVec.of]
  /\ UNCHANGED <<bLiked, bDoc, bVec, bVel, bTrust, bCalls, bLikes, bQuiet, bSeen>>
\* It lives as long as a vector that was built.
Reinforced(of, i) == [left |-> VecTTL + 1, of |-> of \cup {i}]
SetVector(r) ==
  /\ At(r, "vecSet")
  /\ bVec' \in {Reinforced(bReq[r].of, bReq[r].item), bVec}
  /\ bReq' = [bReq EXCEPT ![r] = [@ EXCEPT !.pc = "velocity", !.of = {}]]
  /\ UNCHANGED <<bLiked, bDoc, bVel, bTrust, bCalls, bLikes, bQuiet, bSeen>>
\* incrementRateLimit: the first INCR sets it.
Bumped(vel) == [n |-> vel.n + 1, left |-> IF vel.left = 0 THEN VelTTL + 1 ELSE vel.left]
BumpVelocity(r) ==
  LET i == bReq[r].item IN
  /\ At(r, "velocity")
  /\ \/ /\ bVel' = [bVel EXCEPT ![i] = Bumped(@)]
        /\ bLikes' = bLikes \cup {[item |-> i, nr |-> Cardinality(bLikes), age |-> 0]}
     \/ UNCHANGED <<bVel, bLikes>>
  /\ bReq' = [bReq EXCEPT ![r] = Idle]
  /\ bQuiet' = 0
  /\ UNCHANGED <<bLiked, bDoc, bVec, bTrust, bCalls, bSeen>>

-----------------------------------------------------------------------------
(* A page: getUserVector, then the authors, and their trust.                         *)
Page(r) ==
  /\ Spend /\ At(r, "idle")
  /\ Goto(r, IF bVec.left > 0 THEN "authors" ELSE "build")
  /\ UNCHANGED <<bLiked, bDoc, bVec, bVel, bTrust, bLikes, bQuiet, bSeen>>
\* buildUserVector: the liked, and the topics of the behaviour; what cannot be read
\* is left out.
BuildVector(r) ==
  /\ At(r, "build")
  /\ \E liked \in {bLiked, {}}, topics \in {bDoc.topics, {}} :
       /\ bReq' = [bReq EXCEPT ![r].pc = "cacheVec", ![r].of = liked \cup topics]
       /\ bQuiet' = IF liked # bLiked THEN 0 ELSE bQuiet
  /\ UNCHANGED <<bLiked, bDoc, bVec, bVel, bTrust, bCalls, bLikes, bSeen>>
CacheVector(r) ==
  /\ At(r, "cacheVec")
  /\ bVec' \in {[left |-> VecTTL + 1, of |-> bReq[r].of], bVec}
  /\ bReq' = [bReq EXCEPT ![r] = [@ EXCEPT !.pc = "authors", !.of = {}]]
  /\ UNCHANGED <<bLiked, bDoc, bVel, bTrust, bCalls, bLikes, bQuiet, bSeen>>

\* populateAuthors: an author who cannot be read stays an id, of whom nothing is known.
PopulateAuthors(r) ==
  /\ At(r, "authors")
  /\ \E bare \in BOOLEAN :
       bReq' = [bReq EXCEPT ![r].pc = "trust", ![r].bare = bare, ![r].age = 0]
  /\ UNCHANGED <<bLiked, bDoc, bVec, bVel, bTrust, bCalls, bLikes, bQuiet, bSeen>>
\* getAuthorTrust: the cached trust, or what is known makes one.
AuthorTrust(r) ==
  /\ At(r, "trust")
  /\ IF bTrust.left > 0
     THEN /\ bReq' = [bReq EXCEPT ![r] = Idle]
          /\ bSeen' = [bSeen EXCEPT !.stale = @ \/ bTrust.age > TrustTTL + 1]
     ELSE Goto(r, "cacheTrust") /\ UNCHANGED bSeen
  /\ UNCHANGED <<bLiked, bDoc, bVec, bVel, bTrust, bCalls, bLikes, bQuiet>>
CacheTrust(r) ==
  /\ At(r, "cacheTrust")
  /\ bTrust' \in {[left |-> TrustTTL + 1, bare |-> bReq[r].bare, age |-> bReq[r].age], bTrust}
  /\ bReq' = [bReq EXCEPT ![r] = Idle]
  /\ UNCHANGED <<bLiked, bDoc, bVec, bVel, bCalls, bLikes, bQuiet, bSeen>>

-----------------------------------------------------------------------------
Aged(cached, none) == IF cached.left <= 1 THEN none ELSE [cached EXCEPT !.left = @ - 1]
\* No handler takes longer than a tick.
Tick ==
  /\ \A r \in Requests : ~bReq[r].late
  /\ bReq' = [r \in Requests |-> [bReq[r] EXCEPT !.late = bReq[r].pc # "idle",
                !.age = IF bReq[r].pc = "cacheTrust" THEN Older(@) ELSE @]]
  /\ bVec' = Aged(bVec, NoVec)
  /\ bVel' = [i \in Items |-> Aged(bVel[i], [n |-> 0, left |-> 0])]
  /\ bTrust' = IF bTrust.left <= 1 THEN NoTrust
               ELSE [bTrust EXCEPT !.left = @ - 1, !.age = Older(@)]
  /\ bLikes' = {[l EXCEPT !.age = Older(@)] : l \in bLikes}
  /\ bQuiet' = IF \E r \in Requests : bReq[r].pc \in Learning THEN 0 ELSE Older(bQuiet)
  /\ UNCHANGED <<bLiked, bDoc, bCalls, bSeen>>

\* Before any like, or, with `calls` already spent, after those of `liked`.
After(liked, calls) ==
  /\ bLiked = liked /\ bVec = NoVec /\ bTrust = NoTrust
  /\ bDoc = IF liked = {} THEN NoDoc ELSE [NewDoc EXCEPT !.likes = Cardinality(liked), !.topics = liked]
  /\ bVel = [i \in Items |-> IF i \in liked THEN Bumped([n |-> 0, left |-> 0]) ELSE [n |-> 0, left |-> 0]]
  /\ bReq = [r \in Requests |-> Idle]
  /\ bLikes = {[item |-> i, nr |-> 0, age |-> 0] : i \in liked}
  /\ bCalls = calls /\ bQuiet = 0
  /\ bSeen = [likes |-> Cardinality(liked), lone |-> Cardinality(liked), topics |-> liked,
              stale |-> FALSE]

Init == After({}, 0)

Next ==
  \/ \E r \in Requests :
       \/ \E i \in Items : Like(r, i)
       \/ FindBehavior(r) \/ CreateBehavior(r) \/ SaveBehavior(r) \/ GetVector(r) \/ SetVector(r)
       \/ BumpVelocity(r) \/ Page(r) \/ BuildVector(r) \/ CacheVector(r) \/ PopulateAuthors(r)
       \/ AuthorTrust(r) \/ CacheTrust(r)
  \/ \E i \in Items : Unlike(i)
  \/ Tick

Spec == Init /\ [][Next]_bVars

-----------------------------------------------------------------------------
(* Properties                                                                         *)
TypeOK ==
  /\ bLiked \subseteq Items /\ bDoc.topics \subseteq Items /\ bVec.of \subseteq Items
  /\ bVec.left \in 0 .. VecTTL + 1 /\ bTrust.left \in 0 .. TrustTTL + 1
  /\ \A i \in Items : bVel[i].left \in 0 .. VelTTL + 1
  /\ bCalls \in 0 .. MaxTasteCalls
  /\ \A r \in Requests : bReq[r].pc \in Learning \cup
       {"idle", "build", "cacheVec", "authors", "trust", "cacheTrust"}

\* Handlers that learn at the same time may undo each other, but only each other: what
\* was learnt with no other under way stays in the document whatever overlaps later,
\* unless a read of the document fails, which findByUser takes for "no document", so
\* that a default one replaces it with all that was learnt; what is learnt after that
\* stays again; and no like counts twice.  Once nothing was liked for the life of a
\* vector, the vector that pages are made of holds every like, whatever the document
\* lost and whatever reinforcements began from nothing; a velocity counts no
\* engagement older than its window; and no trust is used longer than it lives after
\* the author was read.
TasteHeals ==
  LET engaged(i) == {l \in bLikes : l.item = i /\ l.age <= VelTTL} IN
  /\ bSeen.topics \subseteq bDoc.topics /\ bSeen.lone <= bDoc.likes
  /\ bDoc.likes <= bSeen.likes
  /\ bVec.left > 0 /\ bQuiet > VecTTL + 1 => bLiked \subseteq bVec.of
  /\ \A i \in Items : bVel[i].n <= Cardinality(engaged(i))
  /\ ~bSeen.stale
=============================================================================
