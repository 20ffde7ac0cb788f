-------------------------------- MODULE Posts --------------------------------
(* Posts and their comments: PostController.  A handler reads a post, decides   *)
(* by what it read and writes later, while other handlers write the same post  *)
(* and the follow graph moves.  The likes of a post are module Toggles, its    *)
(* author's pulse score module Scores.                                          *)
EXTENDS Integers, FiniteSets

CONSTANTS
  People,
  PostIds,
  CommentIds,
  Requests,
  None,
  MaxDepth,    \* levels of replies that populateReplies reads
  MaxPostCalls \* bound: requests and changes of the follow graph

\* Of nothing is no post, user or comment.
PostsAssumption ==
  /\ IsFiniteSet(PostIds) /\ IsFiniteSet(CommentIds) /\ IsFiniteSet(Requests)
  /\ None \notin PostIds \cup People \cup CommentIds
  /\ MaxDepth \in Nat /\ MaxPostCalls \in Nat

VARIABLES
  oPosts,      \* the collection of posts
  oCount,      \* stats.posts of a user
  oComments,   \* the collection of comments
  oShown,      \* stats.comments of a post
  oViews,      \* stats.views of a post
  oTold,       \* comments the author of the post has a notice of
  oFollows,    \* who follows whom: the collection of follows
  oReq,        \* handlers
  oCalls,      \* what MaxPostCalls bounds
  oWas,        \* history: posts that were visible to the reader since the handler began
  oMoved,      \* history: handlers the follow graph has changed under
  oAnswer,     \* history: the last answer
  oHidden,     \* history: posts of a user an administrator hid, less those he showed again
  oBroken      \* history: a handler broke off between two of its commands

collections == <<oPosts, oCount, oComments, oShown, oViews, oTold>>
history == <<oWas, oMoved, oAnswer, oHidden, oBroken>>
oVars == <<collections, oFollows, oReq, oCalls, history>>

Visibilities == {"public", "followers", "private"}
Post == [author : People, visibility : Visibilities, allow : BOOLEAN, anonymous : BOOLEAN,
         active : BOOLEAN]
NoPost == [author |-> None, visibility |-> "private", allow |-> FALSE, anonymous |-> FALSE,
           active |-> FALSE]
NoPosts == [p \in PostIds |-> NoPost]
Comment == [post : PostIds, author : People, parent : CommentIds \cup {None},
            replies : SUBSET CommentIds]
NoComment == [post |-> None, author |-> None, parent |-> None, replies |-> {}]
Idle == [pc |-> "idle", user |-> None, post |-> None, doc |-> NoPost, arg |-> None, before |-> {}]
NoAnswer == [to |-> None, posts |-> {}, named |-> {}, may |-> {}, moved |-> FALSE,
             thread |-> {}, must |-> {}]

At(r, pc) == oReq[r].pc = pc
Goto(r, pc, arg) == oReq' = [oReq EXCEPT ![r].pc = pc, ![r].arg = arg]
Exists(p) == oPosts[p] # NoPost
Taken(c) == oComments[c] # NoComment

CanView(v, post, follows) ==
  /\ post.active
  /\ \/ post.author = v
     \/ post.visibility = "public"
     \/ post.visibility = "followers" /\ <<v, post.author>> \in follows

Visible(v, posts, follows) == {p \in PostIds : CanView(v, posts[p], follows)}

\* What a write of the posts or the follow graph does to the handlers' histories.
Watch == oWas' = [r \in Requests |-> IF At(r, "idle") THEN oWas[r]
                      ELSE oWas[r] \cup Visible(oReq[r].user, oPosts', oFollows')]

\* Comments whose handler has ended.
Settled == {c \in CommentIds : Taken(c) /\ \A r \in Requests : oReq[r].arg # c}

\* From comments in top down pairs of a comment and one below it, level by level.
Threaded(top, below) ==
  {c \in CommentIds : \E n \in 0 .. MaxDepth : \E path \in [0 .. n -> CommentIds] :
     path[0] \in top /\ path[n] = c /\ \A i \in 1 .. n : <<path[i - 1], path[i]>> \in below}
TopLevel(p) == {c \in CommentIds : oComments[c].post = p /\ oComments[c].parent = None}

\* The replies of a comment are read through its list.
PopulateReplies(p) ==
  Threaded(TopLevel(p), {e \in CommentIds \X CommentIds :
                           oComments[e[2]].post = p /\ e[2] \in oComments[e[1]].replies})

\* What the comments themselves say they reply to, where every handler has ended.
SettledThread(p) ==
  Threaded(TopLevel(p) \cap Settled, {e \in CommentIds \X Settled :
             oComments[e[2]].post = p /\ oComments[e[2]].parent = e[1]})

Begin(r, pc, u, p, doc, arg) ==
  /\ At(r, "idle")
  /\ oCalls < MaxPostCalls
  /\ oCalls' = oCalls + 1
  /\ oReq' = [oReq EXCEPT ![r] =
                [pc |-> pc, user |-> u, post |-> p, doc |-> doc, arg |-> arg,
                 before |-> IF pc = "thread" THEN SettledThread(p) ELSE {}]]

\* A read at the start of a handler.
Reads(r, pc, u, p, doc, arg) ==
  /\ Begin(r, pc, u, p, doc, arg)
  /\ oWas' = [oWas EXCEPT ![r] = Visible(u, oPosts, oFollows)]
  /\ oMoved' = oMoved \ {r}
  /\ UNCHANGED <<collections, oFollows, oAnswer, oHidden, oBroken>>

Return(r) == oReq' = [oReq EXCEPT ![r] = Idle]
\* An answer with these posts; of those in named the author is given.
Answer(r, v, posts, named, thread, must) ==
  /\ Return(r)
  /\ oAnswer' = [to |-> v, posts |-> posts, named |-> named, may |-> oWas[r],
                 moved |-> r \in oMoved, thread |-> thread, must |-> must]
  /\ UNCHANGED <<oPosts, oCount, oComments, oShown, oTold,
                 oFollows, oCalls, oWas, oMoved, oHidden, oBroken>>
Stepped == UNCHANGED <<oFollows, oCalls, history>>

-----------------------------------------------------------------------------
(* Writing.                                                                     *)
CreatePost(r, u, p, visibility, allow, anonymous) ==
  /\ ~Exists(p)
  /\ Begin(r, "increment", u, p, NoPost, None)
  /\ oPosts' = [oPosts EXCEPT ![p] =
                  [author |-> u, visibility |-> visibility, allow |-> allow,
                   anonymous |-> anonymous, active |-> TRUE]]
  /\ UNCHANGED <<oCount, oComments, oShown, oViews, oTold, oFollows, oMoved, oAnswer, oHidden, oBroken>>
  /\ Watch

IncrementPosts(r) ==
  /\ At(r, "increment")
  /\ oCount' = [oCount EXCEPT ![oReq[r].user] = @ + 1]
  /\ Return(r)
  /\ Stepped /\ UNCHANGED <<oPosts, oComments, oShown, oViews, oTold>>

\* The handler reads the post whatever its state and refuses all but its author.
DeleteFind(r, u, p) ==
  oPosts[p].author = u /\ Reads(r, "deactivate", u, p, oPosts[p], None)

\* Mutant: the author's count goes down whether or not this request deleted.
DeactivateTwice(r) ==
  /\ At(r, "deactivate")
  /\ oPosts' = [oPosts EXCEPT ![oReq[r].post].active = FALSE]
  /\ Goto(r, "decrement", None)
  /\ UNCHANGED <<oCount, oComments, oShown, oViews, oTold, oFollows, oCalls, oMoved, oAnswer,
                 oHidden, oBroken>>
  /\ Watch

Deactivate(r) ==
  /\ At(r, "deactivate")
  /\ oPosts' = [oPosts EXCEPT ![oReq[r].post].active = FALSE]
  /\ IF oPosts[oReq[r].post].active THEN Goto(r, "decrement", None) ELSE Return(r)
  /\ UNCHANGED <<oCount, oComments, oShown, oViews, oTold, oFollows, oCalls, oMoved, oAnswer,
                 oHidden, oBroken>>
  /\ Watch

DecrementPosts(r) ==
  /\ At(r, "decrement")
  /\ oCount' = [oCount EXCEPT ![oReq[r].user] = @ - 1]
  /\ Return(r)
  /\ Stepped /\ UNCHANGED <<oPosts, oComments, oShown, oViews, oTold>>

\* updatePostStatus of the dashboard leaves the author's count alone.
UpdatePostStatus(p, active) ==
  /\ oCalls < MaxPostCalls
  /\ oCalls' = oCalls + 1
  /\ Exists(p) /\ oPosts[p].active # active
  /\ oPosts' = [oPosts EXCEPT ![p].active = active]
  /\ oHidden' = [oHidden EXCEPT ![oPosts[p].author] = IF active THEN @ - 1 ELSE @ + 1]
  /\ UNCHANGED <<oCount, oComments, oShown, oViews, oTold, oFollows, oReq, oMoved, oAnswer,
                 oBroken>>
  /\ Watch

\* A change names a visibility, or whether comments are allowed, or neither.
UpdateFind(r, u, p, change) ==
  oPosts[p].author = u /\ Reads(r, "save", u, p, oPosts[p], change)

\* Every field is written back, with the change over what was read.
UpdateSave(r) ==
  LET q == oReq[r] IN
  /\ At(r, "save")
  /\ oPosts' = [oPosts EXCEPT
                  ![q.post].visibility = IF q.arg \in Visibilities THEN q.arg
                                         ELSE q.doc.visibility,
                  ![q.post].allow = IF q.arg \in {"open", "closed"} THEN q.arg = "open"
                                    ELSE q.doc.allow]
  /\ Return(r)
  /\ UNCHANGED <<oCount, oComments, oShown, oViews, oTold, oFollows, oCalls, oMoved, oAnswer,
                 oHidden, oBroken>>
  /\ Watch

-----------------------------------------------------------------------------
(* Comments.                                                                    *)
FindPost(r, pc, v, p, arg) == Exists(p) /\ Reads(r, pc, v, p, oPosts[p], arg)
CommentFind(r, u, p) == FindPost(r, "comment", u, p, None)

\* Comments are never taken away, so the parent that is checked is there when the
\* comment is inserted; a parent on another post is refused.
InsertComment(r, c, parent) ==
  LET q == oReq[r] IN
  /\ At(r, "comment")
  /\ IF CanView(q.user, q.doc, oFollows) /\ q.doc.allow
     THEN /\ ~Taken(c)
          /\ parent # None => oComments[parent].post = q.post
          /\ oComments' = [oComments EXCEPT ![c] = [post |-> q.post, author |-> q.user,
                                                    parent |-> parent, replies |-> {}]]
          /\ Goto(r, "count", c)
     ELSE Return(r) /\ UNCHANGED oComments
  /\ Stepped /\ UNCHANGED <<oPosts, oCount, oShown, oViews, oTold>>

\* Mutant: a reply is not entered with its parent.
CountCommentOnly(r) ==
  /\ At(r, "count")
  /\ oShown' = [oShown EXCEPT ![oReq[r].post] = @ + 1]
  /\ Goto(r, "tell", oReq[r].arg)
  /\ Stepped /\ UNCHANGED <<oPosts, oCount, oComments, oViews, oTold>>

CountComment(r) ==
  /\ At(r, "count")
  /\ oShown' = [oShown EXCEPT ![oReq[r].post] = @ + 1]
  /\ Goto(r, IF oComments[oReq[r].arg].parent = None THEN "tell" ELSE "push", oReq[r].arg)
  /\ Stepped /\ UNCHANGED <<oPosts, oCount, oComments, oViews, oTold>>

PushReply(r) ==
  LET c == oReq[r].arg IN
  /\ At(r, "push")
  /\ oComments' = [oComments EXCEPT ![oComments[c].parent].replies = @ \cup {c}]
  /\ Goto(r, "tell", c)
  /\ Stepped /\ UNCHANGED <<oPosts, oCount, oShown, oViews, oTold>>

\* Nobody is told of a comment of his own.
TellAuthor(r) ==
  LET q == oReq[r] IN
  /\ At(r, "tell")
  /\ oTold' = IF q.doc.author = q.user THEN oTold ELSE oTold \cup {q.arg}
  /\ Return(r)
  /\ Stepped /\ UNCHANGED <<oPosts, oCount, oComments, oShown, oViews>>

GetCommentsFind(r, v, p) == FindPost(r, "thread", v, p, None)

\* One page of the comments on the post itself holds them all; their replies are read
\* level by level.
GetComments(r) ==
  LET q == oReq[r] IN
  /\ At(r, "thread")
  /\ IF CanView(q.user, q.doc, oFollows)
     THEN Answer(r, q.user, {q.post}, {}, PopulateReplies(q.post), q.before) /\ UNCHANGED oViews
     ELSE Return(r) /\ Stepped /\ UNCHANGED collections

-----------------------------------------------------------------------------
(* Reading.                                                                     *)
GetPostFind(r, v, p) == FindPost(r, "get", v, p, None)

\* The author of an anonymous post is masked for everyone, himself included.
GetPost(r) ==
  LET q == oReq[r]
      named == IF q.doc.anonymous THEN {} ELSE {q.post} IN
  /\ At(r, "get")
  /\ IF CanView(q.user, q.doc, oFollows)
     THEN /\ Answer(r, q.user, {q.post}, named, {}, {})
          /\ oViews' = [oViews EXCEPT ![q.post] = @ + 1]
     ELSE Return(r) /\ Stepped /\ UNCHANGED collections

\* Whether the reader follows the author is read first, the posts second.
GetUserPostsFind(r, v, u) ==
  Reads(r, "list", v, None, [NoPost EXCEPT !.author = u],
        IF <<v, u>> \in oFollows THEN "follows" ELSE "stranger")

\* Mutant: the list of another's posts has the anonymous ones as well.
ListedAll(v, u, follows) ==
  {p \in PostIds :
     /\ oPosts[p].author = u /\ oPosts[p].active
     /\ v = u \/ oPosts[p].visibility \in ({"public"} \cup IF follows THEN {"followers"} ELSE {})}

Listed(v, u, follows) ==
  {p \in PostIds :
     /\ oPosts[p].author = u /\ oPosts[p].active
     /\ v # u => /\ ~oPosts[p].anonymous
                 /\ oPosts[p].visibility \in
                      ({"public"} \cup IF follows THEN {"followers"} ELSE {})}

GetUserPosts(r) ==
  LET q == oReq[r]
      found == Listed(q.user, q.doc.author, q.arg = "follows") IN
  /\ At(r, "list")
  /\ Answer(r, q.user, found, found, {}, {})
  /\ UNCHANGED oViews

\* One read each: an answer without a decision before it.
ReadOnce(r, v, found) ==
  /\ At(r, "idle")
  /\ oCalls < MaxPostCalls
  /\ oAnswer' = [to |-> v, posts |-> found, named |-> found, may |-> Visible(v, oPosts, oFollows),
                 moved |-> FALSE, thread |-> {}, must |-> {}]
  /\ oCalls' = oCalls + 1
  /\ UNCHANGED <<collections, oFollows, oReq, oWas, oMoved, oHidden, oBroken>>
GetMyPosts(r, v) == ReadOnce(r, v, {p \in PostIds : oPosts[p].author = v /\ oPosts[p].active})
SearchPosts(r, v) ==
  ReadOnce(r, v, {p \in PostIds : /\ oPosts[p].active /\ ~oPosts[p].anonymous
                                  /\ oPosts[p].visibility = "public"})

-----------------------------------------------------------------------------
\* The follow graph moves (module SocialGraph).
FollowMoves(u, v) ==
  /\ oCalls < MaxPostCalls
  /\ oCalls' = oCalls + 1
  /\ oFollows' = IF <<u, v>> \in oFollows THEN oFollows \ {<<u, v>>}
                 ELSE oFollows \cup {<<u, v>>}
  /\ oMoved' = Requests
  /\ UNCHANGED <<collections, oReq, oAnswer, oHidden, oBroken>>
  /\ Watch

\* The process dies between two commands, or one throws: the counters, the list of
\* replies and the notice are best effort.
BreakOff(r) ==
  /\ ~At(r, "idle")
  /\ Return(r)
  /\ oBroken' = TRUE
  /\ UNCHANGED <<collections, oFollows, oCalls, oWas, oMoved, oAnswer, oHidden>>

Empty ==
  /\ oPosts = NoPosts
  /\ oCount = [u \in People |-> 0]

Uncommented ==
  /\ oComments = [c \in CommentIds |-> NoComment]
  /\ oShown = [p \in PostIds |-> 0]

Unread ==
  /\ oViews = [p \in PostIds |-> 0]
  /\ oTold = {}
  /\ oFollows = {}
  /\ oReq = [r \in Requests |-> Idle]
  /\ oWas = [r \in Requests |-> {}]
  /\ oMoved = {}
  /\ oAnswer = NoAnswer
  /\ oHidden = [u \in People |-> 0]
  /\ oBroken = FALSE

Init == Empty /\ Uncommented /\ Unread /\ oCalls = 0

Next ==
  \/ \E r \in Requests, u \in People, p \in PostIds :
       \/ \E visibility \in Visibilities, allow, anonymous \in BOOLEAN :
            CreatePost(r, u, p, visibility, allow, anonymous)
       \/ \E change \in Visibilities \cup {"open", "closed", "text"} : UpdateFind(r, u, p, change)
       \/ DeleteFind(r, u, p) \/ CommentFind(r, u, p)
       \/ GetPostFind(r, u, p) \/ GetCommentsFind(r, u, p)
  \/ \E r \in Requests, u \in People :
       \/ \E v \in People : GetUserPostsFind(r, u, v)
       \/ GetMyPosts(r, u) \/ SearchPosts(r, u)
  \/ \E r \in Requests :
       \/ IncrementPosts(r) \/ Deactivate(r) \/ DecrementPosts(r) \/ UpdateSave(r)
       \/ \E c \in CommentIds, parent \in CommentIds \cup {None} : InsertComment(r, c, parent)
       \/ CountComment(r) \/ PushReply(r) \/ TellAuthor(r)
       \/ GetPost(r) \/ GetComments(r) \/ GetUserPosts(r) \/ BreakOff(r)
  \/ \E p \in PostIds, active \in BOOLEAN : UpdatePostStatus(p, active)
  \/ \E u, v \in People : u # v /\ FollowMoves(u, v)

Spec == Init /\ [][Next]_oVars

-----------------------------------------------------------------------------
TypeOK ==
  /\ oPosts \in [PostIds -> Post \cup {NoPost}]
  /\ oCount \in [People -> Int]
  /\ oComments \in [CommentIds -> Comment \cup {NoComment}]
  /\ oShown \in [PostIds -> Nat]
  /\ oViews \in [PostIds -> Nat]
  /\ oTold \subseteq CommentIds
  /\ oFollows \subseteq People \X People
  /\ \A r \in Requests : oReq[r].user \in People \cup {None}
  /\ oCalls \in 0 .. MaxPostCalls
  /\ oWas \in [Requests -> SUBSET PostIds]
  /\ oMoved \subseteq Requests

\* A handler that decides by a post it read and by a follow it reads before or
\* after, and a list whose query restates the rule of canViewPost, answer only
\* with posts that were visible to the reader at some moment of the request, as
\* long as the follow graph stood still; and nobody but the author is ever given
\* the author of an anonymous post.
AnswersVisible ==
  /\ ~oAnswer.moved => oAnswer.posts \subseteq oAnswer.may
  /\ \A p \in oAnswer.named : oPosts[p].anonymous => oPosts[p].author = oAnswer.to

\* Unless a handler breaks off, the count of an author's posts is right as soon as
\* no handler of his is about to move it, however creations and repeated
\* deletions overlap (deletePost, "A repeated DELETE must not decrement ..."), but for
\* the posts an administrator hid and showed again meanwhile, and only for those.
PostsCounted ==
  ~oBroken => \A u \in People :
    LET Owing(pc) == Cardinality({r \in Requests : At(r, pc) /\ oReq[r].user = u}) IN
    oCount[u] + Owing("increment") - Owing("decrement")
      = Cardinality({p \in PostIds : oPosts[p].author = u /\ oPosts[p].active}) + oHidden[u]

\* Unless a handler breaks off, the thread of a post has every comment whose handler,
\* and those of all that it replies to, had ended when the reader's began, replies to
\* replies included down to the last level that is read; and the number shown with
\* the post counts them all.  A reply to a comment whose own handler has not yet
\* entered it with its parent cannot be found.
ThreadWhole ==
  ~oBroken =>
    /\ oAnswer.must \subseteq oAnswer.thread
    /\ \A p \in PostIds :
         oShown[p] + Cardinality({r \in Requests : At(r, "count") /\ oReq[r].post = p})
           = Cardinality({c \in CommentIds : oComments[c].post = p})
=============================================================================
