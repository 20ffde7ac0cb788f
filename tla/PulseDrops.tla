------------------------------- MODULE PulseDrops -------------------------------
(* One pulse drop: joining it with or without a response (pulsedrop::join, up  *)
(* to four commands), responding to it (createResponse: a post, the join, and  *)
(* the removal of the post when the drop has closed meanwhile), its end.       *)
EXTENDS Community, Sequences

CONSTANTS
  MaxPosts,     \* bound: response posts ever inserted
  MaxCalls      \* bound: handlers ever begun

DropsAssumption ==
  MaxPosts \in Nat /\ MaxCalls \in Nat /\ None \notin 1 .. MaxPosts

VARIABLES
  dParticipants,  \* participants: users with their response post or None
  dCounts,        \* participantCount, responseCount, trendingScore
  dOver,          \* has expiresAt passed, or is the status no longer active?
  dPosts,         \* posts made for this drop: author and state
  dReq,           \* handlers
  dReplaced,      \* history: responses another one took the place of
  dDied,          \* history: has a handler ended with its response post made?
  dBegun          \* what MaxCalls bounds

drop == <<dParticipants, dCounts>>
dVars == <<drop, dOver, dPosts, dReq, dReplaced, dDied, dBegun>>

Posts == 1 .. MaxPosts
Participant == [user : Users, response : Posts \cup {None}]
Unmade == [author |-> None, state |-> "unmade"]
Post == [author : Users \cup {None}, state : {"unmade", "active", "inactive", "removed"}]

Idle == [pc |-> "idle", op |-> "idle", user |-> None, post |-> None]
Call == [pc : {"idle", "findPost", "findDrop", "insertPost", "add", "first", "replace",
               "current", "undo"},
         op : {"idle", "join", "respond"},
         user : Users \cup {None}, post : Posts \cup {None}]

Init ==
  /\ dParticipants = <<>>
  /\ dCounts = [participants |-> 0, responses |-> 0, score |-> 0]
  /\ dOver = FALSE
  /\ dPosts = [p \in Posts |-> Unmade]
  /\ dReq = [r \in Requests |-> Idle]
  /\ dReplaced = {}
  /\ dDied = FALSE
  /\ dBegun = 0

At(r, pc) == dReq[r].pc = pc
Goto(r, pc) == dReq' = [dReq EXCEPT ![r].pc = pc]
End(r) == dReq' = [dReq EXCEPT ![r] = Idle]

Joined(u) == \E i \in DOMAIN dParticipants : dParticipants[i].user = u

\* The element the positional operator changes: the first that matches.
FirstOf(Test(_)) ==
  CHOOSE i \in DOMAIN dParticipants :
    /\ Test(dParticipants[i])
    /\ \A j \in 1 .. i - 1 : ~Test(dParticipants[j])

-----------------------------------------------------------------------------
(* The two handlers up to their join.                                          *)
Begin(r, pc, op, u, p) ==
  /\ At(r, "idle")
  /\ dBegun < MaxCalls
  /\ dBegun' = dBegun + 1
  /\ dReq' = [dReq EXCEPT ![r] = [pc |-> pc, op |-> op, user |-> u, post |-> p]]
  /\ UNCHANGED <<drop, dOver, dPosts, dReplaced, dDied>>

BeginJoin(r, u, p) == Begin(r, IF p = None THEN "add" ELSE "findPost", "join", u, p)
BeginRespond(r, u) == Begin(r, "findDrop", "respond", u, None)

\* The response must be an active post of the caller, made for this drop.
FindPost(r) ==
  LET q == dReq[r] IN
  /\ At(r, "findPost")
  /\ IF dPosts[q.post] = [author |-> q.user, state |-> "active"]
     THEN Goto(r, "add")
     ELSE End(r)
  /\ UNCHANGED <<drop, dOver, dPosts, dReplaced, dDied, dBegun>>

FindDrop(r) ==
  /\ At(r, "findDrop")
  /\ IF dOver THEN End(r) ELSE Goto(r, "insertPost")
  /\ UNCHANGED <<drop, dOver, dPosts, dReplaced, dDied, dBegun>>

InsertPost(r) ==
  /\ At(r, "insertPost")
  /\ \E p \in Posts :
       /\ dPosts[p] = Unmade
       /\ \A other \in 1 .. p - 1 : dPosts[other] # Unmade
       /\ dPosts' = [dPosts EXCEPT ![p] = [author |-> dReq[r].user, state |-> "active"]]
       /\ dReq' = [dReq EXCEPT ![r] = [@ EXCEPT !.pc = "add", !.post = p]]
  /\ UNCHANGED <<drop, dOver, dReplaced, dDied, dBegun>>

-----------------------------------------------------------------------------
(* pulsedrop::join.                                                            *)

Addable(u) == ~dOver /\ ~Joined(u)

\* First attempt: the participant and the counters in one update.
Add(r) ==
  LET q == dReq[r] IN
  /\ At(r, "add")
  /\ IF Addable(q.user)
     THEN /\ dParticipants' = Append(dParticipants, [user |-> q.user, response |-> q.post])
          /\ dCounts' = [dCounts EXCEPT
               !.participants = @ + 1,
               !.responses = IF q.post = None THEN @ ELSE @ + 1,
               !.score = IF q.post = None THEN @ + 2 ELSE @ + 7]
          /\ End(r)
     ELSE /\ Goto(r, IF q.post = None THEN "current" ELSE "first")
          /\ UNCHANGED drop
  /\ UNCHANGED <<dOver, dPosts, dReplaced, dDied, dBegun>>

\* Mutant: a participant who has responded matches too.
AwaitsResponseAlways(u, e) == e.user = u

AwaitsResponse(u, e) == e.user = u /\ e.response = None

\* Second: the first response of someone who joined without one.
FirstResponse(r) ==
  LET q == dReq[r]
      Test(e) == AwaitsResponse(q.user, e) IN
  /\ At(r, "first")
  /\ IF ~dOver /\ \E i \in DOMAIN dParticipants : Test(dParticipants[i])
     THEN /\ dParticipants' = [dParticipants EXCEPT ![FirstOf(Test)].response = q.post]
          /\ dCounts' = [dCounts EXCEPT !.responses = @ + 1, !.score = @ + 5]
          /\ End(r)
     ELSE Goto(r, "replace") /\ UNCHANGED drop
  /\ UNCHANGED <<dOver, dPosts, dReplaced, dDied, dBegun>>

\* Third: another response in place of an earlier one; nothing is counted.
Replace(r) ==
  LET q == dReq[r]
      Test(e) == e.user = q.user IN
  /\ At(r, "replace")
  /\ IF ~dOver /\ Joined(q.user)
     THEN /\ dParticipants' = [dParticipants EXCEPT ![FirstOf(Test)].response = q.post]
          /\ dReplaced' = dReplaced \cup {dParticipants[FirstOf(Test)].response}
          /\ End(r)
     ELSE Goto(r, "current") /\ UNCHANGED <<dParticipants, dReplaced>>
  /\ UNCHANGED <<dCounts, dOver, dPosts, dDied, dBegun>>

\* Nothing was written: the counters are returned as they are, or the drop is
\* no longer active and a response that was made for it is removed.
Current(r) ==
  /\ At(r, "current")
  /\ IF dOver /\ dReq[r].op = "respond" THEN Goto(r, "undo") ELSE End(r)
  /\ UNCHANGED <<drop, dOver, dPosts, dReplaced, dDied, dBegun>>

\* Mutant: the post stays.
UndoNothing(r) ==
  /\ At(r, "undo")
  /\ End(r)
  /\ UNCHANGED <<drop, dOver, dPosts, dReplaced, dDied, dBegun>>

Undo(r) ==
  /\ At(r, "undo")
  /\ dPosts' = [dPosts EXCEPT ![dReq[r].post].state = "removed"]
  /\ End(r)
  /\ UNCHANGED <<drop, dOver, dReplaced, dDied, dBegun>>

-----------------------------------------------------------------------------
\* deletePost of its author.
DeletePost(p) ==
  /\ dPosts[p].state = "active"
  /\ dPosts' = [dPosts EXCEPT ![p].state = "inactive"]
  /\ UNCHANGED <<drop, dOver, dReq, dReplaced, dDied, dBegun>>

\* Every filter asks for a drop that is active and has not expired.
Close ==
  /\ ~dOver
  /\ dOver' = TRUE
  /\ UNCHANGED <<drop, dPosts, dReq, dReplaced, dDied, dBegun>>

Expire == Close
\* The administrator's expireDrop, ahead of time, by the status alone.
ExpireDrop == Close

\* A handler that throws, or whose process dies.
Abort(r) ==
  /\ ~At(r, "idle")
  /\ End(r)
  /\ dDied' = (dDied \/ (dReq[r].op = "respond" /\ dReq[r].post # None))
  /\ UNCHANGED <<drop, dOver, dPosts, dReplaced, dBegun>>

Step(r) ==
  \/ FindPost(r) \/ FindDrop(r) \/ InsertPost(r)
  \/ Add(r) \/ FirstResponse(r) \/ Replace(r) \/ Current(r) \/ Undo(r)

Next ==
  \/ \E r \in Requests, u \in Users :
       \/ \E p \in Posts \cup {None} : BeginJoin(r, u, p)
       \/ BeginRespond(r, u)
  \/ \E r \in Requests : Step(r) \/ Abort(r)
  \/ \E p \in Posts : DeletePost(p)
  \/ Expire
  \/ ExpireDrop

Spec == Init /\ [][Next]_dVars

-----------------------------------------------------------------------------
(* Properties                                                                  *)

TypeOK ==
  /\ dParticipants \in Seq(Participant)
  /\ dCounts \in [participants : Nat, responses : Nat, score : Nat]
  /\ dOver \in BOOLEAN /\ dDied \in BOOLEAN
  /\ dPosts \in [Posts -> Post]
  /\ dReq \in [Requests -> Call]
  /\ dReplaced \subseteq Posts
  /\ dBegun \in 0 .. MaxCalls

\* Whatever joins and responses of one user overlap, he is listed once, and the
\* three counters are what the list says (the predicates of pulsedrop::join).
CountsMatch ==
  LET joined == Len(dParticipants)
      responded == Cardinality({i \in DOMAIN dParticipants : dParticipants[i].response # None})
  IN  /\ \A i, j \in DOMAIN dParticipants :
           dParticipants[i].user = dParticipants[j].user => i = j
      /\ dCounts = [participants |-> joined, responses |-> responded,
                    score |-> 2 * joined + 5 * responded]

\* An active response post is on the list, unless a later one replaced it, its
\* handler still runs, or a handler died: a response the drop was too late for
\* is not left behind (the delete_one in createResponse).
NoOrphans ==
  \A p \in Posts :
    dPosts[p].state = "active" =>
      \/ \E i \in DOMAIN dParticipants : dParticipants[i].response = p
      \/ p \in dReplaced
      \/ \E r \in Requests : dReq[r].op = "respond" /\ dReq[r].post = p
      \/ dDied
=============================================================================
