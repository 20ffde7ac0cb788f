-------------------------------- MODULE Roulette --------------------------------
(* Roulette: RouletteController over the roulettes collection.  A request is a *)
(* sequence of MongoDB commands, one action each; every update but the claim   *)
(* of a partner names its document by _id alone.  Messages, and the cached     *)
(* counters a new follow refreshes, are left out.                              *)
EXTENDS Naturals, FiniteSets, FiniteSetsExt

CONSTANTS
  Users, Requests, None,
  MaxSessions,     \* bound: documents ever inserted
  MaxDecisions     \* bound: calls of decide

RouletteAssumption ==
  /\ MaxSessions \in Nat \ {0} /\ MaxDecisions \in Nat
  /\ None \notin Users

VARIABLES
  docs,      \* the collection, in the order of users.0.joinedAt
  made,      \* documents inserted so far
  req,       \* the requests under way
  follows,   \* <<follower, following>>
  decisions, \* calls of decide so far
  connected, \* history: <<user, document>> of every decision to connect
  alone      \* history: somebody decided on a session without a partner

vars == <<docs, made, req, follows, decisions, connected, alone>>

Sessions == 1 .. MaxSessions
Active == {"waiting", "matched", "chatting", "deciding"}
Statuses == Active \cup {"completed", "expired", "absent", "deleted"}
Outcomes == {"none", "mutual_connect", "one_sided", "mutual_pass", "expired"}
Decisions == {"absent", "pending", "connect", "pass"}
\* fresh: joined at most five minutes ago; over: chatDuration has passed since
\* chatStartedAt; dies: expiresAt is set.
Docs == [dec : [Users -> Decisions], status : Statuses, outcome : Outcomes,
         fresh : BOOLEAN, over : BOOLEAN, dies : BOOLEAN]
Gone(status) ==
  [dec |-> [u \in Users |-> "absent"], status |-> status, outcome |-> "none",
   fresh |-> FALSE, over |-> FALSE, dies |-> FALSE]

PCs == {"idle", "recover", "startChat", "admit", "insert", "flip", "record",
        "write", "follow", "followBack", "expire"}
Idle == [pc |-> "idle", user |-> None, sess |-> 0, choice |-> "pending",
         other |-> None, snap |-> [u \in Users |-> "absent"]]

Init ==
  /\ docs = [s \in Sessions |-> Gone("absent")]
  /\ made = 0
  /\ req = [r \in Requests |-> Idle]
  /\ follows = {} /\ decisions = 0 /\ connected = {} /\ alone = FALSE

At(r, pc) == req[r].pc = pc
Done(r) == req' = [req EXCEPT ![r] = Idle]
Goto(r, pc, s) == req' = [req EXCEPT ![r].pc = pc, ![r].sess = s]
Begin(r, u, pc, s) ==
  /\ At(r, "idle")
  /\ req' = [req EXCEPT ![r].pc = pc, ![r].user = u, ![r].sess = s]

Exists(s) == docs[s].status \notin {"absent", "deleted"}
Members(dec) == {u \in Users : dec[u] # "absent"}
In(u, s) == u \in Members(docs[s].dec)
ActiveOf(u) == {s \in Sessions : docs[s].status \in Active /\ In(u, s)}

\* uniq_active_roulette_user lets doc be stored as s.
Fits(s, doc) ==
  doc.status \in Active =>
    \A u \in Members(doc.dec) : ActiveOf(u) \subseteq {s}
Store(s, doc) == docs' = [docs EXCEPT ![s] = doc]

-----------------------------------------------------------------------------
(* joinQueue: findMatch, then startChat or the model's joinQueue.              *)
\* Mutant: any document that is still open for the chat.
ClaimableUnstarted(u) ==
  {s \in Sessions : /\ docs[s].status \in {"waiting", "matched"} /\ ~In(u, s)
                    /\ docs[s].fresh}
Claimable(u) ==
  {s \in Sessions : /\ docs[s].status = "waiting" /\ ~In(u, s)
                    /\ docs[s].fresh
                    /\ Cardinality(Members(docs[s].dec)) = 1}
\* Mutant: expiresAt is not set.
ClaimedForGood(s, u) ==
  [docs[s] EXCEPT !.dec[u] = "pending", !.status = "matched"]
Claimed(s, u) ==
  [docs[s] EXCEPT !.dec[u] = "pending", !.status = "matched", !.dies = TRUE]

JoinFindsNobody(r, u) ==
  /\ Claimable(u) = {}
  /\ Begin(r, u, "admit", 0)
  /\ UNCHANGED <<docs, made, follows, decisions, connected, alone>>

\* find_one_and_update takes the one that has waited longest, or fails.
JoinClaims(r, u) ==
  /\ Claimable(u) # {}
  /\ LET s == Min(Claimable(u)) IN
       IF Fits(s, Claimed(s, u))
       THEN Store(s, Claimed(s, u)) /\ Begin(r, u, "startChat", s)
       ELSE Begin(r, u, "recover", 0) /\ UNCHANGED docs
  /\ UNCHANGED <<made, follows, decisions, connected, alone>>

\* A duplicate key: the user has an active session already.
Recover(r) ==
  /\ At(r, "recover")
  /\ LET paired == {s \in ActiveOf(req[r].user) :
                      Cardinality(Members(docs[s].dec)) >= 2} IN
       \/ paired = {} /\ Goto(r, "admit", 0)
       \/ \E s \in paired : Goto(r, "startChat", s)
  /\ UNCHANGED <<docs, made, follows, decisions, connected, alone>>

StartChat(r) ==
  LET s == req[r].sess
      doc == [docs[s] EXCEPT !.status = "chatting", !.over = FALSE] IN
  /\ At(r, "startChat")
  /\ IF Exists(s) /\ Fits(s, doc) THEN Store(s, doc) ELSE UNCHANGED docs
  /\ Done(r)
  /\ UNCHANGED <<made, follows, decisions, connected, alone>>

Admit(r) ==
  /\ At(r, "admit")
  /\ IF ActiveOf(req[r].user) # {} THEN Done(r) ELSE Goto(r, "insert", 0)
  /\ UNCHANGED <<docs, made, follows, decisions, connected, alone>>

Waiting(u) ==
  [Gone("waiting") EXCEPT !.dec[u] = "pending", !.fresh = TRUE]

\* A duplicate key returns the session that was admitted first.
Insert(r) ==
  /\ At(r, "insert")
  /\ IF made < MaxSessions /\ Fits(made + 1, Waiting(req[r].user))
     THEN Store(made + 1, Waiting(req[r].user)) /\ made' = made + 1
     ELSE UNCHANGED <<docs, made>>
  /\ Done(r)
  /\ UNCHANGED <<follows, decisions, connected, alone>>

-----------------------------------------------------------------------------
(* checkStatus and leave: find_one, then update_one by _id.                    *)
CheckStatus(r, u) ==
  /\ \E s \in ActiveOf(u) : /\ docs[s].status = "chatting" /\ docs[s].over
                            /\ Begin(r, u, "flip", s)
  /\ UNCHANGED <<docs, made, follows, decisions, connected, alone>>

FlipToDeciding(r) ==
  LET s == req[r].sess
      doc == [docs[s] EXCEPT !.status = "deciding"] IN
  /\ At(r, "flip")
  /\ IF Exists(s) /\ Fits(s, doc) THEN Store(s, doc) ELSE UNCHANGED docs
  /\ Done(r)
  /\ UNCHANGED <<made, follows, decisions, connected, alone>>

Leave(r, u) ==
  /\ \E s \in ActiveOf(u) : /\ docs[s].status \in {"waiting", "matched"}
                            /\ Begin(r, u, "expire", s)
  /\ UNCHANGED <<docs, made, follows, decisions, connected, alone>>

LeaveWrites(r) ==
  LET s == req[r].sess IN
  /\ At(r, "expire")
  /\ IF Exists(s)
     THEN Store(s, [docs[s] EXCEPT !.status = "expired", !.outcome = "expired"])
     ELSE UNCHANGED docs
  /\ Done(r)
  /\ UNCHANGED <<made, follows, decisions, connected, alone>>

-----------------------------------------------------------------------------
(* decide: the controller's read, recordDecision's read and write, the follows.*)
Decide(r, u, s, choice) ==
  /\ Exists(s) /\ In(u, s)
  /\ decisions < MaxDecisions /\ decisions' = decisions + 1
  /\ LET others == Members(docs[s].dec) \ {u}
         other == IF others = {} THEN None ELSE CHOOSE o \in others : TRUE IN
       /\ At(r, "idle")
       /\ req' = [req EXCEPT ![r] = [@ EXCEPT !.pc = "record", !.user = u,
                    !.sess = s, !.choice = choice, !.other = other]]
       /\ alone' = (alone \/ others = {})
  /\ connected' = connected \cup (IF choice = "connect" THEN {<<u, s>>} ELSE {})
  /\ UNCHANGED <<docs, made, follows>>

RecordReads(r) ==
  LET c == req[r] IN
  /\ At(r, "record")
  /\ IF Exists(c.sess) /\ In(c.user, c.sess)
     THEN req' = [req EXCEPT ![r].pc = "write",
                    ![r].snap = [docs[c.sess].dec EXCEPT ![c.user] = c.choice]]
     ELSE Done(r)
  /\ UNCHANGED <<docs, made, follows, decisions, connected, alone>>

Decided(dec) == \A u \in Users : dec[u] # "pending"
\* Mutant: any_of for all_of.
OutcomeOfAny(dec) ==
  IF \E u \in Users : dec[u] = "connect" THEN "mutual_connect" ELSE "mutual_pass"
OutcomeOf(dec) ==
  LET chosen == {dec[u] : u \in Members(dec)} IN
  IF chosen = {"connect"} THEN "mutual_connect"
  ELSE IF chosen = {"pass"} THEN "mutual_pass" ELSE "one_sided"

\* Mutant: only the user's own entry is written, the outcome is the snapshot's.
RecordedOwn(doc, c) ==
  IF Decided(c.snap)
  THEN [doc EXCEPT !.dec[c.user] = c.choice, !.status = "completed",
                   !.outcome = OutcomeOf(c.snap)]
  ELSE [doc EXCEPT !.dec[c.user] = c.choice, !.status = "deciding"]
\* The whole users array is written back, as it was read.
Recorded(doc, c) ==
  IF Decided(c.snap)
  THEN [doc EXCEPT !.dec = c.snap, !.status = "completed",
                   !.outcome = OutcomeOf(c.snap)]
  ELSE [doc EXCEPT !.dec = c.snap, !.status = "deciding"]

\* The result is the outcome now stored, an earlier one included; of a document
\* the TTL has taken, the outcome just computed.
RecordWrites(r) ==
  LET c == req[r]
      doc == Recorded(docs[c.sess], c)
      stored == Exists(c.sess) /\ Fits(c.sess, doc)
      result == IF Exists(c.sess) \/ Decided(c.snap) THEN doc.outcome ELSE "none" IN
  /\ At(r, "write")
  /\ IF stored THEN Store(c.sess, doc) ELSE UNCHANGED docs
  /\ IF /\ stored \/ ~Exists(c.sess)
        /\ result = "mutual_connect" /\ c.other # None
     THEN Goto(r, "follow", c.sess)
     ELSE Done(r)
  /\ UNCHANGED <<made, follows, decisions, connected, alone>>

\* The two inserts; a failure of either is logged and ends the request.
Follow(r) ==
  LET c == req[r] IN
  /\ At(r, "follow")
  /\ \/ follows' = follows \cup {<<c.user, c.other>>} /\ Goto(r, "followBack", c.sess)
     \/ Done(r) /\ UNCHANGED follows
  /\ UNCHANGED <<docs, made, decisions, connected, alone>>

FollowBack(r) ==
  LET c == req[r] IN
  /\ At(r, "followBack")
  /\ follows' = follows \cup {<<c.other, c.user>>} \/ UNCHANGED follows
  /\ Done(r)
  /\ UNCHANGED <<docs, made, decisions, connected, alone>>

-----------------------------------------------------------------------------
(* Time: five minutes in the queue, the chat's three, the TTL's fifteen.       *)
GrowsOld(s) ==
  /\ docs[s].status = "waiting" /\ docs[s].fresh
  /\ Store(s, [docs[s] EXCEPT !.fresh = FALSE])
  /\ UNCHANGED <<made, req, follows, decisions, connected, alone>>

ChatRunsOut(s) ==
  /\ docs[s].status = "chatting" /\ ~docs[s].over
  /\ Store(s, [docs[s] EXCEPT !.over = TRUE])
  /\ UNCHANGED <<made, req, follows, decisions, connected, alone>>

TTLDeletes(s) ==
  /\ docs[s].dies
  /\ Store(s, Gone("deleted"))
  /\ UNCHANGED <<made, req, follows, decisions, connected, alone>>

Join(r, u) == JoinFindsNobody(r, u) \/ JoinClaims(r, u)
Continue(r) ==
  \/ Recover(r) \/ StartChat(r) \/ Admit(r) \/ Insert(r)
  \/ FlipToDeciding(r) \/ LeaveWrites(r)
  \/ RecordReads(r) \/ RecordWrites(r) \/ Follow(r) \/ FollowBack(r)

Next ==
  \/ \E r \in Requests :
       \/ Continue(r)
       \/ \E u \in Users :
            \/ Join(r, u) \/ CheckStatus(r, u) \/ Leave(r, u)
            \/ \E s \in Sessions, choice \in {"connect", "pass"} :
                 Decide(r, u, s, choice)
  \/ \E s \in Sessions : GrowsOld(s) \/ ChatRunsOut(s) \/ TTLDeletes(s)

Spec == Init /\ [][Next]_vars
\* Requests run on, and users keep asking for a partner.
FairSpec ==
  /\ Spec
  /\ \A r \in Requests : WF_vars(Continue(r))
  /\ \A u \in Users : SF_vars(\E r \in Requests : Join(r, u))

-----------------------------------------------------------------------------
(* Properties                                                                  *)

\* A session never has a third member.
TypeOK ==
  /\ docs \in [Sessions -> Docs]
  /\ \A s \in Sessions : /\ Cardinality(Members(docs[s].dec)) <= 2
                         /\ docs[s].status = "absent" <=> s > made
  /\ made \in 0 .. MaxSessions
  /\ \A r \in Requests :
       req[r] \in [pc : PCs, user : Users \cup {None}, sess : 0 .. MaxSessions,
                   choice : Decisions, other : Users \cup {None},
                   snap : [Users -> Decisions]]
  /\ follows \subseteq Users \X Users
  /\ connected \subseteq Users \X Sessions
  /\ decisions \in 0 .. MaxDecisions /\ alone \in BOOLEAN

\* Every variable stays in its range, and a user occurs in at most one active
\* session, even where a late write brings an ended one back ("the invariant the
\* model methods rely on").
OneActive == TypeOK /\ \A u \in Users : Cardinality(ActiveOf(u)) <= 1

\* The outcome of a completed session is that of the decisions stored with it,
\* however the decisions of its members interleaved or repeated; and two users come
\* to follow each other only when both chose to connect in one session, as long as
\* nobody decides on a session without a partner.
OutcomeHonest ==
  /\ \A s \in Sessions : docs[s].status = "completed" =>
       Decided(docs[s].dec) /\ docs[s].outcome = OutcomeOf(docs[s].dec)
  /\ ~alone => \A f \in follows :
       \E s \in Sessions : {<<f[1], s>>, <<f[2], s>>} \subseteq connected

\* A session that got a partner is on its way out from the start, whatever
\* brings it back: a lost decision, or a partner who never decides, keeps
\* nobody out of the queue for longer than the TTL.
PairsExpire ==
  \A s \in Sessions : docs[s].status \in Active \ {"waiting"} => docs[s].dies

Queued(u) == \E s \in ActiveOf(u) : docs[s].status = "waiting"

\* Of two users who wait, and keep asking, one gets a partner or leaves.
WaitingPaired ==
  \A u, v \in Users :
    u # v => (Queued(u) /\ Queued(v) ~> ~(Queued(u) /\ Queued(v)))
=============================================================================
