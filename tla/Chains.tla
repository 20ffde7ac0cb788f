-------------------------------- MODULE Chains --------------------------------
(* A chain story: segments are submitted, voted on and taken into the story       *)
(* (chainstory.cc, optimistic read and replace of the whole document under its    *)
(* version), and the chain is liked (ChainController::likeChain, a ledger of its   *)
(* own and a counter in the same document).                                       *)
EXTENDS Integers, Sequences, FiniteSets, SequencesExt

CONSTANTS
  Writers,       \* users
  Starter,       \* one of them, who starts the chain
  Segments,      \* ids of segments, each by the user who submits it
  Requests,      \* handlers
  None,
  RequireVotes,  \* requireVotes and maxSegments of the chain, as its starter chose them
  MaxSegments,
  MaxRetries,    \* kMaxCasRetries
  MaxChainCalls  \* bound: requests

\* Nobody's name is nothing, and the starter is a user; at least one attempt is made.
ChainsAssumption ==
  /\ IsFiniteSet(Writers) /\ None \notin Writers /\ Starter \in Writers
  /\ MaxRetries \in Nat \ {0} /\ MaxChainCalls \in Nat

VARIABLES
  kChain,        \* the document
  kLedger,       \* chainlikes: who likes the chain
  kReq,          \* handlers, with the document as they have loaded it
  kCalls,        \* what MaxChainCalls bounds
  kMade,         \* history: segments a submission has stored
  kVoted,        \* history: the votes stored, each with the number that were when its
                 \* request read the chain
  kOdd           \* history: toggles of one user's like overlapped, or one broke off, or
                 \* the answer to its insert was lost

kVars == <<kChain, kLedger, kReq, kCalls, kMade, kVoted, kOdd>>

NoVotes == [s \in Segments |-> [u \in Writers |-> 0]]
NoChain == [v |-> 0, by |-> [s \in Segments |-> None], pending |-> {}, story |-> <<>>,
            count |-> 0, contributors |-> {}, ballots |-> NoVotes,
            votes |-> [s \in Segments |-> 0], total |-> 0, likes |-> 0, active |-> FALSE]
Idle == [pc |-> "idle", user |-> None, seg |-> None, value |-> 0, since |-> 0,
         chain |-> NoChain, tries |-> 0]

At(r, pc) == kReq[r].pc = pc
Finish(r) == kReq' = [kReq EXCEPT ![r] = Idle]
Toggling(u) == {r \in Requests : kReq[r].user = u /\ kReq[r].pc \in {"insert", "up", "down"}}

Begin(r, pc, u, s, value) ==
  /\ At(r, "idle")
  /\ kCalls < MaxChainCalls
  /\ kCalls' = kCalls + 1
  /\ kChain.v > 0
  /\ kReq' = [kReq EXCEPT ![r] = [Idle EXCEPT !.pc = pc, !.user = u, !.seg = s,
                                              !.value = value, !.since = Len(kVoted)]]

\* The document as it is stored at first, with its starter as a contributor.
Create ==
  /\ kChain.v = 0
  /\ kChain' = [NoChain EXCEPT !.v = 1, !.contributors = {Starter}, !.active = TRUE]
  /\ UNCHANGED <<kLedger, kReq, kCalls, kMade, kVoted, kOdd>>

-----------------------------------------------------------------------------
(* What loading and replacing do.                                               *)
LoadChain(r, pc) ==
  kReq' = [kReq EXCEPT ![r].pc = pc, ![r].chain = kChain, ![r].tries = @ + 1]

\* Mutant: the document is replaced whatever its version.
SavableAny(chain) == chain.v > 0
\* saveChain replaces the document only at the version it was loaded with.
Savable(chain) == kChain.v = chain.v

\* Mutant: the version stays, so that a document loaded before a like is still savable.
BumpedForLikeNot(chain) == [chain EXCEPT !.v = @]
BumpedForLike(chain) == [chain EXCEPT !.v = @ + 1]

\* The handler's own changes to the document it has loaded.
Save(r, chain) ==
  /\ Savable(kReq[r].chain)
  /\ kChain' = [chain EXCEPT !.v = kReq[r].chain.v + 1]
  /\ Finish(r)

\* Another writer won: load again and reapply, eight times at most.
SaveLost(r, again) ==
  /\ ~Savable(kReq[r].chain)
  /\ kReq' = [kReq EXCEPT ![r] = IF kReq[r].tries < MaxRetries
                                 THEN [kReq[r] EXCEPT !.pc = again, !.chain = NoChain] ELSE Idle]
  /\ UNCHANGED kChain

-----------------------------------------------------------------------------
(* submitSegment.                                                               *)
SubmitFind(r, u, s) ==
  /\ \A k \in Requests : kReq[k].seg # s \/ kReq[k].pc \notin {"submit", "append"}
  /\ kChain.by[s] = None                               \* a new id
  /\ Begin(r, "submit", u, s, 0)
  /\ UNCHANGED <<kChain, kLedger, kMade, kVoted, kOdd>>

SubmitLoad(r) ==
  /\ At(r, "submit")
  /\ IF kChain.active /\ kChain.count < MaxSegments THEN LoadChain(r, "append") ELSE Finish(r)
  /\ UNCHANGED <<kChain, kLedger, kCalls, kMade, kVoted, kOdd>>

SubmitSegment(r) ==
  LET q == kReq[r] IN
  /\ At(r, "append")
  /\ \/ /\ Save(r, [q.chain EXCEPT !.pending = @ \cup {q.seg},
                                   !.by = [q.chain.by EXCEPT ![q.seg] = q.user]])
        /\ kMade' = kMade \cup {q.seg}
     \/ SaveLost(r, "submit") /\ UNCHANGED kMade
  /\ UNCHANGED <<kLedger, kCalls, kVoted, kOdd>>

-----------------------------------------------------------------------------
(* voteSegment.                                                                 *)
\* Mutant: an identical vote is counted again.
VoteFindAgain(r, u, s, value) ==
  /\ s \in kChain.pending
  /\ Begin(r, "vote", u, s, value)
  /\ UNCHANGED <<kChain, kLedger, kMade, kVoted, kOdd>>

\* A vote the user has on the segment already is answered at once.
VoteFind(r, u, s, value) ==
  /\ s \in kChain.pending
  /\ kChain.ballots[s][u] # value
  /\ Begin(r, "vote", u, s, value)
  /\ UNCHANGED <<kChain, kLedger, kMade, kVoted, kOdd>>

VoteLoad(r) ==
  /\ At(r, "vote")
  /\ IF kReq[r].seg \in kChain.pending THEN LoadChain(r, "count") ELSE Finish(r)
  /\ UNCHANGED <<kChain, kLedger, kCalls, kMade, kVoted, kOdd>>

\* Mutant: the vote of before is not taken off.
TallyKeeping(chain, s, u, value) == chain.votes[s] + value
Tally(chain, s, u, value) == chain.votes[s] - chain.ballots[s][u] + value

\* The user's vote replaces his last one; with enough votes the segment moves into
\* the story, which is complete when it is full.  That the chain is still active is
\* not looked at.
Counted(chain, s, u, value) ==
  LET votes == Tally(chain, s, u, value)
      voted == [chain EXCEPT !.ballots = [chain.ballots EXCEPT ![s][u] = value],
                             !.votes = [chain.votes EXCEPT ![s] = votes], !.total = @ + 1] IN
  IF votes < RequireVotes THEN voted
  ELSE [voted EXCEPT !.pending = @ \ {s}, !.story = Append(@, s), !.count = @ + 1,
                     !.contributors = @ \cup {chain.by[s]},
                     !.active = @ /\ chain.count + 1 < MaxSegments]

VoteOnSegment(r) ==
  LET q == kReq[r] IN
  /\ At(r, "count")
  /\ \/ /\ Save(r, Counted(q.chain, q.seg, q.user, q.value))
        /\ kVoted' = Append(kVoted, [user |-> q.user, seg |-> q.seg, value |-> q.value,
                                      since |-> q.since])
     \/ SaveLost(r, "vote") /\ UNCHANGED kVoted
  /\ UNCHANGED <<kLedger, kCalls, kMade, kOdd>>

-----------------------------------------------------------------------------
(* likeChain.                                                                   *)
\* The ledger's entry is deleted, or there was none.
LikeDelete(r, u) ==
  /\ Begin(r, IF u \in kLedger THEN "down" ELSE "insert", u, None, 0)
  /\ kLedger' = kLedger \ {u}
  /\ kOdd' = (kOdd \/ Toggling(u) # {})
  /\ UNCHANGED <<kChain, kMade, kVoted>>

\* The unique id lets one of two inserts through; the other finds the entry there and
\* is content.  So is one whose own entry went in and whose answer was lost.
LikeInsert(r) ==
  LET u == kReq[r].user IN
  /\ At(r, "insert")
  /\ kLedger' = kLedger \cup {u}
  /\ \/ u \in kLedger /\ Finish(r) /\ UNCHANGED kOdd
     \/ u \notin kLedger /\ kReq' = [kReq EXCEPT ![r].pc = "up"] /\ UNCHANGED kOdd
     \/ u \notin kLedger /\ Finish(r) /\ kOdd' = TRUE
  /\ UNCHANGED <<kChain, kCalls, kMade, kVoted>>

LikeUp(r) ==
  /\ At(r, "up")
  /\ kChain' = BumpedForLike([kChain EXCEPT !.likes = @ + 1])
  /\ Finish(r)
  /\ UNCHANGED <<kLedger, kCalls, kMade, kVoted, kOdd>>

\* Never below zero.
LikeDown(r) ==
  /\ At(r, "down")
  /\ kChain' = IF kChain.likes > 0 THEN BumpedForLike([kChain EXCEPT !.likes = @ - 1]) ELSE kChain
  /\ Finish(r)
  /\ UNCHANGED <<kLedger, kCalls, kMade, kVoted, kOdd>>

\* The process dies, or a command throws, between two commands.
BreakOff(r) ==
  /\ ~At(r, "idle")
  /\ Finish(r)
  /\ kOdd' = (kOdd \/ At(r, "up") \/ At(r, "down"))
  /\ UNCHANGED <<kChain, kLedger, kCalls, kMade, kVoted>>

Init ==
  /\ kChain = NoChain
  /\ kLedger = {}
  /\ kReq = [r \in Requests |-> Idle]
  /\ kCalls = 0
  /\ kMade = {}
  /\ kVoted = <<>>
  /\ kOdd = FALSE

Next ==
  \/ Create
  \/ \E r \in Requests, u \in Writers :
       \/ LikeDelete(r, u)
       \/ \E s \in Segments :
            \/ SubmitFind(r, u, s)
            \/ \E value \in {-1, 1} : VoteFind(r, u, s, value)
  \/ \E r \in Requests :
       \/ SubmitLoad(r) \/ SubmitSegment(r) \/ VoteLoad(r) \/ VoteOnSegment(r)
       \/ LikeInsert(r) \/ LikeUp(r) \/ LikeDown(r) \/ BreakOff(r)

Spec == Init /\ [][Next]_kVars

-----------------------------------------------------------------------------
TypeOK ==
  /\ kChain.v \in Nat /\ kChain.total \in Nat /\ kChain.likes \in Nat
  /\ kChain.pending \subseteq Segments
  /\ kChain.story \in Seq(Segments)
  /\ kChain.ballots \in [Segments -> [Writers -> -1 .. 1]]
  /\ kLedger \subseteq Writers
  /\ \A r \in Requests : kReq[r].tries \in 0 .. MaxRetries
  /\ kCalls \in 0 .. MaxChainCalls
  /\ kMade \subseteq Segments

Sum(ballot) == FoldFunctionOnSet(LAMBDA a, b : a + b, 0, ballot, Writers)

\* Whole documents are written back, so a writer that missed another's change
\* would undo it: every segment that was ever stored is pending or in the story and
\* never both or twice, its votes are the sum of its voters', the story and its
\* contributors are counted, and all votes that were stored are.
ChainWhole ==
  LET story == ToSet(kChain.story) IN
  /\ kMade = kChain.pending \cup story
  /\ kChain.pending \cap story = {}
  /\ kChain.count = Cardinality(story) /\ kChain.count = Len(kChain.story)
  /\ \A s \in kMade :
       kChain.votes[s] = Sum(kChain.ballots[s])
  /\ kChain.contributors \subseteq {Starter} \cup {kChain.by[s] : s \in story}
  /\ kChain.total = Len(kVoted)

\* An identical retry counts as another vote only if it overlaps the first: of two
\* equal votes in a row by one user on one segment, the request of the second had read
\* the chain before the first was stored (voteSegment; chain_controller.cc:644 says
\* that identical retries "must not count as additional votes" and looks before the
\* loop of voteOnSegment, not in it).
VotesOnce ==
  \A i, j \in DOMAIN kVoted :
    LET alike(k) == kVoted[k].user = kVoted[j].user /\ kVoted[k].seg = kVoted[j].seg IN
    i < j /\ alike(i) /\ kVoted[i].value = kVoted[j].value /\ (\A k \in i + 1 .. j - 1 : ~alike(k))
      => kVoted[j].since < i

\* A like is in the ledger and in the counter, which the writers of segments and
\* votes also replace: without a like in flight the two agree, unless two toggles
\* of one user overlapped, one broke off, or the answer to its insert was lost and
\* likeChain took its own entry for another's.
LikesAgree ==
  (~kOdd /\ \A u \in Writers : Toggling(u) = {}) => kChain.likes = Cardinality(kLedger)
=============================================================================
