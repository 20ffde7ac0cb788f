---------------------------- MODULE CommunityProofs ----------------------------
(* Proofs about the small components of the community, for any users and        *)
(* handlers and whatever the bounds are: whispers (voting is an atomic ballot,   *)
(* enough reports hide the whisper), then pulse drops, referrals and limits,     *)
(* each from its own invariant, what CommunityMC puts together, and last the     *)
(* ranges of all variables, those of the follow graph among them.                *)
EXTENDS CommunityMC, FiniteSetTheorems, SequenceTheorems, TLAPS

\* What a handler holds, without the bound on its tries.
Held == [pc : {"idle", "read", "write", "report", "count", "hide"},
         user : Users \cup {None}, vote : Choices \cup {None},
         tries : Nat, seen : Ballots, version : Nat]

WellFormed ==
  /\ wReq \in [Requests -> Held]
  /\ wVoters \in Ballots
  /\ wVersion \in Nat

\* A handler that reads or writes votes has a user and a vote.
Votes(held) == held.pc \in {"read", "write"} => held.user \in Users /\ held.vote \in Choices

\* What a vote has read is still so as long as the version it read stands.
Current(held) ==
  held.pc = "write" =>
    /\ held.version <= wVersion
    /\ held.version = wVersion => held.seen = wVoters

IInv ==
  /\ WellFormed
  /\ \A r \in Requests : Votes(wReq[r]) /\ Current(wReq[r])

-----------------------------------------------------------------------------
(* The invariant of voting.                                                    *)

LEMMA IdleHeld == Idle \in Held
  BY DEF Idle, Held, Ballots

LEMMA InitIInv == Init => IInv
<1> SUFFICES ASSUME Init PROVE IInv
  OBVIOUS
<1>1. WellFormed
  BY IdleHeld DEF Init, WellFormed, Ballots
<1>2. \A r \in Requests : wReq[r].pc = "idle"
  BY DEF Init, Idle
<1> QED
  BY <1>1, <1>2 DEF IInv, Votes, Current

\* A step of one worker that leaves the votes alone needs to be looked at for
\* what that worker's handler becomes, and for nothing else.
LEMMA OneHandler ==
  ASSUME IInv, NEW r \in Requests, NEW held \in Held,
         wReq' = [wReq EXCEPT ![r] = held],
         UNCHANGED <<wVoters, wVersion>>,
         Votes(held), Current(held)
  PROVE  IInv'
<1>1. WellFormed'
  BY DEF IInv, WellFormed
<1>2. ASSUME NEW other \in Requests
      PROVE  Votes(wReq'[other]) /\ Current(wReq'[other])
  <2>1. wReq'[other] = IF other = r THEN held ELSE wReq[other]
    BY DEF IInv, WellFormed
  <2> QED
    BY <2>1 DEF IInv
<1>3. ASSUME NEW other \in Requests
      PROVE  (Votes(wReq[other]) /\ Current(wReq[other]))'
  BY <1>2 DEF Votes, Current
<1> QED
  BY <1>1, <1>3 DEF IInv

\* In particular when it neither reads nor writes votes afterwards.
LEMMA NoVote ==
  ASSUME IInv, NEW r \in Requests, NEW held \in Held,
         wReq' = [wReq EXCEPT ![r] = held],
         UNCHANGED <<wVoters, wVersion>>,
         held.pc \notin {"read", "write"}
  PROVE  IInv'
<1>1. Votes(held) /\ Current(held)
  BY DEF Votes, Current
<1> QED
  BY <1>1, OneHandler

LEMMA Goes ==
  ASSUME IInv, NEW r \in Requests,
         UNCHANGED <<wVoters, wVersion>>,
         End(r) \/ \E pc \in {"count", "hide"} : Goto(r, pc)
  PROVE  IInv'
<1>1. CASE End(r)
  <2>1. Idle.pc = "idle"
    BY DEF Idle
  <2> QED
    BY <1>1, <2>1, IdleHeld, NoVote DEF End
<1>2. ASSUME NEW pc \in {"count", "hide"}, Goto(r, pc)
      PROVE  IInv'
  <2> DEFINE held == [wReq[r] EXCEPT !.pc = pc]
  <2>1. wReq[r] \in Held
    BY DEF IInv, WellFormed
  <2>2. held \in Held /\ held.pc = pc
    BY <2>1 DEF Held
  <2>3. wReq' = [wReq EXCEPT ![r] = held]
    BY <1>2 DEF Goto
  <2> HIDE DEF held
  <2> QED
    BY <2>2, <2>3, NoVote
<1> QED
  BY <1>1, <1>2

LEMMA BeginIInv ==
  ASSUME IInv, NEW r \in Requests, NEW u \in Users, NEW pc \in {"read", "report"},
         NEW choice \in Choices \cup {None}, pc = "read" => choice \in Choices,
         Begin(r, pc, u, choice)
  PROVE  IInv'
<1> DEFINE held == [Idle EXCEPT !.pc = pc, !.user = u, !.vote = choice]
<1>1. held \in Held /\ held.pc = pc /\ held.user = u /\ held.vote = choice
  BY IdleHeld DEF Held, Idle
<1>2. wReq' = [wReq EXCEPT ![r] = held] /\ UNCHANGED <<wVoters, wVersion>>
  BY DEF Begin, whisper
<1> HIDE DEF held
<1>3. Votes(held) /\ Current(held)
  BY <1>1 DEF Votes, Current
<1> QED
  BY <1>1, <1>2, <1>3, OneHandler

LEMMA ReadIInv ==
  ASSUME IInv, NEW r \in Requests, ReadWhisper(r)
  PROVE  IInv'
<1> DEFINE held == [wReq[r] EXCEPT !.pc = "write", !.seen = wVoters, !.version = wVersion]
<1>1. UNCHANGED <<wVoters, wVersion>>
  BY DEF ReadWhisper, whisper
<1>2. CASE End(r)
  BY <1>1, <1>2, Goes
<1>3. CASE wReq' = [wReq EXCEPT ![r] = held]
  <2>1. wReq[r] \in Held /\ wReq[r].pc = "read" /\ Votes(wReq[r]) /\ wVoters \in Ballots /\ wVersion \in Nat
    BY DEF IInv, WellFormed, ReadWhisper, At
  <2>2. held \in Held /\ held.user = wReq[r].user /\ held.vote = wReq[r].vote
        /\ held.seen = wVoters /\ held.version = wVersion
    BY <2>1 DEF Held
  <2> HIDE DEF held
  <2>3. Votes(held) /\ Current(held)
    BY <2>1, <2>2 DEF Votes, Current
  <2> QED
    BY <1>1, <1>3, <2>2, <2>3, OneHandler
<1> QED
  BY <1>2, <1>3 DEF ReadWhisper

LEMMA ConflictIInv ==
  ASSUME IInv, NEW r \in Requests, Conflict(r)
  PROVE  IInv'
<1> DEFINE held == [wReq[r] EXCEPT !.pc = "read", !.tries = wReq[r].tries + 1]
<1>1. UNCHANGED <<wVoters, wVersion>>
  BY DEF Conflict, whisper
<1>2. CASE End(r)
  BY <1>1, <1>2, Goes
<1>3. CASE wReq' = [wReq EXCEPT ![r] = held]
  <2>1. wReq[r] \in Held /\ wReq[r].pc = "write" /\ Votes(wReq[r])
    BY DEF IInv, WellFormed, Conflict, At
  <2>a. wReq[r].tries + 1 \in Nat
    BY <2>1 DEF Held
  <2>2. held \in Held /\ held.user = wReq[r].user /\ held.vote = wReq[r].vote /\ held.pc = "read"
    <3> DEFINE tries == wReq[r].tries + 1
    <3>1. held = [wReq[r] EXCEPT !.pc = "read", !.tries = tries] /\ tries \in Nat
      BY <2>a
    <3> HIDE DEF tries
    <3> QED
      BY <2>1, <3>1 DEF Held
  <2> HIDE DEF held
  <2>3. Votes(held) /\ Current(held)
    BY <2>1, <2>2 DEF Votes, Current
  <2> QED
    BY <1>1, <1>3, <2>2, <2>3, OneHandler
<1> QED
  BY <1>2, <1>3 DEF Conflict

\* A vote is a function of the votes it read.
LEMMA VotedBallot ==
  ASSUME NEW held \in Held, Votes(held), held.pc = "write"
  PROVE  Voted(held) \in Ballots
  BY DEF Held, Votes, Voted, Ballots

\* A write makes every other vote's reading obsolete.
LEMMA WriteIInv ==
  ASSUME IInv, NEW r \in Requests, WriteVote(r)
  PROVE  IInv'
<1>1. wReq[r] \in Held /\ wReq[r].pc = "write" /\ Votes(wReq[r])
  BY DEF IInv, WellFormed, WriteVote, At
<1>2. wVoters' \in Ballots
  BY <1>1, VotedBallot DEF WriteVote
<1>3. wVersion \in Nat /\ wVersion' = wVersion + 1
  BY DEF IInv, WellFormed, WriteVote
<1>4. wReq' = [wReq EXCEPT ![r] = Idle]
  BY DEF WriteVote, End
<1>5. WellFormed'
  BY <1>2, <1>3, <1>4, IdleHeld DEF IInv, WellFormed
<1>6. ASSUME NEW other \in Requests
      PROVE  (Votes(wReq[other]) /\ Current(wReq[other]))'
  <2>1. wReq'[other] = IF other = r THEN Idle ELSE wReq[other]
    BY <1>4 DEF IInv, WellFormed
  <2>2. CASE other = r
    BY <2>1, <2>2 DEF Votes, Current, Idle
  <2>3. CASE other # r
    <3>1. wReq[other] \in Held /\ Votes(wReq[other]) /\ Current(wReq[other])
      BY DEF IInv, WellFormed
    <3>2. wReq[other].version \in Nat
      BY <3>1 DEF Held
    <3>3. wReq[other].pc = "write" => wReq[other].version < wVersion'
      BY <1>3, <3>1, <3>2 DEF Current
    <3> QED
      BY <1>3, <2>1, <2>3, <3>1, <3>2, <3>3 DEF Votes, Current
  <2> QED
    BY <2>2, <2>3
<1> QED
  BY <1>5, <1>6 DEF IInv

LEMMA NextIInv == IInv /\ [Next]_wVars => IInv'
<1> SUFFICES ASSUME IInv, [Next]_wVars PROVE IInv'
  OBVIOUS
<1>1. ASSUME NEW r \in Requests, NEW u \in Users, NEW choice \in Choices, BeginVote(r, u, choice)
      PROVE  IInv'
  BY <1>1, BeginIInv DEF BeginVote
<1>2. ASSUME NEW r \in Requests, NEW u \in Users, BeginReport(r, u)
      PROVE  IInv'
  BY <1>2, BeginIInv DEF BeginReport
<1>3. ASSUME NEW r \in Requests, FindReported(r) \/ CountReport(r) \/ Hide(r) \/ Abort(r)
      PROVE  IInv'
  <2>1. UNCHANGED <<wVoters, wVersion>>
    BY <1>3 DEF FindReported, CountReport, Hide, Abort, whisper
  <2>2. End(r) \/ \E pc \in {"count", "hide"} : Goto(r, pc)
    BY <1>3 DEF FindReported, CountReport, Hide, Abort
  <2> QED
    BY <2>1, <2>2, Goes
<1>4. CASE Expire \/ UNCHANGED wVars
  BY <1>4 DEF IInv, WellFormed, Votes, Current, Expire, wVars, whisper
<1> QED
  BY <1>1, <1>2, <1>3, <1>4, ReadIInv, WriteIInv, ConflictIInv DEF Next, Step

-----------------------------------------------------------------------------
(* Voting is atomic.                                                           *)

LEMMA NoneNoChoice == None \notin Choices
  BY CommunityAssumption DEF Choices

LEMMA SameTally == \A voters : Counted(voters) = TheBallot!Tally(voters)
  BY Zenon DEF Counted, TheBallot!Tally, Cardinality, TheBallot!Cardinality

LEMMA InitBallot == Init => TheBallot!Init
<1> SUFFICES ASSUME Init PROVE TheBallot!Init
  OBVIOUS
<1>1. \A choice \in Choices : {u \in Users : wVoters[u] = choice} = {}
  <2>1. \A u \in Users : wVoters[u] = None
    BY DEF Init
  <2> QED
    BY <2>1, NoneNoChoice
<1>2. wTally = TheBallot!Tally(wVoters)
  <2>1. \A choice \in Choices : Cardinality({u \in Users : wVoters[u] = choice}) = 0
    BY <1>1, FS_EmptySet, Zenon
  <2>2. wTally = Counted(wVoters)
    BY <2>1 DEF Init, Counted
  <2> QED
    BY <2>2, SameTally
<1>3. Visible = TRUE
  BY DEF Init, Visible
<1> QED
  BY <1>2, <1>3 DEF Init, TheBallot!Init

\* The one step that votes.
LEMMA WriteVotes ==
  ASSUME IInv, NEW r \in Requests, WriteVote(r)
  PROVE  \E u \in Users, choice \in Choices : TheBallot!Vote(u, choice)
<1> DEFINE u == wReq[r].user
           choice == wReq[r].vote
<1>1. u \in Users /\ choice \in Choices
  BY DEF IInv, Votes, WriteVote, At
<1>2. wReq[r].seen = wVoters
  BY DEF IInv, Current, WriteVote, At, Writable
<1>3. wVoters' = TheBallot!Cast(wVoters, u, choice)
  BY <1>2 DEF WriteVote, Voted, TheBallot!Cast
<1>4. wTally' = TheBallot!Tally(wVoters')
  BY SameTally DEF WriteVote
<1>5. Visible /\ UNCHANGED Visible
  BY DEF WriteVote, Writable, Visible, reports
<1>6. TheBallot!Vote(u, choice)
  BY <1>3, <1>4, <1>5 DEF TheBallot!Vote
<1> QED
  BY <1>1, <1>6

\* Only expiry and hiding close the ballot, and nothing opens it.
LEMMA HideCloses ==
  ASSUME IInv, NEW r \in Requests, Hide(r)
  PROVE  TheBallot!Close \/ UNCHANGED TheBallot!ballot
<1>1. UNCHANGED <<wVoters, wTally>>
  BY DEF Hide, whisper
<1>2. ~Visible'
  BY DEF Hide, Visible
<1>3. CASE Visible
  BY <1>1, <1>2, <1>3 DEF TheBallot!Close
<1>4. CASE ~Visible
  <2>1. Visible' = Visible
    BY <1>2, <1>4 DEF Visible
  <2> QED
    BY <1>1, <2>1 DEF TheBallot!ballot
<1> QED
  BY <1>3, <1>4

LEMMA ExpireCloses ==
  ASSUME Expire
  PROVE  TheBallot!Close \/ UNCHANGED TheBallot!ballot
<1>1. UNCHANGED <<wVoters, wTally>>
  BY DEF Expire, whisper
<1>2. ~Visible'
  BY DEF Expire, Visible
<1>3. CASE Visible
  BY <1>1, <1>2, <1>3 DEF TheBallot!Close
<1>4. CASE ~Visible
  <2>1. Visible' = Visible
    BY <1>2, <1>4 DEF Visible
  <2> QED
    BY <1>1, <2>1 DEF TheBallot!ballot
<1> QED
  BY <1>3, <1>4

LEMMA Silent ==
  ASSUME UNCHANGED <<wVoters, wTally, wHidden, wExpired>>
  PROVE  UNCHANGED TheBallot!ballot
<1>1. Visible' = Visible
  BY DEF Visible
<1> QED
  BY <1>1 DEF TheBallot!ballot

LEMMA NextBallot == IInv /\ [Next]_wVars => [TheBallot!Next]_(TheBallot!ballot)
<1> SUFFICES ASSUME IInv, [Next]_wVars PROVE [TheBallot!Next]_(TheBallot!ballot)
  OBVIOUS
<1>1. ASSUME NEW r \in Requests, WriteVote(r)
      PROVE  TheBallot!Next
  BY <1>1, WriteVotes DEF TheBallot!Next
<1>2. ASSUME NEW r \in Requests, Hide(r)
      PROVE  [TheBallot!Next]_(TheBallot!ballot)
  BY <1>2, HideCloses DEF TheBallot!Next
<1>3. CASE Expire
  BY <1>3, ExpireCloses DEF TheBallot!Next
<1>4. CASE UNCHANGED wVars
  BY <1>4, Silent DEF wVars, whisper, reports
<1>5. ASSUME NEW r \in Requests, NEW u \in Users, NEW choice \in Choices,
             BeginVote(r, u, choice) \/ BeginReport(r, u)
      PROVE  UNCHANGED TheBallot!ballot
  BY <1>5, Silent DEF BeginVote, BeginReport, Begin, whisper, reports
<1>6. ASSUME NEW r \in Requests,
             ReadWhisper(r) \/ Conflict(r) \/ FindReported(r) \/ CountReport(r) \/ Abort(r)
      PROVE  UNCHANGED TheBallot!ballot
  BY <1>6, Silent DEF ReadWhisper, Conflict, FindReported, CountReport, Abort, whisper, reports
<1>7. ASSUME NEW r \in Requests, NEW u \in Users, BeginReport(r, u)
      PROVE  UNCHANGED TheBallot!ballot
  BY <1>7, Silent DEF BeginReport, Begin, whisper, reports
<1> QED
  BY <1>1, <1>2, <1>3, <1>4, <1>5, <1>6, <1>7 DEF Next, Step

\* Votes take effect one by one and as a whole, however many handlers read and
\* write at once, and none after the whisper was hidden or had expired
\* (whisper::vote): the detailed specification implements the abstract ballot.
THEOREM ImplementsBallot == Spec => BallotSpec
<1>1. Init => IInv
  BY InitIInv
<1>2. IInv /\ [Next]_wVars => IInv'
  BY NextIInv
<1>3. Spec => []IInv
  BY <1>1, <1>2, PTL DEF Spec
<1>4. Init => TheBallot!Init
  BY InitBallot
<1>5. IInv /\ [Next]_wVars => [TheBallot!Next]_(TheBallot!ballot)
  BY NextBallot
<1> QED
  BY <1>3, <1>4, <1>5, PTL DEF Spec, BallotSpec, TheBallot!Spec

-----------------------------------------------------------------------------
(* Reports.                                                                    *)

\* The handler that owes the hiding is the one that counted the last report.
HInv == wReq \in [Requests -> Held] /\ HiddenWhenReported

\* A step of one worker that is not at its hiding, and counts no report.
LEMMA OthersHide ==
  ASSUME HInv, NEW r \in Requests, wReq[r].pc # "hide",
         \A other \in Requests \ {r} : wReq'[other] = wReq[other],
         UNCHANGED <<wReports, wHidden, wDied>>
  PROVE  HiddenWhenReported'
  BY DEF HInv, HiddenWhenReported, At

LEMMA CountHides ==
  ASSUME HInv, NEW r \in Requests, CountReport(r)
  PROVE  HiddenWhenReported'
<1>1. wReq[r].pc # "hide" /\ UNCHANGED <<wHidden, wDied>>
  BY DEF CountReport, At
<1>2. CASE Goto(r, "hide")
  <2>1. wReq'[r].pc = "hide"
    BY <1>2 DEF HInv, Held, Goto
  <2> QED
    BY <2>1 DEF HiddenWhenReported, At
<1>3. CASE End(r) /\ ~(wReports' >= HideAt)
  BY <1>3 DEF HiddenWhenReported
<1>4. CASE End(r) /\ wReports' = wReports
  <2>1. \A other \in Requests \ {r} : wReq'[other] = wReq[other]
    BY <1>4 DEF End, HInv
  <2> QED
    BY <1>1, <1>4, <2>1, OthersHide
<1> QED
  BY <1>2, <1>3, <1>4 DEF CountReport, Hides

LEMMA NextHides == IInv /\ HInv /\ [Next]_wVars => HiddenWhenReported'
<1> SUFFICES ASSUME IInv, HInv, [Next]_wVars PROVE HiddenWhenReported'
  OBVIOUS
<1>1. ASSUME NEW r \in Requests,
             \/ \E u \in Users, choice \in Choices : BeginVote(r, u, choice) \/ BeginReport(r, u)
             \/ \E u \in Users : BeginReport(r, u)
             \/ ReadWhisper(r) \/ WriteVote(r) \/ Conflict(r) \/ FindReported(r)
      PROVE  HiddenWhenReported'
  <2>1. wReq[r].pc # "hide"
    BY <1>1, Zenon DEF BeginVote, BeginReport, Begin, ReadWhisper, WriteVote, Conflict, FindReported, At
  <2>2. UNCHANGED <<wReports, wHidden, wDied>>
    BY <1>1 DEF BeginVote, BeginReport, Begin, ReadWhisper, WriteVote, Conflict, FindReported, reports
  <2>3. \A other \in Requests \ {r} : wReq'[other] = wReq[other]
    BY <1>1 DEF BeginVote, BeginReport, Begin, ReadWhisper, WriteVote, Conflict, FindReported, End, Goto, HInv
  <2> QED
    BY <2>1, <2>2, <2>3, OthersHide
<1>2. ASSUME NEW r \in Requests, Hide(r)
      PROVE  HiddenWhenReported'
  BY <1>2 DEF Hide, HiddenWhenReported
<1>3. ASSUME NEW r \in Requests, Abort(r)
      PROVE  HiddenWhenReported'
  <2>1. CASE wReq[r].pc = "hide"
    BY <1>3, <2>1 DEF Abort, At, HiddenWhenReported
  <2>2. CASE wReq[r].pc # "hide"
    <3>1. \A other \in Requests \ {r} : wReq'[other] = wReq[other]
      BY <1>3 DEF Abort, End, HInv
    <3>2. UNCHANGED <<wReports, wHidden>> /\ (wDied => wDied')
      BY <1>3 DEF Abort, reports
    <3> QED
      BY <2>2, <3>1, <3>2 DEF HInv, HiddenWhenReported, At
  <2> QED
    BY <2>1, <2>2
<1>4. CASE Expire \/ UNCHANGED wVars
  BY <1>4 DEF HInv, HiddenWhenReported, At, Expire, wVars, reports
<1> QED
  BY <1>1, <1>2, <1>3, <1>4, CountHides DEF Next, Step

\* A whisper with enough reports is hidden, or its last reporter's handler is
\* about to hide it, or that handler died (WhisperController::report).
THEOREM ReportsHide == Spec => []HiddenWhenReported
<1>1. Init => IInv
  BY InitIInv
<1>2. IInv /\ [Next]_wVars => IInv'
  BY NextIInv
<1>3. Init => HiddenWhenReported
  BY WhispersAssumption DEF Init, HiddenWhenReported
<1>4. IInv => wReq \in [Requests -> Held]
  BY DEF IInv, WellFormed
<1>5. IInv /\ HiddenWhenReported /\ [Next]_wVars => HiddenWhenReported'
  BY <1>4, NextHides DEF HInv
<1> QED
  BY <1>1, <1>2, <1>3, <1>5, PTL DEF Spec

-----------------------------------------------------------------------------
(* An instance brings its own copy of the library.                              *)
LEMMA SameCardinality ==
  \A S : /\ D!Cardinality(S) = Cardinality(S) /\ F!Cardinality(S) = Cardinality(S)
         /\ L!Cardinality(S) = Cardinality(S)
  BY DEF Cardinality, IsFiniteSet, D!Cardinality, D!IsFiniteSet, F!Cardinality, F!IsFiniteSet,
    L!Cardinality, L!IsFiniteSet

-----------------------------------------------------------------------------
(* The list of participants.                                                    *)

\* While nobody is listed twice, the element the positional operator changes is the
\* one of the user that passes the test.
Listed == \A i, j \in DOMAIN dParticipants :
            dParticipants[i].user = dParticipants[j].user => i = j

LEMMA FirstWritten ==
  ASSUME D!TypeOK, Listed, NEW r \in Requests, D!FirstResponse(r), ~D!Goto(r, "replace")
  PROVE  /\ ~dOver
         /\ \E i \in DOMAIN dParticipants :
              /\ dParticipants[i].user = dReq[r].user /\ dParticipants[i].response = None
              /\ dParticipants' = [dParticipants EXCEPT ![i].response = dReq[r].post]
  <1>1. PICK q : q = dReq[r]
    OBVIOUS
  <1>2. PICK i \in DOMAIN dParticipants : D!AwaitsResponse(q.user, dParticipants[i])
    BY <1>1 DEF D!FirstResponse
  <1>3. PICK k : k = CHOOSE m \in DOMAIN dParticipants :
                       /\ D!AwaitsResponse(q.user, dParticipants[m])
                       /\ \A j \in 1 .. m - 1 : ~D!AwaitsResponse(q.user, dParticipants[j])
    OBVIOUS
  <1>4. dParticipants' = [dParticipants EXCEPT ![k].response = q.post] /\ ~dOver
    BY <1>1, <1>3, Zenon DEF D!FirstResponse, D!FirstOf
  <1>5. k = i
    <2>1. dParticipants \in Seq(D!Participant)
      BY DEF D!TypeOK
    <2>2. \A j \in 1 .. i - 1 : j \in DOMAIN dParticipants /\ j # i
      BY <2>1
    <2>3. \A j \in DOMAIN dParticipants : D!AwaitsResponse(q.user, dParticipants[j]) => j = i
      BY <1>2 DEF D!AwaitsResponse, Listed
    <2>4. \A j \in 1 .. i - 1 : ~D!AwaitsResponse(q.user, dParticipants[j])
      BY <2>2, <2>3
    <2> QED BY <1>2, <1>3, <2>3, <2>4, Zenon
  <1> QED BY <1>1, <1>2, <1>4, <1>5 DEF D!AwaitsResponse

LEMMA Rewritten ==
  ASSUME D!TypeOK, Listed, NEW r \in Requests, D!Replace(r), ~D!Goto(r, "current")
  PROVE  /\ ~dOver
         /\ \E i \in DOMAIN dParticipants :
              /\ dParticipants[i].user = dReq[r].user
              /\ dParticipants' = [dParticipants EXCEPT ![i].response = dReq[r].post]
              /\ dReplaced' = dReplaced \cup {dParticipants[i].response}
  <1>1. PICK q : q = dReq[r]
    OBVIOUS
  <1>2. PICK i \in DOMAIN dParticipants : dParticipants[i].user = q.user
    BY <1>1 DEF D!Replace, D!Joined
  <1>3. PICK k : k = CHOOSE m \in DOMAIN dParticipants :
                       /\ dParticipants[m].user = q.user
                       /\ \A j \in 1 .. m - 1 : ~(dParticipants[j].user = q.user)
    OBVIOUS
  <1>4. /\ dParticipants' = [dParticipants EXCEPT ![k].response = q.post] /\ ~dOver
        /\ dReplaced' = dReplaced \cup {dParticipants[k].response}
    BY <1>1, <1>3, Zenon DEF D!Replace, D!FirstOf
  <1>5. k = i
    <2>1. dParticipants \in Seq(D!Participant)
      BY DEF D!TypeOK
    <2>2. \A j \in 1 .. i - 1 : j \in DOMAIN dParticipants /\ j # i
      BY <2>1
    <2>3. \A j \in DOMAIN dParticipants : dParticipants[j].user = q.user => j = i
      BY <1>2 DEF Listed
    <2>4. \A j \in 1 .. i - 1 : ~(dParticipants[j].user = q.user)
      BY <2>2, <2>3
    <2> QED BY <1>2, <1>3, <2>3, <2>4, Zenon
  <1> QED BY <1>1, <1>2, <1>4, <1>5

-----------------------------------------------------------------------------
(* The invariant.                                                               *)

Responded(u) == \E i \in DOMAIN dParticipants :
                  dParticipants[i].user = u /\ dParticipants[i].response # None

\* What a handler on its way to or through pulsedrop::join knows.
HandlerOK(q) ==
  /\ q.pc # "idle" => q.user \in Users
  /\ q.pc \in {"findDrop", "insertPost"} => q.op = "respond" /\ q.post = None
  /\ q.op = "respond" => \/ q.pc \in {"findDrop", "insertPost"}
                         \/ q.pc \in {"add", "first", "replace", "current", "undo"}
                            /\ q.post \in D!Posts
  /\ q.pc \in {"first", "replace"} => q.post \in D!Posts
  /\ q.pc = "first" => dOver \/ D!Joined(q.user)
  /\ q.pc = "replace" => dOver \/ Responded(q.user)
  /\ q.pc = "current" /\ q.op = "respond" => dOver
  /\ q.pc = "undo" => q.op = "respond"
HandlersOK == \A r \in Requests : HandlerOK(dReq[r])
DropsInv == D!TypeOK /\ HandlersOK /\ D!CountsMatch

\* The list and the end of a drop only grow.
Onward ==
  /\ dOver => dOver'
  /\ \A u \in Users : (D!Joined(u) => D!Joined(u)') /\ (Responded(u) => Responded(u)')

LEMMA ReqTypes ==
  ASSUME DropsInv, NEW r \in Requests
  PROVE  /\ dReq[r] \in D!Call /\ HandlerOK(dReq[r]) /\ dReq \in [Requests -> D!Call]
         /\ dParticipants \in Seq(D!Participant) /\ dPosts \in [D!Posts -> D!Post]
         /\ dReq[r].pc \in {"idle", "findPost", "findDrop", "insertPost", "add", "first",
                            "replace", "current", "undo"}
         /\ dReq[r].post \in D!Posts \cup {None} /\ dReq[r].user \in Users \cup {None}
  BY DEF DropsInv, D!TypeOK, HandlersOK, D!Call

LEMMA OnwardHandler ==
  ASSUME Onward, NEW q, HandlerOK(q)
  PROVE  HandlerOK(q)'
  BY DEF Onward, HandlerOK

LEMMA OnwardHandlers ==
  ASSUME DropsInv, Onward, NEW r \in Requests, NEW q \in D!Call,
         dReq' = [dReq EXCEPT ![r] = q], HandlerOK(q)'
  PROVE  HandlersOK' /\ dReq' \in [Requests -> D!Call]
  <1>1. dReq \in [Requests -> D!Call]
    BY ReqTypes
  <1>2. dReq'[r] = q /\ \A s \in Requests : s # r => dReq'[s] = dReq[s]
    BY <1>1
  <1>3. ASSUME NEW s \in Requests, s # r PROVE HandlerOK(dReq[s])'
    <2>1. PICK h : h = dReq[s] /\ h = dReq'[s]
      BY <1>2, <1>3
    <2>2. HandlerOK(h)'
      BY <2>1, OnwardHandler, ReqTypes
    <2> QED BY <2>1, <2>2 DEF HandlerOK
  <1>4. HandlerOK(dReq[r])'
    BY <1>2 DEF HandlerOK
  <1> QED BY <1>1, <1>3, <1>4 DEF HandlersOK

\* A step that leaves list and counters alone.
LEMMA QuietDrop ==
  ASSUME DropsInv, UNCHANGED D!drop, dOver => dOver'
  PROVE  Onward /\ D!CountsMatch'
  <1>1. UNCHANGED dParticipants /\ UNCHANGED dCounts
    BY DEF D!drop
  <1> QED BY <1>1 DEF DropsInv, Onward, D!Joined, Responded, D!CountsMatch

\* A handler goes on to another step, with what the step asks for, or ends.
LEMMA GoesOn ==
  ASSUME DropsInv, Onward, NEW r \in Requests, ~D!At(r, "idle"),
         NEW pc \in {"add", "first", "replace", "current", "undo", "insertPost"},
         D!Goto(r, pc),
         pc = "insertPost" => D!At(r, "findDrop"),
         pc # "insertPost" => ~D!At(r, "findDrop") /\ ~D!At(r, "insertPost"),
         pc \in {"first", "replace"} => dReq[r].post \in D!Posts,
         pc = "first" => dOver \/ D!Joined(dReq[r].user),
         pc = "replace" => dOver \/ Responded(dReq[r].user),
         pc = "current" /\ dReq[r].op = "respond" => dOver,
         pc = "undo" => dReq[r].op = "respond"
  PROVE  HandlersOK' /\ dReq' \in [Requests -> D!Call]
  <1>1. PICK q : q = [dReq[r] EXCEPT !.pc = pc]
    OBVIOUS
  <1>2. dReq[r] \in D!Call /\ HandlerOK(dReq[r])
    BY ReqTypes
  <1>3. /\ q \in D!Call /\ q.pc = pc /\ q.op = dReq[r].op /\ q.user = dReq[r].user
        /\ q.post = dReq[r].post
    BY <1>1, <1>2 DEF D!Call
  <1>4. dReq' = [dReq EXCEPT ![r] = q]
    BY <1>1 DEF D!Goto
  <1>5. HandlerOK(q)
    BY <1>2, <1>3 DEF HandlerOK, D!At, D!Call
  <1> QED BY <1>3, <1>4, <1>5, OnwardHandler, OnwardHandlers

LEMMA Ends ==
  ASSUME DropsInv, Onward, NEW r \in Requests, D!End(r)
  PROVE  HandlersOK' /\ dReq' \in [Requests -> D!Call]
  <1>1. D!Idle \in D!Call /\ HandlerOK(D!Idle)
    BY DEF D!Idle, D!Call, HandlerOK
  <1>2. PICK q \in D!Call : q = D!Idle /\ HandlerOK(q)
    BY <1>1
  <1> QED BY <1>2, OnwardHandler, OnwardHandlers DEF D!End

\* The list after an answer was written into it.
LEMMA WrittenOnward ==
  ASSUME DropsInv, NEW i \in DOMAIN dParticipants, NEW p \in D!Posts, None \notin D!Posts,
         dParticipants' = [dParticipants EXCEPT ![i].response = p], dOver' = dOver
  PROVE  /\ Onward /\ dParticipants' \in Seq(D!Participant)
         /\ DOMAIN dParticipants' = DOMAIN dParticipants
         /\ Len(dParticipants') = Len(dParticipants)
         /\ \A j \in DOMAIN dParticipants :
              /\ dParticipants'[j].user = dParticipants[j].user
              /\ dParticipants'[j].response = IF j = i THEN p ELSE dParticipants[j].response
         /\ Listed'
  <1>1. PICK s, t : s \in Seq(D!Participant) /\ s = dParticipants /\ t = dParticipants'
    BY DEF DropsInv, D!TypeOK
  <1>2. t = [s EXCEPT ![i].response = p] /\ i \in DOMAIN s
    BY <1>1
  <1>3. /\ t \in Seq(D!Participant) /\ Len(t) = Len(s) /\ DOMAIN t = DOMAIN s
        /\ \A j \in DOMAIN s :
             /\ t[j].user = s[j].user
             /\ t[j].response = IF j = i THEN p ELSE s[j].response
    <2>1. \A j \in DOMAIN s : s[j] \in D!Participant
      BY <1>1
    <2>2. PICK x : x = [s[i] EXCEPT !.response = p]
      OBVIOUS
    <2>3. x \in D!Participant /\ x.user = s[i].user /\ x.response = p
      BY <1>2, <2>1, <2>2 DEF D!Participant
    <2>4. t = [s EXCEPT ![i] = x]
      BY <1>2, <2>2
    <2>5. t \in Seq(D!Participant) /\ Len(t) = Len(s) /\ DOMAIN t = DOMAIN s
      BY <1>1, <1>2, <2>3, <2>4
    <2>6. t[i] = x /\ \A j \in DOMAIN s : j # i => t[j] = s[j]
      BY <1>1, <1>2, <2>4
    <2> QED BY <2>3, <2>5, <2>6
  <1>4. Onward
    BY <1>1, <1>3 DEF Onward, D!Joined, Responded
  <1>5. Listed'
    BY <1>1, <1>3 DEF DropsInv, D!CountsMatch, Listed
  <1> QED BY <1>1, <1>3, <1>4, <1>5

\* The set that responseCount counts.
Answers == {i \in DOMAIN dParticipants : dParticipants[i].response # None}

LEMMA AnswersFinite ==
  ASSUME D!TypeOK
  PROVE  IsFiniteSet(Answers) /\ Cardinality(Answers) \in Nat /\ Len(dParticipants) \in Nat
  <1>1. PICK n \in Nat : n = Len(dParticipants) /\ DOMAIN dParticipants = 1 .. n
    BY DEF D!TypeOK
  <1>2. IsFiniteSet(1 .. n)
    BY <1>1, FS_Interval
  <1>3. Answers \subseteq 1 .. n
    BY <1>1 DEF Answers
  <1>4. IsFiniteSet(Answers)
    BY <1>2, <1>3, FS_Subset
  <1> QED BY <1>1, <1>4, FS_CardinalityType

LEMMA CountsSay ==
  D!CountsMatch <=> /\ Listed
                    /\ dCounts = [participants |-> Len(dParticipants),
                                responses |-> Cardinality(Answers),
                                score |-> 2 * Len(dParticipants) + 5 * Cardinality(Answers)]
  BY SameCardinality DEF D!CountsMatch, Listed, Answers

LEMMA CountsSayNext ==
  /\ Listed'
  /\ dCounts' = [participants |-> Len(dParticipants'), responses |-> Cardinality(Answers'),
                 score |-> 2 * Len(dParticipants') + 5 * Cardinality(Answers')]
  => D!CountsMatch'
  BY SameCardinality DEF D!CountsMatch, Listed, Answers

LEMMA DropsFirst ==
  ASSUME D!DropsAssumption, DropsInv, NEW r \in Requests, D!FirstResponse(r)
  PROVE  DropsInv'
  <1>0. D!TypeOK /\ Listed /\ UNCHANGED <<dOver, dPosts, dReplaced, dDied, dBegun>>
    BY CountsSay DEF DropsInv, D!FirstResponse
  <1>1. /\ dReq[r].pc = "first" /\ dReq[r].post \in D!Posts /\ HandlerOK(dReq[r])
        /\ None \notin D!Posts
    BY ReqTypes DEF D!FirstResponse, D!At, HandlerOK, D!DropsAssumption, D!Posts
  <1>2. CASE D!Goto(r, "replace")
    <2>1. UNCHANGED D!drop
      <3>1. ~D!End(r)
        <4>1. dReq \in [Requests -> D!Call] /\ dReq[r] \in D!Call
          BY ReqTypes
        <4> QED BY <1>2, <4>1 DEF D!Goto, D!End, D!Idle, D!Call
      <3> QED BY <3>1 DEF D!FirstResponse
    <2>2. Onward /\ D!CountsMatch'
      BY <1>0, <2>1, QuietDrop
    <2>3. dOver \/ Responded(dReq[r].user)
      <3>1. CASE D!Joined(dReq[r].user) /\ ~dOver
        <4>1. \A i \in DOMAIN dParticipants : ~D!AwaitsResponse(dReq[r].user, dParticipants[i])
          <5>1. ~D!End(r)
            <6>1. dReq \in [Requests -> D!Call] /\ dReq[r] \in D!Call
              BY ReqTypes
            <6> QED BY <1>2, <6>1 DEF D!Goto, D!End, D!Idle, D!Call
          <5> QED BY <3>1, <5>1 DEF D!FirstResponse
        <4> QED BY <3>1, <4>1 DEF D!Joined, Responded, D!AwaitsResponse
      <3> QED BY <1>1, <3>1 DEF HandlerOK
    <2>4. HandlersOK' /\ dReq' \in [Requests -> D!Call]
      BY <1>1, <1>2, <2>2, <2>3, GoesOn DEF D!At
    <2> QED BY <1>0, <2>1, <2>2, <2>4 DEF DropsInv, D!TypeOK, D!drop
  <1>3. CASE ~D!Goto(r, "replace")
    <2>1. D!End(r) /\ dCounts' = [dCounts EXCEPT !.responses = @ + 1, !.score = @ + 5]
      BY <1>3 DEF D!FirstResponse
    <2>2. PICK i \in DOMAIN dParticipants :
            /\ dParticipants[i].response = None
            /\ dParticipants' = [dParticipants EXCEPT ![i].response = dReq[r].post]
      BY <1>0, <1>3, FirstWritten
    <2>3. PICK p \in D!Posts : p = dReq[r].post
      BY <1>1
    <2>4. dParticipants' = [dParticipants EXCEPT ![i].response = p]
      BY <2>2, <2>3
    <2>5. /\ Onward /\ dParticipants' \in Seq(D!Participant) /\ Listed'
          /\ DOMAIN dParticipants' = DOMAIN dParticipants
          /\ Len(dParticipants') = Len(dParticipants)
          /\ \A j \in DOMAIN dParticipants :
               dParticipants'[j].response = IF j = i THEN p ELSE dParticipants[j].response
      BY <1>0, <1>1, <2>4, WrittenOnward
    <2>6. Answers' = Answers \cup {i} /\ i \notin Answers
      BY <1>1, <2>2, <2>5 DEF Answers
    <2>7. Cardinality(Answers') = Cardinality(Answers) + 1
      BY <1>0, <2>6, AnswersFinite, FS_AddElement
    <2>8. /\ dCounts' = [participants |-> Len(dParticipants'), responses |-> Cardinality(Answers'),
                         score |-> 2 * Len(dParticipants') + 5 * Cardinality(Answers')]
          /\ dCounts' \in [participants : Nat, responses : Nat, score : Nat]
      <3>1. dCounts = [participants |-> Len(dParticipants), responses |-> Cardinality(Answers),
                       score |-> 2 * Len(dParticipants) + 5 * Cardinality(Answers)]
        BY CountsSay DEF DropsInv
      <3>2. PICK n \in Nat, m \in Nat : n = Len(dParticipants) /\ m = Cardinality(Answers)
        BY <1>0, AnswersFinite
      <3>3. dCounts' = [participants |-> n, responses |-> m + 1, score |-> 2 * n + 5 * (m + 1)]
        <4>1. dCounts = [participants |-> n, responses |-> m, score |-> 2 * n + 5 * m]
          BY <3>1, <3>2
        <4>2. dCounts' = [participants |-> n, responses |-> m + 1, score |-> (2 * n + 5 * m) + 5]
          BY <2>1, <4>1
        <4>3. (2 * n + 5 * m) + 5 = 2 * n + 5 * (m + 1)
          OBVIOUS
        <4> QED BY <4>2, <4>3
      <3> QED BY <2>5, <2>7, <3>2, <3>3
    <2>9. D!CountsMatch'
      BY <2>5, <2>8, CountsSayNext
    <2>10. HandlersOK' /\ dReq' \in [Requests -> D!Call]
      BY <2>1, <2>5, Ends
    <2> QED BY <1>0, <2>5, <2>8, <2>9, <2>10 DEF DropsInv, D!TypeOK
  <1> QED BY <1>2, <1>3

LEMMA DropsReplace ==
  ASSUME D!DropsAssumption, DropsInv, NEW r \in Requests, D!Replace(r)
  PROVE  DropsInv'
  <1>0. D!TypeOK /\ Listed /\ UNCHANGED <<dCounts, dOver, dPosts, dDied, dBegun>>
    BY CountsSay DEF DropsInv, D!Replace
  <1>1. /\ dReq[r].pc = "replace" /\ dReq[r].post \in D!Posts /\ HandlerOK(dReq[r])
        /\ None \notin D!Posts
    BY ReqTypes DEF D!Replace, D!At, HandlerOK, D!DropsAssumption, D!Posts
  <1>2. CASE D!Goto(r, "current")
    <2>1. ~D!End(r)
      <3>1. dReq \in [Requests -> D!Call] /\ dReq[r] \in D!Call
        BY ReqTypes
      <3> QED BY <1>2, <3>1 DEF D!Goto, D!End, D!Idle, D!Call
    <2>2. UNCHANGED <<dParticipants, dReplaced>> /\ (dOver \/ ~D!Joined(dReq[r].user))
      BY <2>1 DEF D!Replace
    <2>3. dOver
      BY <1>1, <2>2 DEF HandlerOK, Responded, D!Joined
    <2>4. Onward /\ D!CountsMatch'
      BY <1>0, <2>2, QuietDrop DEF D!drop
    <2>5. HandlersOK' /\ dReq' \in [Requests -> D!Call]
      BY <1>1, <1>2, <2>3, <2>4, GoesOn DEF D!At
    <2> QED BY <1>0, <2>2, <2>4, <2>5 DEF DropsInv, D!TypeOK
  <1>3. CASE ~D!Goto(r, "current")
    <2>1. D!End(r)
      BY <1>3 DEF D!Replace
    <2>2. PICK i \in DOMAIN dParticipants :
            /\ dParticipants[i].user = dReq[r].user
            /\ dParticipants' = [dParticipants EXCEPT ![i].response = dReq[r].post]
            /\ dReplaced' = dReplaced \cup {dParticipants[i].response}
      BY <1>0, <1>3, Rewritten
    <2>3. PICK p \in D!Posts : p = dReq[r].post
      BY <1>1
    <2>4. dParticipants' = [dParticipants EXCEPT ![i].response = p]
      BY <2>2, <2>3
    <2>5. /\ Onward /\ dParticipants' \in Seq(D!Participant) /\ Listed'
          /\ DOMAIN dParticipants' = DOMAIN dParticipants
          /\ Len(dParticipants') = Len(dParticipants)
          /\ \A j \in DOMAIN dParticipants :
               dParticipants'[j].response = IF j = i THEN p ELSE dParticipants[j].response
      BY <1>0, <1>1, <2>4, WrittenOnward
    \* The user has responded since the handler found that nothing awaited his response.
    <2>6. dParticipants[i].response # None
      <3>1. ~dOver
        BY <1>0, <1>3, Rewritten
      <3>2. PICK j \in DOMAIN dParticipants :
              dParticipants[j].user = dReq[r].user /\ dParticipants[j].response # None
        BY <1>1, <3>1 DEF HandlerOK, Responded
      <3> QED BY <1>0, <2>2, <3>2 DEF Listed
    <2>7. dReplaced' \subseteq D!Posts
      <3>1. dParticipants[i] \in D!Participant /\ dReplaced \subseteq D!Posts
        BY DEF DropsInv, D!TypeOK
      <3>2. dParticipants[i].response \in D!Posts
        BY <2>6, <3>1 DEF D!Participant
      <3> QED BY <2>2, <3>1, <3>2
    <2>8. Answers' = Answers
      BY <1>1, <2>5, <2>6 DEF Answers
    <2>9. D!CountsMatch'
      <3>1. Cardinality(Answers') = Cardinality(Answers)
        BY <2>8
      <3>2. dCounts = [participants |-> Len(dParticipants), responses |-> Cardinality(Answers),
                       score |-> 2 * Len(dParticipants) + 5 * Cardinality(Answers)]
        BY CountsSay DEF DropsInv
      <3> QED BY <1>0, <2>5, <3>1, <3>2, CountsSayNext
    <2>10. HandlersOK' /\ dReq' \in [Requests -> D!Call]
      BY <2>1, <2>5, Ends
    <2> QED BY <1>0, <2>5, <2>7, <2>9, <2>10 DEF DropsInv, D!TypeOK
  <1> QED BY <1>2, <1>3

LEMMA DropsAdd ==
  ASSUME D!DropsAssumption, DropsInv, NEW r \in Requests, D!Add(r)
  PROVE  DropsInv'
  <1>0. D!TypeOK /\ Listed /\ UNCHANGED <<dOver, dPosts, dReplaced, dDied, dBegun>>
    BY CountsSay DEF DropsInv, D!Add
  <1>1. /\ dReq[r].pc = "add" /\ HandlerOK(dReq[r]) /\ dReq[r].user \in Users
        /\ dReq[r].post \in D!Posts \cup {None} /\ None \notin D!Posts
    BY ReqTypes DEF D!Add, D!At, HandlerOK, D!DropsAssumption, D!Posts
  <1>2. CASE ~D!Addable(dReq[r].user)
    <2>1. UNCHANGED D!drop
      BY <1>2 DEF D!Add
    <2>2. PICK pc \in {"current", "first"} :
            D!Goto(r, pc) /\ (pc = "current" <=> dReq[r].post = None)
      BY <1>2 DEF D!Add
    <2>3. dOver \/ D!Joined(dReq[r].user)
      BY <1>2 DEF D!Addable
    <2>4. pc = "current" => dReq[r].op # "respond"
      BY <1>1, <2>2 DEF HandlerOK
    <2>5. Onward /\ D!CountsMatch'
      BY <1>0, <2>1, QuietDrop
    <2>6. HandlersOK' /\ dReq' \in [Requests -> D!Call]
      BY <1>1, <2>2, <2>3, <2>4, <2>5, GoesOn DEF D!At
    <2> QED BY <1>0, <2>1, <2>5, <2>6 DEF DropsInv, D!TypeOK, D!drop
  <1>3. CASE D!Addable(dReq[r].user)
    <2>1. PICK p \in D!Posts \cup {None} : p = dReq[r].post
      BY <1>1
    <2>2. PICK x \in D!Participant : x = [user |-> dReq[r].user, response |-> p]
      BY <1>1 DEF D!Participant
    <2>3. PICK s, t : /\ s \in Seq(D!Participant) /\ s = dParticipants
                      /\ t = Append(s, x) /\ t = dParticipants'
      <3>1. dParticipants' = Append(dParticipants, x)
        BY <1>3, <2>1, <2>2 DEF D!Add
      <3> QED BY <1>0, <3>1 DEF D!TypeOK
    <2>4. PICK n \in Nat : n = Len(s)
      BY <2>3
    <2>5. /\ t \in Seq(D!Participant) /\ Len(t) = n + 1
          /\ DOMAIN s = 1 .. n /\ DOMAIN t = 1 .. n + 1 /\ t[n + 1] = x
          /\ \A j \in DOMAIN s : t[j] = s[j]
      <3>1. s \in Seq(D!Participant) /\ t = Append(s, x) /\ n = Len(s)
        BY <2>3, <2>4
      <3>2. t \in Seq(D!Participant) /\ Len(t) = n + 1
        BY <3>1
      <3>3. DOMAIN s = 1 .. n /\ DOMAIN t = 1 .. n + 1
        BY <3>1, <3>2
      <3>4. t[n + 1] = x
        BY <3>1
      <3>5. \A j \in 1 .. n : t[j] = s[j]
        BY <3>1
      <3> QED BY <3>2, <3>3, <3>4, <3>5
    <2>6. x.user = dReq[r].user /\ x.response = p
      BY <2>2
    <2>7. Listed'
      <3>1. \A j \in 1 .. n : t[j].user # x.user
        BY <1>3, <2>3, <2>5, <2>6 DEF D!Addable, D!Joined
      <3>2. ASSUME NEW i \in 1 .. n + 1, NEW j \in 1 .. n + 1, t[i].user = t[j].user
            PROVE  i = j
        <4>1. CASE i \in 1 .. n /\ j \in 1 .. n
          BY <1>0, <2>3, <2>5, <3>2, <4>1 DEF Listed
        <4>2. CASE i = n + 1 \/ j = n + 1
          BY <2>5, <3>1, <3>2, <4>2
        <4> QED BY <4>1, <4>2
      <3> QED BY <2>3, <2>5, <3>2 DEF Listed
    <2>8. Onward
      BY <1>0, <2>3, <2>5 DEF Onward, D!Joined, Responded
    <2>9. PICK m \in Nat : m = Cardinality(Answers)
      BY <1>0, AnswersFinite
    <2>10. Cardinality(Answers') = IF p = None THEN m ELSE m + 1
      <3>1. /\ Answers' = {i \in 1 .. n + 1 : t[i].response # None}
            /\ Answers = {i \in 1 .. n : s[i].response # None}
        BY <2>3, <2>5 DEF Answers
      <3>2. CASE p = None
        <4>1. Answers' = Answers
          BY <2>5, <2>6, <3>1, <3>2
        <4> QED BY <2>9, <3>2, <4>1
      <3>3. CASE p # None
        <4>1. Answers' = Answers \cup {n + 1} /\ n + 1 \notin Answers
          BY <2>5, <2>6, <3>1, <3>3
        <4> QED BY <1>0, <2>9, <3>3, <4>1, AnswersFinite, FS_AddElement
      <3> QED BY <3>2, <3>3
    <2>11. /\ dCounts' = [participants |-> Len(dParticipants'), responses |-> Cardinality(Answers'),
                          score |-> 2 * Len(dParticipants') + 5 * Cardinality(Answers')]
           /\ dCounts' \in [participants : Nat, responses : Nat, score : Nat]
      <3>1. dCounts = [participants |-> n, responses |-> m, score |-> 2 * n + 5 * m]
        <4>1. dCounts = [participants |-> Len(dParticipants), responses |-> Cardinality(Answers),
                         score |-> 2 * Len(dParticipants) + 5 * Cardinality(Answers)]
          BY CountsSay DEF DropsInv
        <4> QED BY <2>3, <2>4, <2>9, <4>1
      <3>2. dCounts' = [dCounts EXCEPT
               !.participants = @ + 1,
               !.responses = IF p = None THEN @ ELSE @ + 1,
               !.score = IF p = None THEN @ + 2 ELSE @ + 7]
        BY <1>3, <2>1 DEF D!Add
      <3>3. Len(dParticipants') = n + 1
        BY <2>3, <2>5
      <3>4. CASE p = None
        <4>1. dCounts' = [participants |-> n + 1, responses |-> m, score |-> (2 * n + 5 * m) + 2]
          BY <3>1, <3>2, <3>4
        <4>2. (2 * n + 5 * m) + 2 = 2 * (n + 1) + 5 * m
          OBVIOUS
        <4> QED BY <2>10, <3>3, <3>4, <4>1, <4>2
      <3>5. CASE p # None
        <4>1. dCounts' = [participants |-> n + 1, responses |-> m + 1,
                          score |-> (2 * n + 5 * m) + 7]
          BY <3>1, <3>2, <3>5
        <4>2. (2 * n + 5 * m) + 7 = 2 * (n + 1) + 5 * (m + 1)
          OBVIOUS
        <4> QED BY <2>10, <3>3, <3>5, <4>1, <4>2
      <3> QED BY <3>4, <3>5
    <2>12. D!CountsMatch'
      BY <2>7, <2>11, CountsSayNext
    <2>13. HandlersOK' /\ dReq' \in [Requests -> D!Call]
      <3>1. D!End(r)
        BY <1>3 DEF D!Add
      <3> QED BY <2>8, <3>1, Ends
    <2> QED BY <1>0, <2>3, <2>5, <2>11, <2>12, <2>13 DEF DropsInv, D!TypeOK
  <1> QED BY <1>2, <1>3

\* What the other steps write leaves the list and the counters alone.
LEMMA DropsOther ==
  ASSUME D!DropsAssumption, DropsInv, UNCHANGED <<D!drop, dReplaced>>,
         dOver => dOver', dOver' \in BOOLEAN, dDied' \in BOOLEAN,
         dPosts' \in [D!Posts -> D!Post], dBegun' \in 0 .. MaxCalls,
         Onward /\ D!CountsMatch' => HandlersOK' /\ dReq' \in [Requests -> D!Call]
  PROVE  DropsInv'
  <1>1. Onward /\ D!CountsMatch'
    BY QuietDrop
  <1> QED BY <1>1 DEF DropsInv, D!TypeOK, D!drop

LEMMA DropsBegin ==
  ASSUME D!DropsAssumption, DropsInv, NEW r \in Requests, NEW u \in Users,
         NEW p \in D!Posts \cup {None}, D!BeginJoin(r, u, p) \/ D!BeginRespond(r, u)
  PROVE  DropsInv'
  <1>1. UNCHANGED <<D!drop, dOver, dPosts, dReplaced, dDied>> /\ dBegun' \in 0 .. MaxCalls
    BY DEF D!BeginJoin, D!BeginRespond, D!Begin, DropsInv, D!TypeOK, D!DropsAssumption
  <1>2. dOver \in BOOLEAN /\ dDied \in BOOLEAN /\ dPosts \in [D!Posts -> D!Post]
    BY DEF DropsInv, D!TypeOK
  <1>3. ASSUME Onward PROVE HandlersOK' /\ dReq' \in [Requests -> D!Call]
    <2>1. PICK q : /\ dReq' = [dReq EXCEPT ![r] = q]
                   /\ \/ q = [pc |-> "add", op |-> "join", user |-> u, post |-> None]
                      \/ p \in D!Posts /\ q = [pc |-> "findPost", op |-> "join", user |-> u, post |-> p]
                      \/ q = [pc |-> "findDrop", op |-> "respond", user |-> u, post |-> None]
      BY DEF D!BeginJoin, D!BeginRespond, D!Begin
    <2>2. q \in D!Call /\ HandlerOK(q)
      BY <2>1 DEF D!Call, HandlerOK
    <2> QED BY <1>3, <2>1, <2>2, OnwardHandler, OnwardHandlers
  <1> QED BY <1>1, <1>2, <1>3, DropsOther

LEMMA DropsMoves ==
  ASSUME D!DropsAssumption, DropsInv, NEW r \in Requests,
         D!FindPost(r) \/ D!FindDrop(r) \/ D!Current(r) \/ D!Undo(r) \/ D!Abort(r)
  PROVE  DropsInv'
  <1>1. UNCHANGED <<D!drop, dOver, dReplaced, dBegun>> /\ ~D!At(r, "idle")
    BY DEF D!FindPost, D!FindDrop, D!Current, D!Undo, D!Abort, D!At
  <1>2. /\ dOver \in BOOLEAN /\ dDied \in BOOLEAN /\ dPosts \in [D!Posts -> D!Post]
        /\ dBegun \in 0 .. MaxCalls
    BY DEF DropsInv, D!TypeOK
  <1>3. HandlerOK(dReq[r])
    BY ReqTypes
  <1>4. dDied' \in BOOLEAN
    BY <1>2 DEF D!FindPost, D!FindDrop, D!Current, D!Undo, D!Abort
  <1>5. dPosts' \in [D!Posts -> D!Post]
    <2>1. CASE D!Undo(r)
      <3>1. dReq[r].post \in D!Posts
        BY <1>3, <2>1 DEF HandlerOK, D!Undo, D!At
      <3>2. PICK p \in D!Posts : p = dReq[r].post
        BY <3>1
      <3>3. PICK x : x = [dPosts[p] EXCEPT !.state = "removed"]
        OBVIOUS
      <3>4. x \in D!Post
        BY <1>2, <3>3 DEF D!Post
      <3>5. dPosts' = [dPosts EXCEPT ![p] = x]
        BY <2>1, <3>2, <3>3 DEF D!Undo
      <3> QED BY <1>2, <3>4, <3>5
    <2>2. CASE ~D!Undo(r)
      BY <1>2, <2>2 DEF D!FindPost, D!FindDrop, D!Current, D!Abort
    <2> QED BY <2>1, <2>2
  <1>6. ASSUME Onward PROVE HandlersOK' /\ dReq' \in [Requests -> D!Call]
    <2>1. CASE D!End(r)
      BY <1>6, <2>1, Ends
    <2>2. CASE D!FindPost(r) /\ D!Goto(r, "add")
      BY <1>1, <1>6, <2>2, GoesOn DEF D!FindPost, D!At
    <2>3. CASE D!FindDrop(r) /\ D!Goto(r, "insertPost")
      BY <1>1, <1>6, <2>3, GoesOn DEF D!FindDrop, D!At
    <2>4. CASE D!Current(r) /\ D!Goto(r, "undo") /\ dReq[r].op = "respond"
      BY <1>1, <1>6, <2>4, GoesOn DEF D!Current, D!At
    <2> QED BY <2>1, <2>2, <2>3, <2>4 DEF D!FindPost, D!FindDrop, D!Current, D!Undo, D!Abort
  <1> QED BY <1>1, <1>2, <1>4, <1>5, <1>6, DropsOther

LEMMA DropsInsert ==
  ASSUME D!DropsAssumption, DropsInv, NEW r \in Requests, D!InsertPost(r)
  PROVE  DropsInv'
  <1>1. UNCHANGED <<D!drop, dOver, dReplaced, dDied, dBegun>>
    BY DEF D!InsertPost
  <1>2. /\ dOver \in BOOLEAN /\ dDied \in BOOLEAN /\ dPosts \in [D!Posts -> D!Post]
        /\ dBegun \in 0 .. MaxCalls /\ dReq[r] \in D!Call
        /\ HandlerOK(dReq[r]) /\ dReq[r].pc = "insertPost" /\ dReq[r].user \in Users
    BY ReqTypes DEF DropsInv, D!TypeOK, D!InsertPost, D!At, HandlerOK
  <1>3. PICK p \in D!Posts :
          /\ dPosts' = [dPosts EXCEPT ![p] = [author |-> dReq[r].user, state |-> "active"]]
          /\ dReq' = [dReq EXCEPT ![r] = [dReq[r] EXCEPT !.pc = "add", !.post = p]]
    BY DEF D!InsertPost
  <1>4. dPosts' \in [D!Posts -> D!Post]
    BY <1>2, <1>3 DEF D!Post
  <1>5. ASSUME Onward PROVE HandlersOK' /\ dReq' \in [Requests -> D!Call]
    <2>1. PICK q : q = [dReq[r] EXCEPT !.pc = "add", !.post = p]
      OBVIOUS
    <2>2. /\ q \in D!Call /\ q.pc = "add" /\ q.post = p /\ q.user = dReq[r].user
          /\ q.op = dReq[r].op
      BY <1>2, <2>1 DEF D!Call
    <2>3. HandlerOK(q)
      BY <1>2, <2>2 DEF HandlerOK
    <2>4. dReq' = [dReq EXCEPT ![r] = q]
      BY <1>3, <2>1
    <2> QED BY <1>5, <2>2, <2>3, <2>4, OnwardHandler, OnwardHandlers
  <1> QED BY <1>1, <1>2, <1>4, <1>5, DropsOther

LEMMA DropsEnvironment ==
  ASSUME D!DropsAssumption, DropsInv,
         (\E p \in D!Posts : D!DeletePost(p)) \/ D!Expire \/ D!ExpireDrop \/ UNCHANGED D!dVars
  PROVE  DropsInv'
  <1>1. /\ UNCHANGED <<D!drop, dReplaced, dDied, dBegun, dReq>>
        /\ dOver => dOver'
        /\ dOver' \in BOOLEAN
    BY DEF D!DeletePost, D!Expire, D!ExpireDrop, D!Close, D!dVars, DropsInv, D!TypeOK
  <1>2. /\ dDied \in BOOLEAN /\ dPosts \in [D!Posts -> D!Post]
        /\ dBegun \in 0 .. MaxCalls /\ dReq \in [Requests -> D!Call] /\ HandlersOK
    BY DEF DropsInv, D!TypeOK
  <1>3. dPosts' \in [D!Posts -> D!Post]
    <2>1. CASE \E p \in D!Posts : D!DeletePost(p)
      <3>1. PICK p, x : p \in D!Posts /\ dPosts' = [dPosts EXCEPT ![p] = x]
                                  /\ x = [dPosts[p] EXCEPT !.state = "inactive"]
        BY <2>1 DEF D!DeletePost
      <3>2. x \in D!Post
        BY <1>2, <3>1 DEF D!Post
      <3> QED BY <1>2, <3>1, <3>2
    <2>2. CASE ~\E p \in D!Posts : D!DeletePost(p)
      BY <1>2, <2>2 DEF D!Expire, D!ExpireDrop, D!Close, D!dVars
    <2> QED BY <2>1, <2>2
  <1>4. ASSUME Onward PROVE HandlersOK'
    <2> SUFFICES ASSUME NEW r \in Requests PROVE HandlerOK(dReq[r])'
      BY DEF HandlersOK
    <2>1. PICK q : q = dReq[r] /\ q = dReq'[r]
      BY <1>1
    <2>2. HandlerOK(q)'
      BY <1>2, <1>4, <2>1, OnwardHandler DEF HandlersOK
    <2> QED BY <2>1, <2>2 DEF HandlerOK
  <1> QED BY <1>1, <1>2, <1>3, <1>4, DropsOther

LEMMA DropsNext == ASSUME D!DropsAssumption, DropsInv, [D!Next]_D!dVars PROVE DropsInv'
  BY DropsBegin, DropsMoves, DropsInsert, DropsAdd, DropsFirst, DropsReplace, DropsEnvironment
     DEF D!Next, D!Step

LEMMA DropsInit == ASSUME D!DropsAssumption, D!Init PROVE DropsInv
  <1>1. dParticipants = <<>> /\ \A r \in Requests : dReq[r] = D!Idle
    BY DEF D!Init
  <1>2. D!Idle \in D!Call /\ D!Idle.pc = "idle" /\ D!Idle.op = "idle" /\ D!Unmade \in D!Post
    BY DEF D!Idle, D!Call, D!Unmade, D!Post
  <1>3. D!TypeOK
    <2>1. dParticipants \in Seq(D!Participant) /\ dReplaced \subseteq D!Posts /\ dBegun \in 0 .. MaxCalls
      BY DEF D!Init, D!DropsAssumption
    <2>2. dCounts \in [participants : Nat, responses : Nat, score : Nat]
      BY DEF D!Init
    <2> QED BY <1>2, <2>1, <2>2 DEF D!Init, D!TypeOK
  <1>4. HandlersOK
    BY <1>1, <1>2 DEF HandlersOK, HandlerOK
  <1>5. D!CountsMatch
    <2>1. Answers = {} /\ Listed /\ Len(dParticipants) = 0
      BY <1>1 DEF Answers, Listed
    <2>2. Cardinality(Answers) = 0
      BY <2>1, FS_EmptySet
    <2>3. dCounts = [participants |-> 0, responses |-> 0, score |-> 2 * 0 + 5 * 0]
      BY DEF D!Init
    <2> QED BY <2>1, <2>2, <2>3, CountsSay
  <1> QED BY <1>3, <1>4, <1>5 DEF DropsInv

-----------------------------------------------------------------------------
(* Responses that are left behind.                                              *)

OnList(p) == \E i \in DOMAIN dParticipants : dParticipants[i].response = p
Carried(p) == \E r \in Requests : dReq[r].op = "respond" /\ dReq[r].post = p
Covered(p) == OnList(p) \/ p \in dReplaced \/ Carried(p) \/ dDied

LEMMA OrphansSay ==
  D!NoOrphans <=> \A p \in D!Posts : dPosts[p].state = "active" => Covered(p)
  BY DEF D!NoOrphans, Covered, OnList, Carried

\* No post becomes active but the one a handler makes for its drop.
LEMMA ActiveBefore ==
  ASSUME DropsInv, [D!Next]_D!dVars, ~\E r \in Requests : D!InsertPost(r),
         NEW p \in D!Posts, dPosts'[p].state = "active"
  PROVE  dPosts[p].state = "active"
  <1>1. dPosts \in [D!Posts -> D!Post]
    BY DEF DropsInv, D!TypeOK
  <1>2. CASE \E r \in Requests : D!Undo(r)
    <2>1. PICK n, x : dPosts' = [dPosts EXCEPT ![n] = x] /\ x = [dPosts[n] EXCEPT !.state = "removed"]
      BY <1>2 DEF D!Undo
    <2>2. CASE n = p
      BY <1>1, <2>1, <2>2 DEF D!Post
    <2>3. CASE n # p
      BY <1>1, <2>1, <2>3
    <2> QED BY <2>2, <2>3
  <1>3. CASE \E d \in D!Posts : D!DeletePost(d)
    <2>1. PICK n, x : dPosts' = [dPosts EXCEPT ![n] = x] /\ x = [dPosts[n] EXCEPT !.state = "inactive"]
      BY <1>3 DEF D!DeletePost
    <2>2. CASE n = p
      BY <1>1, <2>1, <2>2 DEF D!Post
    <2>3. CASE n # p
      BY <1>1, <2>1, <2>3
    <2> QED BY <2>2, <2>3
  <1>4. CASE UNCHANGED dPosts
    BY <1>4
  <1>5. UNCHANGED dPosts \/ (\E r \in Requests : D!Undo(r)) \/ \E d \in D!Posts : D!DeletePost(d)
    BY DEF D!Next, D!Step, D!BeginJoin, D!BeginRespond, D!Begin, D!FindPost, D!FindDrop, D!Add, D!FirstResponse,
       D!Replace, D!Current, D!Abort, D!Expire, D!ExpireDrop, D!Close, D!dVars
  <1> QED BY <1>2, <1>3, <1>4, <1>5

\* What was on the list stays there or was replaced.
LEMMA ListCovers ==
  ASSUME D!DropsAssumption, DropsInv, [D!Next]_D!dVars, NEW p \in D!Posts,
         OnList(p) \/ p \in dReplaced
  PROVE  OnList(p)' \/ p \in dReplaced'
  <1>0. None \notin D!Posts /\ D!TypeOK /\ Listed
    BY CountsSay DEF D!DropsAssumption, D!Posts, DropsInv
  <1>1. dReplaced \subseteq dReplaced'
    BY DEF D!Next, D!Step, D!BeginJoin, D!BeginRespond, D!Begin, D!FindPost, D!FindDrop, D!InsertPost, D!Add,
       D!FirstResponse, D!Replace, D!Current, D!Undo, D!Abort, D!DeletePost, D!Expire, D!ExpireDrop, D!Close, D!dVars
  <1>2. CASE p \in dReplaced
    BY <1>1, <1>2
  <1>3. CASE OnList(p) /\ UNCHANGED dParticipants
    BY <1>3 DEF OnList
  <1>4. CASE OnList(p) /\ ~UNCHANGED dParticipants
    <2>0. PICK i \in DOMAIN dParticipants : dParticipants[i].response = p
      BY <1>4 DEF OnList
    <2>1. PICK r \in Requests : D!Add(r) \/ D!FirstResponse(r) \/ D!Replace(r)
      BY <1>4 DEF D!Next, D!Step, D!BeginJoin, D!BeginRespond, D!Begin, D!FindPost, D!FindDrop, D!InsertPost,
         D!Current, D!Undo, D!Abort, D!DeletePost, D!Expire, D!ExpireDrop, D!Close, D!dVars, D!drop
    <2>2. CASE D!Add(r)
      <3>1. PICK x : dParticipants' = Append(dParticipants, x)
        BY <1>4, <2>2 DEF D!Add, D!drop
      <3>2. dParticipants \in Seq(D!Participant)
        BY <1>0 DEF D!TypeOK
      <3>3. i \in DOMAIN dParticipants' /\ dParticipants'[i] = dParticipants[i]
        BY <3>1, <3>2
      <3> QED BY <2>0, <3>3 DEF OnList
    <2>3. CASE D!FirstResponse(r) \/ D!Replace(r)
      <3>0. dOver' = dOver /\ dReq[r].post \in D!Posts
        BY <2>3, ReqTypes DEF D!FirstResponse, D!Replace, HandlerOK, D!At
      <3>1. \E k \in DOMAIN dParticipants :
              /\ dParticipants' = [dParticipants EXCEPT ![k].response = dReq[r].post]
              /\ \/ dParticipants[k].response = None
                 \/ dParticipants[k].response \in dReplaced'
        <4>1. CASE D!FirstResponse(r)
          <5>1. ~D!Goto(r, "replace")
            <6>1. CASE D!Goto(r, "replace")
              <7>1. ~D!End(r)
                <8>1. dReq \in [Requests -> D!Call] /\ dReq[r] \in D!Call
                  BY ReqTypes
                <8> QED BY <6>1, <8>1 DEF D!Goto, D!End, D!Idle, D!Call
              <7> QED BY <1>4, <4>1, <7>1 DEF D!FirstResponse, D!drop
            <6> QED BY <6>1
          <5> QED BY <1>0, <4>1, <5>1, FirstWritten
        <4>2. CASE D!Replace(r)
          <5>1. ~D!Goto(r, "current")
            <6>1. CASE D!Goto(r, "current")
              <7>1. ~D!End(r)
                <8>1. dReq \in [Requests -> D!Call] /\ dReq[r] \in D!Call
                  BY ReqTypes
                <8> QED BY <6>1, <8>1 DEF D!Goto, D!End, D!Idle, D!Call
              <7> QED BY <1>4, <4>2, <7>1 DEF D!Replace
            <6> QED BY <6>1
          <5> QED BY <1>0, <4>2, <5>1, Rewritten
        <4> QED BY <2>3, <4>1, <4>2
      <3>2. PICK k \in DOMAIN dParticipants :
              /\ dParticipants' = [dParticipants EXCEPT ![k].response = dReq[r].post]
              /\ \/ dParticipants[k].response = None
                 \/ dParticipants[k].response \in dReplaced'
        BY <3>1
      <3>3. PICK n \in D!Posts : n = dReq[r].post
        BY <3>0
      <3>4. dParticipants' = [dParticipants EXCEPT ![k].response = n]
        BY <3>2, <3>3
      <3>5. /\ DOMAIN dParticipants' = DOMAIN dParticipants
            /\ \A j \in DOMAIN dParticipants :
                 dParticipants'[j].response = IF j = k THEN n ELSE dParticipants[j].response
        BY <1>0, <3>0, <3>4, WrittenOnward
      <3>6. CASE i = k
        BY <1>0, <2>0, <3>2, <3>6
      <3>7. CASE i # k
        BY <2>0, <3>5, <3>7 DEF OnList
      <3> QED BY <3>6, <3>7
    <2> QED BY <2>1, <2>2, <2>3
  <1> QED BY <1>2, <1>3, <1>4

\* A handler keeps its response until it is listed, or the post is removed, or the
\* handler is lost.
LEMMA CarriedOn ==
  ASSUME D!DropsAssumption, DropsInv, [D!Next]_D!dVars, NEW p \in D!Posts, Carried(p)
  PROVE  OnList(p)' \/ Carried(p)' \/ dDied' \/ dPosts'[p].state # "active"
  <1>0. /\ None \notin D!Posts /\ dReq \in [Requests -> D!Call] /\ dPosts \in [D!Posts -> D!Post]
        /\ D!TypeOK /\ Listed
    BY CountsSay DEF D!DropsAssumption, D!Posts, DropsInv, D!TypeOK
  <1>1. PICK s \in Requests : dReq[s].op = "respond" /\ dReq[s].post = p
    BY DEF Carried
  <1>2. HandlerOK(dReq[s]) /\ dReq[s] \in D!Call
    BY ReqTypes
  <1>3. CASE dReq'[s].op = "respond" /\ dReq'[s].post = p
    BY <1>3 DEF Carried
  <1>4. CASE ~(dReq'[s].op = "respond" /\ dReq'[s].post = p)
    <2>1. \A pc : ~D!Goto(s, pc)
      BY <1>0, <1>1, <1>2, <1>4 DEF D!Goto, D!Call
    <2>2. dReq'[s] # dReq[s]
      BY <1>1, <1>4
    <2>3. \A r \in Requests : r # s => ~(D!FindPost(r) \/ D!FindDrop(r) \/ D!InsertPost(r) \/ D!Add(r)
            \/ D!FirstResponse(r) \/ D!Replace(r) \/ D!Current(r) \/ D!Undo(r) \/ D!Abort(r)
            \/ \E u \in Users : D!BeginRespond(r, u) \/ \E n \in D!Posts \cup {None} : D!BeginJoin(r, u, n))
      BY ZenonT(30), <1>0, <2>2 DEF D!FindPost, D!FindDrop, D!InsertPost, D!Add, D!FirstResponse, D!Replace, D!Current, D!Undo,
         D!Abort, D!BeginRespond, D!BeginJoin, D!Begin, D!Goto, D!End
    <2>4. /\ ~\E u \in Users : D!BeginRespond(s, u) \/ \E n \in D!Posts \cup {None} : D!BeginJoin(s, u, n)
          /\ ~D!FindPost(s) /\ ~D!FindDrop(s) /\ ~D!InsertPost(s)
      BY <1>0, <1>1, <1>2 DEF D!BeginRespond, D!BeginJoin, D!Begin, D!FindPost, D!FindDrop, D!InsertPost, D!At,
         HandlerOK
    <2>5. ~((\E n \in D!Posts : D!DeletePost(n)) \/ D!Expire \/ D!ExpireDrop \/ UNCHANGED D!dVars)
      BY <2>2 DEF D!DeletePost, D!Expire, D!ExpireDrop, D!Close, D!dVars
    <2>6. D!Add(s) \/ D!FirstResponse(s) \/ D!Replace(s) \/ D!Current(s) \/ D!Undo(s) \/ D!Abort(s)
      BY <2>3, <2>4, <2>5 DEF D!Next, D!Step
    <2>7. CASE D!Add(s)
      <3>1. PICK x : x.response = p /\ dParticipants' = Append(dParticipants, x)
        BY <1>1, <2>1, <2>7 DEF D!Add
      <3>2. dParticipants \in Seq(D!Participant)
        BY <1>0 DEF D!TypeOK
      <3>3. /\ Len(dParticipants) + 1 \in DOMAIN dParticipants'
            /\ dParticipants'[Len(dParticipants) + 1] = x
        BY <3>1, <3>2
      <3> QED BY <3>1, <3>3 DEF OnList
    <2>8. CASE D!FirstResponse(s) \/ D!Replace(s)
      <3>1. PICK k \in DOMAIN dParticipants :
              dParticipants' = [dParticipants EXCEPT ![k].response = p]
        <4>1. CASE D!FirstResponse(s)
          BY <1>0, <1>1, <2>1, <4>1, FirstWritten
        <4>2. CASE D!Replace(s)
          BY <1>0, <1>1, <2>1, <4>2, Rewritten
        <4> QED BY <2>8, <4>1, <4>2
      <3>2. dOver' = dOver
        BY <2>8 DEF D!FirstResponse, D!Replace
      <3>3. /\ DOMAIN dParticipants' = DOMAIN dParticipants
            /\ \A j \in DOMAIN dParticipants :
                 dParticipants'[j].response = IF j = k THEN p ELSE dParticipants[j].response
        BY <1>0, <3>1, <3>2, WrittenOnward
      <3> QED BY <3>3 DEF OnList
    <2>9. CASE D!Current(s)
      BY <1>1, <1>2, <2>1, <2>9 DEF D!Current, D!At, HandlerOK
    <2>10. CASE D!Undo(s)
      <3>1. PICK x : x = [dPosts[p] EXCEPT !.state = "removed"]
        OBVIOUS
      <3>2. dPosts' = [dPosts EXCEPT ![p] = x]
        BY <1>1, <2>10, <3>1 DEF D!Undo
      <3>3. x.state = "removed"
        BY <1>0, <3>1 DEF D!Post
      <3> QED BY <1>0, <3>2, <3>3
    <2>11. CASE D!Abort(s)
      BY <1>0, <1>1, <2>11 DEF D!Abort
    <2> QED BY <2>6, <2>7, <2>8, <2>9, <2>10, <2>11
  <1> QED BY <1>3, <1>4

LEMMA OrphansNext ==
  ASSUME D!DropsAssumption, DropsInv, D!NoOrphans, [D!Next]_D!dVars
  PROVE  D!NoOrphans'
  <1>1. ASSUME NEW p \in D!Posts, dPosts'[p].state = "active", dPosts[p].state = "active"
        PROVE  Covered(p)'
    <2>1. Covered(p)
      BY <1>1, OrphansSay
    <2>2. CASE OnList(p) \/ p \in dReplaced
      BY <2>2, ListCovers DEF Covered
    <2>3. CASE Carried(p)
      BY <1>1, <2>3, CarriedOn DEF Covered
    <2>4. CASE dDied
      <3>1. dDied'
        BY <2>4 DEF D!Next, D!Step, D!BeginJoin, D!BeginRespond, D!Begin, D!FindPost, D!FindDrop, D!InsertPost, D!Add,
           D!FirstResponse, D!Replace, D!Current, D!Undo, D!Abort, D!DeletePost, D!Expire, D!ExpireDrop, D!Close, D!dVars
      <3> QED BY <3>1 DEF Covered
    <2> QED BY <2>1, <2>2, <2>3, <2>4 DEF Covered
  <1>2. ASSUME NEW p \in D!Posts, dPosts'[p].state = "active", dPosts[p].state # "active"
        PROVE  Covered(p)'
    <2>1. PICK r \in Requests : D!InsertPost(r)
      BY <1>2, ActiveBefore
    <2>2. PICK n \in D!Posts :
            /\ dPosts' = [dPosts EXCEPT ![n] = [author |-> dReq[r].user, state |-> "active"]]
            /\ dReq' = [dReq EXCEPT ![r] = [dReq[r] EXCEPT !.pc = "add", !.post = n]]
      BY <2>1 DEF D!InsertPost
    <2>3. n = p
      <3>1. dPosts \in [D!Posts -> D!Post]
        BY DEF DropsInv, D!TypeOK
      <3> QED BY <1>2, <2>2, <3>1
    <2>4. dReq \in [Requests -> D!Call] /\ dReq[r] \in D!Call /\ dReq[r].op = "respond"
      BY <2>1, ReqTypes DEF HandlerOK, D!InsertPost, D!At
    <2>5. dReq'[r] = [dReq[r] EXCEPT !.pc = "add", !.post = n]
      BY <2>2, <2>4
    <2>6. dReq'[r].op = "respond" /\ dReq'[r].post = p
      BY <2>3, <2>4, <2>5 DEF D!Call
    <2> QED BY <2>6 DEF Covered, Carried
  <1>3. \A p \in D!Posts : dPosts'[p].state = "active" => Covered(p)'
    BY <1>1, <1>2
  <1> QED BY <1>3 DEF D!NoOrphans, Covered, OnList, Carried

LEMMA DropsStart == ASSUME D!DropsAssumption PROVE D!Init => DropsInv /\ D!NoOrphans
  <1> SUFFICES ASSUME D!Init PROVE DropsInv /\ D!NoOrphans
    OBVIOUS
  <1>1. dPosts = [p \in D!Posts |-> D!Unmade]
    BY DEF D!Init
  <1>2. \A p \in D!Posts : dPosts[p].state = "unmade"
    BY <1>1 DEF D!Unmade
  <1>3. D!NoOrphans
    BY <1>2 DEF D!NoOrphans
  <1> QED BY <1>3, DropsInit

LEMMA DropsStep == ASSUME D!DropsAssumption
                   PROVE  DropsInv /\ D!NoOrphans /\ [D!Next]_D!dVars => (DropsInv /\ D!NoOrphans)'
  BY DropsNext, OrphansNext

\* Whatever joins and responses of one user overlap, whichever handlers die, he is
\* listed once and the counters are what the list says; and a response the drop was
\* too late for does not stay behind.
THEOREM DropsTrue == ASSUME D!DropsAssumption PROVE D!Spec => [](D!TypeOK /\ D!CountsMatch /\ D!NoOrphans)
  <1>1. DropsInv => D!TypeOK /\ D!CountsMatch
    BY DEF DropsInv
  <1> QED BY DropsStart, DropsStep, <1>1, PTL DEF D!Spec

-----------------------------------------------------------------------------
(* Referrals: what a transaction knows and holds.                                         *)

\* What a transaction holds nobody else changes, and what it has not written and
\* nobody has changed behind it is as it was read.
TransactionOK(r) ==
  LET q == fReq[r] IN
  /\ q.pc # "idle" => q.user \in Users
  /\ F!InTransaction(r) => q.other \in Users /\ q.other # q.user
  /\ q.pc = "claim" =>
       /\ \A u \in Users \ q.stale : q.view[u] = fUsers[u]
       /\ q.view[q.user].by = None
  /\ q.pc = "reward" =>
       \A u \in Users \ (q.stale \cup {q.user}) : q.view[u] = fUsers[u]
  /\ q.pc \in {"reward", "commit"} =>
       /\ fWriter[q.user] = r
       /\ fUsers[q.user].by = None
       /\ q.view[q.user] = F!ReferredBy(fUsers[q.user], q.other)
  /\ q.pc = "commit" =>
       /\ fWriter[q.other] = r
       /\ q.view[q.other] = F!Rewarded(fUsers[q.other])

\* What a handler holds it has written.
HeldByWriter ==
  \A u \in Users, r \in Requests : fWriter[u] = r =>
    \/ fReq[r].pc = "reward" /\ u = fReq[r].user
    \/ fReq[r].pc = "commit" /\ u \in {fReq[r].user, fReq[r].other}

TransactionsOK == \A r \in Requests : TransactionOK(r)

Referred(u) == {v \in Users : fUsers[v].by = u}
Rewards == F!RewardsMatch /\ \A u \in Users : IsFiniteSet(Referred(u))
CodesApart ==
  \A u, v \in Users : u # v /\ fUsers[u].code # None => fUsers[u].code # fUsers[v].code

ReferralsInv == F!TypeOK /\ TransactionsOK /\ HeldByWriter /\ Rewards /\ CodesApart /\ F!CodesLast

-----------------------------------------------------------------------------
(* What the steps of others leave a handler.                                    *)

\* A handler is where it was, and knows of what changed behind it.
Stays(r, changed) ==
  /\ fReq'[r].pc = fReq[r].pc /\ fReq'[r].user = fReq[r].user
  /\ fReq'[r].other = fReq[r].other /\ fReq'[r].view = fReq[r].view
  /\ F!InTransaction(r) => fReq[r].stale \cup changed \subseteq fReq'[r].stale

LEMMA OtherKept ==
  ASSUME NEW r \in Requests, TransactionOK(r), NEW changed, Stays(r, changed),
         \A u \in Users \ changed : fUsers'[u] = fUsers[u],
         \A u \in Users : fWriter[u] = r => u \notin changed /\ fWriter'[u] = r
  PROVE  TransactionOK(r)'
  <1> DEFINE q == fReq[r]
  <1>0. fReq'[r].pc = fReq[r].pc /\ fReq'[r].user = fReq[r].user
        /\ fReq'[r].other = fReq[r].other /\ fReq'[r].view = fReq[r].view
    BY DEF Stays
  <1>1. F!InTransaction(r)' <=> F!InTransaction(r)
    BY <1>0 DEF F!InTransaction
  <1>2. /\ fReq'[r].pc # "idle" => fReq'[r].user \in Users
        /\ F!InTransaction(r)' => fReq'[r].other \in Users /\ fReq'[r].other # fReq'[r].user
    BY <1>0, <1>1 DEF TransactionOK
  <1>3. ASSUME fReq[r].pc = "claim"
        PROVE  (\A u \in Users \ fReq'[r].stale : fReq'[r].view[u] = fUsers'[u])
               /\ fReq'[r].view[fReq'[r].user].by = None
    BY <1>0, <1>3 DEF Stays, TransactionOK, F!InTransaction
  <1>4. ASSUME fReq[r].pc = "reward"
        PROVE  \A u \in Users \ (fReq'[r].stale \cup {fReq'[r].user}) : fReq'[r].view[u] = fUsers'[u]
    BY <1>0, <1>4 DEF Stays, TransactionOK, F!InTransaction
  <1>5. ASSUME fReq[r].pc \in {"reward", "commit"}
        PROVE  /\ fWriter'[fReq[r].user] = r
               /\ fUsers'[fReq[r].user].by = None
               /\ fReq[r].view[fReq[r].user] = F!ReferredBy(fUsers'[fReq[r].user], fReq[r].other)
    <2>1. fReq[r].user \in Users /\ fWriter[fReq[r].user] = r
      BY <1>5 DEF TransactionOK
    <2>2. fUsers'[fReq[r].user] = fUsers[fReq[r].user] /\ fWriter'[fReq[r].user] = r
      BY <2>1
    <2> QED BY <1>5, <2>2 DEF TransactionOK
  <1>6. ASSUME fReq[r].pc = "commit"
        PROVE  /\ fWriter'[fReq[r].other] = r
               /\ fReq[r].view[fReq[r].other] = F!Rewarded(fUsers'[fReq[r].other])
    <2>1. fReq[r].other \in Users /\ fWriter[fReq[r].other] = r
      BY <1>6 DEF TransactionOK, F!InTransaction
    <2>2. fUsers'[fReq[r].other] = fUsers[fReq[r].other] /\ fWriter'[fReq[r].other] = r
      BY <2>1
    <2> QED BY <1>6, <2>2 DEF TransactionOK
  <1> QED BY <1>0, <1>2, <1>3, <1>4, <1>5, <1>6, Zenon DEF TransactionOK

LEMMA RewardsSay ==
  F!RewardsMatch <=>
    \A u \in Users :
      /\ fUsers[u].by # u
      /\ fUsers[u].count = Cardinality({v \in Users : fUsers[v].by = u})
      /\ fUsers[u].badges = IF fUsers[u].by # None \/ fUsers[u].count > 0 THEN 1 ELSE 0
  BY SameCardinality, Zenon DEF F!RewardsMatch

LEMMA RewardsSayNext ==
  F!RewardsMatch' <=>
    \A u \in Users :
      /\ fUsers'[u].by # u
      /\ fUsers'[u].count = Cardinality({v \in Users : fUsers'[v].by = u})
      /\ fUsers'[u].badges = IF fUsers'[u].by # None \/ fUsers'[u].count > 0 THEN 1 ELSE 0
  BY SameCardinality, Zenon DEF F!RewardsMatch

LEMMA RewardsKept ==
  ASSUME Rewards,
         \A u \in Users : /\ fUsers'[u].by = fUsers[u].by /\ fUsers'[u].count = fUsers[u].count
                          /\ fUsers'[u].badges = fUsers[u].badges
  PROVE  Rewards'
  <1>1. \A u \in Users : Referred(u)' = Referred(u)
    BY DEF Referred
  <1>2. \A u \in Users : {v \in Users : fUsers'[v].by = u} = {v \in Users : fUsers[v].by = u}
    OBVIOUS
  <1>3. ASSUME NEW u \in Users
        PROVE  /\ fUsers'[u].by # u
               /\ fUsers'[u].count = Cardinality({v \in Users : fUsers'[v].by = u})
               /\ fUsers'[u].badges = IF fUsers'[u].by # None \/ fUsers'[u].count > 0 THEN 1 ELSE 0
    <2>1. Cardinality({v \in Users : fUsers'[v].by = u}) = Cardinality({v \in Users : fUsers[v].by = u})
      BY <1>2, Zenon
    <2>2. /\ fUsers[u].by # u
          /\ fUsers[u].count = Cardinality({v \in Users : fUsers[v].by = u})
          /\ fUsers[u].badges = IF fUsers[u].by # None \/ fUsers[u].count > 0 THEN 1 ELSE 0
      BY RewardsSay DEF Rewards
    <2> QED BY <2>1, <2>2
  <1> QED BY <1>1, <1>3, RewardsSayNext, Zenon DEF Rewards

LEMMA CodesKept ==
  ASSUME CodesApart, F!CodesLast, F!TypeOK,
         \A u \in Users : fUsers'[u].code = fUsers[u].code,
         \A u \in Users : fShown'[u] \subseteq fShown[u] \cup ({fUsers[u].code} \ {None})
  PROVE  CodesApart' /\ F!CodesLast'
  <1>1. CodesApart'
    BY DEF CodesApart
  <1>2. ASSUME NEW u \in Users, NEW code \in fShown'[u], NEW v \in Users \ {u}
        PROVE  fUsers'[u].code = code /\ fUsers'[v].code # code
    BY <1>2 DEF CodesApart, F!CodesLast
  <1>3. ASSUME NEW u \in Users, NEW code \in fShown'[u]
        PROVE  fUsers'[u].code = code
    BY <1>3 DEF F!CodesLast
  <1> QED BY <1>1, <1>2, <1>3 DEF F!CodesLast

\* A step of a handler that changes no account.
LEMMA StepOfOne ==
  ASSUME F!ReferralsAssumption, ReferralsInv, NEW r \in Requests, F!TypeOK', UNCHANGED fUsers,
         \A s \in Requests \ {r} : fReq'[s] = fReq[s],
         \A u \in Users : fWriter'[u] # fWriter[u] => {fWriter[u], fWriter'[u]} \subseteq {r, None},
         TransactionOK(r)',
         \A u \in Users : fWriter'[u] = r => 
           \/ fReq'[r].pc = "reward" /\ u = fReq'[r].user
           \/ fReq'[r].pc = "commit" /\ u \in {fReq'[r].user, fReq'[r].other},
         \A u \in Users : fShown'[u] \subseteq fShown[u] \cup ({fUsers[u].code} \ {None})
  PROVE  ReferralsInv'
  <1>1. ASSUME NEW s \in Requests \ {r}
        PROVE  TransactionOK(s)'
    <2>1. Stays(s, {})
      BY DEF Stays
    <2>2. \A u \in Users : fWriter[u] = s => u \notin {} /\ fWriter'[u] = s
      BY <1>1 DEF F!ReferralsAssumption
    <2>3. TransactionOK(s)
      BY DEF ReferralsInv, TransactionsOK
    <2> QED BY <2>1, <2>2, <2>3, OtherKept
  <1>2. TransactionsOK'
    BY <1>1 DEF TransactionsOK
  <1>3. HeldByWriter'
    <2>1. ASSUME NEW u \in Users, NEW s \in Requests \ {r}, fWriter'[u] = s
          PROVE  fWriter[u] = s /\ fReq'[s] = fReq[s]
      BY <2>1 DEF F!ReferralsAssumption
    <2> QED BY <2>1 DEF ReferralsInv, HeldByWriter
  <1>4. Rewards' /\ CodesApart' /\ F!CodesLast'
    BY RewardsKept, CodesKept DEF ReferralsInv
  <1> QED BY <1>2, <1>3, <1>4 DEF ReferralsInv

-----------------------------------------------------------------------------
(* The steps that change no account.                                            *)

LEMMA IdleCall == ASSUME F!ReferralsAssumption PROVE F!Idle \in F!Call /\ F!Idle.pc = "idle"
  BY DEF F!Idle, F!Call, F!ReferralsAssumption, F!NewAccount, F!Account

\* A handler that is not in a transaction holds nothing.
LEMMA HoldsNothing ==
  ASSUME ReferralsInv, NEW r \in Requests, fReq[r].pc \notin {"reward", "commit"}
  PROVE  \A u \in Users : fWriter[u] # r
  BY DEF ReferralsInv, HeldByWriter

LEMMA Outside ==
  ASSUME NEW r \in Requests, fReq'[r].pc \in {"idle", "readCode", "assign", "reread", "begin"},
         fReq'[r].pc # "idle" => fReq'[r].user \in Users
  PROVE  TransactionOK(r)'
  BY DEF TransactionOK, F!InTransaction

LEMMA RefBegin ==
  ASSUME F!ReferralsAssumption, ReferralsInv, NEW r \in Requests, NEW u \in Users,
         F!BeginMyCode(r, u) \/ \E code \in Codes : F!BeginApply(r, u, code)
  PROVE  ReferralsInv'
  <1>1. PICK q : /\ q \in F!Call /\ q.pc \in {"readCode", "begin"} /\ q.user = u
                 /\ fReq' = [fReq EXCEPT ![r] = q]
                 /\ UNCHANGED <<fUsers, fWriter, fShown>> /\ fReq[r].pc = "idle"
    BY IdleCall DEF F!BeginMyCode, F!BeginApply, F!At, F!Call, F!Idle
  <1>2. F!TypeOK'
    BY <1>1 DEF ReferralsInv, F!TypeOK
  <1>3. fReq'[r] = q /\ \A s \in Requests \ {r} : fReq'[s] = fReq[s]
    BY <1>1 DEF ReferralsInv, F!TypeOK
  <1>4. TransactionOK(r)'
    BY <1>1, <1>3, Outside
  <1>5. \A v \in Users : fWriter[v] # r
    BY <1>1, HoldsNothing
  <1>6. UNCHANGED fUsers /\ UNCHANGED fWriter /\ UNCHANGED fShown
    BY <1>1
  <1> QED BY <1>2, <1>3, <1>4, <1>5, <1>6, StepOfOne

LEMMA Handler ==
  ASSUME ReferralsInv, NEW r \in Requests
  PROVE  /\ fReq \in [Requests -> F!Call] /\ fReq[r] \in F!Call /\ TransactionOK(r)
         /\ fUsers \in [Users -> F!Account] /\ fWriter \in [Users -> Requests \cup {None}]
         /\ fShown \in [Users -> SUBSET Codes]
         /\ fReq[r].pc # "idle" => fReq[r].user \in Users
  BY DEF ReferralsInv, F!TypeOK, TransactionsOK, TransactionOK

\* A step outside transactions.
LEMMA PlainStep ==
  ASSUME F!ReferralsAssumption, ReferralsInv, NEW r \in Requests, NEW q \in F!Call,
         fReq[r].pc \notin {"reward", "commit"},
         q.pc \in {"idle", "readCode", "assign", "reread", "begin"},
         q.pc # "idle" => q.user \in Users,
         fReq' = [fReq EXCEPT ![r] = q], UNCHANGED <<fUsers, fWriter>>,
         \/ UNCHANGED fShown
         \/ \E u \in Users : fShown' = [fShown EXCEPT ![u] = @ \cup ({fUsers[u].code} \ {None})]
  PROVE  ReferralsInv'
  <1>1. /\ fReq \in [Requests -> F!Call] /\ fShown \in [Users -> SUBSET Codes]
        /\ \A u \in Users : fUsers[u].code \in Codes \cup {None}
    BY Handler DEF F!Account
  <1>2. fReq' \in [Requests -> F!Call] /\ fReq'[r] = q /\ \A s \in Requests \ {r} : fReq'[s] = fReq[s]
    BY <1>1
  <1>3. /\ fShown' \in [Users -> SUBSET Codes]
        /\ \A u \in Users : fShown'[u] \subseteq fShown[u] \cup ({fUsers[u].code} \ {None})
    BY <1>1
  <1>4. F!TypeOK'
    BY <1>2, <1>3 DEF ReferralsInv, F!TypeOK
  <1>5. TransactionOK(r)'
    BY <1>2, Outside
  <1>6. \A u \in Users : fWriter[u] # r
    BY HoldsNothing
  <1>7. UNCHANGED fUsers /\ UNCHANGED fWriter
    OBVIOUS
  <1> QED BY <1>2, <1>3, <1>4, <1>5, <1>6, <1>7, StepOfOne

LEMMA RefReadCode ==
  ASSUME F!ReferralsAssumption, ReferralsInv, NEW r \in Requests, F!ReadCode(r)
  PROVE  ReferralsInv'
  <1>1. fReq[r] \in F!Call /\ fReq[r].user \in Users /\ fReq[r].pc = "readCode"
        /\ UNCHANGED <<fUsers, fWriter>>
    BY Handler DEF F!ReadCode, F!At
  <1>2. CASE fUsers[fReq[r].user].code # None
    <2>1. PICK u \in Users : u = fReq[r].user
      BY <1>1
    <2>2. fShown' = [fShown EXCEPT ![u] = @ \cup ({fUsers[u].code} \ {None})]
          /\ fReq' = [fReq EXCEPT ![r] = F!Idle]
      BY <1>2, <2>1 DEF F!ReadCode, F!Show, F!End
    <2> QED BY <1>1, <2>2, IdleCall, PlainStep
  <1>3. CASE fUsers[fReq[r].user].code = None
    <2>1. PICK q : q = [fReq[r] EXCEPT !.pc = "assign"]
      OBVIOUS
    <2>2. q \in F!Call /\ q.pc = "assign" /\ q.user \in Users
      BY <1>1, <2>1 DEF F!Call
    <2>3. fReq' = [fReq EXCEPT ![r] = q] /\ UNCHANGED fShown
      BY <1>3, <2>1 DEF F!ReadCode
    <2> QED BY <1>1, <2>2, <2>3, PlainStep
  <1> QED BY <1>2, <1>3

LEMMA RefReread ==
  ASSUME F!ReferralsAssumption, ReferralsInv, NEW r \in Requests, F!Reread(r)
  PROVE  ReferralsInv'
  <1>1. fReq[r] \in F!Call /\ fReq[r].user \in Users /\ fReq[r].pc = "reread"
        /\ UNCHANGED <<fUsers, fWriter>>
    BY Handler DEF F!Reread, F!At
  <1>2. PICK u \in Users : u = fReq[r].user
    BY <1>1
  <1>3. fShown' = [fShown EXCEPT ![u] = @ \cup ({fUsers[u].code} \ {None})]
        /\ fReq' = [fReq EXCEPT ![r] = F!Idle]
    BY <1>2 DEF F!Reread, F!Show, F!End
  <1> QED BY <1>1, <1>3, IdleCall, PlainStep

\* The transaction's reads: its snapshot is the accounts as they are.
LEMMA RefReads ==
  ASSUME F!ReferralsAssumption, ReferralsInv, NEW r \in Requests, F!ReadAccounts(r)
  PROVE  ReferralsInv'
  <1>1. fReq \in [Requests -> F!Call] /\ fReq[r] \in F!Call /\ fReq[r].user \in Users
        /\ fReq[r].pc = "begin" /\ UNCHANGED <<fUsers, fWriter, fShown>>
    BY Handler DEF F!ReadAccounts, F!At
  <1>2. CASE F!End(r)
    BY <1>1, <1>2, IdleCall, PlainStep DEF F!End
  <1>3. CASE ~F!End(r)
    <2>1. PICK v \in Users : /\ F!Usable(fReq[r].user, v)
            /\ fReq' = [fReq EXCEPT ![r] = [@ EXCEPT !.pc = "claim",
                          !.other = v, !.view = fUsers, !.stale = {}]]
      BY <1>3, Zenon DEF F!ReadAccounts
    <2>2. PICK q : q = [fReq[r] EXCEPT !.pc = "claim", !.other = v, !.view = fUsers, !.stale = {}]
      OBVIOUS
    <2>3. q \in F!Call /\ q.pc = "claim" /\ q.user = fReq[r].user /\ q.other = v /\ q.view = fUsers
          /\ q.stale = {}
      BY <1>1, <2>2, Handler DEF F!Call
    <2>4. fReq' = [fReq EXCEPT ![r] = q]
      BY <2>1, <2>2
    <2>5. fReq' \in [Requests -> F!Call] /\ fReq'[r] = q /\ \A s \in Requests \ {r} : fReq'[s] = fReq[s]
      BY <1>1, <2>3, <2>4
    <2>6. TransactionOK(r)'
      BY <1>1, <2>1, <2>3, <2>5 DEF TransactionOK, F!InTransaction, F!Usable
    <2>7. F!TypeOK'
      BY <1>1, <2>5 DEF ReferralsInv, F!TypeOK
    <2>8. \A u \in Users : fWriter[u] # r
      BY <1>1, HoldsNothing
    <2>9. UNCHANGED fUsers /\ UNCHANGED fWriter /\ UNCHANGED fShown
      BY <1>1
    <2> QED BY <2>5, <2>6, <2>7, <2>8, <2>9, StepOfOne
  <1> QED BY <1>2, <1>3

\* A transaction that starts again or ends without a commit holds nothing.
LEMMA RefReleases ==
  ASSUME F!ReferralsAssumption, ReferralsInv, NEW r \in Requests, F!StartAgain(r) \/ F!Abort(r)
  PROVE  ReferralsInv'
  <1>1. fReq \in [Requests -> F!Call] /\ fReq[r] \in F!Call /\ fReq[r].user \in Users
        /\ fWriter' = F!Released(r) /\ UNCHANGED <<fUsers, fShown>>
    BY Handler DEF F!StartAgain, F!Abort, F!At
  <1>2. PICK q \in F!Call : q.pc \in {"begin", "idle"} /\ (q.pc # "idle" => q.user \in Users)
                          /\ fReq' = [fReq EXCEPT ![r] = q]
    <2>1. CASE F!StartAgain(r)
      <3>1. PICK q : q = [fReq[r] EXCEPT !.pc = "begin"]
        OBVIOUS
      <3>2. q \in F!Call /\ q.pc = "begin" /\ q.user \in Users
        BY <1>1, <3>1 DEF F!Call
      <3>3. fReq' = [fReq EXCEPT ![r] = q]
        BY <2>1, <3>1 DEF F!StartAgain
      <3> QED BY <3>2, <3>3
    <2>2. CASE F!Abort(r)
      BY <2>2, IdleCall DEF F!Abort, F!End
    <2> QED BY <2>1, <2>2
  <1>3. fReq' \in [Requests -> F!Call] /\ fReq'[r] = q /\ \A s \in Requests \ {r} : fReq'[s] = fReq[s]
    BY <1>1, <1>2
  <1>4. /\ fWriter' \in [Users -> Requests \cup {None}]
        /\ \A u \in Users : fWriter'[u] = IF fWriter[u] = r THEN None ELSE fWriter[u]
    BY <1>1, Handler DEF F!Released
  <1>5. F!TypeOK'
    BY <1>1, <1>3, <1>4 DEF ReferralsInv, F!TypeOK
  <1>6. TransactionOK(r)'
    BY <1>2, <1>3, Outside
  <1>7. \A u \in Users : fWriter'[u] # r
    BY <1>4 DEF F!ReferralsAssumption
  <1>8. UNCHANGED fUsers /\ UNCHANGED fShown
    BY <1>1
  <1> QED BY <1>3, <1>4, <1>5, <1>6, <1>7, <1>8, StepOfOne

-----------------------------------------------------------------------------
(* The writes of a transaction.                                                 *)

LEMMA BadgedAccount ==
  ASSUME NEW a \in F!Account
  PROVE  /\ F!Badged(a) \in F!Account /\ F!Badged(a).code = a.code /\ F!Badged(a).by = a.by
         /\ F!Badged(a).count = a.count /\ F!Badged(a).active = a.active
         /\ F!Badged(a).badges = IF a.badges = 0 THEN 1 ELSE a.badges
  BY DEF F!Badged, F!Account

LEMMA ReferredAccount ==
  ASSUME NEW a \in F!Account, NEW v \in Users
  PROVE  /\ F!ReferredBy(a, v) \in F!Account /\ F!ReferredBy(a, v).code = a.code
         /\ F!ReferredBy(a, v).by = v /\ F!ReferredBy(a, v).count = a.count
         /\ F!ReferredBy(a, v).badges = IF a.badges = 0 THEN 1 ELSE a.badges
  <1>1. PICK b : b = [a EXCEPT !.by = v]
    OBVIOUS
  <1>2. b \in F!Account /\ b.code = a.code /\ b.by = v /\ b.count = a.count /\ b.badges = a.badges
    BY <1>1 DEF F!Account
  <1> QED BY <1>1, <1>2, BadgedAccount DEF F!ReferredBy

LEMMA RewardedAccount ==
  ASSUME NEW a \in F!Account
  PROVE  /\ F!Rewarded(a) \in F!Account /\ F!Rewarded(a).code = a.code
         /\ F!Rewarded(a).by = a.by /\ F!Rewarded(a).count = a.count + 1
         /\ F!Rewarded(a).badges = IF a.badges = 0 THEN 1 ELSE a.badges
  <1>1. PICK b : b = [a EXCEPT !.count = @ + 1]
    OBVIOUS
  <1>2. b \in F!Account /\ b.code = a.code /\ b.by = a.by /\ b.count = a.count + 1 /\ b.badges = a.badges
    BY <1>1 DEF F!Account
  <1> QED BY <1>1, <1>2, BadgedAccount DEF F!Rewarded

LEMMA RefClaim ==
  ASSUME F!ReferralsAssumption, ReferralsInv, NEW r \in Requests, F!Claim(r)
  PROVE  ReferralsInv'
  <1>1. /\ fReq \in [Requests -> F!Call] /\ fReq[r] \in F!Call /\ fReq[r].pc = "claim"
        /\ fWriter \in [Users -> Requests \cup {None}] /\ fUsers \in [Users -> F!Account]
        /\ UNCHANGED fUsers /\ UNCHANGED fShown
    BY Handler DEF F!Claim, F!At
  <1>2. PICK u \in Users, v \in Users : u = fReq[r].user /\ v = fReq[r].other /\ v # u
    BY <1>1, Handler DEF TransactionOK, F!InTransaction
  <1>3. u \notin fReq[r].stale /\ fWriter[u] \in {None, r} /\ fWriter' = [fWriter EXCEPT ![u] = r]
    BY <1>2 DEF F!Claim, F!Writes
  <1>4. /\ fReq[r].view \in [Users -> F!Account] /\ fReq[r].view[u].by = None
        /\ \A w \in Users \ fReq[r].stale : fReq[r].view[w] = fUsers[w]
    BY <1>1, <1>2, Handler DEF F!Call, TransactionOK
  <1>5. PICK view : view = [fReq[r].view EXCEPT ![fReq[r].user] = F!ReferredBy(@, fReq[r].other)]
    OBVIOUS
  <1>6. fReq[r].view[u] = fUsers[u]
    BY <1>3, <1>4
  <1>7. /\ view \in [Users -> F!Account] /\ view[u] = F!ReferredBy(fUsers[u], v)
        /\ \A w \in Users \ {u} : view[w] = fReq[r].view[w]
    <2>1. F!ReferredBy(fUsers[u], v) \in F!Account
      BY <1>1, ReferredAccount, RewardedAccount
    <2>2. view = [fReq[r].view EXCEPT ![u] = F!ReferredBy(@, v)]
      BY <1>2, <1>5
    <2>3. fReq[r].view[u] = fUsers[u]
      BY <1>6
    <2> QED BY <1>4, <2>1, <2>2, <2>3
  <1>8. PICK q : q = [fReq[r] EXCEPT !.pc = "reward", !.view = view]
    OBVIOUS
  <1>9. fReq' = [fReq EXCEPT ![r] = q]
    BY <1>5, <1>8, Zenon DEF F!Claim
  <1>10. /\ q \in F!Call /\ q.pc = "reward" /\ q.user = u /\ q.other = v /\ q.view = view
         /\ q.stale = fReq[r].stale
    BY <1>1, <1>2, <1>7, <1>8 DEF F!Call
  <1>11. fReq' \in [Requests -> F!Call] /\ fReq'[r] = q /\ \A s \in Requests \ {r} : fReq'[s] = fReq[s]
    BY <1>1, <1>9, <1>10
  <1>12. fWriter' \in [Users -> Requests \cup {None}] /\ fWriter'[u] = r
         /\ \A w \in Users \ {u} : fWriter'[w] = fWriter[w]
    BY <1>1, <1>3
  <1>13. TransactionOK(r)'
    <2>1. fUsers[u].by = None
      BY <1>4, <1>6
    <2>2. \A w \in Users \ (q.stale \cup {u}) : view[w] = fUsers'[w]
      BY <1>1, <1>4, <1>7, <1>10
    <2> QED BY <1>1, <1>2, <1>7, <1>10, <1>11, <1>12, <2>1, <2>2
            DEF TransactionOK, F!InTransaction
  <1>14. F!TypeOK'
    BY <1>1, <1>11, <1>12 DEF ReferralsInv, F!TypeOK
  <1>15. \A w \in Users : fWriter'[w] = r =>
           fReq'[r].pc = "reward" /\ w = fReq'[r].user
    <2>1. \A w \in Users : fWriter[w] # r
      BY <1>1, HoldsNothing
    <2> QED BY <1>10, <1>11, <1>12, <2>1
  <1>16. \A w \in Users : fWriter'[w] # fWriter[w] => {fWriter[w], fWriter'[w]} \subseteq {r, None}
    BY <1>3, <1>12
  <1> QED BY <1>1, <1>11, <1>13, <1>14, <1>15, <1>16, StepOfOne

LEMMA RefReward ==
  ASSUME F!ReferralsAssumption, ReferralsInv, NEW r \in Requests, F!Reward(r)
  PROVE  ReferralsInv'
  <1>1. /\ fReq \in [Requests -> F!Call] /\ fReq[r] \in F!Call /\ fReq[r].pc = "reward"
        /\ fWriter \in [Users -> Requests \cup {None}] /\ fUsers \in [Users -> F!Account]
        /\ UNCHANGED fUsers /\ UNCHANGED fShown
    BY Handler DEF F!Reward, F!At
  <1>2. PICK u \in Users, v \in Users : u = fReq[r].user /\ v = fReq[r].other /\ v # u
    BY <1>1, Handler DEF TransactionOK, F!InTransaction
  <1>3. v \notin fReq[r].stale /\ fWriter[v] \in {None, r} /\ fWriter' = [fWriter EXCEPT ![v] = r]
    BY <1>2 DEF F!Reward, F!Writes
  <1>4. /\ fReq[r].view \in [Users -> F!Account]
        /\ \A w \in Users \ (fReq[r].stale \cup {u}) : fReq[r].view[w] = fUsers[w]
        /\ fWriter[u] = r /\ fUsers[u].by = None
        /\ fReq[r].view[u] = F!ReferredBy(fUsers[u], v)
    BY <1>1, <1>2, Handler DEF F!Call, TransactionOK
  <1>5. PICK view : view = [fReq[r].view EXCEPT ![fReq[r].other] = F!Rewarded(@)]
    OBVIOUS
  <1>6. fReq[r].view[v] = fUsers[v]
    BY <1>2, <1>3, <1>4
  <1>7. /\ view \in [Users -> F!Account] /\ view[v] = F!Rewarded(fUsers[v])
        /\ \A w \in Users \ {v} : view[w] = fReq[r].view[w]
    <2>1. F!Rewarded(fUsers[v]) \in F!Account
      BY <1>1, ReferredAccount, RewardedAccount
    <2>2. view = [fReq[r].view EXCEPT ![v] = F!Rewarded(@)]
      BY <1>2, <1>5
    <2>3. fReq[r].view[v] = fUsers[v]
      BY <1>6
    <2> QED BY <1>4, <2>1, <2>2, <2>3
  <1>8. PICK q : q = [fReq[r] EXCEPT !.pc = "commit", !.view = view]
    OBVIOUS
  <1>9. fReq' = [fReq EXCEPT ![r] = q]
    BY <1>5, <1>8, Zenon DEF F!Reward
  <1>10. /\ q \in F!Call /\ q.pc = "commit" /\ q.user = u /\ q.other = v /\ q.view = view
         /\ q.stale = fReq[r].stale
    BY <1>1, <1>2, <1>7, <1>8 DEF F!Call
  <1>11. fReq' \in [Requests -> F!Call] /\ fReq'[r] = q /\ \A s \in Requests \ {r} : fReq'[s] = fReq[s]
    BY <1>1, <1>9, <1>10
  <1>12. fWriter' \in [Users -> Requests \cup {None}] /\ fWriter'[v] = r
         /\ \A w \in Users \ {v} : fWriter'[w] = fWriter[w]
    BY <1>1, <1>3
  <1>13. TransactionOK(r)'
    <2>1. view[u] = F!ReferredBy(fUsers[u], v) /\ fWriter'[u] = r
      BY <1>2, <1>4, <1>7, <1>12
    <2> QED BY <1>1, <1>2, <1>4, <1>7, <1>10, <1>11, <1>12, <2>1
            DEF TransactionOK, F!InTransaction
  <1>14. F!TypeOK'
    BY <1>1, <1>11, <1>12 DEF ReferralsInv, F!TypeOK
  <1>15. \A w \in Users : fWriter'[w] = r =>
           fReq'[r].pc = "commit" /\ w \in {fReq'[r].user, fReq'[r].other}
    <2>1. \A w \in Users : fWriter[w] = r => w = u
      BY <1>1, <1>2 DEF ReferralsInv, HeldByWriter
    <2> QED BY <1>10, <1>11, <1>12, <2>1
  <1>16. \A w \in Users : fWriter'[w] # fWriter[w] => {fWriter[w], fWriter'[w]} \subseteq {r, None}
    BY <1>3, <1>12
  <1> QED BY <1>1, <1>11, <1>13, <1>14, <1>15, <1>16, StepOfOne

-----------------------------------------------------------------------------
(* The steps that change accounts.                                              *)

LEMMA BehindCalls ==
  ASSUME ReferralsInv, NEW changed \in SUBSET Users
  PROVE  /\ F!Behind(changed) \in [Requests -> F!Call]
         /\ \A s \in Requests : /\ F!Behind(changed)[s].pc = fReq[s].pc
                                /\ F!Behind(changed)[s].user = fReq[s].user
                                /\ F!Behind(changed)[s].other = fReq[s].other
                                /\ F!Behind(changed)[s].view = fReq[s].view
                                /\ F!InTransaction(s) => F!Behind(changed)[s].stale = fReq[s].stale \cup changed
  <1>1. ASSUME NEW s \in Requests
        PROVE  /\ F!Behind(changed)[s] \in F!Call
               /\ F!Behind(changed)[s].pc = fReq[s].pc
               /\ F!Behind(changed)[s].user = fReq[s].user
               /\ F!Behind(changed)[s].other = fReq[s].other
               /\ F!Behind(changed)[s].view = fReq[s].view
               /\ F!InTransaction(s) => F!Behind(changed)[s].stale = fReq[s].stale \cup changed
    <2>1. F!Behind(changed)[s] = IF F!InTransaction(s) THEN [fReq[s] EXCEPT !.stale = @ \cup changed]
                               ELSE fReq[s]
      BY DEF F!Behind
    <2>2. fReq[s] \in F!Call
      BY Handler
    <2> QED BY <2>1, <2>2 DEF F!Call
  <1>2. F!Behind(changed) = [s \in Requests |-> F!Behind(changed)[s]]
    BY DEF F!Behind
  <1> QED BY <1>1, <1>2

LEMMA OthersBehind ==
  ASSUME ReferralsInv, NEW changed \in SUBSET Users, NEW s \in Requests,
         fReq'[s] = F!Behind(changed)[s],
         \A u \in Users \ changed : fUsers'[u] = fUsers[u],
         \A u \in Users : fWriter[u] = s => u \notin changed /\ fWriter'[u] = s
  PROVE  TransactionOK(s)'
  <1>1. Stays(s, changed)
    BY BehindCalls DEF Stays
  <1>2. TransactionOK(s)
    BY Handler
  <1> QED BY <1>1, <1>2, OtherKept

LEMMA RefAssign ==
  ASSUME F!ReferralsAssumption, ReferralsInv, NEW r \in Requests, F!Assign(r)
  PROVE  ReferralsInv'
  <1>1. PICK u \in Users : u = fReq[r].user
    BY Handler DEF F!Assign, F!At
  <1>2. /\ fReq \in [Requests -> F!Call] /\ fReq[r] \in F!Call /\ fReq[r].pc = "assign"
        /\ fUsers \in [Users -> F!Account] /\ fShown \in [Users -> SUBSET Codes]
        /\ fWriter[u] = None /\ UNCHANGED fWriter
    BY <1>1, Handler DEF F!Assign, F!At
  <1>3. CASE ~F!Assignable(u)
    <2>1. PICK q : q = [fReq[r] EXCEPT !.pc = "reread"]
      OBVIOUS
    <2>2. q \in F!Call /\ q.pc = "reread" /\ q.user = u
      BY <1>1, <1>2, <2>1 DEF F!Call
    <2>3. fReq' = [fReq EXCEPT ![r] = q] /\ UNCHANGED <<fUsers, fWriter, fShown>>
      BY <1>1, <1>3, <2>1 DEF F!Assign
    <2> QED BY <1>2, <2>2, <2>3, PlainStep
  <1>4. ASSUME F!Assignable(u), NEW code \in Codes, NEW other \in Users \ {u},
               fUsers[other].code = code, UNCHANGED <<fUsers, fShown>>,
               fReq' = [fReq EXCEPT ![r] =
                 IF fReq[r].tries + 1 < MaxTries THEN [fReq[r] EXCEPT !.tries = @ + 1] ELSE F!Idle]
        PROVE  ReferralsInv'
    <2>1. PICK q : q = IF fReq[r].tries + 1 < MaxTries THEN [fReq[r] EXCEPT !.tries = @ + 1] ELSE F!Idle
      OBVIOUS
    <2>2. fReq' = [fReq EXCEPT ![r] = q]
      BY <1>4, <2>1, Zenon
    <2>3. q \in F!Call /\ q.pc \in {"assign", "idle"} /\ (q.pc # "idle" => q.user = u)
      <3>1. CASE fReq[r].tries + 1 < MaxTries
        BY SMTT(30), <1>1, <1>2, <2>1, <3>1 DEF F!Call, F!ReferralsAssumption
      <3>2. CASE ~(fReq[r].tries + 1 < MaxTries)
        BY <2>1, <3>2, IdleCall
      <3> QED BY <3>1, <3>2
    <2> QED BY <1>2, <1>4, <2>2, <2>3, PlainStep
  <1>5. ASSUME F!Assignable(u), NEW code \in Codes,
               ~\E other \in Users \ {u} : fUsers[other].code = code,
               fUsers' = [fUsers EXCEPT ![u].code = code],
               fReq' = [F!Behind({u}) EXCEPT ![r] = F!Idle],
               fShown' = [fShown EXCEPT ![u] = @ \cup ({code} \ {None})]
        PROVE  ReferralsInv'
    <2>1. PICK account : account = [fUsers[u] EXCEPT !.code = code]
      OBVIOUS
    <2>2. /\ account \in F!Account /\ account.code = code /\ account.by = fUsers[u].by
          /\ account.count = fUsers[u].count /\ account.badges = fUsers[u].badges
      BY <1>2, <2>1 DEF F!Account
    <2>3. /\ fUsers' \in [Users -> F!Account] /\ fUsers'[u] = account
          /\ \A v \in Users \ {u} : fUsers'[v] = fUsers[v]
      BY <1>2, <1>5, <2>1, <2>2
    <2>4. /\ fReq' \in [Requests -> F!Call] /\ fReq'[r] = F!Idle
          /\ \A s \in Requests \ {r} : fReq'[s] = F!Behind({u})[s]
      BY <1>5, BehindCalls, IdleCall
    <2>5. /\ fShown' \in [Users -> SUBSET Codes] /\ fShown'[u] = fShown[u] \cup ({code} \ {None})
          /\ \A v \in Users \ {u} : fShown'[v] = fShown[v]
      BY <1>2, <1>5
    <2>6. F!TypeOK'
      BY <1>2, <2>3, <2>4, <2>5 DEF ReferralsInv, F!TypeOK
    <2>7. \A v \in Users : fWriter[v] # r
      BY <1>2, HoldsNothing
    <2>8. TransactionsOK'
      <3>1. ASSUME NEW s \in Requests \ {r}
            PROVE  TransactionOK(s)'
        <4>1. \A v \in Users : fWriter[v] = s => v \notin {u} /\ fWriter'[v] = s
          BY <1>2 DEF F!ReferralsAssumption
        <4> QED BY <2>3, <2>4, <4>1, OthersBehind
      <3>2. TransactionOK(r)'
        BY <2>4, IdleCall, Outside
      <3> QED BY <3>1, <3>2 DEF TransactionsOK
    <2>9. HeldByWriter'
      <3>1. \A s \in Requests \ {r} : fReq'[s].pc = fReq[s].pc /\ fReq'[s].user = fReq[s].user
                                       /\ fReq'[s].other = fReq[s].other
        BY <2>4, BehindCalls
      <3> QED BY <1>2, <2>7, <3>1 DEF ReferralsInv, HeldByWriter
    <2>10. Rewards'
      BY <2>2, <2>3, RewardsKept DEF ReferralsInv
    <2>11. CodesApart' /\ F!CodesLast'
      <3>1. fUsers[u].code = None /\ \A v \in Users \ {u} : fUsers[v].code # code
        BY <1>5 DEF F!Assignable
      <3>2. CodesApart'
        BY <2>2, <2>3, <3>1 DEF ReferralsInv, CodesApart
      <3>3. fShown[u] = {}
        BY <1>2, <3>1 DEF ReferralsInv, F!CodesLast, F!ReferralsAssumption
      <3>4. ASSUME NEW v \in Users, NEW c \in fShown'[v]
            PROVE  fUsers'[v].code = c /\ \A w \in Users \ {v} : fUsers'[w].code # c
        BY <2>2, <2>3, <2>5, <3>1, <3>3 DEF ReferralsInv, F!CodesLast
      <3> QED BY <3>2, <3>4 DEF F!CodesLast
    <2> QED BY <2>6, <2>8, <2>9, <2>10, <2>11 DEF ReferralsInv
  <1> QED BY <1>1, <1>2, <1>3, <1>4, <1>5, Zenon DEF F!Assign, F!Show

\* Whoever commits changes the two accounts he holds: the caller's, who has used no
\* code yet, and the referrer's, who gets one more.
LEMMA Committed ==
  ASSUME ReferralsInv, NEW r \in Requests, F!Commit(r)
  PROVE  \E u, v \in Users :
           /\ u # v /\ {w \in Users : fWriter[w] = r} = {u, v}
           /\ fUsers[u].by = None
           /\ fUsers' = [fUsers EXCEPT ![u] = F!ReferredBy(fUsers[u], v), ![v] = F!Rewarded(fUsers[v])]
  <1>1. fReq[r].pc = "commit" /\ TransactionOK(r) /\ fUsers \in [Users -> F!Account]
    BY Handler DEF F!Commit, F!At
  <1>2. PICK u \in Users, v \in Users : u = fReq[r].user /\ v = fReq[r].other /\ v # u
    BY <1>1 DEF TransactionOK, F!InTransaction
  <1>3. /\ fWriter[u] = r /\ fWriter[v] = r /\ fUsers[u].by = None
        /\ fReq[r].view[u] = F!ReferredBy(fUsers[u], v) /\ fReq[r].view[v] = F!Rewarded(fUsers[v])
    BY <1>1, <1>2 DEF TransactionOK
  <1>4. \A w \in Users : fWriter[w] = r <=> w \in {u, v}
    BY <1>1, <1>2, <1>3 DEF ReferralsInv, HeldByWriter
  <1>5. {w \in Users : fWriter[w] = r} = {u, v}
    BY <1>4
  <1>6. fUsers' = [w \in Users |-> IF w \in {u, v} THEN fReq[r].view[w] ELSE fUsers[w]]
    BY <1>5 DEF F!Commit
  <1>7. fUsers' = [fUsers EXCEPT ![u] = F!ReferredBy(fUsers[u], v), ![v] = F!Rewarded(fUsers[v])]
    BY <1>1, <1>2, <1>3, <1>6
  <1> QED BY <1>2, <1>3, <1>5, <1>7

LEMMA CommitRewards ==
  ASSUME CommunityAssumption, ReferralsInv, NEW u \in Users, NEW v \in Users, u # v, fUsers[u].by = None,
         \A w \in Users \ {u, v} : fUsers'[w] = fUsers[w],
         fUsers'[u] = F!ReferredBy(fUsers[u], v), fUsers'[v] = F!Rewarded(fUsers[v])
  PROVE  Rewards'
  <1>1. fUsers \in [Users -> F!Account]
    BY Handler DEF ReferralsInv, F!TypeOK
  <1>2. /\ fUsers'[u].by = v /\ fUsers'[u].count = fUsers[u].count
        /\ fUsers'[u].badges = IF fUsers[u].badges = 0 THEN 1 ELSE fUsers[u].badges
    BY <1>1, ReferredAccount
  <1>3. /\ fUsers'[v].by = fUsers[v].by /\ fUsers'[v].count = fUsers[v].count + 1
        /\ fUsers'[v].badges = IF fUsers[v].badges = 0 THEN 1 ELSE fUsers[v].badges
    BY <1>1, RewardedAccount
  <1>4. \A w \in Users : /\ fUsers[w].by # w /\ IsFiniteSet(Referred(w))
                         /\ fUsers[w].count = Cardinality(Referred(w)) /\ fUsers[w].count \in Nat
                         /\ fUsers[w].badges = IF fUsers[w].by # None \/ fUsers[w].count > 0 THEN 1 ELSE 0
    BY <1>1, RewardsSay DEF ReferralsInv, Rewards, Referred, F!Account
  <1>5. \A w \in Users : fUsers'[w].by = IF w = u THEN v ELSE fUsers[w].by
    BY <1>2, <1>3
  <1>6. u \notin Referred(v) /\ \A w \in Users \ {v} : Referred(w)' = Referred(w)
    BY <1>5 DEF Referred, CommunityAssumption
  <1>7. Referred(v)' = Referred(v) \cup {u}
    BY <1>5 DEF Referred
  <1>8. IsFiniteSet(Referred(v)') /\ Cardinality(Referred(v)') = Cardinality(Referred(v)) + 1
    BY <1>4, <1>6, <1>7, FS_AddElement
  <1>9. ASSUME NEW w \in Users
        PROVE  IsFiniteSet(Referred(w)') /\ fUsers'[w].count = Cardinality(Referred(w)')
    <2>1. CASE w = v
      BY <1>3, <1>4, <1>8, <2>1
    <2>2. CASE w # v
      <3>1. Referred(w)' = Referred(w) /\ fUsers'[w].count = fUsers[w].count
        BY <1>2, <1>6, <2>2
      <3> QED BY <1>4, <3>1
    <2> QED BY <2>1, <2>2
  <1>10. ASSUME NEW w \in Users
         PROVE  /\ fUsers'[w].by # w
                /\ fUsers'[w].badges = IF fUsers'[w].by # None \/ fUsers'[w].count > 0 THEN 1 ELSE 0
    BY <1>2, <1>3, <1>4 DEF CommunityAssumption
  <1> QED BY <1>9, <1>10, RewardsSayNext, Zenon DEF Rewards, Referred

LEMMA RefCommit ==
  ASSUME F!ReferralsAssumption, ReferralsInv, NEW r \in Requests, F!Commit(r)
  PROVE  ReferralsInv'
  <1>1. PICK u, v \in Users : u # v
          /\ {w \in Users : fWriter[w] = r} = {u, v}
          /\ fUsers[u].by = None
          /\ fUsers' = [fUsers EXCEPT ![u] = F!ReferredBy(fUsers[u], v), ![v] = F!Rewarded(fUsers[v])]
    BY Committed
  <1>2. /\ fUsers \in [Users -> F!Account] /\ fShown \in [Users -> SUBSET Codes]
        /\ fWriter \in [Users -> Requests \cup {None}] /\ UNCHANGED fShown
    BY Handler DEF F!Commit
  <1>3. /\ fUsers' \in [Users -> F!Account]
        /\ fUsers'[u] = F!ReferredBy(fUsers[u], v) /\ fUsers'[v] = F!Rewarded(fUsers[v])
        /\ \A w \in Users \ {u, v} : fUsers'[w] = fUsers[w]
    BY <1>1, <1>2, ReferredAccount, RewardedAccount
  <1>4. /\ fReq' \in [Requests -> F!Call] /\ fReq'[r] = F!Idle
        /\ \A s \in Requests \ {r} : fReq'[s] = F!Behind({u, v})[s]
    <2>1. fReq' = [F!Behind({u, v}) EXCEPT ![r] = F!Idle]
      BY <1>1, Zenon DEF F!Commit
    <2> QED BY <2>1, BehindCalls, IdleCall
  <1>5. /\ fWriter' \in [Users -> Requests \cup {None}]
        /\ \A w \in Users : fWriter'[w] = IF fWriter[w] = r THEN None ELSE fWriter[w]
    BY <1>2 DEF F!Commit, F!Released
  <1>6. F!TypeOK'
    BY <1>2, <1>3, <1>4, <1>5 DEF ReferralsInv, F!TypeOK
  <1>7. \A w \in {u, v} : fWriter[w] = r
    BY <1>1
  <1>8. TransactionsOK'
    <2>1. ASSUME NEW s \in Requests \ {r}
          PROVE  TransactionOK(s)'
      <3>1. \A w \in Users : fWriter[w] = s => w \notin {u, v} /\ fWriter'[w] = s
        BY <1>5, <1>7
      <3> QED BY <1>3, <1>4, <3>1, OthersBehind
    <2>2. TransactionOK(r)'
      BY <1>4, IdleCall, Outside
    <2> QED BY <2>1, <2>2 DEF TransactionsOK
  <1>9. HeldByWriter'
    <2>1. \A s \in Requests \ {r} : fReq'[s].pc = fReq[s].pc /\ fReq'[s].user = fReq[s].user
                                     /\ fReq'[s].other = fReq[s].other
      BY <1>4, BehindCalls
    <2>2. \A w \in Users : fWriter'[w] # r /\ (fWriter'[w] # None => fWriter'[w] = fWriter[w])
      BY <1>5 DEF F!ReferralsAssumption
    <2> QED BY <2>1, <2>2 DEF ReferralsInv, HeldByWriter, F!ReferralsAssumption
  <1>10. Rewards'
    BY <1>1, <1>3, CommitRewards, CommunityAssumption
  <1>11. CodesApart' /\ F!CodesLast'
    <2>1. fUsers'[u].code = fUsers[u].code /\ fUsers'[v].code = fUsers[v].code
      BY <1>2, <1>3, ReferredAccount, RewardedAccount
    <2>2. \A w \in Users : fUsers'[w].code = fUsers[w].code
      BY <1>3, <2>1
    <2>3. \A w \in Users : fShown'[w] \subseteq fShown[w] \cup ({fUsers[w].code} \ {None})
      BY <1>2
    <2> QED BY <2>2, <2>3, CodesKept DEF ReferralsInv
  <1> QED BY <1>6, <1>8, <1>9, <1>10, <1>11 DEF ReferralsInv

LEMMA RefDeactivate ==
  ASSUME F!ReferralsAssumption, ReferralsInv, NEW u \in Users, F!Deactivate(u)
  PROVE  ReferralsInv'
  <1>1. /\ fUsers \in [Users -> F!Account] /\ UNCHANGED fWriter /\ UNCHANGED fShown
        /\ fWriter[u] = None /\ fReq' = F!Behind({u})
        /\ fUsers' = [fUsers EXCEPT ![u].active = FALSE]
    BY DEF ReferralsInv, F!TypeOK, F!Deactivate
  <1>2. PICK account : account = [fUsers[u] EXCEPT !.active = FALSE]
    OBVIOUS
  <1>3. /\ account \in F!Account /\ account.code = fUsers[u].code /\ account.by = fUsers[u].by
        /\ account.count = fUsers[u].count /\ account.badges = fUsers[u].badges
    BY <1>1, <1>2 DEF F!Account
  <1>4. /\ fUsers' \in [Users -> F!Account] /\ fUsers'[u] = account
        /\ \A v \in Users \ {u} : fUsers'[v] = fUsers[v]
    BY <1>1, <1>2, <1>3
  <1>5. fReq' \in [Requests -> F!Call]
    BY <1>1, BehindCalls
  <1>6. F!TypeOK'
    BY <1>1, <1>4, <1>5 DEF ReferralsInv, F!TypeOK
  <1>7. ASSUME NEW s \in Requests
        PROVE  TransactionOK(s)'
    <2>1. \A v \in Users : fWriter[v] = s => v \notin {u} /\ fWriter'[v] = s
      BY <1>1 DEF F!ReferralsAssumption
    <2> QED BY <1>1, <1>4, <2>1, OthersBehind
  <1>8. TransactionsOK'
    BY <1>7 DEF TransactionsOK
  <1>9. HeldByWriter'
    <2>1. \A s \in Requests : fReq'[s].pc = fReq[s].pc /\ fReq'[s].user = fReq[s].user
                               /\ fReq'[s].other = fReq[s].other
      BY <1>1, BehindCalls
    <2> QED BY <1>1, <2>1 DEF ReferralsInv, HeldByWriter
  <1>10. Rewards'
    BY <1>3, <1>4, RewardsKept DEF ReferralsInv
  <1>11. CodesApart' /\ F!CodesLast'
    <2>1. \A v \in Users : fUsers'[v].code = fUsers[v].code
      BY <1>3, <1>4
    <2>2. \A v \in Users : fShown'[v] \subseteq fShown[v] \cup ({fUsers[v].code} \ {None})
      BY <1>1
    <2> QED BY <2>1, <2>2, CodesKept DEF ReferralsInv
  <1> QED BY <1>6, <1>8, <1>9, <1>10, <1>11 DEF ReferralsInv

-----------------------------------------------------------------------------
LEMMA ReferralsStart == ASSUME F!ReferralsAssumption PROVE F!Init => ReferralsInv
  <1> SUFFICES ASSUME F!Init PROVE ReferralsInv
    OBVIOUS
  <1>1. F!NewAccount \in F!Account /\ F!NewAccount.by = None /\ F!NewAccount.count = 0
        /\ F!NewAccount.badges = 0 /\ F!NewAccount.code = None
    BY DEF F!NewAccount, F!Account
  <1>2. /\ \A u \in Users : fUsers[u] = F!NewAccount /\ fWriter[u] = None /\ fShown[u] = {}
        /\ \A r \in Requests : fReq[r] = F!Idle
    BY DEF F!Init
  <1>3. F!TypeOK
    BY <1>1, IdleCall DEF F!Init, F!TypeOK
  <1>4. TransactionsOK /\ HeldByWriter
    BY <1>2, IdleCall DEF TransactionsOK, TransactionOK, HeldByWriter, F!InTransaction, F!ReferralsAssumption
  <1>5. ASSUME NEW u \in Users
        PROVE  /\ IsFiniteSet(Referred(u)) /\ Cardinality(Referred(u)) = 0
               /\ fUsers[u].by # u /\ fUsers[u].count = 0
               /\ fUsers[u].badges = IF fUsers[u].by # None \/ fUsers[u].count > 0 THEN 1 ELSE 0
    <2>1. Referred(u) = {}
      BY <1>1, <1>2, CommunityAssumption DEF Referred
    <2> QED BY <1>1, <1>2, <2>1, CommunityAssumption, FS_EmptySet
  <1>6. Rewards
    BY <1>5, RewardsSay, Zenon DEF Rewards, Referred
  <1>7. CodesApart /\ F!CodesLast
    BY <1>1, <1>2 DEF CodesApart, F!CodesLast
  <1> QED BY <1>3, <1>4, <1>6, <1>7 DEF ReferralsInv

LEMMA ReferralsStep ==
  ASSUME F!ReferralsAssumption PROVE ReferralsInv /\ [F!Next]_F!fVars => ReferralsInv'
  <1> SUFFICES ASSUME ReferralsInv, [F!Next]_F!fVars PROVE ReferralsInv'
    OBVIOUS
  <1>1. CASE UNCHANGED F!fVars
    <2>1. fUsers' = fUsers /\ fWriter' = fWriter /\ fReq' = fReq /\ fShown' = fShown
      BY <1>1 DEF F!fVars
    <2>2. F!TypeOK' /\ HeldByWriter'
      BY <2>1 DEF ReferralsInv, F!TypeOK, HeldByWriter
    <2>3. TransactionsOK'
      BY <2>1, ZenonT(40) DEF ReferralsInv, TransactionsOK, TransactionOK, F!InTransaction
    <2>4. Rewards' /\ CodesApart' /\ F!CodesLast'
      <3>1. \A u \in Users : fShown'[u] \subseteq fShown[u] \cup ({fUsers[u].code} \ {None})
        BY <2>1
      <3> QED BY <2>1, <3>1, RewardsKept, CodesKept DEF ReferralsInv
    <2> QED BY <2>2, <2>3, <2>4 DEF ReferralsInv
  <1>2. CASE F!Next
    BY <1>2, RefBegin, RefReadCode, RefAssign, RefReread, RefReads, RefReleases, RefClaim,
       RefReward, RefCommit, RefDeactivate DEF F!Next, F!Step
  <1> QED BY <1>1, <1>2

\* However many requests use codes at once and wherever they stop, every referral is
\* counted once and a code that was shown stays its owner's (applyCode, getMyCode).
THEOREM ReferralsTrue ==
  ASSUME F!ReferralsAssumption PROVE F!Spec => [](F!TypeOK /\ F!RewardsMatch /\ F!CodesLast)
  <1>1. ReferralsInv => F!TypeOK /\ F!RewardsMatch /\ F!CodesLast
    BY DEF ReferralsInv, Rewards
  <1> QED BY <1>1, ReferralsStart, ReferralsStep, PTL DEF F!Spec

-----------------------------------------------------------------------------
(* Limits: the windows.                                                           *)
Passed == [ip : L!Addresses, nr : Nat, age : 0 .. Window]
Aged(p) == [p EXCEPT !.age = L!Min({Window, @ + 1})]

\* The requests let in by an address's present window, and those of the last one
\* that are not yet a window old.
Mine(a) == {p \in lPassed : p.ip = a /\ lWin[a].left > 0 /\ p.age + lWin[a].left <= Window}
Earlier(a) ==
  {p \in lPassed : p.ip = a /\ p.age < Window /\ (lWin[a].left = 0 \/ p.age + lWin[a].left > Window)}

WindowOK(a) ==
  /\ lWin[a] = L!NoWindow \/ (lWin[a].n > 0 /\ lWin[a].left > 0)
  /\ lWin[a].n <= lAsked
  /\ Cardinality(Mine(a)) = IF lWin[a].n <= WindowMax THEN lWin[a].n ELSE WindowMax
  /\ Cardinality(Earlier(a)) <= WindowMax
  /\ lWin[a].left = 0 => \A p \in lPassed : p.ip = a => p.age > 0

Numbered ==
  /\ IsFiniteSet(lPassed) /\ lPassed \subseteq Passed
  /\ \A p \in lPassed : p.nr < lAsked
  /\ \A p, q \in lPassed : p.nr = q.nr => p = q

WindowsInv ==
  /\ lWin \in [L!Addresses -> [n : Nat, left : 0 .. Window]]
  /\ Numbered
  /\ \A a \in L!Addresses : WindowOK(a)
  /\ lOdd = {}

(* The bucket.                                                                  *)
Since(e) == {f \in lTook : f.nr >= e.nr}

BucketInv ==
  /\ lBucket \in [made : BOOLEAN, tokens : 0 .. Burst, at : 0 .. MaxClock, refused : Nat, told : Nat]
  /\ IsFiniteSet(lTook) /\ lTook \subseteq [nr : Nat, at : Nat]
  /\ \A e \in lTook : e.nr < lAsked
  /\ lBucket.made \/ lTook = {}
  /\ \A e \in lTook :
       /\ e.at <= lBucket.at
       /\ Cardinality(Since(e)) + lBucket.tokens <= Burst + Rate * (lBucket.at - e.at)
  /\ (lBucket.told - 1) * WarnEvery < lBucket.refused

LimitsInv == lAsked \in 0 .. MaxAsked /\ lClock \in 0 .. MaxClock /\ WindowsInv /\ BucketInv

-----------------------------------------------------------------------------
LEMMA Smaller == ASSUME NEW m \in Int, NEW n \in Int
                 PROVE  L!Min({m, n}) = IF m <= n THEN m ELSE n
  <1>1. PICK x : x = IF m <= n THEN m ELSE n
    OBVIOUS
  <1>2. x \in {m, n} /\ \A y \in {m, n} : x <= y
    BY <1>1
  <1>3. \A z \in {m, n} : (\A y \in {m, n} : z <= y) => z = x
    BY <1>1
  <1> QED BY <1>1, <1>2, <1>3 DEF L!Min

LEMMA AgedOne ==
  ASSUME L!LimitsAssumption, NEW p \in Passed
  PROVE  /\ Aged(p) \in Passed /\ Aged(p).ip = p.ip /\ Aged(p).nr = p.nr
         /\ Aged(p).age = IF p.age < Window THEN p.age + 1 ELSE Window
  <1>1. p.age \in 0 .. Window /\ Window \in Nat
    BY DEF Passed, L!LimitsAssumption
  <1>2. L!Min({Window, p.age + 1}) = IF p.age < Window THEN p.age + 1 ELSE Window
    BY <1>1, Smaller
  <1>3. PICK m \in 0 .. Window : m = L!Min({Window, p.age + 1})
    BY <1>1, <1>2
  <1>4. Aged(p) = [p EXCEPT !.age = m]
    BY <1>3 DEF Aged
  <1> QED BY <1>2, <1>3, <1>4 DEF Passed

\* As many requests as before, each a tick older.
LEMMA AgedCount ==
  ASSUME L!LimitsAssumption, NEW S \in SUBSET Passed, IsFiniteSet(S),
         \A p, q \in S : p.nr = q.nr => p = q
  PROVE  /\ IsFiniteSet({Aged(p) : p \in S})
         /\ Cardinality({Aged(p) : p \in S}) = Cardinality(S)
  <1> DEFINE T == {Aged(p) : p \in S}
  <1> DEFINE f == [p \in S |-> Aged(p)]
  <1>1. f \in Surjection(S, T)
    BY DEF Surjection
  <1>2. \A p, q \in S : Aged(p) = Aged(q) => p = q
    <2>1. \A p \in S : Aged(p).nr = p.nr
      BY AgedOne
    <2> QED BY <2>1
  <1>3. f \in Injection(S, T)
    BY <1>1, <1>2 DEF Surjection, Injection, IsInjective
  <1> QED BY <1>1, <1>3, FS_Surjection

\* Whose count a request adds to: its own address's, or the proxy's.
LEMMA WhoIsCounted ==
  ASSUME L!LimitsAssumption, NEW c, NEW forged,
         forged = <<>> \/ \E x : forged = <<x>>
  PROVE  L!ClientIp(forged \o <<c>> \o [i \in 1 .. Hops - 1 |-> Proxy]) \in {c, Proxy}
  <1>1. PICK n \in Nat : n = Hops - 1 /\ Hops = n + 1
    BY DEF L!LimitsAssumption
  <1>2. PICK tail : tail = [i \in 1 .. n |-> Proxy]
    OBVIOUS
  <1>3. PICK any : any = {c, Proxy} \cup {forged[i] : i \in DOMAIN forged}
    OBVIOUS
  <1>4. tail \in Seq(any) /\ Len(tail) = n
    BY <1>2, <1>3
  <1>5. <<c>> \in Seq(any) /\ forged \in Seq(any) /\ Len(<<c>>) = 1
    <2>1. CASE forged = <<>>
      BY <1>3, <2>1
    <2>2. CASE forged # <<>>
      <3>1. PICK x : forged = <<x>>
        BY <2>2
      <3>2. x \in any
        BY <1>3, <3>1
      <3> QED BY <1>3, <3>1, <3>2
    <2> QED BY <2>1, <2>2
  <1>6. PICK head : head = forged \o <<c>> 
    OBVIOUS
  <1>61. PICK m \in Nat : m = Len(forged)
    BY <1>5
  <1>7. head \in Seq(any) /\ Len(head) = m + 1 /\ head[m + 1] = c
    BY <1>5, <1>6, <1>61
  <1>8. PICK chain : chain = head \o tail
    OBVIOUS
  <1>9. Len(chain) = m + 1 + n /\ chain[m + 1] = c
    <2>1. Len(chain) = Len(head) + Len(tail)
      BY <1>4, <1>7, <1>8, ConcatProperties
    <2>2. chain[m + 1] = head[m + 1]
      <3>1. m + 1 \in 1 .. Len(head) + Len(tail) /\ m + 1 <= Len(head)
        BY <1>4, <1>7
      <3> QED BY <1>4, <1>7, <1>8, <3>1, ConcatProperties
    <2> QED BY <1>4, <1>7, <2>1, <2>2
  <1>10. ~(Len(chain) < Hops) /\ Len(chain) - Hops + 1 = m + 1
    BY <1>1, <1>9
  <1>11. chain = forged \o <<c>> \o [i \in 1 .. Hops - 1 |-> Proxy]
    BY <1>1, <1>2, <1>6, <1>8
  <1>12. L!ClientIp(chain) \in {c, Proxy}
    BY <1>9, <1>10 DEF L!ClientIp
  <1> QED BY <1>11, <1>12

LEMMA Finite ==
  ASSUME Numbered, NEW S, S \subseteq lPassed
  PROVE  IsFiniteSet(S) /\ Cardinality(S) \in Nat /\ S \subseteq Passed
         /\ \A p, q \in S : p.nr = q.nr => p = q
  <1>1. IsFiniteSet(S)
    BY FS_Subset DEF Numbered
  <1> QED BY <1>1, FS_CardinalityType DEF Numbered

\* An address that is not counted.
LEMMA OtherWindow ==
  ASSUME NEW a \in L!Addresses, WindowOK(a), lWin'[a] = lWin[a],
         \A p : p.ip = a => (p \in lPassed' <=> p \in lPassed),
         lAsked \in Nat, lAsked' \in Nat, lAsked <= lAsked', lWin[a].n \in Nat
  PROVE  WindowOK(a)'
  <1>1. Mine(a)' = Mine(a)
    BY DEF Mine
  <1>2. Earlier(a)' = Earlier(a)
    BY DEF Earlier
  <1>3. lWin'[a].n <= lAsked'
    BY DEF WindowOK
  <1>4. lWin'[a].left = 0 => \A p \in lPassed' : p.ip = a => p.age > 0
    BY DEF WindowOK
  <1>5. Cardinality(Mine(a)') = IF lWin'[a].n <= WindowMax THEN lWin'[a].n ELSE WindowMax
    BY <1>1 DEF WindowOK
  <1>6. Cardinality(Earlier(a)') <= WindowMax
    BY <1>2 DEF WindowOK
  <1>7. lWin'[a] = L!NoWindow \/ (lWin'[a].n > 0 /\ lWin'[a].left > 0)
    BY DEF WindowOK
  <1> QED BY <1>3, <1>4, <1>5, <1>6, <1>7 DEF WindowOK

LEMMA WindowFacts ==
  ASSUME L!LimitsAssumption, WindowsInv, NEW a \in L!Addresses
  PROVE  /\ lWin[a] \in [n : Nat, left : 0 .. Window] /\ WindowOK(a)
         /\ IsFiniteSet(Mine(a)) /\ IsFiniteSet(Earlier(a))
         /\ Cardinality(Mine(a)) \in Nat /\ Cardinality(Earlier(a)) \in Nat
         /\ Mine(a) \subseteq Passed /\ Earlier(a) \subseteq Passed
         /\ Window \in Nat /\ WindowMax \in Nat /\ Window > 0 /\ WindowMax > 0
  <1>1. Mine(a) \subseteq lPassed /\ Earlier(a) \subseteq lPassed
    BY DEF Mine, Earlier
  <1>2. Numbered /\ WindowOK(a) /\ lWin[a] \in [n : Nat, left : 0 .. Window]
    BY DEF WindowsInv
  <1>3. /\ IsFiniteSet(Mine(a)) /\ Cardinality(Mine(a)) \in Nat /\ Mine(a) \subseteq Passed
        /\ IsFiniteSet(Earlier(a)) /\ Cardinality(Earlier(a)) \in Nat /\ Earlier(a) \subseteq Passed
    BY <1>1, <1>2, Finite
  <1> QED BY <1>2, <1>3 DEF L!LimitsAssumption

\* A request of a full window is refused, after that many were let in.
LEMMA RefusedFull ==
  ASSUME L!LimitsAssumption, WindowsInv, NEW a \in L!Addresses, lAsked \in Nat,
         lWin[a].n + 1 > WindowMax, lPassed' = lPassed, lAsked' = lAsked + 1,
         lWin'[a] = L!Counted(lWin[a])
  PROVE  /\ WindowOK(a)'
         /\ ~(Cardinality({p \in lPassed : p.ip = a /\ p.age < Window}) < WindowMax)
  <1> DEFINE R == {p \in lPassed : p.ip = a /\ p.age < Window}
  <1>1. PICK n, left : n = lWin[a].n /\ left = lWin[a].left /\ n \in Nat /\ left \in 0 .. Window
    BY WindowFacts
  <1>2. n >= WindowMax /\ n > 0 /\ left > 0 /\ n <= lAsked
    BY <1>1, WindowFacts DEF WindowOK, L!NoWindow
  <1>3. lWin'[a].n = n + 1 /\ lWin'[a].left = left
    BY <1>1, <1>2, WindowFacts DEF L!Counted
  <1>4. Mine(a)' = Mine(a)
    BY <1>1, <1>3 DEF Mine
  <1>5. Earlier(a)' = Earlier(a)
    BY <1>1, <1>3 DEF Earlier
  <1>6. Cardinality(Mine(a)) = WindowMax
    BY <1>1, <1>2, WindowFacts DEF WindowOK
  <1>7. Mine(a) \subseteq R
    <2>1. ASSUME NEW p \in Mine(a) PROVE p.age < Window
      <3>0. p \in Passed
        BY WindowFacts
      <3>1. p.age \in Int /\ p.age + left <= Window
        BY <1>1, <3>0 DEF Mine, Passed
      <3> QED BY <1>1, <1>2, <3>1, WindowFacts
    <2> QED BY <2>1 DEF Mine
  <1>8. Cardinality(Mine(a)) <= Cardinality(R) /\ Cardinality(R) \in Nat
    <2>1. IsFiniteSet(R) /\ Cardinality(R) \in Nat
      BY Finite DEF WindowsInv
    <2> QED BY <1>7, <2>1, FS_Subset
  <1>9. WindowOK(a)'
    <2>1. Cardinality(Mine(a)') = IF lWin'[a].n <= WindowMax THEN lWin'[a].n ELSE WindowMax
      <3>1. Cardinality(Mine(a)') = WindowMax
        BY <1>4, <1>6
      <3>2. lWin'[a].n <= WindowMax => FALSE
        BY <1>1, <1>2, <1>3, WindowFacts
      <3> QED BY <3>1, <3>2
    <2>2. Cardinality(Earlier(a)') <= WindowMax
      BY <1>5, WindowFacts DEF WindowOK
    <2>3. lWin'[a].n <= lAsked' /\ lWin'[a].n > 0 /\ lWin'[a].left > 0
      BY <1>1, <1>2, <1>3
    <2> QED BY <2>1, <2>2, <2>3 DEF WindowOK
  <1> QED BY <1>6, <1>8, <1>9, WindowFacts

\* A request that is let in.
LEMMA LetIn ==
  ASSUME L!LimitsAssumption, WindowsInv, NEW a \in L!Addresses, lAsked \in Nat,
         lWin[a].n + 1 <= WindowMax, lAsked' = lAsked + 1, lWin'[a] = L!Counted(lWin[a]),
         lPassed' = lPassed \cup {[ip |-> a, nr |-> lAsked, age |-> 0]}
  PROVE  WindowOK(a)'
  <1>1. PICK n, left : n = lWin[a].n /\ left = lWin[a].left /\ n \in Nat /\ left \in 0 .. Window
    BY WindowFacts
  <1>2. PICK new : new = [ip |-> a, nr |-> lAsked, age |-> 0]
    OBVIOUS
  <1>3. new.ip = a /\ new.age = 0 /\ new \notin lPassed
    BY <1>2 DEF WindowsInv, Numbered
  <1>4. n <= lAsked /\ (lWin[a] = L!NoWindow \/ (n > 0 /\ left > 0))
    BY <1>1, WindowFacts DEF WindowOK
  <1>5. n = 0 => left = 0 /\ Mine(a) = {}
    BY <1>1, <1>4 DEF L!NoWindow, Mine
  <1>6. PICK then : then = (IF n = 0 THEN Window ELSE left) /\ then \in 1 .. Window
    BY <1>1, <1>4, WindowFacts DEF L!NoWindow
  <1>7. lWin'[a].n = n + 1 /\ lWin'[a].left = then
    BY <1>1, <1>6 DEF L!Counted
  <1>8. lPassed \subseteq Passed
    BY DEF WindowsInv, Numbered
  <1>9. n = 0 => \A p \in lPassed : p.ip = a => p.age > 0
    BY <1>1, <1>5, WindowFacts DEF WindowOK
  <1>10. Mine(a)' = Mine(a) \cup {new}
    <2>1. new \in Mine(a)'
      BY <1>2, <1>3, <1>6, <1>7, WindowFacts DEF Mine
    <2>2. ASSUME NEW p \in lPassed
          PROVE  p \in Mine(a)' <=> p \in Mine(a)
      <3>1. p.age \in 0 .. Window
        BY <1>8, <2>2 DEF Passed
      <3>2. CASE n = 0
        BY <1>5, <1>6, <1>7, <1>9, <3>1, <3>2 DEF Mine
      <3>3. CASE n # 0
        BY <1>1, <1>2, <1>6, <1>7, <3>3 DEF Mine
      <3> QED BY <3>2, <3>3
    <2> QED BY <1>2, <2>1, <2>2 DEF Mine
  <1>11. Earlier(a)' = Earlier(a)
    <2>1. new \notin Earlier(a)'
      <3>1. new.age < Window => new.age + then <= Window /\ then # 0
        BY <1>3, <1>6, WindowFacts
      <3> QED BY <1>3, <1>6, <1>7, <3>1 DEF Earlier
    <2>2. ASSUME NEW p \in lPassed
          PROVE  p \in Earlier(a)' <=> p \in Earlier(a)
      <3>1. p.age \in 0 .. Window
        BY <1>8, <2>2 DEF Passed
      <3>2. CASE n = 0
        <4>1. p.ip = a => p.age > 0
          BY <1>9, <3>2
        <4>2. then = Window /\ left = 0
          BY <1>5, <1>6, <3>2
        <4>3. p.age > 0 => p.age + then > Window
          BY <3>1, <4>2, WindowFacts
        <4> QED BY <1>1, <1>2, <1>7, <4>1, <4>2, <4>3 DEF Earlier
      <3>3. CASE n # 0
        BY <1>1, <1>2, <1>6, <1>7, <3>3 DEF Earlier
      <3> QED BY <3>2, <3>3
    <2> QED BY <1>2, <2>1, <2>2 DEF Earlier
  <1>12. Cardinality(Mine(a)) = n
    BY <1>1, WindowFacts DEF WindowOK
  <1>13. Cardinality(Mine(a)') = n + 1
    <2>1. new \notin Mine(a)
      BY <1>3 DEF Mine
    <2> QED BY <1>10, <1>12, <2>1, FS_AddElement, WindowFacts
  <1>14. Cardinality(Mine(a)') = IF lWin'[a].n <= WindowMax THEN lWin'[a].n ELSE WindowMax
    BY <1>1, <1>7, <1>13
  <1>15. Cardinality(Earlier(a)') <= WindowMax
    BY <1>11, WindowFacts DEF WindowOK
  <1>16. lWin'[a].n <= lAsked' /\ lWin'[a].n > 0 /\ lWin'[a].left > 0 /\ ~(lWin'[a].left = 0)
    BY <1>1, <1>4, <1>6, <1>7
  <1> QED BY <1>14, <1>15, <1>16 DEF WindowOK

LEMMA AgedBound ==
  ASSUME L!LimitsAssumption, Numbered, NEW S, S \subseteq lPassed,
         NEW T, T \subseteq {Aged(p) : p \in S}
  PROVE  /\ Cardinality(T) <= Cardinality(S) /\ Cardinality(T) \in Nat /\ Cardinality(S) \in Nat
         /\ T = {Aged(p) : p \in S} => Cardinality(T) = Cardinality(S)
  <1> DEFINE A == {Aged(p) : p \in S}
  <1>1. IsFiniteSet(S) /\ S \in SUBSET Passed /\ Cardinality(S) \in Nat
        /\ \A p, q \in S : p.nr = q.nr => p = q
    BY Finite
  <1>2. IsFiniteSet(A) /\ Cardinality(A) = Cardinality(S)
    BY <1>1, AgedCount
  <1>3. IsFiniteSet(T) /\ Cardinality(T) <= Cardinality(A)
    BY <1>2, FS_Subset
  <1> QED BY <1>1, <1>2, <1>3, FS_CardinalityType

\* What a tick does to an address.
LEMMA TickWindow ==
  ASSUME L!LimitsAssumption, WindowsInv, NEW a \in L!Addresses, UNCHANGED lAsked,
         lPassed' = {Aged(p) : p \in lPassed},
         lWin'[a] = IF lWin[a].left <= 1 THEN L!NoWindow ELSE [lWin[a] EXCEPT !.left = @ - 1],
         lAsked \in Nat
  PROVE  WindowOK(a)'
  <1>1. PICK n, left : n = lWin[a].n /\ left = lWin[a].left /\ n \in Nat /\ left \in 0 .. Window
    BY WindowFacts
  <1>2. Numbered /\ Window \in Nat /\ Window > 0 /\ WindowMax \in Nat /\ lPassed \subseteq Passed
    BY DEF WindowsInv, L!LimitsAssumption, Numbered
  <1>3. \A p \in lPassed : /\ Aged(p).ip = p.ip /\ p.age \in 0 .. Window
                           /\ Aged(p).age = IF p.age < Window THEN p.age + 1 ELSE Window
    BY <1>2, AgedOne DEF Passed
  <1>4. Mine(a) \subseteq lPassed /\ Earlier(a) \subseteq lPassed
    BY DEF Mine, Earlier
  <1>5. CASE left >= 2
    <2>1. lWin'[a].n = n /\ lWin'[a].left = left - 1 /\ ~(lWin'[a].left = 0) /\ lWin'[a].left > 0
      BY <1>1, <1>5
    <2>2. Mine(a)' = {Aged(p) : p \in Mine(a)}
      <3>1. ASSUME NEW p \in lPassed
            PROVE  /\ Aged(p).ip = a /\ Aged(p).age + (left - 1) <= Window
                      <=> p.ip = a /\ p.age + left <= Window
        BY <1>1, <1>2, <1>3, <1>5, <3>1
      <3>2. Mine(a)' = {q \in lPassed' : q.ip = a /\ q.age + (left - 1) <= Window}
        BY <1>1, <1>5, <2>1 DEF Mine
      <3>3. Mine(a) = {p \in lPassed : p.ip = a /\ p.age + left <= Window}
        BY <1>1, <1>5 DEF Mine
      <3> QED BY <3>1, <3>2, <3>3
    <2>3. Earlier(a)' \subseteq {Aged(p) : p \in Earlier(a)}
      <3>1. ASSUME NEW p \in lPassed, Aged(p).ip = a, Aged(p).age < Window,
                   Aged(p).age + (left - 1) > Window
            PROVE  p \in Earlier(a)
        BY <1>1, <1>2, <1>3, <1>5, <3>1 DEF Earlier
      <3>2. Earlier(a)' = {q \in lPassed' : q.ip = a /\ q.age < Window /\ q.age + (left - 1) > Window}
        BY <1>1, <1>5, <2>1 DEF Earlier
      <3> QED BY <3>1, <3>2
    <2>4. Cardinality(Mine(a)') = Cardinality(Mine(a))
      BY <1>2, <1>4, <2>2, AgedBound
    <2>5. Cardinality(Earlier(a)') <= Cardinality(Earlier(a)) /\ Cardinality(Earlier(a)') \in Nat
      BY <1>2, <1>4, <2>3, AgedBound
    <2>6. Cardinality(Earlier(a)') <= WindowMax
      BY <1>2, <2>5, WindowFacts DEF WindowOK
    <2>7. n > 0 /\ n <= lAsked /\ Cardinality(Mine(a)) = IF n <= WindowMax THEN n ELSE WindowMax
      BY <1>1, <1>5, WindowFacts DEF WindowOK, L!NoWindow
    <2> QED BY <2>1, <2>4, <2>6, <2>7 DEF WindowOK
  <1>6. CASE left < 2
    <2>1. lWin'[a] = L!NoWindow /\ lWin'[a].n = 0 /\ lWin'[a].left = 0
      BY <1>1, <1>6 DEF L!NoWindow
    <2>2. Mine(a)' = {}
      BY <2>1 DEF Mine
    <2>3. PICK S : S = (IF left = 1 THEN Mine(a) ELSE Earlier(a)) /\ S \subseteq lPassed
      BY <1>4
    <2>4. Earlier(a)' \subseteq {Aged(p) : p \in S}
      <3>1. ASSUME NEW p \in lPassed, Aged(p).ip = a, Aged(p).age < Window
            PROVE  p \in S
        <4>1. p.ip = a /\ p.age + 1 < Window /\ p.age \in Nat
          BY <1>2, <1>3, <3>1
        <4>2. CASE left = 1
          BY <1>1, <1>2, <2>3, <4>1, <4>2 DEF Mine
        <4>3. CASE left = 0
          BY <1>1, <1>2, <2>3, <4>1, <4>3 DEF Earlier
        <4> QED BY <1>1, <1>6, <4>2, <4>3
      <3>2. Earlier(a)' = {q \in lPassed' : q.ip = a /\ q.age < Window}
        BY <2>1 DEF Earlier
      <3> QED BY <3>1, <3>2
    <2>5. Cardinality(Earlier(a)') <= Cardinality(S) /\ Cardinality(Earlier(a)') \in Nat
          /\ Cardinality(S) \in Nat
      BY <1>2, <2>3, <2>4, AgedBound
    <2>6. Cardinality(S) <= WindowMax
      <3>1. Cardinality(Mine(a)) <= WindowMax
        BY <1>1, <1>2, WindowFacts DEF WindowOK
      <3>2. Cardinality(Earlier(a)) <= WindowMax
        BY WindowFacts DEF WindowOK
      <3> QED BY <2>3, <3>1, <3>2
    <2>7. Cardinality(Earlier(a)') <= WindowMax
      BY <1>2, <2>5, <2>6
    <2>8. \A q \in lPassed' : q.age > 0
      BY <1>2, <1>3
    <2>9. Cardinality(Mine(a)') = 0
      BY <2>2, FS_EmptySet
    <2> QED BY <1>2, <2>1, <2>7, <2>8, <2>9 DEF WindowOK
  <1> QED BY <1>1, <1>5, <1>6

LEMMA TickWindows ==
  ASSUME L!LimitsAssumption, WindowsInv, lAsked \in Nat, L!Tick
  PROVE  WindowsInv'
  <1>1. /\ UNCHANGED lAsked /\ UNCHANGED lOdd /\ lPassed' = {Aged(p) : p \in lPassed}
        /\ lWin' = [a \in L!Addresses |-> IF lWin[a].left <= 1 THEN L!NoWindow
                                        ELSE [lWin[a] EXCEPT !.left = @ - 1]]
    BY DEF L!Tick, Aged
  <1>2. Numbered /\ lPassed \in SUBSET Passed /\ Window \in Nat
    BY DEF WindowsInv, Numbered, L!LimitsAssumption
  <1>3. Numbered'
    <2>1. \A p \in lPassed : Aged(p) \in Passed /\ Aged(p).nr = p.nr
      BY <1>2, AgedOne
    <2>2. IsFiniteSet(lPassed')
      BY <1>1, <1>2, AgedCount DEF Numbered
    <2> QED BY <1>1, <1>2, <2>1, <2>2 DEF Numbered
  <1>4. lWin' \in [L!Addresses -> [n : Nat, left : 0 .. Window]]
    BY <1>1, <1>2, WindowFacts DEF L!NoWindow
  <1>5. ASSUME NEW a \in L!Addresses PROVE WindowOK(a)'
    <2>1. lWin'[a] = IF lWin[a].left <= 1 THEN L!NoWindow ELSE [lWin[a] EXCEPT !.left = @ - 1]
      BY <1>1
    <2> QED BY <1>1, <2>1, TickWindow
  <1>6. lOdd' = {}
    BY <1>1 DEF WindowsInv
  <1> QED BY <1>3, <1>4, <1>5, <1>6 DEF WindowsInv

LEMMA RequestWindows ==
  ASSUME L!LimitsAssumption, WindowsInv, lAsked \in Nat, NEW c \in Clients, NEW forged,
         forged = <<>> \/ (\E x : forged = <<x>>), L!Request(c, forged)
  PROVE  WindowsInv'
  <1>1. PICK ip : ip = L!ClientIp(forged \o <<c>> \o [i \in 1 .. Hops - 1 |-> Proxy])
                  /\ ip \in {c, Proxy}
    BY WhoIsCounted
  <1>2. PICK win : win = L!Counted(lWin[ip])
    OBVIOUS
  <1>3. ip \in L!Addresses
    BY <1>1 DEF L!Addresses
  <1>4. lWin[ip] \in [n : Nat, left : 0 .. Window] /\ Window \in Nat
    BY <1>3, WindowFacts
  <1>5. win \in [n : Nat, left : 0 .. Window] /\ win.n = lWin[ip].n + 1
    BY <1>2, <1>4 DEF L!Counted
  <1>6. lWin' = [lWin EXCEPT ![ip] = win] /\ lAsked' = lAsked + 1
    BY <1>1, <1>2, Zenon DEF L!Request
  <1>7. lWin' \in [L!Addresses -> [n : Nat, left : 0 .. Window]] /\ lWin'[ip] = win
        /\ \A a \in L!Addresses \ {ip} : lWin'[a] = lWin[a]
    BY <1>3, <1>5, <1>6 DEF WindowsInv
  <1>8. CASE win.n > WindowMax
    <2>1. lPassed' = lPassed
          /\ lOdd' = IF Cardinality({p \in lPassed : p.ip = ip /\ p.age < Window}) < WindowMax
                     THEN lOdd \cup {"refused"} ELSE lOdd
      BY <1>1, <1>2, <1>8, SameCardinality, Zenon DEF L!Request
    <2>2. WindowOK(ip)' /\ ~(Cardinality({p \in lPassed : p.ip = ip /\ p.age < Window}) < WindowMax)
      BY <1>2, <1>3, <1>5, <1>6, <1>7, <1>8, <2>1, RefusedFull
    <2>3. lOdd' = {}
      BY <2>1, <2>2 DEF WindowsInv
    <2>4. ASSUME NEW a \in L!Addresses \ {ip} PROVE WindowOK(a)'
      <3>1. lWin'[a] = lWin[a] /\ lWin[a].n \in Nat /\ WindowOK(a) /\ lAsked <= lAsked' /\ lAsked' \in Nat
        BY <1>6, <1>7, WindowFacts
      <3> QED BY <2>1, <3>1, OtherWindow
    <2>5. Numbered'
      <3>1. \A p \in lPassed : p.nr \in Nat /\ p.nr < lAsked
        BY DEF WindowsInv, Numbered, Passed
      <3>2. \A p \in lPassed : p.nr < lAsked'
        BY <1>6, <3>1
      <3> QED BY <2>1, <3>2 DEF WindowsInv, Numbered
    <2> QED BY <1>7, <2>2, <2>3, <2>4, <2>5 DEF WindowsInv
  <1>9. CASE ~(win.n > WindowMax)
    <2>1. PICK new : new = [ip |-> ip, nr |-> lAsked, age |-> 0]
      OBVIOUS
    <2>2. lPassed' = lPassed \cup {new}
      BY <1>1, <1>2, <1>9, <2>1, Zenon DEF L!Request
    <2>3. lOdd' = IF ip \notin {c, Proxy} THEN lOdd \cup {"counted"} ELSE lOdd
      BY <1>1, <1>2, <1>9, Zenon DEF L!Request
    <2>4. lOdd' = {}
      BY <1>1, <2>3 DEF WindowsInv
    <2>5. WindowOK(ip)'
      <3>1. lWin[ip].n + 1 <= WindowMax
        BY <1>4, <1>5, <1>9 DEF L!LimitsAssumption
      <3> QED BY <1>2, <1>3, <1>6, <1>7, <2>1, <2>2, <3>1, LetIn
    <2>6. ASSUME NEW a \in L!Addresses \ {ip} PROVE WindowOK(a)'
      <3>1. lWin'[a] = lWin[a] /\ lWin[a].n \in Nat /\ WindowOK(a) /\ lAsked <= lAsked' /\ lAsked' \in Nat
        BY <1>6, <1>7, WindowFacts
      <3>2. \A p : p.ip = a => (p \in lPassed' <=> p \in lPassed)
        BY <2>1, <2>2, <2>6
      <3> QED BY <3>1, <3>2, OtherWindow
    <2>7. Numbered'
      <3>1. IsFiniteSet(lPassed')
        BY <2>2, FS_AddElement DEF WindowsInv, Numbered
      <3>2. new \in Passed /\ new.nr = lAsked
        BY <1>3, <1>4, <2>1 DEF Passed
      <3>3. \A p \in lPassed : p.nr \in Nat /\ p.nr < lAsked
        BY DEF WindowsInv, Numbered, Passed
      <3> QED BY <1>6, <2>2, <3>1, <3>2, <3>3 DEF WindowsInv, Numbered
    <2> QED BY <1>7, <2>4, <2>5, <2>6, <2>7 DEF WindowsInv
  <1> QED BY <1>8, <1>9

LEMMA QuietWindows ==
  ASSUME WindowsInv, UNCHANGED lWin, UNCHANGED lPassed, UNCHANGED lOdd,
         lAsked \in Nat, lAsked' \in Nat, lAsked <= lAsked'
  PROVE  WindowsInv'
  <1>1. ASSUME NEW a \in L!Addresses PROVE WindowOK(a)'
    <2>1. lWin'[a] = lWin[a] /\ lWin[a].n \in Nat /\ WindowOK(a)
      BY DEF WindowsInv
    <2> QED BY <2>1, OtherWindow
  <1>2. Numbered'
    <2>1. \A p \in lPassed : p.nr \in Nat /\ p.nr < lAsked
      BY DEF WindowsInv, Numbered, Passed
    <2>2. \A p \in lPassed : p.nr < lAsked'
      BY <2>1
    <2> QED BY <2>2 DEF WindowsInv, Numbered
  <1> QED BY <1>1, <1>2 DEF WindowsInv

-----------------------------------------------------------------------------
LEMMA BucketFacts ==
  ASSUME L!LimitsAssumption, BucketInv
  PROVE  /\ lBucket.made \in BOOLEAN /\ lBucket.tokens \in 0 .. Burst /\ lBucket.at \in 0 .. MaxClock
         /\ lBucket.refused \in Nat /\ lBucket.told \in Nat
         /\ Burst \in Nat /\ Burst > 0 /\ Rate \in Nat /\ WarnEvery \in Nat /\ WarnEvery > 0
         /\ MaxClock \in Nat
         /\ \A e \in lTook : /\ e.nr \in Nat /\ e.at \in Nat
                             /\ IsFiniteSet(Since(e)) /\ Cardinality(Since(e)) \in Nat
  <1>1. \A e \in lTook : Since(e) \in SUBSET lTook
    BY DEF Since
  <1>2. \A e \in lTook : IsFiniteSet(Since(e)) /\ Cardinality(Since(e)) \in Nat
    BY <1>1, FS_Subset, FS_CardinalityType DEF BucketInv
  <1> QED BY <1>2 DEF BucketInv, L!LimitsAssumption

\* Tokens come at the rate, up to the burst, and only while the clock goes on.
LEMMA RefillBounds ==
  ASSUME L!LimitsAssumption, lClock \in 0 .. MaxClock, NEW b,
         b \in [made : BOOLEAN, tokens : 0 .. Burst, at : 0 .. MaxClock, refused : Nat, told : Nat]
  PROVE  /\ L!Refilled(b) \in [made : BOOLEAN, tokens : 0 .. Burst, at : 0 .. MaxClock,
                             refused : Nat, told : Nat]
         /\ L!Refilled(b).made = b.made /\ L!Refilled(b).refused = b.refused /\ L!Refilled(b).told = b.told
         /\ b.at <= L!Refilled(b).at
         /\ L!Refilled(b).tokens <= b.tokens + Rate * (L!Refilled(b).at - b.at)
  <1>1. /\ b.tokens \in 0 .. Burst /\ b.at \in 0 .. MaxClock /\ Burst \in Nat /\ Rate \in Nat
        /\ MaxClock \in Nat
    BY DEF L!LimitsAssumption
  <1>2. CASE lClock > b.at
    <2>1. PICK gain \in Nat : gain = (lClock - b.at) * Rate /\ gain = Rate * (lClock - b.at)
      <3>1. PICK d \in Nat : d = lClock - b.at
        BY <1>1, <1>2
      <3> QED BY <1>1, <3>1
    <2>2. PICK t : t = L!Min({Burst, b.tokens + gain})
      OBVIOUS
    <2>3. t \in 0 .. Burst /\ t <= b.tokens + gain
      BY <1>1, <2>1, <2>2, Smaller
    <2>4. L!Refilled(b) = [b EXCEPT !.tokens = t, !.at = lClock]
      BY <1>2, <2>1, <2>2 DEF L!Refilled
    <2>5. /\ L!Refilled(b).tokens = t /\ L!Refilled(b).at = lClock
          /\ L!Refilled(b).made = b.made /\ L!Refilled(b).refused = b.refused
          /\ L!Refilled(b).told = b.told
      BY <2>4
    <2>6. L!Refilled(b) \in [made : BOOLEAN, tokens : 0 .. Burst, at : 0 .. MaxClock,
                          refused : Nat, told : Nat]
      BY <2>3, <2>4
    <2> QED BY <1>1, <1>2, <2>1, <2>3, <2>5, <2>6
  <1>3. CASE ~(lClock > b.at)
    <2>1. L!Refilled(b) = b
      BY <1>3 DEF L!Refilled
    <2>2. b.at - b.at = 0 /\ Rate * 0 = 0
      BY <1>1
    <2> QED BY <1>1, <2>1, <2>2
  <1> QED BY <1>2, <1>3

\* Of WarnEvery refusals one is told.
LEMMA ToldRarely ==
  ASSUME NEW w \in Nat \ {0}, NEW told \in Nat, NEW refused \in Nat,
         (told - 1) * w < refused
  PROVE  /\ (told - 1) * w < refused + 1
         /\ refused % w = 0 => told * w < refused + 1
  <1>1. (told - 1) * w \in Int
    OBVIOUS
  <1>2. ASSUME refused % w = 0 PROVE told * w < refused + 1
    <2>1. PICK k \in Nat : refused = k * w
      <3>1. refused = w * (refused \div w) + (refused % w) /\ refused \div w \in Nat
        OBVIOUS
      <3>2. PICK k \in Nat : k = refused \div w
        BY <3>1
      <3>3. refused = k * w
        BY <1>2, <3>1, <3>2
      <3> QED BY <3>3
    <2>2. told - 1 < k
      <3>1. SUFFICES ASSUME told - 1 >= k PROVE FALSE
        OBVIOUS
      <3>2. PICK d \in Nat : told - 1 = k + d
        BY <3>1
      <3>3. (told - 1) * w = k * w + d * w
        BY <3>2
      <3>4. d * w \in Nat
        OBVIOUS
      <3> QED BY <2>1, <3>3, <3>4
    <2>3. PICK d \in Nat : k = told + d
      BY <2>2
    <2>4. k * w = told * w + d * w /\ d * w \in Nat /\ told * w \in Nat
      BY <2>3
    <2> QED BY <2>1, <2>4
  <1> QED BY <1>1, <1>2

LEMMA EventBucket ==
  ASSUME L!LimitsAssumption, BucketInv, lClock \in 0 .. MaxClock, lAsked \in Nat, L!Event
  PROVE  BucketInv'
  <1> DEFINE Bucket == [made : BOOLEAN, tokens : 0 .. Burst, at : 0 .. MaxClock,
                        refused : Nat, told : Nat]
  <1>0. lBucket \in Bucket /\ lAsked' = lAsked + 1
    BY DEF BucketInv, L!Event
  <1>1. PICK made : made = IF lBucket.made THEN lBucket
                           ELSE [lBucket EXCEPT !.made = TRUE, !.tokens = Burst, !.at = lClock]
    OBVIOUS
  <1>2. made \in Bucket /\ made.made = TRUE /\ made.refused = lBucket.refused /\ made.told = lBucket.told
    <2>1. CASE lBucket.made
      BY <1>0, <1>1, <2>1
    <2>2. CASE ~lBucket.made
      <3>1. made = [lBucket EXCEPT !.made = TRUE, !.tokens = Burst, !.at = lClock]
        BY <1>1, <2>2
      <3>2. Burst \in 0 .. Burst
        BY BucketFacts
      <3> QED BY <1>0, <3>1, <3>2
    <2> QED BY <2>1, <2>2
  <1>3. lTook # {} => made = lBucket
    BY <1>1 DEF BucketInv
  <1>4. PICK b : b = L!Refilled(made)
    OBVIOUS
  <1>5. /\ b \in Bucket /\ b.made = TRUE /\ b.refused = lBucket.refused /\ b.told = lBucket.told
        /\ made.at <= b.at /\ b.tokens <= made.tokens + Rate * (b.at - made.at)
    BY <1>2, <1>4, RefillBounds
  <1>6. \A e \in lTook :
          /\ e.at <= b.at
          /\ Cardinality(Since(e)) + b.tokens <= Burst + Rate * (b.at - e.at)
    <2>1. TAKE e \in lTook
    <2>2. PICK now, was, at, n, t, u :
            /\ now = b.at /\ was = lBucket.at /\ at = e.at /\ n = Cardinality(Since(e))
            /\ t = lBucket.tokens /\ u = b.tokens
      OBVIOUS
    <2>3. now \in Nat /\ was \in Nat /\ at \in Nat /\ n \in Nat /\ t \in Nat /\ u \in Nat
          /\ Burst \in Nat /\ Rate \in Nat
      BY <1>5, <2>2, BucketFacts
    <2>4. at <= was /\ was <= now /\ n + t <= Burst + Rate * (was - at) /\ u <= t + Rate * (now - was)
      BY <1>3, <1>5, <2>1, <2>2 DEF BucketInv
    <2>5. Rate * (was - at) + Rate * (now - was) = Rate * (now - at)
          /\ Rate * (was - at) \in Int /\ Rate * (now - was) \in Int
      BY <2>3
    <2>6. n + u <= Burst + Rate * (now - at)
      BY <2>3, <2>4, <2>5
    <2> QED BY <2>2, <2>3, <2>4, <2>6
  <1>7. CASE b.tokens >= 1
    <2>1. PICK new : new = [nr |-> lAsked, at |-> b.at]
      OBVIOUS
    <2>2. lBucket' = [b EXCEPT !.tokens = @ - 1] /\ lTook' = lTook \cup {new}
      BY <1>1, <1>4, <1>7, <2>1, Zenon DEF L!Event
    <2>3. lBucket' \in Bucket /\ lBucket'.tokens = b.tokens - 1 /\ lBucket'.at = b.at
          /\ lBucket'.made = TRUE /\ lBucket'.refused = lBucket.refused /\ lBucket'.told = lBucket.told
      <3>1. PICK t \in 0 .. Burst : t = b.tokens - 1
        BY <1>5, <1>7, BucketFacts
      <3>2. lBucket' = [b EXCEPT !.tokens = t]
        BY <2>2, <3>1
      <3> QED BY <1>5, <3>1, <3>2
    <2>4. new \notin lTook /\ \A e \in lTook : e.nr \in Nat /\ e.nr < lAsked
      BY <2>1, BucketFacts DEF BucketInv
    <2>5. IsFiniteSet(lTook') /\ lTook' \subseteq [nr : Nat, at : Nat] /\ \A e \in lTook' : e.nr < lAsked'
      <3>1. IsFiniteSet(lTook')
        BY <2>2, FS_AddElement DEF BucketInv
      <3>2. b.at \in Nat
        BY <1>5, BucketFacts
      <3> QED BY <1>0, <2>1, <2>2, <2>4, <3>1, <3>2 DEF BucketInv
    <2>6. ASSUME NEW e \in lTook
          PROVE  Since(e)' = Since(e) \cup {new} /\ Cardinality(Since(e)') = Cardinality(Since(e)) + 1
      <3>1. Since(e)' = Since(e) \cup {new}
        BY <2>1, <2>2, <2>4, <2>6 DEF Since
      <3>2. new \notin Since(e) /\ IsFiniteSet(Since(e))
        BY <2>4, <2>6, BucketFacts DEF Since
      <3> QED BY <3>1, <3>2, FS_AddElement
    <2>7. Since(new)' = {new} /\ Cardinality(Since(new)') = 1
      <3>1. Since(new)' = {new}
        BY <2>1, <2>2, <2>4 DEF Since
      <3> QED BY <3>1, FS_Singleton
    <2>8. ASSUME NEW e \in lTook
          PROVE  /\ e.at <= lBucket'.at
                 /\ Cardinality(Since(e)') + lBucket'.tokens <= Burst + Rate * (lBucket'.at - e.at)
      <3>1. Cardinality(Since(e)) \in Nat /\ b.tokens \in Nat
        BY <1>5, <2>8, BucketFacts
      <3>2. Cardinality(Since(e)') + lBucket'.tokens = Cardinality(Since(e)) + b.tokens
        BY <2>3, <2>6, <2>8, <3>1
      <3> QED BY <1>6, <2>3, <2>8, <3>2
    <2>9. /\ new.at <= lBucket'.at
          /\ Cardinality(Since(new)') + lBucket'.tokens <= Burst + Rate * (lBucket'.at - new.at)
      <3>1. b.at \in Nat /\ b.tokens \in 0 .. Burst /\ Burst \in Nat /\ Rate \in Nat
        BY <1>5, BucketFacts
      <3>2. b.at - b.at = 0 /\ Rate * 0 = 0
        BY <3>1
      <3>3. 1 + (b.tokens - 1) <= Burst + 0
        BY <3>1
      <3> QED BY <2>1, <2>3, <2>7, <3>1, <3>2, <3>3
    <2>10. \A e \in lTook' :
             /\ e.at <= lBucket'.at
             /\ Cardinality(Since(e)') + lBucket'.tokens <= Burst + Rate * (lBucket'.at - e.at)
      BY <2>2, <2>8, <2>9
    <2>11. (lBucket'.told - 1) * WarnEvery < lBucket'.refused
      BY <2>3 DEF BucketInv
    <2> QED BY <2>3, <2>5, <2>10, <2>11 DEF BucketInv
  <1>8. CASE ~(b.tokens >= 1)
    <2>1. PICK told : told = IF b.refused % WarnEvery = 0 THEN b.told + 1 ELSE b.told
      OBVIOUS
    <2>2. lBucket' = [b EXCEPT !.refused = @ + 1, !.told = told] /\ lTook' = lTook
      BY <1>1, <1>4, <1>8, <2>1 DEF L!Event
    <2>3. told \in Nat
      BY <1>5, <2>1
    <2>4. lBucket' \in Bucket /\ lBucket'.tokens = b.tokens /\ lBucket'.at = b.at
          /\ lBucket'.made = TRUE /\ lBucket'.refused = b.refused + 1 /\ lBucket'.told = told
      <3>1. PICK n \in Nat : n = b.refused + 1
        BY <1>5
      <3>2. lBucket' = [b EXCEPT !.refused = n, !.told = told]
        BY <2>2, <3>1
      <3> QED BY <1>5, <2>3, <3>1, <3>2
    <2>5. (told - 1) * WarnEvery < b.refused + 1
      <3>1. b.refused \in Nat /\ b.told \in Nat /\ (b.told - 1) * WarnEvery < b.refused
            /\ WarnEvery \in Nat \ {0}
        BY <1>5, BucketFacts DEF BucketInv
      <3>2. /\ (b.told - 1) * WarnEvery < b.refused + 1
            /\ b.refused % WarnEvery = 0 => b.told * WarnEvery < b.refused + 1
        BY <3>1, ToldRarely
      <3>3. (b.told + 1) - 1 = b.told
        BY <3>1
      <3> QED BY <2>1, <3>2, <3>3
    <2>6. \A e \in lTook : Since(e)' = Since(e)
      BY <2>2 DEF Since
    <2>7. \A e \in lTook' : e.nr < lAsked'
      BY <1>0, <2>2, BucketFacts DEF BucketInv
    <2>8. \A e \in lTook' :
            /\ e.at <= lBucket'.at
            /\ Cardinality(Since(e)') + lBucket'.tokens <= Burst + Rate * (lBucket'.at - e.at)
      BY <1>6, <2>2, <2>4, <2>6
    <2>9. (lBucket'.told - 1) * WarnEvery < lBucket'.refused
      BY <2>4, <2>5
    <2> QED BY <2>2, <2>4, <2>7, <2>8, <2>9 DEF BucketInv
  <1> QED BY <1>7, <1>8

LEMMA QuietBucket ==
  ASSUME L!LimitsAssumption, BucketInv, UNCHANGED lBucket, UNCHANGED lTook,
         lAsked \in Nat, lAsked' \in Nat, lAsked <= lAsked'
  PROVE  BucketInv'
  <1>1. \A e \in lTook' : e.nr < lAsked'
    BY BucketFacts DEF BucketInv
  <1>2. \A e \in lTook : Since(e)' = Since(e)
    BY DEF Since
  <1> QED BY <1>1, <1>2 DEF BucketInv

-----------------------------------------------------------------------------
LEMMA LimitsStart == ASSUME L!LimitsAssumption PROVE L!Init => LimitsInv
  <1> SUFFICES ASSUME L!Init PROVE LimitsInv
    OBVIOUS
  <1>1. /\ 0 \in 0 .. MaxAsked /\ 0 \in 0 .. MaxClock /\ 0 \in 0 .. Window /\ 0 \in 0 .. Burst
        /\ WindowMax \in Nat /\ WarnEvery \in Nat /\ WarnEvery > 0
    BY DEF L!LimitsAssumption
  <1>2. lPassed = {} /\ lTook = {} /\ IsFiniteSet({}) /\ lAsked = 0 /\ lOdd = {}
    BY FS_EmptySet DEF L!Init
  <1>3. \A a \in L!Addresses : lWin[a] = L!NoWindow /\ lWin[a].n = 0 /\ lWin[a].left = 0
    BY DEF L!Init, L!NoWindow
  <1>4. lWin \in [L!Addresses -> [n : Nat, left : 0 .. Window]]
    BY <1>1 DEF L!Init, L!NoWindow
  <1>5. ASSUME NEW a \in L!Addresses PROVE WindowOK(a)
    <2>1. Mine(a) = {} /\ Earlier(a) = {} /\ Cardinality({}) = 0
      BY <1>2, FS_EmptySet DEF Mine, Earlier
    <2> QED BY <1>1, <1>2, <1>3, <2>1 DEF WindowOK
  <1>6. WindowsInv
    BY <1>2, <1>4, <1>5 DEF WindowsInv, Numbered
  <1>7. (0 - 1) * WarnEvery < 0
    BY <1>1
  <1>8. BucketInv
    BY <1>1, <1>2, <1>7 DEF BucketInv, L!Init
  <1> QED BY <1>1, <1>6, <1>8 DEF LimitsInv, L!Init

LEMMA LimitsStep == ASSUME L!LimitsAssumption PROVE LimitsInv /\ [L!Next]_L!lVars => LimitsInv'
  <1> SUFFICES ASSUME LimitsInv, [L!Next]_L!lVars PROVE LimitsInv'
    OBVIOUS
  <1>1. /\ WindowsInv /\ BucketInv /\ lAsked \in 0 .. MaxAsked /\ lClock \in 0 .. MaxClock
        /\ MaxAsked \in Nat /\ MaxClock \in Nat /\ lAsked \in Nat
    BY DEF LimitsInv, L!LimitsAssumption
  <1>2. ASSUME NEW c \in Clients, NEW forged \in {<<>>, <<Unsafe>>} \cup {<<a>> : a \in Clients},
               L!Request(c, forged)
        PROVE  LimitsInv'
    <2>1. WindowsInv'
      BY <1>1, <1>2, RequestWindows
    <2>2. lAsked' \in 0 .. MaxAsked /\ lAsked' \in Nat /\ lAsked <= lAsked' /\ lClock' = lClock
          /\ UNCHANGED lBucket /\ UNCHANGED lTook
      BY <1>1, <1>2 DEF L!Request
    <2> QED BY <1>1, <2>1, <2>2, QuietBucket DEF LimitsInv
  <1>3. CASE L!PassesUncounted \/ L!SetClock
    <2>1. lAsked' \in 0 .. MaxAsked /\ lAsked' \in Nat /\ lAsked <= lAsked' /\ lClock' \in 0 .. MaxClock
      BY <1>1, <1>3 DEF L!PassesUncounted, L!SetClock
    <2>2. UNCHANGED lWin /\ UNCHANGED lPassed /\ UNCHANGED lOdd /\ UNCHANGED lBucket /\ UNCHANGED lTook
      BY <1>3 DEF L!PassesUncounted, L!SetClock
    <2> QED BY <1>1, <2>1, <2>2, QuietWindows, QuietBucket DEF LimitsInv
  <1>4. CASE L!Tick
    <2>1. lAsked' = lAsked /\ lAsked <= lAsked' /\ lClock' \in 0 .. MaxClock
          /\ UNCHANGED lBucket /\ UNCHANGED lTook
      BY <1>1, <1>4 DEF L!Tick
    <2>2. WindowsInv'
      BY <1>1, <1>4, TickWindows
    <2> QED BY <1>1, <2>1, <2>2, QuietBucket DEF LimitsInv
  <1>5. CASE L!Event
    <2>1. lAsked' \in 0 .. MaxAsked /\ lAsked' \in Nat /\ lAsked <= lAsked' /\ lClock' = lClock
          /\ UNCHANGED lWin /\ UNCHANGED lPassed /\ UNCHANGED lOdd
      BY <1>1, <1>5 DEF L!Event
    <2>2. BucketInv'
      BY <1>1, <1>5, EventBucket
    <2> QED BY <1>1, <2>1, <2>2, QuietWindows DEF LimitsInv
  <1>6. CASE UNCHANGED L!lVars
    <2>1. lAsked' = lAsked /\ lAsked <= lAsked' /\ lClock' = lClock
          /\ UNCHANGED lWin /\ UNCHANGED lPassed /\ UNCHANGED lOdd /\ UNCHANGED lBucket /\ UNCHANGED lTook
      BY <1>1, <1>6 DEF L!lVars
    <2> QED BY <1>1, <2>1, QuietWindows, QuietBucket DEF LimitsInv
  <1> QED BY <1>2, <1>3, <1>4, <1>5, <1>6 DEF L!Next, L!Limited, L!Events

LEMMA LimitsSay == ASSUME L!LimitsAssumption PROVE LimitsInv => L!TypeOK /\ L!LimitsHold
  <1> SUFFICES ASSUME LimitsInv PROVE L!TypeOK /\ L!LimitsHold
    OBVIOUS
  <1>1. WindowsInv /\ BucketInv /\ lAsked \in 0 .. MaxAsked /\ lClock \in 0 .. MaxClock /\ lOdd = {}
        /\ MaxAsked \in Nat
    BY DEF LimitsInv, WindowsInv, L!LimitsAssumption
  <1>2. ASSUME NEW a \in L!Addresses
        PROVE  lWin[a].left \in 0 .. Window /\ lWin[a].n \in 0 .. MaxAsked
    <2>1. lWin[a] \in [n : Nat, left : 0 .. Window] /\ lWin[a].n <= lAsked
      BY <1>1, WindowFacts DEF WindowOK
    <2> QED BY <1>1, <2>1
  <1>3. L!TypeOK
    BY <1>1, <1>2 DEF L!TypeOK, BucketInv
  <1>4. ASSUME NEW a \in L!Addresses
        PROVE  Cardinality({p \in lPassed : p.ip = a /\ p.age < Window}) <= 2 * WindowMax
    <2> DEFINE R == {p \in lPassed : p.ip = a /\ p.age < Window}
    <2>0. lPassed \subseteq Passed
      BY <1>1 DEF WindowsInv, Numbered
    <2>1. R \subseteq Mine(a) \cup Earlier(a)
      <3>1. ASSUME NEW p \in R PROVE p \in Mine(a) \/ p \in Earlier(a)
        <4>1. p \in lPassed /\ p.ip = a /\ p.age < Window /\ p.age \in Nat
          BY <2>0 DEF Passed
        <4>2. lWin[a].left \in Nat /\ Window \in Nat
          BY <1>2, <1>1, WindowFacts
        <4> QED BY <4>1, <4>2 DEF Mine, Earlier
      <3> QED BY <3>1
    <2>2. /\ IsFiniteSet(Mine(a)) /\ IsFiniteSet(Earlier(a))
          /\ Cardinality(Mine(a)) \in Nat /\ Cardinality(Earlier(a)) \in Nat
          /\ Cardinality(Mine(a)) <= WindowMax /\ Cardinality(Earlier(a)) <= WindowMax
          /\ WindowMax \in Nat
      BY <1>1, WindowFacts DEF WindowOK
    <2>3. Mine(a) \cap Earlier(a) = {}
      <3>1. ASSUME NEW p \in Mine(a), p \in Earlier(a) PROVE FALSE
        <4>1. p \in lPassed /\ p.age \in Nat
          BY <2>0 DEF Passed, Mine
        <4>2. lWin[a].left \in Nat /\ Window \in Nat
          BY <1>2, <1>1, WindowFacts
        <4> QED BY <3>1, <4>1, <4>2 DEF Mine, Earlier
      <3> QED BY <3>1
    <2>4. /\ IsFiniteSet(Mine(a) \cup Earlier(a)) /\ Cardinality(Mine(a) \cap Earlier(a)) = 0
          /\ Cardinality(Mine(a) \cup Earlier(a))
               = Cardinality(Mine(a)) + Cardinality(Earlier(a)) - Cardinality(Mine(a) \cap Earlier(a))
      BY <2>2, <2>3, FS_Union, FS_EmptySet
    <2>5. Cardinality(R) <= Cardinality(Mine(a) \cup Earlier(a)) /\ IsFiniteSet(R)
      BY <2>1, <2>4, FS_Subset
    <2>6. Cardinality(R) \in Nat
      BY <2>5, FS_CardinalityType
    <2> QED BY <2>2, <2>4, <2>5, <2>6
  <1>5. ASSUME NEW e \in lTook
        PROVE  Cardinality({f \in lTook : f.nr >= e.nr}) <= Burst + Rate * (lBucket.at - e.at)
    <2>1. PICK n \in Nat : n = Cardinality({f \in lTook : f.nr >= e.nr})
      BY <1>1, BucketFacts DEF Since
    <2>2. n + lBucket.tokens <= Burst + Rate * (lBucket.at - e.at)
      BY <1>1, <2>1 DEF BucketInv, Since
    <2>3. lBucket.tokens \in Nat /\ Rate * (lBucket.at - e.at) \in Int /\ Burst \in Nat
      <3>1. lBucket.at \in Int /\ e.at \in Int /\ Rate \in Int /\ lBucket.tokens \in Nat /\ Burst \in Nat
        BY <1>1, BucketFacts
      <3> QED BY <3>1
    <2> QED BY <2>1, <2>2, <2>3
  <1>6. (lBucket.told - 1) * WarnEvery < lBucket.refused
    BY <1>1 DEF BucketInv
  <1> QED BY <1>1, <1>3, <1>4, <1>5, <1>6, SameCardinality DEF L!LimitsHold

\* However requests, ticks, failures of the store and settings of the clock alternate:
\* windows let in what they should and refuse nobody without cause.
THEOREM LimitsTrue == ASSUME L!LimitsAssumption PROVE L!Spec => [](L!TypeOK /\ L!LimitsHold)
  BY LimitsStart, LimitsStep, LimitsSay, PTL DEF L!Spec

-----------------------------------------------------------------------------
(* What runs next to whispers.  A step of the whole is one of a single           *)
(* component, or leaves that component as it is.                                 *)

\* A user is listed once and the counters are what the list says, and a response the
\* drop was too late for is not left behind (pulsedrop::join, createResponse).
THEOREM DropsSettled == MCSpec => []DropsSettle
<1>1. MCInit => D!Init
  BY DEF MCInit
<1>2. [MCNext]_vars => [D!Next]_D!dVars
  BY DEF MCNext, vars, ofDrop, D!dVars, D!drop
<1>3. D!Spec => [](D!TypeOK /\ D!CountsMatch /\ D!NoOrphans)
  BY DropsBounds, DropsTrue
<1>4. D!CountsMatch /\ D!NoOrphans => DropsSettle
  BY DEF DropsSettle
<1> QED BY <1>1, <1>2, <1>3, <1>4, PTL DEF MCSpec, D!Spec

\* Every referral is counted exactly once and a code shown to a user stays his
\* (applyCode, getMyCode).
THEOREM ReferralsSettled == MCSpec => []ReferralsSettle
<1>1. MCInit => F!Init
  BY DEF MCInit
<1>2. [MCNext]_vars => [F!Next]_F!fVars
  BY DEF MCNext, vars, ofReferral, F!fVars
<1>3. F!Spec => [](F!TypeOK /\ F!RewardsMatch /\ F!CodesLast)
  BY ReferralsBounds, ReferralsTrue
<1>4. F!RewardsMatch /\ F!CodesLast => ReferralsSettle
  BY DEF ReferralsSettle
<1> QED BY <1>1, <1>2, <1>3, <1>4, PTL DEF MCSpec, F!Spec

\* Windows and buckets let in what they should, and refuse nobody without cause
\* (incrementRateLimit, RealtimeLimiter::allow).
THEOREM LimitsKept == MCSpec => []LimitsHold
<1>1. MCInit => L!Init
  BY DEF MCInit
<1>2. [MCNext]_vars => [L!Next]_L!lVars
  BY DEF MCNext, vars, ofLimits, L!lVars, L!Next
<1>3. L!Spec => [](L!TypeOK /\ L!LimitsHold)
  BY LimitsBounds, LimitsTrue
<1>4. L!LimitsHold => LimitsHold
  BY DEF LimitsHold
<1> QED BY <1>1, <1>2, <1>3, <1>4, PTL DEF MCSpec, L!Spec

-----------------------------------------------------------------------------
(* The ranges of the variables                                                  *)

\* The reporters are finitely many users, and as many as are counted; the tallies are
\* counts; no handler tries more often than it may.
WhispersTyped ==
  /\ TypeOK /\ IsFiniteSet(wReporters)
  /\ \A r \in Requests : wReq[r].pc \in {"report", "count"} => wReq[r].user \in Users

LEMMA TallyCounts == ASSUME NEW voters PROVE Counted(voters) \in [Choices -> Nat]
<1>1. ASSUME NEW choice \in Choices PROVE Cardinality({u \in Users : voters[u] = choice}) \in Nat
  <2>1. IsFiniteSet({u \in Users : voters[u] = choice}) BY AccountsFinite, FS_Subset
  <2>. QED BY <2>1, FS_CardinalityType
<1>. QED BY <1>1 DEF Counted

LEMMA WhisperCall ==
  ASSUME WhispersTyped, NEW r \in Requests
  PROVE  /\ wReq \in [Requests -> Call] /\ wReq[r] \in Call
         /\ wReq[r].pc \in {"report", "count"} => wReq[r].user \in Users
BY DEF WhispersTyped, TypeOK

\* A handler goes on with the fields of the whisper as they are.
LEMMA WhisperMoves ==
  ASSUME WhispersTyped, NEW r \in Requests, NEW q \in Call, wReq' = [wReq EXCEPT ![r] = q],
         q.pc \in {"report", "count"} => q.user \in Users,
         UNCHANGED <<whisper, wReporters, wReports>>, wHidden' \in BOOLEAN, wExpired' \in BOOLEAN,
         wDied' \in BOOLEAN
  PROVE  WhispersTyped'
<1>1. /\ wReq' \in [Requests -> Call] /\ wReq'[r] = q
      /\ \A k \in Requests : k # r => wReq'[k] = wReq[k]
  BY DEF WhispersTyped, TypeOK
<1>2. TypeOK'
  <2>1. wVoters' \in Ballots BY DEF whisper, WhispersTyped, TypeOK
  <2>2. wTally' \in [Choices -> Nat] /\ wVersion' \in Nat BY DEF whisper, WhispersTyped, TypeOK
  <2>3. wReporters' \subseteq Users /\ wReports' = Cardinality(wReporters') BY DEF WhispersTyped, TypeOK
  <2>. QED BY <1>1, <2>1, <2>2, <2>3 DEF TypeOK
<1>3. \A k \in Requests : wReq'[k].pc \in {"report", "count"} => wReq'[k].user \in Users
  BY <1>1 DEF WhispersTyped
<1>. QED BY <1>2, <1>3 DEF WhispersTyped

LEMMA RestingCall == Idle \in Call /\ Idle.pc = "idle"
  BY WhispersAssumption DEF Idle, Call, Ballots

LEMMA WhisperStep ==
  ASSUME WhispersTyped, IInv, [Next]_wVars PROVE WhispersTyped'
<1>0. wHidden \in BOOLEAN /\ wExpired \in BOOLEAN /\ wDied \in BOOLEAN BY DEF WhispersTyped, TypeOK
<1>1. ASSUME NEW r \in Requests, NEW u \in Users, NEW pc \in {"read", "report"},
             NEW choice \in Choices \cup {None}, Begin(r, pc, u, choice)
      PROVE  WhispersTyped'
  <2>. DEFINE q == [Idle EXCEPT !.pc = pc, !.user = u, !.vote = choice]
  <2>1. q \in Call /\ q.user = u BY RestingCall DEF Call, Idle
  <2>2. wReq' = [wReq EXCEPT ![r] = q] BY <1>1 DEF Begin
  <2>. HIDE DEF q
  <2>. QED BY <1>0, <1>1, <2>1, <2>2, WhisperMoves DEF Begin, reports
<1>2. ASSUME NEW r \in Requests, ReadWhisper(r) PROVE WhispersTyped'
  <2>1. CASE End(r)
    BY <1>0, <1>2, <2>1, RestingCall, WhisperMoves DEF ReadWhisper, End, reports
  <2>2. CASE wReq' = [wReq EXCEPT ![r] = [@ EXCEPT !.pc = "write", !.seen = wVoters, !.version = wVersion]]
    <3>1. PICK q : q = [wReq[r] EXCEPT !.pc = "write", !.seen = wVoters, !.version = wVersion] OBVIOUS
    <3>2. wVoters \in Ballots /\ wVersion \in Nat BY DEF WhispersTyped, TypeOK
    <3>3. q \in Call /\ q.pc = "write" BY <3>1, <3>2, WhisperCall DEF Call
    <3>4. wReq' = [wReq EXCEPT ![r] = q] BY <2>2, <3>1, WhisperCall
    <3>. QED BY <1>0, <1>2, <3>3, <3>4, WhisperMoves DEF ReadWhisper, reports
  <2>. QED BY <1>2, <2>1, <2>2 DEF ReadWhisper
<1>3. ASSUME NEW r \in Requests, Conflict(r) PROVE WhispersTyped'
  <2>1. CASE End(r)
    BY <1>0, <1>3, <2>1, RestingCall, WhisperMoves DEF Conflict, End, reports
  <2>2. CASE /\ wReq[r].tries + 1 < MaxTries
             /\ wReq' = [wReq EXCEPT ![r] = [wReq[r] EXCEPT !.pc = "read", !.tries = @ + 1]]
    <3>1. PICK n \in 0 .. MaxTries : n = wReq[r].tries + 1
      BY <2>2, WhisperCall, WhispersAssumption DEF Call
    <3>2. PICK q : q = [wReq[r] EXCEPT !.pc = "read", !.tries = n] OBVIOUS
    <3>3. q \in Call /\ q.pc = "read" BY <3>1, <3>2, WhisperCall DEF Call
    <3>4. wReq' = [wReq EXCEPT ![r] = q] BY <2>2, <3>1, <3>2
    <3>. QED BY <1>0, <1>3, <3>3, <3>4, WhisperMoves DEF Conflict, reports
  <2>. QED BY <1>3, <2>1, <2>2 DEF Conflict
<1>4. ASSUME NEW r \in Requests, WriteVote(r) PROVE WhispersTyped'
  <2>1. /\ wTally' = Counted(wVoters') /\ wVersion' = wVersion + 1
        /\ wReq' = [wReq EXCEPT ![r] = Idle]
        /\ UNCHANGED <<wReporters, wReports, wHidden, wExpired, wDied>>
    BY <1>4 DEF WriteVote, End, reports
  <2>2. IInv' BY <1>4, WriteIInv
  <2>3. wVoters' \in Ballots /\ wVersion' \in Nat BY <2>2 DEF IInv, WellFormed
  <2>4. wTally' \in [Choices -> Nat] BY <2>1, TallyCounts
  <2>5. /\ wReq' \in [Requests -> Call] /\ wReq'[r] = Idle
        /\ \A k \in Requests : k # r => wReq'[k] = wReq[k]
    BY <2>1, RestingCall, WhisperCall
  <2>6. TypeOK' BY <2>1, <2>3, <2>4, <2>5 DEF WhispersTyped, TypeOK
  <2>7. \A k \in Requests : wReq'[k].pc \in {"report", "count"} => wReq'[k].user \in Users
    BY <2>5, RestingCall DEF WhispersTyped
  <2>. QED BY <2>1, <2>6, <2>7 DEF WhispersTyped
<1>5. ASSUME NEW r \in Requests, FindReported(r) \/ Hide(r) \/ Abort(r) PROVE WhispersTyped'
  <2>1. CASE End(r)
    BY <1>0, <1>5, <2>1, RestingCall, WhisperMoves DEF FindReported, Hide, Abort, End, At, reports
  <2>2. CASE FindReported(r) /\ Goto(r, "count")
    <3>1. PICK q : q = [wReq[r] EXCEPT !.pc = "count"] OBVIOUS
    <3>2. q \in Call /\ q.user \in Users
      BY <2>2, <3>1, WhisperCall DEF Call, FindReported, At
    <3>3. wReq' = [wReq EXCEPT ![r] = q] BY <2>2, <3>1 DEF Goto
    <3>. QED BY <1>0, <2>2, <3>2, <3>3, WhisperMoves DEF FindReported, reports
  <2>. QED BY <1>5, <2>1, <2>2 DEF FindReported, Hide, Abort
<1>6. ASSUME NEW r \in Requests, CountReport(r) PROVE WhispersTyped'
  <2>1. CASE End(r) /\ UNCHANGED <<wReporters, wReports>>
    BY <1>0, <1>6, <2>1, RestingCall, WhisperMoves DEF CountReport, End
  <2>2. CASE /\ wReporters' = wReporters \cup {wReq[r].user} /\ wReports' = wReports + 1
             /\ wReq[r].user \notin wReporters /\ (Goto(r, "hide") \/ End(r))
    <3>1. PICK u \in Users : u = wReq[r].user BY <1>6, WhisperCall DEF CountReport, At
    <3>2. /\ IsFiniteSet(wReporters') /\ wReporters' \subseteq Users
          /\ wReports' = Cardinality(wReporters')
      BY <2>2, <3>1, FS_AddElement DEF WhispersTyped, TypeOK
    <3>3. PICK q \in Call : wReq' = [wReq EXCEPT ![r] = q] /\ q.pc \in {"idle", "hide"}
      <4>1. CASE End(r) BY <4>1, RestingCall DEF End
      <4>2. CASE Goto(r, "hide")
        <5>1. PICK q : q = [wReq[r] EXCEPT !.pc = "hide"] OBVIOUS
        <5>2. q \in Call /\ q.pc = "hide" BY <5>1, WhisperCall DEF Call
        <5>. QED BY <4>2, <5>1, <5>2 DEF Goto
      <4>. QED BY <2>2, <4>1, <4>2
    <3>4. /\ wReq' \in [Requests -> Call] /\ wReq'[r] = q
          /\ \A k \in Requests : k # r => wReq'[k] = wReq[k]
      BY <3>3, WhisperCall
    <3>5. UNCHANGED <<wVoters, wTally, wVersion, wHidden, wExpired, wDied>>
      BY <1>6 DEF CountReport, whisper
    <3>6. TypeOK' BY <3>2, <3>4, <3>5 DEF WhispersTyped, TypeOK
    <3>7. \A k \in Requests : wReq'[k].pc \in {"report", "count"} => wReq'[k].user \in Users
      BY <3>3, <3>4 DEF WhispersTyped
    <3>. QED BY <3>2, <3>6, <3>7 DEF WhispersTyped
  <2>. QED BY <1>6, <2>1, <2>2 DEF CountReport, Reportable
<1>7. CASE Expire \/ UNCHANGED wVars
  <2>1. /\ wVoters' = wVoters /\ wTally' = wTally /\ wVersion' = wVersion /\ wReporters' = wReporters
        /\ wReports' = wReports /\ wHidden' = wHidden /\ wReq' = wReq /\ wDied' = wDied
        /\ wExpired' \in BOOLEAN
    BY <1>0, <1>7 DEF Expire, wVars, whisper, reports
  <2>. QED BY <2>1 DEF WhispersTyped, TypeOK
<1>. QED
  BY <1>1, <1>2, <1>3, <1>4, <1>5, <1>6, <1>7 DEF Next, Step, BeginVote, BeginReport

LEMMA WhispersStart == Init => WhispersTyped
<1>. SUFFICES ASSUME Init PROVE WhispersTyped OBVIOUS
<1>1. wReporters = {} /\ wReports = 0 /\ wReq = [r \in Requests |-> Idle] BY DEF Init
<1>2. IsFiniteSet(wReporters) /\ wReports = Cardinality(wReporters) BY <1>1, FS_EmptySet
<1>3. TypeOK BY <1>1, <1>2, RestingCall DEF Init, TypeOK, Ballots
<1>. QED BY <1>1, <1>2, <1>3, RestingCall DEF WhispersTyped

-----------------------------------------------------------------------------
(* The follow graph: what a handler has read is in range wherever it writes it.  *)

GraphPair == {"delete", "insert", "countFollowers", "countFollowing", "setFollowers",
              "setFollowing", "block", "unfollow", "unfollowBack", "unblock"}
GraphPost == {"insertPost", "deactivate"}
GraphOK(q) ==
  /\ q.pc # "idle" => q.user \in Users
  /\ q.pc \in GraphPair => q.other \in Users
  /\ q.pc \in GraphPost => q.post \in PostIds
GraphTyped ==
  /\ G!TypeOK /\ \A r \in Requests : GraphOK(gReq[r])
  /\ \A p \in PostIds : gPosts[p] # G!Unmade => gPosts[p].author \in Users

LEMMA GraphCall ==
  ASSUME GraphTyped, NEW r \in Requests
  PROVE  /\ gReq \in [Requests -> G!Call] /\ gReq[r] \in G!Call /\ GraphOK(gReq[r])
         /\ gStats \in [Users -> [G!Counters -> Int]] /\ gPosts \in [PostIds -> G!Post]
BY DEF GraphTyped, G!TypeOK

\* A handler goes on, and the rest stays in its range.
LEMMA GraphMoves ==
  ASSUME GraphTyped, NEW r \in Requests, NEW q \in G!Call, GraphOK(q), gReq' = [gReq EXCEPT ![r] = q],
         gFollows' \subseteq Users \X Users, gBlocked' \subseteq Users \X Users, gGone' \subseteq Users,
         gPosts' \in [PostIds -> G!Post],
         \A p \in PostIds : gPosts'[p] # G!Unmade => gPosts'[p].author \in Users,
         gStats' \in [Users -> [G!Counters -> Int]], gBegun' \in 0 .. MaxChanges
  PROVE  GraphTyped'
<1>1. /\ gReq' \in [Requests -> G!Call] /\ gReq'[r] = q
      /\ \A k \in Requests : k # r => gReq'[k] = gReq[k]
  BY GraphCall
<1>2. \A k \in Requests : GraphOK(gReq'[k]) BY <1>1 DEF GraphTyped
<1>3. (\A k \in Requests : GraphOK(gReq[k]))' BY <1>2 DEF GraphOK
<1>4. G!TypeOK' BY <1>1 DEF G!TypeOK
<1>. QED BY <1>3, <1>4 DEF GraphTyped

LEMMA GraphRange ==
  ASSUME GraphTyped
  PROVE  /\ gFollows \subseteq Users \X Users /\ gBlocked \subseteq Users \X Users /\ gGone \subseteq Users
         /\ gPosts \in [PostIds -> G!Post]
         /\ \A p \in PostIds : gPosts[p] # G!Unmade => gPosts[p].author \in Users
         /\ gStats \in [Users -> [G!Counters -> Int]] /\ gBegun \in 0 .. MaxChanges
BY DEF GraphTyped, G!TypeOK

\* Only the handler goes on.
LEMMA GraphOnly ==
  ASSUME GraphTyped, NEW r \in Requests, NEW q \in G!Call, GraphOK(q), gReq' = [gReq EXCEPT ![r] = q],
         UNCHANGED <<G!gData, gStats>>, gBegun' \in 0 .. MaxChanges
  PROVE  GraphTyped'
<1>1. /\ gFollows' = gFollows /\ gBlocked' = gBlocked /\ gPosts' = gPosts /\ gGone' = gGone
      /\ gStats' = gStats
  BY DEF G!gData
<1>. QED BY <1>1, GraphMoves, GraphRange

LEMMA GraphResting == G!Idle \in G!Call /\ GraphOK(G!Idle) /\ G!Idle.pc = "idle"
<1>1. G!Idle.pc = "idle" BY DEF G!Idle
<1>2. [c \in G!Counters |-> 0] \in [G!Counters -> Nat] /\ [c \in G!Counters |-> 0] \in [G!Counters -> Int]
  OBVIOUS
<1>3. G!Idle \in G!Call BY <1>2 DEF G!Idle, G!Call
<1>. QED BY <1>1, <1>3 DEF GraphOK, GraphPair, GraphPost

LEMMA GraphCounts ==
  ASSUME G!GraphAssumption, NEW u
  PROVE  G!Followers(u) \in Nat /\ G!Following(u) \in Nat /\ G!ActivePosts(u) \in Nat
<1>1. \A S : G!Cardinality(S) = Cardinality(S) /\ (G!IsFiniteSet(S) <=> IsFiniteSet(S))
  BY DEF Cardinality, IsFiniteSet, G!Cardinality, G!IsFiniteSet
<1>2. ASSUME NEW A, NEW B \in SUBSET A, IsFiniteSet(A) PROVE G!Cardinality(B) \in Nat
  BY <1>1, <1>2, FS_Subset, FS_CardinalityType
<1>3. IsFiniteSet(PostIds) BY <1>1 DEF G!GraphAssumption
<1>. QED BY <1>2, <1>3, AccountsFinite DEF G!Followers, G!Following, G!ActivePosts

LEMMA GraphBegun ==
  ASSUME G!GraphAssumption, GraphTyped, NEW r \in Requests,
         NEW pc \in {"delete", "block", "unblock", "insertPost", "leave", "deactivate"},
         NEW op \in {"follow", "block", "unblock", "create", "leave", "remove"},
         NEW u \in Users, NEW v \in Users \cup {None}, NEW p \in PostIds \cup {None},
         pc \in GraphPair => v \in Users, pc \in GraphPost => p \in PostIds,
         G!Begin(r, op, pc, u, v, p)
  PROVE  GraphTyped'
<1>1. PICK q : q = [G!Idle EXCEPT !.pc = pc, !.op = op, !.user = u, !.other = v, !.post = p] OBVIOUS
<1>2. q \in G!Call /\ q.pc = pc /\ q.user = u /\ q.other = v /\ q.post = p
  <2>1. [c \in G!Counters |-> 0] \in [G!Counters -> Nat] /\ [c \in G!Counters |-> 0] \in [G!Counters -> Int]
    OBVIOUS
  <2>. QED BY <1>1, <2>1 DEF G!Idle, G!Call
<1>3. GraphOK(q) BY <1>2 DEF GraphOK
<1>4. gReq' = [gReq EXCEPT ![r] = q] /\ UNCHANGED <<G!gData, gStats>> BY <1>1 DEF G!Begin
<1>5. gBegun' \in 0 .. MaxChanges BY GraphRange DEF G!Begin, G!GraphAssumption
<1>. QED BY <1>2, <1>3, <1>4, <1>5, GraphOnly

LEMMA GraphBegins ==
  ASSUME G!GraphAssumption, GraphTyped, NEW r \in Requests, NEW u \in Users,
         \/ \E v \in Users : \/ G!BeginFollow(r, u, v) \/ G!BeginBlock(r, u, v) \/ G!BeginUnblock(r, u, v)
         \/ \E p \in PostIds : G!BeginCreate(r, u, p)
         \/ G!BeginLeave(r, u) \/ G!BeginProfile(r, u)
         \/ \E p \in PostIds : G!BeginRemove(r, p)
  PROVE  GraphTyped'
<1>1. ASSUME NEW v \in Users,
             G!BeginFollow(r, u, v) \/ G!BeginBlock(r, u, v) \/ G!BeginUnblock(r, u, v)
      PROVE  GraphTyped'
  <2>1. \E pc \in {"delete", "block", "unblock"}, op \in {"follow", "block", "unblock"} :
          G!Begin(r, op, pc, u, v, None)
    BY <1>1 DEF G!BeginFollow, G!BeginBlock, G!BeginUnblock
  <2>. QED BY <2>1, GraphBegun DEF GraphPost
<1>2. ASSUME NEW p \in PostIds, G!BeginCreate(r, u, p) PROVE GraphTyped'
  BY <1>2, GraphBegun DEF G!BeginCreate, GraphPair
<1>3. ASSUME NEW p \in PostIds, G!BeginRemove(r, p) PROVE GraphTyped'
  <2>1. PICK w \in Users : w = gPosts[p].author BY <1>3, GraphRange DEF G!BeginRemove
  <2>2. G!Begin(r, "remove", "deactivate", w, None, p) BY <1>3, <2>1 DEF G!BeginRemove
  <2>. QED BY <2>2, GraphBegun DEF GraphPair
<1>4. CASE G!BeginLeave(r, u)
  <2>1. G!Begin(r, "leave", "leave", u, None, None) BY <1>4 DEF G!BeginLeave
  <2>2. "leave" \notin GraphPair /\ "leave" \notin GraphPost BY DEF GraphPair, GraphPost
  <2>. QED BY <2>1, <2>2, GraphBegun
<1>5. CASE G!BeginProfile(r, u)
  <2>1. PICK q : q = [G!Idle EXCEPT !.pc = "readStats", !.op = "profile", !.user = u] OBVIOUS
  <2>2. q \in G!Call /\ q.pc = "readStats" /\ q.user = u
    <3>1. [c \in G!Counters |-> 0] \in [G!Counters -> Nat] /\ [c \in G!Counters |-> 0] \in [G!Counters -> Int]
      OBVIOUS
    <3>. QED BY <2>1, <3>1 DEF G!Idle, G!Call
  <2>3. GraphOK(q) BY <2>2 DEF GraphOK, GraphPair, GraphPost
  <2>4. gReq' = [gReq EXCEPT ![r] = q] /\ UNCHANGED <<G!gData, gStats>> /\ gBegun' = gBegun
    BY <1>5, <2>1 DEF G!BeginProfile
  <2>. QED BY <2>2, <2>3, <2>4, GraphOnly, GraphRange
<1>. QED BY <1>1, <1>2, <1>3, <1>4, <1>5

\* A handler's next place.
LEMMA GraphGoto ==
  ASSUME GraphTyped, NEW r \in Requests, gReq[r].pc # "idle",
         NEW pc \in {"insert", "countFollowers", "countFollowing", "setFollowers", "setFollowing",
                     "unfollow", "unfollowBack", "incPosts", "decPosts", "hidePosts", "dropFollows"},
         pc \in GraphPair => gReq[r].other \in Users, G!Goto(r, pc)
  PROVE  \E q \in G!Call : GraphOK(q) /\ gReq' = [gReq EXCEPT ![r] = q]
<1>1. PICK q : q = [gReq[r] EXCEPT !.pc = pc] OBVIOUS
<1>2. q \in G!Call /\ q.pc = pc /\ q.user = gReq[r].user /\ q.other = gReq[r].other
      /\ q.post = gReq[r].post
  BY ZenonT(30), <1>1, GraphCall DEF G!Call
<1>3. GraphOK(q) BY <1>2, GraphCall DEF GraphOK, GraphPost
<1>. QED BY <1>1, <1>2, <1>3 DEF G!Goto

LEMMA GraphEnds ==
  ASSUME GraphTyped, NEW r \in Requests, G!End(r)
  PROVE  \E q \in G!Call : GraphOK(q) /\ gReq' = [gReq EXCEPT ![r] = q]
BY GraphResting DEF G!End

LEMMA GraphFollows ==
  ASSUME GraphTyped, NEW r \in Requests,
         \/ G!DeleteFollow(r) \/ G!InsertFollow(r) \/ G!Unfollow(r) \/ G!UnfollowBack(r)
         \/ G!Block(r) \/ G!Unblock(r) \/ G!Leave(r) \/ G!DropFollows(r)
  PROVE  GraphTyped'
<1>1. gReq[r].pc # "idle" /\ gReq[r].user \in Users /\ (gReq[r].pc \in GraphPair => gReq[r].other \in Users)
  BY GraphCall DEF GraphOK, G!DeleteFollow, G!InsertFollow, G!Unfollow, G!UnfollowBack, G!Block,
     G!Unblock, G!Leave, G!DropFollows, G!At
<1>2. PICK q \in G!Call : GraphOK(q) /\ gReq' = [gReq EXCEPT ![r] = q]
  <2>1. CASE G!DeleteFollow(r) \/ G!InsertFollow(r) \/ G!Unfollow(r) \/ G!Block(r)
    <3>1. gReq[r].other \in Users
      BY <1>1, <2>1 DEF G!DeleteFollow, G!InsertFollow, G!Unfollow, G!Block, G!At, GraphPair
    <3>2. \E pc \in {"countFollowers", "insert", "unfollow", "unfollowBack"} : G!Goto(r, pc)
      BY <2>1 DEF G!DeleteFollow, G!InsertFollow, G!Unfollow, G!Block
    <3>. QED BY <1>1, <3>1, <3>2, GraphGoto
  <2>2. CASE G!Leave(r)
    BY <1>1, <2>2, GraphGoto DEF G!Leave, GraphPair
  <2>3. CASE G!UnfollowBack(r) \/ G!Unblock(r) \/ G!DropFollows(r)
    BY <2>3, GraphEnds DEF G!UnfollowBack, G!Unblock, G!DropFollows
  <2>. QED BY <2>1, <2>2, <2>3
<1>3. /\ gPosts' = gPosts /\ gStats' = gStats /\ gBegun' = gBegun
      /\ gFollows' \subseteq Users \X Users /\ gBlocked' \subseteq Users \X Users /\ gGone' \subseteq Users
  <2>1. CASE G!DeleteFollow(r) BY <2>1, GraphRange DEF G!DeleteFollow
  <2>2. CASE G!InsertFollow(r)
    BY <1>1, <2>2, GraphRange DEF G!InsertFollow, G!At, GraphPair
  <2>3. CASE G!Unfollow(r) \/ G!UnfollowBack(r) BY <2>3, GraphRange DEF G!Unfollow, G!UnfollowBack
  <2>4. CASE G!Block(r) BY <1>1, <2>4, GraphRange DEF G!Block, G!At, GraphPair
  <2>5. CASE G!Unblock(r) BY <2>5, GraphRange DEF G!Unblock
  <2>6. CASE G!Leave(r) BY <1>1, <2>6, GraphRange DEF G!Leave
  <2>7. CASE G!DropFollows(r) BY <2>7, GraphRange DEF G!DropFollows
  <2>. QED BY <2>1, <2>2, <2>3, <2>4, <2>5, <2>6, <2>7
<1>. QED BY <1>2, <1>3, GraphMoves, GraphRange

LEMMA GraphPosts ==
  ASSUME GraphTyped, NEW r \in Requests,
         G!InsertPost(r) \/ G!DeactivatePost(r) \/ G!HidePosts(r)
  PROVE  GraphTyped'
<1>1. gReq[r].pc # "idle" /\ gReq[r].user \in Users
      /\ (gReq[r].pc \in GraphPost => gReq[r].post \in PostIds)
  BY GraphCall DEF GraphOK, G!InsertPost, G!DeactivatePost, G!HidePosts, G!At
<1>2. PICK q \in G!Call : GraphOK(q) /\ gReq' = [gReq EXCEPT ![r] = q]
  <2>1. (\E pc \in {"incPosts", "decPosts", "dropFollows"} : G!Goto(r, pc)) \/ G!End(r)
    BY DEF G!InsertPost, G!DeactivatePost, G!HidePosts
  <2>. QED BY <1>1, <2>1, GraphGoto, GraphEnds DEF GraphPair
<1>3. /\ gFollows' = gFollows /\ gBlocked' = gBlocked /\ gGone' = gGone /\ gStats' = gStats
      /\ gBegun' = gBegun
  BY DEF G!InsertPost, G!DeactivatePost, G!HidePosts
<1>4. /\ gPosts' \in [PostIds -> G!Post]
      /\ \A p \in PostIds : gPosts'[p] # G!Unmade => gPosts'[p].author \in Users
  <2>0. gPosts \in [PostIds -> G!Post] BY GraphRange
  <2>1. CASE G!InsertPost(r)
    <3>1. PICK made \in G!Post : made = [author |-> gReq[r].user, active |-> TRUE]
      BY <1>1 DEF G!Post
    <3>2. gPosts' = [gPosts EXCEPT ![gReq[r].post] = made] /\ made.author \in Users
      BY <1>1, <2>1, <3>1 DEF G!InsertPost
    <3>. QED BY <2>0, <3>2, GraphRange
  <2>2. CASE G!DeactivatePost(r)
    <3>1. PICK p \in PostIds : p = gReq[r].post BY <1>1, <2>2 DEF G!DeactivatePost, G!At, GraphPost
    <3>2. PICK ended : ended = [gPosts[p] EXCEPT !.active = FALSE] OBVIOUS
    <3>3. ended \in G!Post /\ ended.author = gPosts[p].author
      BY <2>0, <3>2 DEF G!Post
    <3>4. gPosts' = [gPosts EXCEPT ![p] = ended] BY <2>2, <3>1, <3>2 DEF G!DeactivatePost
    <3>5. gPosts[p] = G!Unmade => ended = G!Unmade
      <4>1. ended.active = FALSE BY <2>0, <3>2 DEF G!Post
      <4>2. gPosts[p] = G!Unmade => gPosts[p].author = None BY DEF G!Unmade
      <4>. QED BY <3>3, <4>1, <4>2 DEF G!Unmade, G!Post
    <3>. QED BY <2>0, <3>3, <3>4, <3>5, GraphRange
  <2>3. CASE G!HidePosts(r)
    <3>1. ASSUME NEW p \in PostIds
          PROVE  /\ gPosts'[p] \in G!Post
                 /\ gPosts'[p] = gPosts[p] \/ gPosts'[p].author = gReq[r].user
      <4>1. PICK ended : ended = [gPosts[p] EXCEPT !.active = FALSE] OBVIOUS
      <4>2. ended \in G!Post /\ ended.author = gPosts[p].author BY <2>0, <4>1 DEF G!Post
      <4>3. gPosts'[p] = gPosts[p] \/ (gPosts[p].author = gReq[r].user /\ gPosts'[p] = ended)
        BY <2>3, <4>1 DEF G!HidePosts
      <4>. QED BY <2>0, <4>2, <4>3
    <3>2. gPosts' = gPosts \/ gPosts' = [p \in PostIds |-> gPosts'[p]]
      BY <2>3 DEF G!HidePosts
    <3>3. gPosts' \in [PostIds -> G!Post] BY <2>0, <3>1, <3>2
    <3>. QED BY <1>1, <3>1, <3>3, GraphRange
  <2>. QED BY <2>1, <2>2, <2>3
<1>. QED BY <1>2, <1>3, <1>4, GraphMoves, GraphRange

\* What a handler counts.
LEMMA GraphReads ==
  ASSUME G!GraphAssumption, GraphTyped, NEW r \in Requests,
         \/ G!CountFollowers(r) \/ G!CountFollowing(r)
         \/ G!ReadStats(r) \/ G!OwnFollowers(r) \/ G!OwnFollowing(r) \/ G!OwnPosts(r)
  PROVE  GraphTyped'
<1>0. gReq[r] \in G!Call /\ GraphOK(gReq[r]) BY GraphCall
<1>1. gReq[r].pc # "idle" /\ gReq[r].user \in Users /\ (gReq[r].pc \in GraphPair => gReq[r].other \in Users)
  BY <1>0 DEF GraphOK, G!CountFollowers, G!CountFollowing, G!ReadStats, G!OwnFollowers,
     G!OwnFollowing, G!OwnPosts, G!At
<1>2. UNCHANGED <<G!gData, gStats>> /\ gBegun' = gBegun
  BY DEF G!CountFollowers, G!CountFollowing, G!ReadStats, G!OwnFollowers, G!OwnFollowing, G!OwnPosts
<1>3. ASSUME NEW n \in Nat, NEW c \in G!Counters,
             NEW pc \in {"countFollowing", "setFollowers", "ownFollowing", "ownPosts", "repair"},
             pc \in GraphPair => gReq[r].pc \in GraphPair,
             gReq' = [gReq EXCEPT ![r] = [gReq[r] EXCEPT !.pc = pc, !.counts[c] = n]]
      PROVE  GraphTyped'
  <2>1. PICK q : q = [gReq[r] EXCEPT !.pc = pc, !.counts[c] = n] OBVIOUS
  <2>2. PICK counts \in [G!Counters -> Nat] : counts = [gReq[r].counts EXCEPT ![c] = n]
    BY <1>0 DEF G!Call
  <2>3. q = [gReq[r] EXCEPT !.pc = pc, !.counts = counts] BY <1>0, <2>1, <2>2 DEF G!Call
  <2>4. q \in G!Call /\ q.pc = pc /\ q.user = gReq[r].user /\ q.other = gReq[r].other
    BY ZenonT(30), <1>0, <2>2, <2>3 DEF G!Call
  <2>5. GraphOK(q) BY <1>1, <1>3, <2>4 DEF GraphOK, GraphPost
  <2>6. gReq' = [gReq EXCEPT ![r] = q] BY <1>3, <2>1
  <2>. QED BY <1>2, <2>4, <2>5, <2>6, GraphOnly, GraphRange
<1>4. CASE G!ReadStats(r)
  <2>1. PICK cached \in [G!Counters -> Int] : cached = gStats[gReq[r].user] BY <1>1, GraphRange
  <2>2. PICK q : q = [gReq[r] EXCEPT !.pc = "ownFollowers", !.cached = cached] OBVIOUS
  <2>3. q \in G!Call /\ q.pc = "ownFollowers" /\ q.user = gReq[r].user
    BY <1>0, <2>1, <2>2 DEF G!Call
  <2>4. GraphOK(q) BY <1>1, <2>3 DEF GraphOK, GraphPair, GraphPost
  <2>5. gReq' = [gReq EXCEPT ![r] = q] BY <1>4, <2>1, <2>2, GraphCall DEF G!ReadStats
  <2>. QED BY <1>2, <2>3, <2>4, <2>5, GraphOnly, GraphRange
<1>5. CASE G!CountFollowers(r) \/ G!CountFollowing(r) \/ G!OwnFollowers(r) \/ G!OwnFollowing(r)
  <2>1. \E n \in Nat, c \in G!Counters, pc \in {"countFollowing", "setFollowers", "ownFollowing", "ownPosts"} :
          /\ pc \in GraphPair => gReq[r].pc \in GraphPair
          /\ gReq' = [gReq EXCEPT ![r] = [gReq[r] EXCEPT !.pc = pc, !.counts[c] = n]]
    <3>1. "followers" \in G!Counters /\ "following" \in G!Counters BY DEF G!Counters
    <3>2. CASE G!CountFollowers(r)
      BY <3>1, <3>2, GraphCounts, GraphCall DEF G!CountFollowers, G!At, GraphPair
    <3>3. CASE G!CountFollowing(r)
      BY <3>1, <3>3, GraphCounts, GraphCall DEF G!CountFollowing, G!At, GraphPair
    <3>4. CASE G!OwnFollowers(r)
      BY <3>1, <3>4, GraphCounts, GraphCall DEF G!OwnFollowers, G!At, GraphPair
    <3>5. CASE G!OwnFollowing(r)
      BY <3>1, <3>5, GraphCounts, GraphCall DEF G!OwnFollowing, G!At, GraphPair
    <3>. QED BY <1>5, <3>2, <3>3, <3>4, <3>5
  <2>. QED BY ZenonT(30), <1>3, <2>1
<1>6. CASE G!OwnPosts(r)
  <2>1. CASE G!End(r) BY <1>2, <2>1, GraphEnds, GraphOnly, GraphRange
  <2>2. CASE ~G!End(r)
    <3>1. PICK n \in Nat : n = G!ActivePosts(gReq[r].user) BY GraphCounts
    <3>2. gReq' = [gReq EXCEPT ![r] = [[gReq[r] EXCEPT !.counts["posts"] = n] EXCEPT !.pc = "repair"]]
      BY <1>6, <2>2, <3>1 DEF G!OwnPosts
    <3>3. [[gReq[r] EXCEPT !.counts["posts"] = n] EXCEPT !.pc = "repair"]
            = [gReq[r] EXCEPT !.pc = "repair", !.counts["posts"] = n]
      BY <1>0 DEF G!Call
    <3>4. gReq' = [gReq EXCEPT ![r] = [gReq[r] EXCEPT !.pc = "repair", !.counts["posts"] = n]]
      BY <3>2, <3>3
    <3>. QED BY <1>3, <3>4 DEF G!Counters, GraphPair
  <2>. QED BY <2>1, <2>2
<1>. QED BY <1>4, <1>5, <1>6

\* One counter of one user, or all of them, are stored.
LEMMA GraphWrites ==
  ASSUME GraphTyped, NEW r \in Requests,
         G!SetFollowers(r) \/ G!SetFollowing(r) \/ G!IncPosts(r) \/ G!DecPosts(r) \/ G!Repair(r)
  PROVE  GraphTyped'
<1>0. gReq[r] \in G!Call /\ GraphOK(gReq[r]) BY GraphCall
<1>1. gReq[r].pc # "idle" /\ gReq[r].user \in Users
  BY <1>0 DEF GraphOK, G!SetFollowers, G!SetFollowing, G!IncPosts, G!DecPosts, G!Repair, G!At
<1>2. UNCHANGED G!gData /\ gBegun' = gBegun
  BY DEF G!SetFollowers, G!SetFollowing, G!IncPosts, G!DecPosts, G!Repair
<1>3. PICK q \in G!Call : GraphOK(q) /\ gReq' = [gReq EXCEPT ![r] = q]
  <2>1. CASE G!SetFollowers(r)
    <3>1. "setFollowing" \in GraphPair /\ gReq[r].pc \in GraphPair
      BY <2>1 DEF G!SetFollowers, G!At, GraphPair
    <3>2. gReq[r].other \in Users BY <1>0, <3>1 DEF GraphOK
    <3>. QED BY <1>1, <2>1, <3>2, GraphGoto DEF G!SetFollowers
  <2>2. CASE G!SetFollowing(r) \/ G!IncPosts(r) \/ G!DecPosts(r) \/ G!Repair(r)
    BY <2>2, GraphEnds DEF G!SetFollowing, G!IncPosts, G!DecPosts, G!Repair
  <2>. QED BY <2>1, <2>2
<1>4. ASSUME NEW u \in Users, NEW c \in G!Counters, NEW n \in Int,
             gStats' = [gStats EXCEPT ![u][c] = n]
      PROVE  gStats' \in [Users -> [G!Counters -> Int]]
  BY <1>4, GraphRange
<1>5. gStats' \in [Users -> [G!Counters -> Int]]
  <2>0. gReq[r].counts \in [G!Counters -> Nat] BY <1>0 DEF G!Call
  <2>1. CASE G!SetFollowers(r) \/ G!SetFollowing(r)
    <3>1. \A c \in G!Counters : gReq[r].counts[c] \in Int BY <2>0
    <3>2. G!SetFollowers(r) => gReq[r].other \in Users
      BY <1>0 DEF G!SetFollowers, G!At, GraphOK, GraphPair
    <3>3. "followers" \in G!Counters /\ "following" \in G!Counters BY DEF G!Counters
    <3>4. \E u \in Users, c \in G!Counters, n \in Int : gStats' = [gStats EXCEPT ![u][c] = n]
      BY <1>1, <2>1, <3>1, <3>2, <3>3 DEF G!SetFollowers, G!SetFollowing
    <3>. QED BY <1>4, <3>4
  <2>2. CASE G!IncPosts(r) \/ G!DecPosts(r)
    <3>1. "posts" \in G!Counters BY DEF G!Counters
    <3>2. gStats[gReq[r].user]["posts"] \in Int BY <1>1, <3>1, GraphRange
    <3>3. \E n \in Int : gStats' = [gStats EXCEPT ![gReq[r].user]["posts"] = n]
      BY <2>2, <3>2 DEF G!IncPosts, G!DecPosts
    <3>. QED BY <1>1, <1>4, <3>1, <3>3
  <2>3. CASE G!Repair(r)
    <3>1. PICK counts \in [G!Counters -> Int] : counts = gReq[r].counts BY <2>0
    <3>. QED BY <1>1, <2>3, <3>1, GraphRange DEF G!Repair
  <2>. QED BY <2>1, <2>2, <2>3
<1>6. gFollows' = gFollows /\ gBlocked' = gBlocked /\ gPosts' = gPosts /\ gGone' = gGone
  BY <1>2 DEF G!gData
<1>. QED BY <1>2, <1>3, <1>5, <1>6, GraphMoves, GraphRange

LEMMA GraphStep == ASSUME G!GraphAssumption, GraphTyped, [G!Next]_G!gVars PROVE GraphTyped'
<1>1. CASE UNCHANGED G!gVars
  <2>1. /\ gFollows' = gFollows /\ gBlocked' = gBlocked /\ gPosts' = gPosts /\ gGone' = gGone
        /\ gStats' = gStats /\ gReq' = gReq /\ gBegun' = gBegun
    BY <1>1 DEF G!gVars, G!gData
  <2>. QED BY <2>1 DEF GraphTyped, G!TypeOK, GraphOK
<1>2. ASSUME NEW r \in Requests, G!Abort(r) PROVE GraphTyped'
  <2>1. gBegun' \in 0 .. MaxChanges BY <1>2, GraphRange DEF G!Abort, G!GraphAssumption
  <2>2. UNCHANGED <<G!gData, gStats>> /\ G!End(r) BY <1>2 DEF G!Abort
  <2>. QED BY <2>1, <2>2, GraphEnds, GraphOnly
<1>3. ASSUME NEW r \in Requests, G!Step(r) PROVE GraphTyped'
  <2>1. CASE \/ G!DeleteFollow(r) \/ G!InsertFollow(r) \/ G!Unfollow(r) \/ G!UnfollowBack(r)
             \/ G!Block(r) \/ G!Unblock(r) \/ G!Leave(r) \/ G!DropFollows(r)
    BY <2>1, GraphFollows
  <2>2. CASE G!InsertPost(r) \/ G!DeactivatePost(r) \/ G!HidePosts(r) BY <2>2, GraphPosts
  <2>3. CASE \/ G!CountFollowers(r) \/ G!CountFollowing(r)
             \/ G!ReadStats(r) \/ G!OwnFollowers(r) \/ G!OwnFollowing(r) \/ G!OwnPosts(r)
    BY <2>3, GraphReads
  <2>4. CASE G!SetFollowers(r) \/ G!SetFollowing(r) \/ G!IncPosts(r) \/ G!DecPosts(r) \/ G!Repair(r)
    BY <2>4, GraphWrites
  <2>. QED BY <1>3, <2>1, <2>2, <2>3, <2>4 DEF G!Step
<1>4. ASSUME NEW r \in Requests,
             \/ \E u \in Users :
                  \/ \E v \in Users : G!BeginFollow(r, u, v) \/ G!BeginBlock(r, u, v) \/ G!BeginUnblock(r, u, v)
                  \/ \E p \in PostIds : G!BeginCreate(r, u, p)
                  \/ G!BeginLeave(r, u)
                  \/ G!BeginProfile(r, u)
             \/ \E p \in PostIds : G!BeginRemove(r, p)
      PROVE  GraphTyped'
  <2>1. ASSUME NEW p \in PostIds, G!BeginRemove(r, p) PROVE GraphTyped'
    <3>1. gPosts[p].author \in Users BY <2>1, GraphRange DEF G!BeginRemove
    <3>. QED BY <2>1, <3>1, GraphBegins
  <2>. QED BY <1>4, <2>1, GraphBegins
<1>. QED BY <1>1, <1>2, <1>3, <1>4 DEF G!Next

LEMMA GraphStart == G!GraphAssumption => (G!Init => GraphTyped)
<1>. SUFFICES ASSUME G!GraphAssumption, G!Init PROVE GraphTyped OBVIOUS
<1>1. /\ gFollows = {} /\ gBlocked = {} /\ gGone = {} /\ gBegun = 0
      /\ gPosts = [p \in PostIds |-> G!Unmade] /\ gReq = [r \in Requests |-> G!Idle]
      /\ gStats = [u \in Users |-> [c \in G!Counters |-> 0]]
  BY DEF G!Init
<1>2. G!Unmade \in G!Post BY DEF G!Unmade, G!Post
<1>3. gStats \in [Users -> [G!Counters -> Int]] BY <1>1
<1>4. G!TypeOK BY <1>1, <1>2, <1>3, GraphResting DEF G!TypeOK, G!GraphAssumption
<1>. QED BY <1>1, <1>4, GraphResting DEF GraphTyped

-----------------------------------------------------------------------------
\* For any users, handlers, posts and bounds, every variable of whispers, pulse drops,
\* referrals, the follow graph and the limits stays in its range: the reporters are as many
\* as are counted, no vote tries more often than its bound, and nothing is stored of what no
\* handler read (Whispers, PulseDrops, Referrals, SocialGraph, Limits).
THEOREM CommunityTypesKept == MCSpec => []AllTypesOK
<1>1. MCInit => Init /\ D!Init /\ F!Init /\ G!Init /\ L!Init
  BY DEF MCInit
<1>2. [MCNext]_vars => /\ [Next]_wVars /\ [D!Next]_D!dVars /\ [F!Next]_F!fVars
                       /\ [G!Next]_G!gVars /\ [L!Next]_L!lVars
  BY DEF MCNext, vars, ofDrop, ofReferral, ofGraph, ofLimits, D!dVars, D!drop, F!fVars, G!gVars, G!gData,
     L!lVars, L!Next
<1>3. D!Spec => [](D!TypeOK /\ D!CountsMatch /\ D!NoOrphans)
  BY DropsBounds, DropsTrue
<1>4. F!Spec => [](F!TypeOK /\ F!RewardsMatch /\ F!CodesLast)
  BY ReferralsBounds, ReferralsTrue
<1>5. L!Spec => [](L!TypeOK /\ L!LimitsHold)
  BY LimitsBounds, LimitsTrue
<1>6. Init => WhispersTyped /\ IInv
  BY WhispersStart, InitIInv
<1>7. WhispersTyped /\ IInv /\ [Next]_wVars => WhispersTyped' /\ IInv'
  BY WhisperStep, NextIInv
<1>8. G!Init => GraphTyped
  BY GraphBounds, GraphStart
<1>9. GraphTyped /\ [G!Next]_G!gVars => GraphTyped'
  BY GraphBounds, GraphStep
<1>10. WhispersTyped /\ GraphTyped /\ D!TypeOK /\ F!TypeOK /\ L!TypeOK => AllTypesOK
  BY DEF WhispersTyped, GraphTyped, AllTypesOK
<1>11. MCSpec => [](D!TypeOK /\ F!TypeOK /\ L!TypeOK)
  BY <1>1, <1>2, <1>3, <1>4, <1>5, PTL DEF MCSpec, D!Spec, F!Spec, L!Spec
<1>12. MCSpec => [](WhispersTyped /\ IInv /\ GraphTyped)
  BY <1>1, <1>2, <1>6, <1>7, <1>8, <1>9, PTL DEF MCSpec
<1>. QED BY <1>10, <1>11, <1>12, PTL
=============================================================================
