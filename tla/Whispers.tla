-------------------------------- MODULE Whispers --------------------------------
(* One whisper: voting by optimistic read and conditional write                *)
(* (whisper::vote), reporting and hiding (WhisperController::report), expiry.  *)
(*                                                                             *)
(* One action per access to MongoDB; `wReq[r]` is the handler worker r runs    *)
(* and what it has read.                                                       *)
EXTENDS Community

CONSTANTS
  MaxTries,     \* attempts a vote makes before it gives up (8 in the code)
  HideAt,       \* reports that hide a whisper (5 in the code)
  MaxVotes      \* bound: no vote begins once this many were counted

ASSUME WhispersAssumption == MaxTries \in Nat /\ HideAt \in Nat \ {0}

Choices == {"up", "down"}

VARIABLES
  wVoters,      \* voters: the vote of each user, None where he is not listed
  wTally,       \* upvotes and downvotes as stored (score is their difference)
  wVersion,     \* __v; 0 where the document has none
  wReporters,   \* reportedBy
  wReports,     \* reports
  wHidden,      \* isHidden
  wExpired,     \* is expiresAt in the past?
  wReq,         \* handlers
  wDied         \* history: has a handler ended between its count and its hiding?

whisper == <<wVoters, wTally, wVersion>>
reports == <<wReporters, wReports, wHidden>>
wVars == <<whisper, reports, wExpired, wReq, wDied>>

Ballots == [Users -> Choices \cup {None}]
Idle == [pc |-> "idle", user |-> None, vote |-> None, tries |-> 0,
         seen |-> [u \in Users |-> None], version |-> 0]
Call == [pc : {"idle", "read", "write", "report", "count", "hide"},
         user : Users \cup {None}, vote : Choices \cup {None},
         tries : 0 .. MaxTries, seen : Ballots, version : Nat]

Init ==
  /\ wVoters = [u \in Users |-> None]
  /\ wTally = [choice \in Choices |-> 0]
  /\ wVersion = 0
  /\ wReporters = {} /\ wReports = 0
  /\ wHidden = FALSE /\ wExpired = FALSE
  /\ wReq = [r \in Requests |-> Idle]
  /\ wDied = FALSE

At(r, pc) == wReq[r].pc = pc
Goto(r, pc) == wReq' = [wReq EXCEPT ![r].pc = pc]
End(r) == wReq' = [wReq EXCEPT ![r] = Idle]

\* The predicate every read and write of a vote or a report carries.
Visible == ~wExpired /\ ~wHidden

Begin(r, pc, u, choice) ==
  /\ At(r, "idle")
  /\ wReq' = [wReq EXCEPT ![r] = [Idle EXCEPT !.pc = pc, !.user = u, !.vote = choice]]
  /\ UNCHANGED <<whisper, reports, wExpired, wDied>>

-----------------------------------------------------------------------------
(* Voting.                                                                     *)
BeginVote(r, u, choice) == wVersion < MaxVotes /\ Begin(r, "read", u, choice)

ReadWhisper(r) ==
  /\ At(r, "read")
  /\ IF Visible
     THEN wReq' = [wReq EXCEPT ![r] = [@ EXCEPT !.pc = "write",
            !.seen = wVoters, !.version = wVersion]]
     ELSE End(r)
  /\ UNCHANGED <<whisper, reports, wExpired, wDied>>

\* The same vote again takes it back, the other one replaces it; the tallies
\* are counted from the voters, not carried forward.
Voted(q) == [q.seen EXCEPT ![q.user] = IF @ = q.vote THEN None ELSE q.vote]
Counted(voters) ==
  [choice \in Choices |-> Cardinality({u \in Users : voters[u] = choice})]

\* Mutant: the write does not ask for the version that was read.
WritableAnyVersion(q) == Visible

Writable(q) == Visible /\ wVersion = q.version

WriteVote(r) ==
  /\ At(r, "write") /\ Writable(wReq[r])
  /\ wVoters' = Voted(wReq[r])
  /\ wTally' = Counted(wVoters')
  /\ wVersion' = wVersion + 1
  /\ End(r)
  /\ UNCHANGED <<reports, wExpired, wDied>>

\* Nothing matched: read again, or give up with "Whisper vote conflicted".
Conflict(r) ==
  /\ At(r, "write") /\ ~Writable(wReq[r])
  /\ IF wReq[r].tries + 1 < MaxTries
     THEN wReq' = [wReq EXCEPT ![r] = [wReq[r] EXCEPT !.pc = "read", !.tries = @ + 1]]
     ELSE End(r)
  /\ UNCHANGED <<whisper, reports, wExpired, wDied>>

-----------------------------------------------------------------------------
(* Reporting.                                                                  *)
BeginReport(r, u) == Begin(r, "report", u, None)

FindReported(r) ==
  /\ At(r, "report")
  /\ IF Visible THEN Goto(r, "count") ELSE End(r)
  /\ UNCHANGED <<whisper, reports, wExpired, wDied>>

\* Mutant: one report more.
HidesLate(n) == n > HideAt

Hides(n) == n >= HideAt

\* Mutant: the update does not look at who has reported.
ReportableAgain(u) == Visible

Reportable(u) == Visible /\ u \notin wReporters

\* One update adds the reporter and counts him, unless he has reported before.
CountReport(r) ==
  LET u == wReq[r].user IN
  /\ At(r, "count")
  /\ IF Reportable(u)
     THEN /\ wReporters' = wReporters \cup {u}
          /\ wReports' = wReports + 1
          /\ IF Hides(wReports') THEN Goto(r, "hide") ELSE End(r)
     ELSE End(r) /\ UNCHANGED <<wReporters, wReports>>
  /\ UNCHANGED <<whisper, wHidden, wExpired, wDied>>

Hide(r) ==
  /\ At(r, "hide")
  /\ wHidden' = TRUE
  /\ End(r)
  /\ UNCHANGED <<whisper, wReporters, wReports, wExpired, wDied>>

-----------------------------------------------------------------------------
Expire ==
  /\ ~wExpired
  /\ wExpired' = TRUE
  /\ UNCHANGED <<whisper, reports, wReq, wDied>>

\* A handler that throws, or whose process dies.
Abort(r) ==
  /\ ~At(r, "idle")
  /\ End(r)
  /\ wDied' = (wDied \/ At(r, "hide"))
  /\ UNCHANGED <<whisper, reports, wExpired>>

Step(r) ==
  \/ ReadWhisper(r) \/ WriteVote(r) \/ Conflict(r)
  \/ FindReported(r) \/ CountReport(r) \/ Hide(r)

Next ==
  \/ \E r \in Requests, u \in Users :
       \/ \E choice \in Choices : BeginVote(r, u, choice)
       \/ BeginReport(r, u)
  \/ \E r \in Requests : Step(r) \/ Abort(r)
  \/ Expire

Spec == Init /\ [][Next]_wVars

-----------------------------------------------------------------------------
(* Properties                                                                  *)

\* The stored fields are in range, each account is counted once as a reporter
\* (the predicate of the update in report), and no vote tries more often than
\* its bound (the loop in whisper::vote).
TypeOK ==
  /\ wVoters \in Ballots
  /\ wTally \in [Choices -> Nat]
  /\ wVersion \in Nat
  /\ wReporters \subseteq Users
  /\ wReports = Cardinality(wReporters)
  /\ wHidden \in BOOLEAN /\ wExpired \in BOOLEAN /\ wDied \in BOOLEAN
  /\ wReq \in [Requests -> Call]

\* Whatever votes overlap, the document goes through a sequence of whole votes,
\* none of them lost, doubled or counted after the whisper was hidden or had
\* expired (the versioned write of whisper::vote).
TheBallot == INSTANCE Ballot WITH
  votes <- wVoters, tally <- wTally, open <- Visible
BallotSpec == TheBallot!Spec

\* A whisper with enough reports is hidden, or about to be: only a handler that
\* died between counting its report and hiding leaves it visible.
HiddenWhenReported ==
  wReports >= HideAt =>
    wHidden \/ wDied \/ \E r \in Requests : At(r, "hide")
=============================================================================
