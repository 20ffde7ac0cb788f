------------------------------ MODULE CommunityMC ------------------------------
(* One instance of each small component for TLC.  They share nothing, so a     *)
(* behaviour is one of a single component, chosen at its start: the state      *)
(* spaces add up and do not multiply.                                          *)
EXTENDS Whispers, Integers, Sequences

CONSTANTS
  MaxPosts, MaxCalls, Codes, PostIds, MaxChanges,
  Clients, Proxy, Unsafe, Hops, Window, WindowMax, Rate, Burst, WarnEvery, MaxAsked, MaxClock \* Limits

VARIABLES
  part,
  dParticipants, dCounts, dOver, dPosts, dReq, dReplaced, dDied, dBegun,
  fUsers, fWriter, fReq, fShown,
  gFollows, gBlocked, gPosts, gStats, gGone, gReq, gBegun,
  lWin, lBucket, lClock, lAsked, lPassed, lTook, lOdd

D == INSTANCE PulseDrops
F == INSTANCE Referrals
G == INSTANCE SocialGraph
L == INSTANCE Limits

ASSUME GraphBounds == G!GraphAssumption
ASSUME LimitsBounds == L!LimitsAssumption
ASSUME DropsBounds == D!DropsAssumption
ASSUME ReferralsBounds == F!ReferralsAssumption

ofDrop == <<dParticipants, dCounts, dOver, dPosts, dReq, dReplaced, dDied, dBegun>>
ofReferral == <<fUsers, fWriter, fReq, fShown>>
ofGraph == <<gFollows, gBlocked, gPosts, gStats, gGone, gReq, gBegun>>
ofLimits == <<lWin, lBucket, lClock, lAsked, lPassed, lTook, lOdd>>
vars == <<part, wVars, ofDrop, ofReferral, ofGraph, ofLimits>>

MCInit ==
  /\ part \in {"whisper", "drop", "referral", "graph", "requests", "events"}
  /\ Init /\ D!Init /\ F!Init /\ G!Init /\ L!Init

MCNext ==
  /\ \/ part = "whisper" /\ Next /\ UNCHANGED <<ofDrop, ofReferral, ofGraph, ofLimits>>
     \/ part = "drop" /\ D!Next /\ UNCHANGED <<wVars, ofReferral, ofGraph, ofLimits>>
     \/ part = "referral" /\ F!Next /\ UNCHANGED <<wVars, ofDrop, ofGraph, ofLimits>>
     \/ part = "graph" /\ G!Next /\ UNCHANGED <<wVars, ofDrop, ofReferral, ofLimits>>
     \/ /\ \/ part = "requests" /\ L!Limited
           \/ part = "events" /\ L!Events
        /\ UNCHANGED <<wVars, ofDrop, ofReferral, ofGraph>>
  /\ UNCHANGED part

\* In another part the fairness of the graph asks for what never happens: there
\* only the initial state of `DriftHeals` is looked at.
MCSpec == MCInit /\ [][MCNext]_vars /\ (part = "graph" => G!Fairness)

-----------------------------------------------------------------------------
(* The properties of the other components, each stated in its module; those of  *)
(* Whispers are its own.                                                       *)

\* Every variable of every component is in its range.
AllTypesOK == TypeOK /\ D!TypeOK /\ F!TypeOK /\ G!TypeOK /\ L!TypeOK

\* The counters of a pulse drop are what its list of participants says, and a
\* response the drop was too late for is not left behind (PulseDrops).
DropsSettle == D!CountsMatch /\ D!NoOrphans
\* Every referral is counted once, and a code shown to a user stays his (Referrals).
ReferralsSettle == F!RewardsMatch /\ F!CodesLast
\* Windows and buckets let in what they should, refuse nobody without cause, and count
\* nobody for another (Limits).
LimitsHold == L!LimitsHold
\* Counters that drifted heal once nothing changes (SocialGraph).
DriftHeals == G!DriftHeals
=============================================================================
