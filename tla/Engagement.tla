------------------------------ MODULE Engagement ------------------------------
(* What a user does with a reel and what is kept of it: the counters of the     *)
(* reel (ReelController) and the affinity of the user to its author             *)
(* (userengagement.cc), which recordSignal and the daily decay both read and    *)
(* write.  One reel, by Author.                                                 *)
EXTENDS Integers, FiniteSets

CONSTANTS
  Viewers,
  Author,
  Requests,
  None,
  MaxViews,    \* bound: requests
  MaxDecays    \* bound: runs of the job engagement-decay

\* Handlers are told from the job, and from no writer at all.
EngagementAssumption ==
  /\ MaxViews \in Nat /\ MaxDecays \in Nat /\ IsFiniteSet(Requests)
  /\ "decay" \notin Requests /\ None \notin Requests \cup {"decay"}

VARIABLES
  vReel,       \* the reel, once it is created
  vThere,      \* comments of the reel, whose author ReelController::addComment inserts
  vPair,       \* the collection of engagements, one per viewer
  vReq,        \* handlers
  vJob,        \* the decay job
  vCalls,      \* what MaxViews bounds
  vDecays,     \* what MaxDecays bounds
  vSum,        \* history: sum of the fractions watched
  vSilent,     \* history: views that reported no fraction
  vAlone,      \* history: for each viewer, the writer nothing has overlapped
  vSettled,    \* history: viewers whose last writer was one
  vBroken      \* history: a handler broke off

vars == <<vReel, vThere, vPair, vReq, vJob, vCalls, vDecays, vSum, vSilent, vAlone, vSettled,
          vBroken>>

\* SIGNAL_WEIGHTS, in tenths.
Weights == [views |-> 1, likes |-> 10, comments |-> 20, shares |-> 30]
Signals == DOMAIN Weights

\* Ages of the last interaction: fresh, a half-life, more than thirty days.
Ages == 0 .. 2
\* computeAffinity, in fortieths: the weight of a signal halves with its age.
AffinityOf(raw, age) == raw * (CASE age = 0 -> 4 [] age = 1 -> 2 [] age = 2 -> 1)
One == 40

NoReel == [up |-> FALSE, views |-> 0, watched |-> 0, over |-> 1, shares |-> 0, comments |-> 0]
NoPair == [raw |-> 0, age |-> 0, affinity |-> 0, there |-> FALSE]
Idle == [pc |-> "idle", user |-> None, signal |-> "views", n |-> 0]
Resting == [pc |-> "rest", user |-> None, n |-> 0, done |-> {}]

At(r, pc) == vReq[r].pc = pc
JobAt(pc) == vJob.pc = pc
Goto(r, pc, n) == vReq' = [vReq EXCEPT ![r].pc = pc, ![r].n = n]

\* Writers of the affinity of u: between the count they have read and their write.
Writing(u) == {r \in Requests : vReq[r].user = u /\ At(r, "affinity")}
                \cup (IF JobAt("save") /\ vJob.user = u THEN {"decay"} ELSE {})
Starts(u, w) == vAlone' = [vAlone EXCEPT ![u] = IF Writing(u) = {} THEN w ELSE None]
Ends(u, w) == vSettled' = IF vAlone[u] = w THEN vSettled \cup {u} ELSE vSettled \ {u}

Begin(r, pc, u, signal, n) ==
  /\ At(r, "idle")
  /\ vCalls < MaxViews
  /\ vCalls' = vCalls + 1
  /\ vReq' = [vReq EXCEPT ![r] = [pc |-> pc, user |-> u, signal |-> signal, n |-> n]]
  /\ vReel.up
  /\ UNCHANGED <<vReel, vThere, vPair, vJob, vDecays, vSum, vSilent, vAlone, vSettled, vBroken>>

Rest == UNCHANGED <<vPair, vJob, vCalls, vDecays, vAlone, vSettled, vBroken>>

-----------------------------------------------------------------------------
(* The reel.                                                                    *)
\* The video is uploaded first; a failed upload leaves nothing in the database.
CreateReel ==
  /\ ~vReel.up
  /\ vReel' = [NoReel EXCEPT !.up = TRUE]
  /\ UNCHANGED vReq /\ Rest /\ UNCHANGED <<vThere, vSum, vSilent>>

\* The reel is looked up; the fraction watched is 0, 1 or not reported.
TrackViewFind(r, u, fraction) == Begin(r, "view", u, "views", fraction)

\* Mutant: the view is counted before the average is taken over the views.
CountViewFirst(r) ==
  LET views == vReel.views + 1
      f == vReq[r].n IN
  /\ At(r, "view")
  /\ vReel' = IF f = -1 THEN [vReel EXCEPT !.views = views]
              ELSE [vReel EXCEPT !.views = views,
                      !.watched = vReel.watched * views + f * vReel.over,
                      !.over = vReel.over * (views + 1)]
  /\ vSum' = IF f = -1 THEN vSum ELSE vSum + f
  /\ vSilent' = IF f = -1 THEN vSilent + 1 ELSE vSilent
  /\ Goto(r, "signal", 0)
  /\ Rest /\ UNCHANGED vThere

\* The average of before, times the views of before, and the new fraction, over
\* one view more: one pipeline update.  A view that reports none only counts.
CountView(r) ==
  LET views == vReel.views
      f == vReq[r].n IN
  /\ At(r, "view")
  /\ vReel' = IF f = -1 THEN [vReel EXCEPT !.views = views + 1]
              ELSE [vReel EXCEPT !.views = views + 1,
                      !.watched = vReel.watched * views + f * vReel.over,
                      !.over = vReel.over * (views + 1)]
  /\ vSum' = IF f = -1 THEN vSum ELSE vSum + f
  /\ vSilent' = IF f = -1 THEN vSilent + 1 ELSE vSilent
  /\ Goto(r, "signal", 0)
  /\ Rest /\ UNCHANGED vThere

\* A like that was put (module Toggles) goes on to the signal at once.
LikeReel(r, u) == Begin(r, "signal", u, "likes", 0)

CommentFind(r, u) == Begin(r, "comment", u, "comments", 0)
InsertComment(r) ==
  /\ At(r, "comment")
  /\ vThere' = vThere + 1
  /\ Goto(r, "count", 0)
  /\ Rest /\ UNCHANGED <<vReel, vSum, vSilent>>
CountComment(r) ==
  /\ At(r, "count")
  /\ vReel' = [vReel EXCEPT !.comments = @ + 1]
  /\ Goto(r, "signal", 0)
  /\ Rest /\ UNCHANGED <<vThere, vSum, vSilent>>

ShareFind(r, u) == Begin(r, "share", u, "shares", 0)
CountShare(r) ==
  /\ At(r, "share")
  /\ vReel' = [vReel EXCEPT !.shares = @ + 1]
  /\ Goto(r, "signal", 0)
  /\ Rest /\ UNCHANGED <<vThere, vSum, vSilent>>

-----------------------------------------------------------------------------
(* recordSignal.                                                                *)
\* The signal is added, and the pair made when there is none, in one update that
\* answers the new document.  Nobody engages with himself.
AddSignal(r) ==
  LET u == vReq[r].user
      raw == vPair[u].raw + Weights[vReq[r].signal] IN
  /\ At(r, "signal")
  /\ IF u = Author
     THEN vReq' = [vReq EXCEPT ![r] = Idle] /\ UNCHANGED <<vPair, vAlone>>
     ELSE /\ vPair' = [vPair EXCEPT ![u].raw = raw, ![u].age = 0, ![u].there = TRUE]
          /\ Goto(r, "affinity", raw)
          /\ Starts(u, r)
  /\ UNCHANGED <<vReel, vThere, vJob, vCalls, vDecays, vSum, vSilent, vSettled, vBroken>>

\* Mutant: the score is added to the one kept.
SetAffinityAdding(r) ==
  LET u == vReq[r].user IN
  /\ At(r, "affinity")
  /\ vPair' = [vPair EXCEPT ![u].affinity = @ + AffinityOf(vReq[r].n, 0)]
  /\ vReq' = [vReq EXCEPT ![r] = Idle]
  /\ Ends(u, r)
  /\ UNCHANGED <<vReel, vThere, vJob, vCalls, vDecays, vSum, vSilent, vAlone, vBroken>>

\* The score of the document that was answered; the document may be gone by now.
SetAffinity(r) ==
  LET u == vReq[r].user IN
  /\ At(r, "affinity")
  /\ vPair' = IF vPair[u].there THEN [vPair EXCEPT ![u].affinity = AffinityOf(vReq[r].n, 0)]
              ELSE vPair
  /\ vReq' = [vReq EXCEPT ![r] = Idle]
  /\ Ends(u, r)
  /\ UNCHANGED <<vReel, vThere, vJob, vCalls, vDecays, vSum, vSilent, vAlone, vBroken>>

-----------------------------------------------------------------------------
(* applyGlobalDecay.                                                            *)
\* Pairs that have been quiet for thirty days and score under one are deleted.
DecayDelete ==
  LET gone == {u \in Viewers : vPair[u].age = 2 /\ vPair[u].affinity < One} IN
  /\ JobAt("rest")
  /\ vDecays < MaxDecays
  /\ vDecays' = vDecays + 1
  /\ vPair' = [u \in Viewers |-> IF u \in gone THEN NoPair ELSE vPair[u]]
  /\ vSettled' = vSettled \cup {u \in gone : Writing(u) = {}}
  /\ vJob' = [Resting EXCEPT !.pc = "read"]
  /\ UNCHANGED <<vReel, vThere, vReq, vCalls, vSum, vSilent, vAlone, vBroken>>

\* The cursor brings the next pair as it stands.
DecayRead(u) ==
  /\ JobAt("read")
  /\ u \notin vJob.done
  /\ vPair[u].there
  /\ vJob' = [vJob EXCEPT !.pc = "save", !.user = u,
                !.n = AffinityOf(vPair[u].raw, vPair[u].age), !.done = @ \cup {u}]
  /\ Starts(u, "decay")
  /\ UNCHANGED <<vReel, vThere, vPair, vReq, vCalls, vDecays, vSum, vSilent, vSettled, vBroken>>

DecaySave ==
  LET u == vJob.user IN
  /\ JobAt("save")
  /\ vPair' = IF vPair[u].there THEN [vPair EXCEPT ![u].affinity = vJob.n] ELSE vPair
  /\ vJob' = [vJob EXCEPT !.pc = "read", !.user = None, !.n = 0]
  /\ Ends(u, "decay")
  /\ UNCHANGED <<vReel, vThere, vReq, vCalls, vDecays, vSum, vSilent, vAlone, vBroken>>

DecayEnds ==
  /\ JobAt("read")
  /\ \A u \in Viewers : vPair[u].there => u \in vJob.done
  /\ vJob' = Resting
  /\ UNCHANGED <<vReel, vThere, vPair, vReq, vCalls, vDecays, vSum, vSilent, vAlone, vSettled,
                 vBroken>>

\* Two weeks and more pass; no handler and no run of the job lasts that long.
TimePasses ==
  /\ \A r \in Requests : At(r, "idle")
  /\ JobAt("rest")
  /\ \E u \in Viewers : vPair[u].age < 2
  /\ vPair' = [u \in Viewers |-> IF vPair[u].there /\ vPair[u].age < 2
                                 THEN [vPair[u] EXCEPT !.age = @ + 1] ELSE vPair[u]]
  /\ vSettled' = {u \in vSettled : ~vPair[u].there}
  /\ UNCHANGED <<vReel, vThere, vReq, vJob, vCalls, vDecays, vSum, vSilent, vAlone, vBroken>>

\* The process dies, or a command throws, between two commands.
BreakOff(r) ==
  /\ ~At(r, "idle")
  /\ vReq' = [vReq EXCEPT ![r] = Idle]
  /\ vSettled' = IF At(r, "affinity") THEN vSettled \ {vReq[r].user} ELSE vSettled
  /\ vBroken' = TRUE
  /\ UNCHANGED <<vReel, vThere, vPair, vJob, vCalls, vDecays, vSum, vSilent, vAlone>>

Fresh ==
  /\ vReel = NoReel
  /\ vThere = 0
  /\ vPair = [u \in Viewers |-> NoPair]
  /\ vReq = [r \in Requests |-> Idle]
  /\ vJob = Resting
  /\ vSum = 0
  /\ vSilent = 0
  /\ vAlone = [u \in Viewers |-> None]
  /\ vSettled = Viewers
  /\ vBroken = FALSE

Init == Fresh /\ vCalls = 0 /\ vDecays = 0

Next ==
  \/ CreateReel
  \/ \E r \in Requests, u \in Viewers \cup {Author} :
       \/ \E fraction \in {-1, 0, 1} : TrackViewFind(r, u, fraction)
       \/ LikeReel(r, u) \/ CommentFind(r, u) \/ ShareFind(r, u)
  \/ \E r \in Requests :
       \/ CountView(r) \/ InsertComment(r) \/ CountComment(r) \/ CountShare(r)
       \/ AddSignal(r) \/ SetAffinity(r) \/ BreakOff(r)
  \/ DecayDelete \/ (\E u \in Viewers : DecayRead(u)) \/ DecaySave \/ DecayEnds
  \/ TimePasses

Spec == Init /\ [][Next]_vars

-----------------------------------------------------------------------------
TypeOK ==
  /\ vReel.up \in BOOLEAN
  /\ vReel.views \in Nat /\ vReel.watched \in Nat /\ vReel.over \in Nat \ {0}
  /\ vThere \in Nat
  /\ vPair \in [Viewers -> [raw : Nat, age : Ages, affinity : Nat, there : BOOLEAN]]
  /\ \A r \in Requests : vReq[r].user \in Viewers \cup {Author, None}
  /\ vJob.pc \in {"rest", "read", "save"}
  /\ vCalls \in 0 .. MaxViews
  /\ vDecays \in 0 .. MaxDecays
  /\ vSettled \subseteq Viewers

\* recordSignal and the decay each write a score worked out of a document they
\* read before, so overlapping ones may leave an old score; the last one of a
\* pair that nothing overlapped leaves the score of the signals as they are, and
\* of their age.
AffinitySettles ==
  \A u \in vSettled :
    Writing(u) = {} => vPair[u].affinity = AffinityOf(vPair[u].raw, vPair[u].age)

\* The average kept with the reel is the average of the fractions reported as long
\* as every view reports one, whatever views overlap (trackView, "maintain a
\* running average watch completion"), and unless a handler breaks off the
\* comments counted are those that are there.
CountersExact ==
  /\ vSilent = 0 => vReel.watched * vReel.views = vSum * vReel.over
  /\ ~vBroken => vReel.comments + Cardinality({r \in Requests : At(r, "count")}) = vThere
=============================================================================
