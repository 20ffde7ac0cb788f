-------------------------------- MODULE Scores --------------------------------
(* The pulse score of one user: recordPulseScoreActions of PostController, which   *)
(* reads the document, replays actions on it (recordAction and recalculate of      *)
(* pulsescore.cc) and replaces it under its version.  The score and the tier are     *)
(* left out but for what they share with the rest: they are worked out              *)
(* of the metrics at every replacement.                                            *)
EXTENDS Integers, Sequences, FiniteSets, SequencesExt, FiniteSetsExt

CONSTANTS
  Handlers,
  Actions,         \* what a signal may be of
  MaxAttempts,     \* attempts of recordPulseScoreActions
  MaxHistory,      \* days the history is kept for
  Goal,            \* a number of days in a row, or of actions, that an achievement is for
  MaxSignals,      \* bound: calls
  MaxDay           \* bound: the last day

ScoresAssumption ==
  /\ MaxAttempts \in Nat \ {0} /\ Goal \in Nat \ {0} /\ MaxDay \in Nat \ {0}
  /\ MaxHistory \in Nat /\ MaxSignals \in Nat

VARIABLES
  xDoc,            \* the document of the user
  xDay,            \* today
  xJob,            \* handlers
  xCalls,          \* what MaxSignals bounds
  xDone,           \* history: actions that were answered as persisted
  xDays,           \* history: days persisted actions were replayed on
  xSplit           \* history: those whose midnight fell into their first action

xVars == <<xDoc, xDay, xJob, xCalls, xDone, xDays, xSplit>>

NoDay == 0
Zero == [a \in Actions |-> 0]
NewDoc == [v |-> 0, counts |-> Zero, streak |-> 0, longest |-> 0, active |-> 0, last |-> NoDay,
           history |-> <<>>, earned |-> {}, there |-> TRUE]
NoDoc == [NewDoc EXCEPT !.there = FALSE]
Idle == [pc |-> "idle", list |-> <<>>, doc |-> NoDoc, new |-> NoDoc, day |-> 0, days |-> {},
         split |-> {}, tries |-> 0]
At(w, pc) == xJob[w].pc = pc

-----------------------------------------------------------------------------
(* What an action does to a document.                                           *)
\* Mutant: a day without any action does not break the streak.
StreakForgiving(doc, clock) == doc.streak + 1
Streak(doc, clock) == IF doc.last = clock - 1 THEN doc.streak + 1 ELSE 1

\* The clock is read for the day of the action, and again for the day before it.
RecordAction(doc, a, day, clock) ==
  LET counted == [doc EXCEPT !.counts = [doc.counts EXCEPT ![a] = doc.counts[a] + 1]]
      streak == Streak(doc, clock) IN
  IF doc.last = day THEN counted
  ELSE [counted EXCEPT !.streak = streak, !.active = @ + 1, !.last = day,
                       !.longest = IF streak > @ THEN streak ELSE @]

\* Achievements are only ever added.
CheckAchievements(doc) ==
  [doc EXCEPT !.earned = @ \cup {a \in Actions : doc.counts[a] >= Goal}
                           \cup (IF doc.streak >= Goal THEN {"streak"} ELSE {})]

\* One entry of the history a day, the oldest dropped.
Recalculate(doc, day) ==
  LET list == Append(doc.history, day)
      cut == Len(list) - MaxHistory
      earned == CheckAchievements(doc) IN
  IF doc.history # <<>> /\ Last(doc.history) = day THEN earned
  ELSE [earned EXCEPT !.history = IF cut > 0 THEN SubSeq(list, cut + 1, Len(list)) ELSE list]

-----------------------------------------------------------------------------
(* recordPulseScoreActions.                                                     *)
\* The document is made if there is none; the unique index lets one of two inserts
\* through and the other reads its winner's.
GetOrCreate(w, list) ==
  /\ At(w, "idle")
  /\ xCalls < MaxSignals
  /\ xCalls' = xCalls + 1
  /\ xJob' = [xJob EXCEPT ![w] = [Idle EXCEPT !.pc = IF xDoc.there THEN "load" ELSE "insert",
                                              !.list = list]]
  /\ UNCHANGED <<xDoc, xDay, xDone, xDays, xSplit>>
InsertScore(w) ==
  /\ At(w, "insert")
  /\ xDoc' = IF xDoc.there THEN xDoc ELSE NewDoc
  /\ xJob' = [xJob EXCEPT ![w].pc = "load"]
  /\ UNCHANGED <<xDay, xCalls, xDone, xDays, xSplit>>

Load(w) ==
  /\ At(w, "load")
  /\ xJob' = [xJob EXCEPT ![w].pc = "replay", ![w].doc = xDoc, ![w].new = xDoc,
                          ![w].day = xDay, ![w].tries = @ + 1]
  /\ UNCHANGED <<xDoc, xDay, xCalls, xDone, xDays, xSplit>>

\* Midnight may pass before any of the three times one action looks at the clock: for
\* its day, for the day before, and for the history.
Replay(w, day, clock, entry) ==
  LET q == xJob[w]
      left == q.list
      split == IF q.new.last # day /\ clock # day THEN {day} ELSE {} IN
  /\ At(w, "replay")
  /\ left # <<>>
  /\ q.day <= day /\ day <= clock /\ clock <= entry
  /\ xJob' = [xJob EXCEPT ![w] = [q EXCEPT
       !.new = Recalculate(RecordAction(q.new, Head(left), day, clock), entry),
       !.list = Tail(left), !.day = entry, !.days = @ \cup {day}, !.split = @ \cup split]]
  /\ UNCHANGED <<xDoc, xDay, xCalls, xDone, xDays, xSplit>>

\* Mutant: the document that was read is replaced whatever its version is by now.
UnchangedSinceAny(doc) == xDoc.there
UnchangedSince(doc) == xDoc.v = doc.v

\* The actions and the days of the metrics the replacement adds.
Added(q) == [a \in Actions |-> q.new.counts[a] - q.doc.counts[a]]
ReplaceScore(w) ==
  LET q == xJob[w] IN
  /\ At(w, "replay")
  /\ q.list = <<>>
  /\ UnchangedSince(q.doc)
  /\ xDoc' = [q.new EXCEPT !.v = q.doc.v + 1]
  /\ xDone' = [a \in Actions |-> xDone[a] + Added(q)[a]]
  /\ xDays' = xDays \cup q.days
  /\ xSplit' = xSplit \cup q.split
  /\ xJob' = [xJob EXCEPT ![w] = Idle]
  /\ UNCHANGED <<xDay, xCalls>>

\* Another writer won: the same actions again on the document as it is by now, and
\* after eight attempts not at all; the post or the like it is for stands.
ReplaceLost(w, list) ==
  LET q == xJob[w] IN
  /\ At(w, "replay")
  /\ q.list = <<>>
  /\ ~UnchangedSince(q.doc)
  /\ \A a \in Actions : Cardinality({i \in DOMAIN list : list[i] = a}) = Added(q)[a]
  /\ xJob' = [xJob EXCEPT ![w] = IF q.tries = MaxAttempts THEN Idle
                                 ELSE [Idle EXCEPT !.pc = "load", !.list = list,
                                                   !.tries = q.tries]]
  /\ UNCHANGED <<xDoc, xDay, xCalls, xDone, xDays, xSplit>>

\* The process dies, or a command throws.
BreakOff(w) ==
  /\ ~At(w, "idle")
  /\ xJob' = [xJob EXCEPT ![w] = Idle]
  /\ UNCHANGED <<xDoc, xDay, xCalls, xDone, xDays, xSplit>>

\* Midnight (UTC); no handler lasts a whole day.
NextDay ==
  /\ xDay < MaxDay
  /\ \A w \in Handlers : xJob[w].day \in {0, xDay}
  /\ xDay' = xDay + 1
  /\ UNCHANGED <<xDoc, xJob, xCalls, xDone, xDays, xSplit>>

Init ==
  /\ xDoc = NoDoc
  /\ xDay = 1
  /\ xJob = [w \in Handlers |-> Idle]
  /\ xCalls = 0
  /\ xDone = Zero
  /\ xDays = {}
  /\ xSplit = {}

\* A post, a post with media, a like.
Lists == {<<a>> : a \in Actions} \cup {<<a, b>> : a, b \in Actions}

Next ==
  \/ \E w \in Handlers, list \in Lists : GetOrCreate(w, list) \/ ReplaceLost(w, list)
  \/ \E w \in Handlers, day, clock, entry \in 1 .. xDay : Replay(w, day, clock, entry)
  \/ \E w \in Handlers : InsertScore(w) \/ Load(w) \/ ReplaceScore(w) \/ BreakOff(w)
  \/ NextDay

Spec == Init /\ [][Next]_xVars

-----------------------------------------------------------------------------
TypeOK ==
  /\ xDoc.counts \in [Actions -> Nat]
  /\ xDoc.history \in Seq(1 .. MaxDay) /\ Len(xDoc.history) <= MaxHistory
  /\ xDay \in 1 .. MaxDay
  /\ \A w \in Handlers : xJob[w].tries \in 0 .. MaxAttempts
  /\ xCalls \in 0 .. MaxSignals
  /\ xDays \subseteq 0 .. MaxDay /\ xSplit \subseteq xDays

\* The days in a row that end with one: a day whose midnight fell into its first action
\* counts as the first of its row, whatever went before.
RunOf(day) ==
  CHOOSE n \in 1 .. MaxDay :
    /\ day - n + 1 .. day \subseteq xDays
    /\ (day - n + 2 .. day) \cap xSplit = {}
    /\ day - n \notin xDays \/ day - n + 1 \in xSplit

\* "Replacing a document read before another request used to overwrite the other
\* request's metrics, achievements, and history": every action persisted is counted
\* once, the streak is the run of active days that ends with the last and the days
\* are counted, the longest is no shorter, achievements stay earned, and the
\* history has one entry a day in order, also when midnight passes on the way.  Only
\* a midnight between the two readings of recordAction itself (todayStr, then
\* yesterdayStr) breaks a row that is whole, and then at that day and no other.
ScoresWhole ==
  /\ xDoc.counts = xDone
  /\ xDoc.active = Cardinality(xDays)
  /\ xDays # {} => /\ xDoc.last = Max(xDays)
                   /\ xDoc.streak = RunOf(xDoc.last)
  /\ xDoc.longest >= xDoc.streak
  /\ {a \in Actions : xDone[a] >= Goal} \subseteq xDoc.earned
  /\ \A i \in 1 .. Len(xDoc.history) - 1 : xDoc.history[i] < xDoc.history[i + 1]
=============================================================================
