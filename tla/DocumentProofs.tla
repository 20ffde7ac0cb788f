----------------------------- MODULE DocumentProofs ----------------------------
(* Theorems about documents that ContentMC has handlers read, work on and write     *)
(* back under the version they read: pulse scores, chain stories, social DNA.       *)
EXTENDS ContentMC, WellFoundedInduction, FiniteSetTheorems, SequenceTheorems, TLAPS

-----------------------------------------------------------------------------
(* Scores.                                                                      *)

LEMMA ScoreSizes == \A S : X!Cardinality(S) = Cardinality(S) /\ (X!IsFiniteSet(S) <=> IsFiniteSet(S))
  BY DEF Cardinality, IsFiniteSet, X!Cardinality, X!IsFiniteSet

\* n days in a row, the last of them day, and no day before them; only the first may be
\* one of C, that midnight fell into, and begins a row whatever day there is before it.
RunEnds(n, S, C, day) ==
  /\ n \in 1 .. MaxDay
  /\ \A d \in day - n + 1 .. day : d \in S
  /\ \A d \in day - n + 2 .. day : d \notin C
  /\ day - n \notin S \/ day - n + 1 \in C

\* What the metrics of a document say of the days it was active on, up to day.
DaysKept(doc, S, C, day) ==
  /\ S \subseteq 1 .. day /\ C \subseteq S
  /\ doc.active = X!Cardinality(S)
  /\ S = {} => doc.last = X!NoDay /\ doc.streak = 0
  /\ S # {} => doc.last \in S /\ (\A d \in S : d <= doc.last) /\ RunEnds(doc.streak, S, C, doc.last)
  /\ doc.longest >= doc.streak
HistoryKept(doc, day) ==
  /\ Len(doc.history) <= MaxHistory
  /\ \A i \in 1 .. Len(doc.history) : doc.history[i] \in 1 .. day
  /\ \A i \in 1 .. Len(doc.history) - 1 : doc.history[i] < doc.history[i + 1]
EarnedKept(doc) == \A a \in Actions : doc.counts[a] >= Goal => a \in doc.earned
Kept(doc, S, C, day) == DaysKept(doc, S, C, day) /\ HistoryKept(doc, day) /\ EarnedKept(doc)

ScoreDoc == [v : Nat, counts : [Actions -> Nat], streak : Nat, longest : Nat, active : Nat, last : Nat,
        history : Seq(1 .. MaxDay), earned : SUBSET (Actions \cup {"streak"}), there : BOOLEAN]
ScoreJob == [pc : {"idle", "insert", "load", "replay"}, list : Seq(Actions), doc : ScoreDoc,
             new : ScoreDoc, day : 0 .. MaxDay, days : SUBSET (1 .. MaxDay),
             split : SUBSET (1 .. MaxDay), tries : 0 .. MaxAttempts]

\* The copy a handler works on has the metrics of some days, and of all days until then if
\* the document it has read is still the stored one.
JobKnows(w) ==
  LET q == xJob[w] IN
  /\ q.pc \in {"insert", "load"} => q.tries < MaxAttempts /\ q.days = {} /\ q.split = {}
  /\ q.pc \in {"load", "replay"} => xDoc.there
  /\ q.pc = "replay" =>
       /\ q.new.there /\ q.day \in 1 .. xDay
       /\ q.doc.v <= xDoc.v
       /\ q.doc.v = xDoc.v => q.doc = xDoc
       /\ \E S, C \in SUBSET (1 .. MaxDay) :
            /\ Kept(q.new, S \cup q.days, C \cup q.split, q.day)
            /\ q.doc.v = xDoc.v => S = xDays /\ C = xSplit

ScoreStored ==
  /\ xDoc \in ScoreDoc
  /\ xJob \in [Requests -> ScoreJob]
  /\ xDay \in 1 .. MaxDay /\ xCalls \in 0 .. MaxSignals
  /\ xDone \in [Actions -> Nat] /\ xDays \subseteq 1 .. MaxDay /\ xSplit \subseteq 1 .. MaxDay
ScoreInv ==
  /\ ScoreStored
  /\ xDoc.counts = xDone
  /\ Kept(xDoc, xDays, xSplit, xDay)
  /\ ~xDoc.there => xDoc = X!NoDoc /\ xDays = {} /\ xSplit = {}
  /\ \A w \in Requests : JobKnows(w)

LEMMA ScoreFacts ==
  /\ MaxAttempts \in Nat \ {0} /\ Goal \in Nat \ {0} /\ MaxDay \in Nat \ {0}
  /\ MaxHistory \in Nat /\ MaxSignals \in Nat
  BY ScoreBounds DEF X!ScoresAssumption

LEMMA DocFields ==
  ASSUME NEW doc \in ScoreDoc
  PROVE  /\ doc.v \in Nat /\ doc.counts \in [Actions -> Nat] /\ doc.streak \in Nat /\ doc.longest \in Nat
         /\ doc.active \in Nat /\ doc.last \in Nat /\ doc.history \in Seq(1 .. MaxDay)
         /\ doc.earned \subseteq Actions \cup {"streak"} /\ doc.there \in BOOLEAN
  BY DEF ScoreDoc

\* Days before today and today are one more.
LEMMA DayAdded ==
  ASSUME NEW day \in Nat, NEW S, S \subseteq 1 .. day
  PROVE  /\ X!Cardinality(S) \in Nat
         /\ day \notin S => X!Cardinality(S \cup {day}) = X!Cardinality(S) + 1
  <1>1. IsFiniteSet(1 .. day)
    BY FS_Interval
  <1>2. IsFiniteSet(S)
    BY <1>1, FS_Subset
  <1> QED BY <1>2, FS_AddElement, FS_CardinalityType, ScoreSizes

\* The streak of a document that was last active before today, with the day before
\* counted from a clock that may show a later one by now.
LEMMA StreakGrows ==
  ASSUME NEW doc \in ScoreDoc, NEW S, NEW C, NEW day \in 1 .. MaxDay, DaysKept(doc, S, C, day),
         doc.last # day, NEW clock \in 1 .. MaxDay, day <= clock
  PROVE  LET split == IF clock # day THEN {day} ELSE {} IN
         /\ day \notin S
         /\ X!Streak(doc, clock) \in Nat
         /\ RunEnds(X!Streak(doc, clock), S \cup {day}, C \cup split, day)
  <1> DEFINE split == IF clock # day THEN {day} ELSE {}
  <1>1. doc.streak \in Nat /\ doc.last \in Nat /\ MaxDay \in Nat
    BY DocFields, ScoreFacts
  <1>2. S \subseteq 1 .. day /\ C \subseteq S /\ day \notin S /\ day \notin C
    BY <1>1 DEF DaysKept, X!NoDay
  <1>3. doc.last < day
    BY <1>1, <1>2 DEF DaysKept, X!NoDay
  <1>4. CASE clock # day
    <2>1. split = {day}
      BY <1>4
    <2>2. X!Streak(doc, clock) = 1
      BY <1>1, <1>3, <1>4 DEF X!Streak
    <2>3. \A d \in day - 1 + 1 .. day : d = day
      OBVIOUS
    <2> HIDE DEF split
    <2>4. RunEnds(1, S \cup {day}, C \cup split, day)
      BY <2>1, <2>3, <1>1 DEF RunEnds
    <2> QED BY <1>2, <2>2, <2>4 DEF split
  <1>5. CASE clock = day
    <2>1. C \cup split = C
      BY <1>5
    <2> HIDE DEF split
    <2> SUFFICES X!Streak(doc, day) \in Nat /\ RunEnds(X!Streak(doc, day), S \cup {day}, C, day)
      BY <1>2, <1>5, <2>1 DEF split
    <2>2. CASE doc.last = day - 1 /\ S # {}
      <3>1. /\ doc.last \in S
            /\ doc.streak \in 1 .. MaxDay
            /\ \A d \in doc.last - doc.streak + 1 .. doc.last : d \in S
            /\ \A d \in doc.last - doc.streak + 2 .. doc.last : d \notin C
            /\ doc.last - doc.streak \notin S \/ doc.last - doc.streak + 1 \in C
        BY <2>2 DEF DaysKept, RunEnds
      <3>2. X!Streak(doc, day) = doc.streak + 1
        BY <2>2 DEF X!Streak
      <3>3. doc.last - doc.streak + 1 \in S
        BY <3>1, <1>1
      <3>4. doc.streak + 1 \in 1 .. MaxDay
        BY <3>1, <3>3, <2>2, <1>1, <1>2
      <3>5. ASSUME NEW d \in day - (doc.streak + 1) + 1 .. day PROVE d \in S \cup {day}
        <4>1. d = day \/ d \in doc.last - doc.streak + 1 .. doc.last
          BY <2>2, <1>1
        <4> QED BY <4>1, <3>1
      <3>6. ASSUME NEW d \in day - (doc.streak + 1) + 2 .. day PROVE d \notin C
        <4>1. d = day \/ d \in doc.last - doc.streak + 2 .. doc.last
          BY <2>2, <1>1
        <4> QED BY <4>1, <3>1, <1>2
      <3>7. day - (doc.streak + 1) \notin S \cup {day} \/ day - (doc.streak + 1) + 1 \in C
        <4>1. day - (doc.streak + 1) = doc.last - doc.streak
          BY <2>2, <1>1
        <4>2. day - (doc.streak + 1) # day
          BY <1>1
        <4> QED BY <4>1, <4>2, <3>1
      <3> QED BY <3>2, <3>4, <3>5, <3>6, <3>7, <1>1 DEF RunEnds
    <2>3. CASE ~(doc.last = day - 1 /\ S # {})
      <3>1. X!Streak(doc, day) = 1
        BY <2>3, <1>1 DEF X!Streak, DaysKept
      <3>2. day - 1 \notin S
        BY <2>3, <1>1, <1>2, <1>3 DEF DaysKept
      <3>3. \A d \in day - 1 + 1 .. day : d = day
        OBVIOUS
      <3> QED BY <3>1, <3>2, <3>3, <1>1, <1>2 DEF RunEnds
    <2> QED BY <2>2, <2>3
  <1> QED BY <1>4, <1>5

\* What one action makes of a document that is kept, and what it adds.
Acted(doc, S, C, a, day, clock, split, next) ==
  /\ doc \in ScoreDoc /\ DaysKept(doc, S, C, day)
  /\ a \in Actions /\ day \in 1 .. MaxDay /\ clock \in 1 .. MaxDay /\ day <= clock
  /\ split = IF doc.last # day /\ clock # day THEN {day} ELSE {}
  /\ next = X!RecordAction(doc, a, day, clock)
LEMMA ActionRecorded ==
  ASSUME NEW doc, NEW S, NEW C, NEW a, NEW day, NEW clock, NEW split, NEW next,
         Acted(doc, S, C, a, day, clock, split, next)
  PROVE  /\ next \in ScoreDoc /\ next.history = doc.history /\ next.there = doc.there
         /\ DaysKept(next, S \cup {day}, C \cup split, day)
  <1> DEFINE counts == [doc.counts EXCEPT ![a] = doc.counts[a] + 1]
             counted == [doc EXCEPT !.counts = counts]
  <1> USE DEF Acted
  <1>0. day \in Nat
    BY ScoreFacts
  <1>1. counted \in ScoreDoc /\ counted.history = doc.history /\ counted.there = doc.there
    <2>1. doc.counts \in [Actions -> Nat]
      BY DocFields
    <2>2. counts \in [Actions -> Nat]
      BY <2>1
    <2> HIDE DEF counts
    <2> QED BY <2>2 DEF ScoreDoc
  <1>2. /\ counted.active = doc.active /\ counted.last = doc.last /\ counted.streak = doc.streak
        /\ counted.longest = doc.longest
    BY DEF ScoreDoc
  <1> HIDE DEF counted
  <1>3. CASE doc.last = day
    <2>1. X!RecordAction(doc, a, day, clock) = counted
      BY <1>3, Zenon DEF X!RecordAction, counted
    <2>2. day \in S
      BY <1>3 DEF DaysKept, X!NoDay
    <2>3. S \cup {day} = S /\ C \cup split = C
      BY <2>2, <1>3
    <2>4. DaysKept(counted, S, C, day)
      BY <1>2 DEF DaysKept
    <2> QED BY <2>1, <2>3, <2>4, <1>1
  <1>4. CASE doc.last # day
    <2> DEFINE streak == X!Streak(doc, clock)
               longest == IF streak > doc.longest THEN streak ELSE doc.longest
    <2>1. day \notin S /\ streak \in Nat /\ RunEnds(streak, S \cup {day}, C \cup split, day)
      <3>1. split = IF clock # day THEN {day} ELSE {}
        BY <1>4
      <3> QED BY <1>4, <3>1, StreakGrows
    <2>2. doc.longest \in Nat /\ doc.active \in Nat
      BY DocFields
    <2>3. longest \in Nat /\ longest >= streak
      BY <2>1, <2>2
    <2> HIDE DEF streak, longest
    <2>4. PICK done : done = [counted EXCEPT !.streak = streak, !.active = doc.active + 1, !.last = day,
                                             !.longest = longest]
      OBVIOUS
    <2>5. X!RecordAction(doc, a, day, clock) = done
      BY <1>2, <1>4, <2>4, Zenon DEF X!RecordAction, counted, streak, longest
    <2>6. done \in ScoreDoc
      <3>1. doc.active + 1 \in Nat /\ day \in Nat /\ streak \in Nat /\ longest \in Nat
        BY <1>0, <2>1, <2>2, <2>3
      <3> QED BY <1>1, <2>4, <3>1 DEF ScoreDoc
    <2>7. /\ done.history = counted.history /\ done.there = counted.there /\ done.active = doc.active + 1 /\ done.last = day
          /\ done.streak = streak /\ done.longest = longest
      BY <1>1, <2>4 DEF ScoreDoc
    <2>8. S \subseteq 1 .. day /\ C \subseteq S /\ doc.active = X!Cardinality(S)
      BY DEF DaysKept
    <2>9. X!Cardinality(S \cup {day}) = doc.active + 1
      BY <1>0, <2>1, <2>8, DayAdded
    <2>10. \A d \in S \cup {day} : d <= day
      BY <2>8
    <2>11. S \cup {day} \subseteq 1 .. day /\ C \cup split \subseteq S \cup {day} /\ S \cup {day} # {} /\ day \in S \cup {day}
      BY <2>8
    <2>12. DaysKept(done, S \cup {day}, C \cup split, day)
      BY <2>1, <2>3, <2>7, <2>9, <2>10, <2>11 DEF DaysKept
    <2> QED BY <1>1, <2>5, <2>6, <2>7, <2>12
  <1> QED BY <1>3, <1>4

\* The history gets the day, once, and stays in order.
LEMMA HistoryGrows ==
  ASSUME NEW doc \in ScoreDoc, NEW day \in 1 .. MaxDay, HistoryKept(doc, day)
  PROVE  LET new == X!Recalculate(doc, day) IN
         /\ new \in ScoreDoc /\ HistoryKept(new, day) /\ EarnedKept(new) /\ new.there = doc.there
         /\ \A S, C : DaysKept(doc, S, C, day) => DaysKept(new, S, C, day)
  <1> DEFINE earned == doc.earned \cup {a \in Actions : doc.counts[a] >= Goal}
                         \cup (IF doc.streak >= Goal THEN {"streak"} ELSE {})
             list == Append(doc.history, day)
             cut == Len(list) - MaxHistory
             history == IF doc.history # <<>> /\ X!Last(doc.history) = day THEN doc.history
                        ELSE IF cut > 0 THEN SubSeq(list, cut + 1, Len(list)) ELSE list
  <1>0. MaxDay \in Nat /\ MaxHistory \in Nat
    BY ScoreFacts
  <1>1. doc.history \in Seq(1 .. MaxDay) /\ doc.earned \subseteq Actions \cup {"streak"}
    BY DocFields
  <1>2. earned \subseteq Actions \cup {"streak"} /\ \A a \in Actions : doc.counts[a] >= Goal => a \in earned
    BY <1>1
  <1>3. /\ Len(doc.history) \in Nat /\ Len(doc.history) <= MaxHistory
        /\ \A i \in 1 .. Len(doc.history) : doc.history[i] \in 1 .. day
        /\ \A i \in 1 .. Len(doc.history) - 1 : doc.history[i] < doc.history[i + 1]
    BY <1>1 DEF HistoryKept
  <1>4. /\ history \in Seq(1 .. MaxDay) /\ Len(history) <= MaxHistory
        /\ \A i \in 1 .. Len(history) : history[i] \in 1 .. day
        /\ \A i \in 1 .. Len(history) - 1 : history[i] < history[i + 1]
    <2>1. CASE doc.history # <<>> /\ X!Last(doc.history) = day
      BY <1>1, <1>3, <2>1
    <2>2. CASE ~(doc.history # <<>> /\ X!Last(doc.history) = day)
      <3>1. /\ list \in Seq(1 .. MaxDay) /\ Len(list) = Len(doc.history) + 1
            /\ \A i \in 1 .. Len(doc.history) : list[i] = doc.history[i]
            /\ list[Len(list)] = day
        BY <1>1
      <3>2. \A i \in 1 .. Len(list) : list[i] \in 1 .. day
        BY <1>3, <3>1
      <3>3. doc.history # <<>> => doc.history[Len(doc.history)] < day
        <4> SUFFICES ASSUME doc.history # <<>> PROVE doc.history[Len(doc.history)] < day
          OBVIOUS
        <4>1. Len(doc.history) \in 1 .. Len(doc.history)
          BY <1>1
        <4>2. doc.history[Len(doc.history)] \in 1 .. day /\ doc.history[Len(doc.history)] # day
          BY <4>1, <1>3, <2>2 DEF X!Last
        <4> QED BY <4>2
      <3>4. \A i \in 1 .. Len(list) - 1 : list[i] < list[i + 1]
        <4> TAKE i \in 1 .. Len(list) - 1
        <4>1. CASE i = Len(doc.history)
          BY <4>1, <3>1, <3>3, <1>1, <1>3
        <4>2. CASE i # Len(doc.history)
          <5>1. i \in 1 .. Len(doc.history) - 1 /\ i + 1 \in 1 .. Len(doc.history)
            BY <4>2, <3>1, <1>3
          <5>2. list[i] = doc.history[i] /\ list[i + 1] = doc.history[i + 1]
            BY <5>1, <3>1, <1>3
          <5> QED BY <5>1, <5>2, <1>3
        <4> QED BY <4>1, <4>2
      <3> HIDE DEF list
      <3>5. CASE cut > 0
        <4>1. history = SubSeq(list, cut + 1, Len(list))
          BY <2>2, <3>5
        <4>2. cut = 1 /\ Len(list) = MaxHistory + 1
          BY <1>0, <1>3, <3>1, <3>5
        <4>3. history = SubSeq(list, 2, MaxHistory + 1)
          <5>1. cut + 1 = 2
            BY <4>2
          <5> HIDE DEF history, cut
          <5> QED BY <4>1, <4>2, <5>1
        <4>4. /\ history \in Seq(1 .. MaxDay) /\ Len(history) = MaxHistory
              /\ \A i \in 1 .. MaxHistory : history[i] = list[i + 1]
          <5> HIDE DEF history
          <5>1. history \in Seq(1 .. MaxDay) /\ Len(history) = MaxHistory
            BY <4>2, <4>3, <3>1, <1>0
          <5>2. \A i \in 1 .. MaxHistory : history[i] = list[i + 1]
            BY <4>2, <4>3, <3>1, <1>0
          <5> QED BY <5>1, <5>2
        <4> HIDE DEF history, cut
        <4> QED BY <4>2, <4>4, <3>2, <3>4, <1>0
      <3>6. CASE ~(cut > 0)
        <4>1. history = list
          BY <2>2, <3>6
        <4>2. Len(list) <= MaxHistory
          BY <1>0, <1>3, <3>1, <3>6
        <4> HIDE DEF history, cut
        <4> QED BY <4>1, <4>2, <3>1, <3>2, <3>4
      <3> QED BY <3>5, <3>6
    <2> QED BY <2>1, <2>2
  <1> HIDE DEF history, earned
  <1>5. PICK new : new = [doc EXCEPT !.earned = earned, !.history = history]
    OBVIOUS
  <1>6. /\ new \in ScoreDoc /\ new.earned = earned /\ new.history = history /\ new.counts = doc.counts
        /\ new.active = doc.active /\ new.last = doc.last /\ new.streak = doc.streak
        /\ new.longest = doc.longest /\ new.there = doc.there
    BY <1>2, <1>4, <1>5 DEF ScoreDoc
  <1>7. X!Recalculate(doc, day) = new
    <2>1. X!CheckAchievements(doc) = [doc EXCEPT !.earned = earned]
      BY Zenon DEF X!CheckAchievements, earned
    <2>2. CASE doc.history # <<>> /\ X!Last(doc.history) = day
      <3>1. X!Recalculate(doc, day) = [doc EXCEPT !.earned = earned]
        BY <2>1, <2>2, Zenon DEF X!Recalculate
      <3>2. history = doc.history
        BY <2>2 DEF history
      <3> QED BY <3>1, <3>2, <1>5 DEF ScoreDoc
    <2>3. CASE ~(doc.history # <<>> /\ X!Last(doc.history) = day)
      <3>1. X!Recalculate(doc, day) = [X!CheckAchievements(doc) EXCEPT !.history = history]
        BY <2>3, Zenon DEF X!Recalculate, history
      <3> QED BY <3>1, <2>1, <1>5 DEF ScoreDoc
    <2> QED BY <2>2, <2>3
  <1>8. HistoryKept(new, day)
    BY <1>4, <1>6 DEF HistoryKept
  <1>9. EarnedKept(new)
    BY <1>2, <1>6 DEF EarnedKept
  <1>10. \A S, C : DaysKept(doc, S, C, day) => DaysKept(new, S, C, day)
    BY <1>6 DEF DaysKept
  <1> QED BY <1>6, <1>7, <1>8, <1>9, <1>10

\* A document says the same of later days.
LEMMA KeptLater ==
  ASSUME NEW doc, NEW S, NEW C, NEW day \in Nat, NEW later \in Nat, day <= later
  PROVE  /\ DaysKept(doc, S, C, day) => DaysKept(doc, S, C, later)
         /\ HistoryKept(doc, day) => HistoryKept(doc, later)
         /\ Kept(doc, S, C, day) => Kept(doc, S, C, later)
  <1>1. 1 .. day \subseteq 1 .. later
    OBVIOUS
  <1>2. DaysKept(doc, S, C, day) => DaysKept(doc, S, C, later)
    BY <1>1, Zenon DEF DaysKept
  <1>3. HistoryKept(doc, day) => HistoryKept(doc, later)
    BY <1>1, Zenon DEF HistoryKept
  <1> QED BY <1>2, <1>3 DEF Kept

LEMMA JobTyped ==
  ASSUME ScoreStored, NEW w \in Requests
  PROVE  /\ xJob[w] \in ScoreJob /\ xJob[w].pc \in {"idle", "insert", "load", "replay"}
         /\ xJob[w].list \in Seq(Actions) /\ xJob[w].doc \in ScoreDoc /\ xJob[w].new \in ScoreDoc
         /\ xJob[w].day \in 0 .. MaxDay /\ xJob[w].days \subseteq 1 .. MaxDay
         /\ xJob[w].split \subseteq 1 .. MaxDay
         /\ xJob[w].tries \in 0 .. MaxAttempts
  BY DEF ScoreStored, ScoreJob

LEMMA NewDocs ==
  /\ X!NoDoc \in ScoreDoc /\ X!NewDoc \in ScoreDoc /\ X!NoDoc.there = FALSE /\ X!NewDoc.there = TRUE
  /\ X!NewDoc.v = 0 /\ X!NewDoc.counts = X!Zero /\ X!NoDoc.counts = X!Zero
  /\ \A day \in Nat : Kept(X!NoDoc, {}, {}, day) /\ Kept(X!NewDoc, {}, {}, day)
  <1>1. X!Zero \in [Actions -> Nat]
    BY DEF X!Zero
  <1>2. X!NewDoc \in ScoreDoc
    BY <1>1 DEF X!NewDoc, ScoreDoc, X!NoDay
  <1>3. X!NoDoc \in ScoreDoc /\ X!NoDoc.there = FALSE /\ X!NoDoc.counts = X!NewDoc.counts
    BY <1>1, <1>2 DEF X!NoDoc, ScoreDoc
  <1>4. X!NewDoc.there = TRUE /\ X!NewDoc.v = 0 /\ X!NewDoc.counts = X!Zero
    BY DEF X!NewDoc
  <1>5. ASSUME NEW doc \in {X!NoDoc, X!NewDoc}, NEW day \in Nat PROVE Kept(doc, {}, {}, day)
    <2>1. /\ doc.active = 0 /\ doc.last = X!NoDay /\ doc.streak = 0 /\ doc.longest = 0
          /\ doc.history = <<>> /\ doc.counts = X!Zero
      BY <1>5 DEF X!NoDoc, X!NewDoc
    <2>2. X!Cardinality({}) = 0
      BY FS_EmptySet, ScoreSizes
    <2>3. DaysKept(doc, {}, {}, day)
      BY <2>1, <2>2 DEF DaysKept
    <2>4. HistoryKept(doc, day)
      BY <2>1, ScoreFacts DEF HistoryKept
    <2>5. EarnedKept(doc)
      BY <2>1, ScoreFacts DEF EarnedKept, X!Zero
    <2> QED BY <2>3, <2>4, <2>5 DEF Kept
  <1> QED BY <1>2, <1>3, <1>4, <1>5

LEMMA ScoreIdle ==
  X!Idle \in ScoreJob /\ X!Idle.pc = "idle" /\ X!Idle.days = {} /\ X!Idle.split = {} /\ X!Idle.tries = 0
  <1>1. X!NoDoc \in ScoreDoc /\ MaxAttempts \in Nat /\ MaxDay \in Nat
    BY NewDocs, ScoreFacts
  <1>2. 0 \in 0 .. MaxAttempts /\ 0 \in 0 .. MaxDay
    BY <1>1
  <1>3. <<>> \in Seq(Actions)
    OBVIOUS
  <1> QED BY <1>1, <1>2, <1>3 DEF X!Idle, ScoreJob

\* Where a handler goes.
OtherJobs(w) == \A k \in Requests \ {w} : xJob'[k] = xJob[k]

LEMMA JobMoves ==
  ASSUME ScoreStored, NEW w \in Requests, NEW q \in ScoreJob, xJob' = [xJob EXCEPT ![w] = q]
  PROVE  xJob' \in [Requests -> ScoreJob] /\ OtherJobs(w) /\ xJob'[w] = q
  BY DEF ScoreStored, OtherJobs

\* What the other handlers know is about the document and the days, and they stay.
LEMMA JobsAside ==
  ASSUME ScoreInv, NEW w \in Requests, OtherJobs(w), xDoc' = xDoc, xDays' = xDays,
         xSplit' = xSplit, xDay' = xDay
  PROVE  \A k \in Requests \ {w} : JobKnows(k)'
  BY Zenon DEF ScoreInv, OtherJobs, JobKnows

\* A step of one handler that leaves the document, the days and the history alone.
LEMMA OnlyJob ==
  ASSUME ScoreInv, NEW w \in Requests, NEW q \in ScoreJob, xJob' = [xJob EXCEPT ![w] = q],
         UNCHANGED <<xDoc, xDay, xDone, xDays, xSplit>>, xCalls' \in 0 .. MaxSignals, JobKnows(w)'
  PROVE  ScoreInv'
  <1>1. xJob' \in [Requests -> ScoreJob] /\ OtherJobs(w)
    BY JobMoves DEF ScoreInv
  <1>2. \A k \in Requests : JobKnows(k)'
    BY <1>1, JobsAside
  <1> QED BY <1>1, <1>2 DEF ScoreInv, ScoreStored, Kept, DaysKept, HistoryKept, EarnedKept, RunEnds

LEMMA ListsAre == \A list \in X!Lists : list \in Seq(Actions)
  <1>1. \A a \in Actions : <<a>> \in Seq(Actions)
    OBVIOUS
  <1>2. \A a, b \in Actions : <<a, b>> \in Seq(Actions)
    OBVIOUS
  <1> SUFFICES ASSUME NEW list \in X!Lists PROVE list \in Seq(Actions)
    OBVIOUS
  <1>3. (\E a \in Actions : list = <<a>>) \/ (\E a, b \in Actions : list = <<a, b>>)
    BY DEF X!Lists
  <1> QED BY <1>1, <1>2, <1>3

LEMMA Begun ==
  ASSUME ScoreInv, NEW w \in Requests, NEW list \in X!Lists, X!GetOrCreate(w, list)
  PROVE  ScoreInv'
  <1>1. list \in Seq(Actions) /\ MaxAttempts \in Nat \ {0}
    BY ListsAre, ScoreFacts
  <1>2. PICK pc \in {"insert", "load"} :
             /\ pc = "load" => xDoc.there
             /\ xJob' = [xJob EXCEPT ![w] = [X!Idle EXCEPT !.pc = pc, !.list = list]]
    BY DEF X!GetOrCreate
  <1>3. PICK q : q = [X!Idle EXCEPT !.pc = pc, !.list = list]
    OBVIOUS
  <1>7. q \in ScoreJob /\ q.pc = pc /\ q.tries = 0 /\ q.days = {} /\ q.split = {}
    <2>1. pc \in {"idle", "insert", "load", "replay"}
      BY <1>2
    <2> QED BY <2>1, <1>1, <1>3, ScoreIdle DEF ScoreJob
  <1>4. xJob' = [xJob EXCEPT ![w] = q] /\ xJob'[w] = q
    BY <1>2, <1>3 DEF ScoreInv, ScoreStored
  <1>5. xCalls' \in 0 .. MaxSignals
    BY ScoreFacts DEF X!GetOrCreate, ScoreInv, ScoreStored
  <1>6. JobKnows(w)'
    <2>1. xDoc' = xDoc /\ 0 < MaxAttempts
      BY <1>1 DEF X!GetOrCreate
    <2> QED BY <2>1, <1>2, <1>4, <1>7 DEF JobKnows
  <1> QED BY <1>4, <1>5, <1>6, <1>7, OnlyJob DEF X!GetOrCreate

LEMMA Dropped ==
  ASSUME ScoreInv, NEW w \in Requests, xJob' = [xJob EXCEPT ![w] = X!Idle],
         UNCHANGED <<xDoc, xDay, xCalls, xDone, xDays, xSplit>>
  PROVE  ScoreInv'
  <1>1. X!Idle \in ScoreJob /\ X!Idle.pc = "idle"
    BY ScoreIdle
  <1>2. xJob'[w] = X!Idle
    BY DEF ScoreInv, ScoreStored
  <1>3. JobKnows(w)'
    BY <1>1, <1>2 DEF JobKnows
  <1>4. xCalls' \in 0 .. MaxSignals
    BY DEF ScoreInv, ScoreStored
  <1> QED BY <1>1, <1>3, <1>4, OnlyJob

LEMMA Loaded ==
  ASSUME ScoreInv, NEW w \in Requests, X!Load(w)
  PROVE  ScoreInv'
  <1> DEFINE old == xJob[w]
  <1>1. /\ old \in ScoreJob /\ old.pc = "load" /\ old.tries < MaxAttempts /\ xDoc.there
        /\ old.tries \in 0 .. MaxAttempts /\ old.days = {} /\ old.split = {}
    BY JobTyped DEF X!Load, X!At, ScoreInv, JobKnows
  <1>2. old.tries + 1 \in 0 .. MaxAttempts
    BY <1>1, ScoreFacts
  <1>3. PICK q : q = [old EXCEPT !.pc = "replay", !.doc = xDoc, !.new = xDoc, !.day = xDay,
                                 !.tries = old.tries + 1]
    OBVIOUS
  <1>4. xDoc \in ScoreDoc /\ xDay \in 1 .. MaxDay /\ xDay \in 0 .. MaxDay /\ xDay \in 1 .. xDay
    BY ScoreFacts DEF ScoreInv, ScoreStored
  <1> HIDE DEF old
  <1>5. /\ q \in ScoreJob /\ q.pc = "replay" /\ q.doc = xDoc /\ q.new = xDoc /\ q.day = xDay
        /\ q.days = {} /\ q.split = {}
    BY <1>1, <1>2, <1>3, <1>4 DEF ScoreJob
  <1>6. xJob' = [xJob EXCEPT ![w] = q] /\ xJob'[w] = q
    BY <1>3 DEF X!Load, ScoreInv, ScoreStored, old
  <1>7. Kept(q.new, xDays \cup q.days, xSplit \cup q.split, q.day)
    <2>1. xDays \cup q.days = xDays /\ xSplit \cup q.split = xSplit
      BY <1>5
    <2> QED BY <1>5, <2>1, Zenon DEF ScoreInv
  <1>8. xDoc.v <= xDoc.v /\ xDays \in SUBSET (1 .. MaxDay) /\ xSplit \in SUBSET (1 .. MaxDay)
    BY <1>4, DocFields DEF ScoreInv, ScoreStored
  <1>9. JobKnows(w)'
    BY <1>1, <1>4, <1>5, <1>6, <1>7, <1>8 DEF JobKnows, X!Load
  <1>10. xCalls' \in 0 .. MaxSignals
    BY DEF X!Load, ScoreInv, ScoreStored
  <1> QED BY <1>5, <1>6, <1>9, <1>10, OnlyJob DEF X!Load

LEMMA Replayed ==
  ASSUME ScoreInv, NEW w \in Requests, NEW day \in 1 .. xDay, NEW clock \in 1 .. xDay,
         NEW later \in 1 .. xDay, X!Replay(w, day, clock, later)
  PROVE  ScoreInv'
  <1> DEFINE old == xJob[w]
             a == Head(old.list)
             done == X!RecordAction(old.new, a, day, clock)
             new == X!Recalculate(done, later)
             lap == IF old.new.last # day /\ clock # day THEN {day} ELSE {}
  <1>1. /\ old \in ScoreJob /\ old.pc = "replay" /\ old.list \in Seq(Actions) /\ old.list # <<>>
        /\ old.new \in ScoreDoc /\ old.days \subseteq 1 .. MaxDay /\ old.split \subseteq 1 .. MaxDay
        /\ xDoc.there /\ old.day \in 1 .. xDay /\ old.doc.v <= xDoc.v /\ old.new.there
        /\ old.doc.v = xDoc.v => old.doc = xDoc
    BY JobTyped DEF X!Replay, X!At, ScoreInv, JobKnows
  <1>2. PICK S, C \in SUBSET (1 .. MaxDay) :
             /\ Kept(old.new, S \cup old.days, C \cup old.split, old.day)
             /\ old.doc.v = xDoc.v => S = xDays /\ C = xSplit
    BY <1>1 DEF ScoreInv, JobKnows
  <1>3. xDay \in 1 .. MaxDay /\ MaxDay \in Nat
    BY ScoreFacts DEF ScoreInv, ScoreStored
  <1>4. /\ day \in 1 .. MaxDay /\ clock \in 1 .. MaxDay /\ later \in 1 .. MaxDay
        /\ old.day <= day /\ day <= clock /\ clock <= later /\ day <= later
        /\ old.day \in Nat /\ day \in Nat /\ later \in Nat /\ later \in 0 .. MaxDay
    BY <1>1, <1>3 DEF X!Replay
  <1>5. a \in Actions /\ Tail(old.list) \in Seq(Actions)
    BY <1>1
  <1>6. PICK days : days = old.days \cup {day}
    OBVIOUS
  <1>0. PICK split : split = old.split \cup lap
    OBVIOUS
  <1>7. /\ days \subseteq 1 .. MaxDay /\ S \cup days = (S \cup old.days) \cup {day}
        /\ split \subseteq 1 .. MaxDay /\ C \cup split = (C \cup old.split) \cup lap
    BY <1>0, <1>1, <1>4, <1>6
  <1> HIDE DEF done
  <1>8. /\ done \in ScoreDoc /\ done.history = old.new.history /\ done.there
        /\ DaysKept(done, S \cup days, C \cup split, day)
    <2>1. DaysKept(old.new, S \cup old.days, C \cup old.split, day)
      BY <1>2, <1>4, KeptLater DEF Kept
    <2> HIDE DEF old, a
    <2>2. /\ done \in ScoreDoc /\ done.history = old.new.history /\ done.there
          /\ DaysKept(done, (S \cup old.days) \cup {day}, (C \cup old.split) \cup lap, day)
      <3>1. PICK doc : doc = old.new
        OBVIOUS
      <3>2. PICK days0, split0 : days0 = S \cup old.days /\ split0 = C \cup old.split
        OBVIOUS
      <3>3. doc \in ScoreDoc /\ doc.there /\ DaysKept(doc, days0, split0, day)
        BY <1>1, <2>1, <3>1, <3>2
      <3>4. PICK lapse : lapse = IF doc.last # day /\ clock # day THEN {day} ELSE {}
        OBVIOUS
      <3>5. PICK next : next = X!RecordAction(doc, a, day, clock)
        OBVIOUS
      <3>6. next \in ScoreDoc /\ next.history = doc.history /\ next.there = doc.there
            /\ DaysKept(next, days0 \cup {day}, split0 \cup lapse, day)
        <4>1. Acted(doc, days0, split0, a, day, clock, lapse, next)
          BY <1>4, <1>5, <3>3, <3>4, <3>5 DEF Acted
        <4> QED BY <4>1, ActionRecorded
      <3> QED BY <3>1, <3>2, <3>3, <3>4, <3>5, <3>6, Zenon DEF done
    <2> HIDE DEF lap
    <2> QED BY <2>2, <1>7, Zenon
  <1> HIDE DEF lap
  <1>9. DaysKept(done, S \cup days, C \cup split, later) /\ HistoryKept(done, later)
    <2>1. HistoryKept(done, old.day)
      BY <1>2, <1>8, Zenon DEF Kept, HistoryKept
    <2>2. HistoryKept(done, later)
      BY <2>1, <1>4, KeptLater
    <2> QED BY <2>2, <1>4, <1>8, KeptLater, Zenon
  <1>10. new \in ScoreDoc /\ new.there /\ Kept(new, S \cup days, C \cup split, later)
    BY <1>4, <1>8, <1>9, HistoryGrows, Zenon DEF Kept
  <1> HIDE DEF new
  <1>11. PICK q : q = [old EXCEPT !.new = new, !.list = Tail(old.list), !.day = later, !.days = days,
                                  !.split = split]
    OBVIOUS
  <1>12. xJob' = [xJob EXCEPT ![w] = q] /\ xJob'[w] = q
    BY <1>0, <1>6, <1>11 DEF X!Replay, ScoreInv, ScoreStored, new, done, lap
  <1> HIDE DEF old
  <1>13. /\ q \in ScoreJob /\ q.pc = "replay" /\ q.doc = old.doc /\ q.new = new /\ q.day = later
         /\ q.days = days /\ q.split = split
    BY <1>1, <1>4, <1>5, <1>7, <1>10, <1>11 DEF ScoreJob
  <1>14. UNCHANGED <<xDoc, xDay, xCalls, xDone, xDays, xSplit>>
    BY DEF X!Replay
  <1>15. JobKnows(w)'
    BY <1>1, <1>2, <1>4, <1>10, <1>12, <1>13, <1>14 DEF JobKnows
  <1>16. xCalls' \in 0 .. MaxSignals
    BY <1>14 DEF ScoreInv, ScoreStored
  <1> QED BY <1>12, <1>13, <1>14, <1>15, <1>16, OnlyJob

\* The other handlers find a newer version than the one they have read.
LEMMA Replaced ==
  ASSUME ScoreInv, NEW w \in Requests, X!ReplaceScore(w)
  PROVE  ScoreInv'
  <1> DEFINE old == xJob[w]
  <1>1. /\ old.pc = "replay" /\ old.doc = xDoc /\ old.new \in ScoreDoc /\ old.days \subseteq 1 .. MaxDay
        /\ old.split \subseteq 1 .. MaxDay /\ old.new.there /\ old.day \in 1 .. xDay
    BY JobTyped DEF X!ReplaceScore, X!UnchangedSince, X!At, ScoreInv, JobKnows
  <1>2. Kept(old.new, xDays \cup old.days, xSplit \cup old.split, old.day)
    BY <1>1, Zenon DEF ScoreInv, JobKnows
  <1>3. /\ xDoc \in ScoreDoc /\ xDay \in 1 .. MaxDay /\ MaxDay \in Nat /\ xDays \subseteq 1 .. MaxDay
        /\ xSplit \subseteq 1 .. MaxDay
    BY ScoreFacts DEF ScoreInv, ScoreStored
  <1>4. xDoc.v \in Nat /\ xDoc.counts \in [Actions -> Nat] /\ old.new.counts \in [Actions -> Nat]
    BY <1>1, <1>3, DocFields
  <1>5. /\ xDoc' = [old.new EXCEPT !.v = xDoc.v + 1] /\ xDays' = xDays \cup old.days
        /\ xSplit' = xSplit \cup old.split
        /\ xDone' = [a \in Actions |-> xDone[a] + X!Added(old)[a]]
        /\ xJob' = [xJob EXCEPT ![w] = X!Idle] /\ UNCHANGED <<xDay, xCalls>>
    BY <1>1 DEF X!ReplaceScore
  <1> HIDE DEF old
  <1>6. /\ xDoc' \in ScoreDoc /\ xDoc'.v = xDoc.v + 1 /\ xDoc'.counts = old.new.counts
        /\ xDoc'.active = old.new.active /\ xDoc'.last = old.new.last /\ xDoc'.streak = old.new.streak
        /\ xDoc'.longest = old.new.longest /\ xDoc'.history = old.new.history
        /\ xDoc'.earned = old.new.earned /\ xDoc'.there = old.new.there
    <2>1. xDoc.v + 1 \in Nat
      BY <1>4
    <2> QED BY <2>1, <1>1, <1>5 DEF ScoreDoc
  <1>7. Kept(old.new, xDays \cup old.days, xSplit \cup old.split, xDay)
    <2>1. old.day \in Nat /\ xDay \in Nat /\ old.day <= xDay
      BY <1>1, <1>3
    <2> QED BY <2>1, <1>2, KeptLater, Zenon
  <1>8. Kept(xDoc, xDays, xSplit, xDay)'
    <2>1. DaysKept(xDoc, xDays, xSplit, xDay)'
      <3>1. DaysKept(old.new, xDays', xSplit', xDay')
        BY <1>5, <1>7, Zenon DEF Kept
      <3> QED BY <3>1, <1>6 DEF DaysKept, RunEnds
    <2>2. HistoryKept(xDoc, xDay)'
      BY <1>5, <1>6, <1>7, Zenon DEF Kept, HistoryKept
    <2>3. EarnedKept(xDoc)'
      BY <1>6, <1>7, Zenon DEF Kept, EarnedKept
    <2> QED BY <2>1, <2>2, <2>3 DEF Kept
  <1>9. xDone' = xDoc'.counts
    <2>1. ASSUME NEW a \in Actions PROVE xDone[a] + X!Added(old)[a] = old.new.counts[a]
      <3>1. xDone[a] = xDoc.counts[a] /\ X!Added(old)[a] = old.new.counts[a] - xDoc.counts[a]
        BY <1>1 DEF X!Added, ScoreInv
      <3>2. xDoc.counts[a] \in Nat /\ old.new.counts[a] \in Nat
        BY <1>4
      <3> QED BY <3>1, <3>2
    <2>2. xDone' = [a \in Actions |-> old.new.counts[a]]
      BY <1>5, <2>1, Zenon
    <2> QED BY <1>4, <1>6, <2>2
  <1>10. xJob' \in [Requests -> ScoreJob] /\ OtherJobs(w) /\ xJob'[w] = X!Idle
    BY <1>5, JobMoves, ScoreIdle DEF ScoreInv
  <1>11. ScoreStored'
    <2>1. xDone' \in [Actions -> Nat]
      BY <1>4, <1>6, <1>9
    <2>2. xDays' \subseteq 1 .. MaxDay /\ xSplit' \subseteq 1 .. MaxDay
      BY <1>1, <1>3, <1>5
    <2> QED BY <2>1, <2>2, <1>3, <1>5, <1>6, <1>10 DEF ScoreInv, ScoreStored
  <1>12. JobKnows(w)'
    BY <1>10, ScoreIdle DEF JobKnows
  <1>13. ASSUME NEW k \in Requests \ {w} PROVE JobKnows(k)'
    <2>1. xJob'[k] = xJob[k] /\ JobKnows(k)
      BY <1>10 DEF OtherJobs, ScoreInv
    <2>2. xJob[k].doc.v \in Nat
      BY JobTyped, DocFields DEF ScoreInv
    <2>3. xDoc'.there
      BY <1>1, <1>6
    <2>4. CASE xJob[k].pc = "replay"
      <3>1. xJob[k].doc.v <= xDoc'.v /\ xJob[k].doc.v # xDoc'.v
        BY <2>1, <2>2, <2>4, <1>4, <1>6 DEF JobKnows
      <3>2. PICK S, C \in SUBSET (1 .. MaxDay) :
                 Kept(xJob[k].new, S \cup xJob[k].days, C \cup xJob[k].split, xJob[k].day)
        BY <2>1, <2>4 DEF JobKnows
      <3> QED BY <2>1, <2>3, <2>4, <3>1, <3>2, <1>5 DEF JobKnows
    <2>5. CASE xJob[k].pc # "replay"
      BY <2>1, <2>3, <2>5 DEF JobKnows
    <2> QED BY <2>4, <2>5
  <1>14. xDoc'.there
    BY <1>1, <1>6
  <1> QED BY <1>8, <1>9, <1>11, <1>12, <1>13, <1>14 DEF ScoreInv

LEMMA Inserted ==
  ASSUME ScoreInv, NEW w \in Requests, X!InsertScore(w)
  PROVE  ScoreInv'
  <1> DEFINE old == xJob[w]
  <1>1. old \in ScoreJob /\ old.pc = "insert" /\ old.tries < MaxAttempts /\ old.days = {} /\ old.split = {}
    BY JobTyped DEF X!InsertScore, X!At, ScoreInv, JobKnows
  <1>2. PICK q : q = [old EXCEPT !.pc = "load"]
    OBVIOUS
  <1> HIDE DEF old
  <1>3. q \in ScoreJob /\ q.pc = "load" /\ q.tries < MaxAttempts /\ q.days = {} /\ q.split = {}
    BY <1>1, <1>2 DEF ScoreJob
  <1>4. xJob' = [xJob EXCEPT ![w] = q]
    BY <1>2 DEF X!InsertScore, old
  <1>5. xJob' \in [Requests -> ScoreJob] /\ OtherJobs(w) /\ xJob'[w] = q
    BY <1>3, <1>4, JobMoves DEF ScoreInv
  <1>6. CASE xDoc.there
    <2>1. UNCHANGED <<xDoc, xDay, xDone, xDays, xSplit>> /\ xCalls' \in 0 .. MaxSignals
      BY <1>6 DEF X!InsertScore, ScoreInv, ScoreStored
    <2>2. JobKnows(w)'
      BY <2>1, <1>3, <1>5, <1>6 DEF JobKnows
    <2> QED BY <2>1, <2>2, <1>3, <1>4, OnlyJob
  <1>7. CASE ~xDoc.there
    <2>1. xDoc' = X!NewDoc /\ UNCHANGED <<xDay, xCalls, xDone, xDays, xSplit>>
      BY <1>7 DEF X!InsertScore
    <2>2. xDoc'.there /\ xDoc' \in ScoreDoc
      BY <2>1, NewDocs
    <2>3. xDoc = X!NoDoc /\ xDays = {} /\ xSplit = {}
      BY <1>7 DEF ScoreInv
    <2>4. xDoc'.counts = xDoc.counts
      BY <2>1, <2>3, NewDocs
    <2>5. Kept(xDoc, xDays, xSplit, xDay)'
      <3>1. xDay \in Nat
        BY ScoreFacts DEF ScoreInv, ScoreStored
      <3>2. Kept(X!NewDoc, {}, {}, xDay)
        BY <3>1, NewDocs
      <3> QED BY <2>1, <2>3, <3>2, Zenon
    <2>6. JobKnows(w)'
      BY <2>2, <1>3, <1>5 DEF JobKnows
    <2>7. ASSUME NEW k \in Requests \ {w} PROVE JobKnows(k)'
      <3>1. xJob'[k] = xJob[k] /\ JobKnows(k)
        BY <1>5 DEF OtherJobs, ScoreInv
      <3> QED BY <3>1, <1>7, <2>2 DEF JobKnows
    <2> QED BY <2>1, <2>2, <2>4, <2>5, <2>6, <2>7, <1>5 DEF ScoreInv, ScoreStored
  <1> QED BY <1>6, <1>7

LEMMA Lost ==
  ASSUME ScoreInv, NEW w \in Requests, NEW list \in X!Lists, X!ReplaceLost(w, list)
  PROVE  ScoreInv'
  <1> DEFINE old == xJob[w]
  <1>1. old.pc = "replay" /\ xDoc.there /\ old.tries \in 0 .. MaxAttempts /\ list \in Seq(Actions)
    BY JobTyped, ListsAre DEF X!ReplaceLost, X!At, ScoreInv, JobKnows
  <1>2. UNCHANGED <<xDoc, xDay, xCalls, xDone, xDays, xSplit>>
    BY DEF X!ReplaceLost
  <1>3. CASE old.tries = MaxAttempts
    BY <1>2, <1>3, Dropped DEF X!ReplaceLost
  <1>4. CASE old.tries # MaxAttempts
    <2>1. old.tries < MaxAttempts
      BY <1>1, <1>4, ScoreFacts
    <2>2. PICK q : q = [X!Idle EXCEPT !.pc = "load", !.list = list, !.tries = old.tries]
      OBVIOUS
    <2>6. q \in ScoreJob /\ q.pc = "load" /\ q.tries = old.tries /\ q.days = {} /\ q.split = {}
      <3> HIDE DEF old
      <3> QED BY <2>2, <1>1, ScoreIdle DEF ScoreJob
    <2>3. xJob' = [xJob EXCEPT ![w] = q] /\ xJob'[w] = q
      BY <1>4, <2>2 DEF X!ReplaceLost, ScoreInv, ScoreStored
    <2>4. JobKnows(w)'
      BY <1>1, <1>2, <2>1, <2>3, <2>6 DEF JobKnows
    <2>5. xCalls' \in 0 .. MaxSignals
      BY <1>2 DEF ScoreInv, ScoreStored
    <2> QED BY <1>2, <2>3, <2>4, <2>5, <2>6, OnlyJob
  <1> QED BY <1>3, <1>4

LEMMA DayPassed == ScoreInv /\ X!NextDay => ScoreInv'
  <1> SUFFICES ASSUME ScoreInv, X!NextDay PROVE ScoreInv'
    OBVIOUS
  <1>1. xDay \in 1 .. MaxDay /\ MaxDay \in Nat /\ xDay < MaxDay
    BY ScoreFacts DEF ScoreInv, ScoreStored, X!NextDay
  <1>2. xDay' = xDay + 1 /\ UNCHANGED <<xDoc, xJob, xCalls, xDone, xDays, xSplit>>
    BY DEF X!NextDay
  <1>3. xDay' \in 1 .. MaxDay /\ 1 .. xDay \subseteq 1 .. xDay' /\ xDay \in Nat /\ xDay + 1 \in Nat
    BY <1>1, <1>2
  <1>4. Kept(xDoc, xDays, xSplit, xDay + 1)
    BY <1>3, KeptLater DEF ScoreInv
  <1>5. ASSUME NEW w \in Requests PROVE JobKnows(w)'
    <2>1. JobKnows(w)
      BY DEF ScoreInv
    <2> QED BY <2>1, <1>2, <1>3, Zenon DEF JobKnows
  <1>6. ScoreStored'
    BY <1>2, <1>3 DEF ScoreInv, ScoreStored
  <1> QED BY <1>2, <1>4, <1>5, <1>6 DEF ScoreInv

LEMMA ScoreInit == X!Init => ScoreInv
  <1> SUFFICES ASSUME X!Init PROVE ScoreInv
    OBVIOUS
  <1>1. xJob \in [Requests -> ScoreJob] /\ \A w \in Requests : xJob[w].pc = "idle"
    BY ScoreIdle DEF X!Init
  <1>2. xDoc \in ScoreDoc /\ xDoc.counts = xDone
    BY NewDocs DEF X!Init
  <1>3. xDay = 1 /\ xDay \in 1 .. MaxDay /\ xCalls \in 0 .. MaxSignals
    BY ScoreFacts DEF X!Init
  <1>4. xDone \in [Actions -> Nat]
    BY <1>2, DocFields
  <1>5. Kept(xDoc, xDays, xSplit, xDay)
    BY <1>3, NewDocs, Zenon DEF X!Init
  <1>6. \A w \in Requests : JobKnows(w)
    BY <1>1 DEF JobKnows
  <1> QED BY <1>1, <1>2, <1>3, <1>4, <1>5, <1>6 DEF ScoreInv, ScoreStored, X!Init

LEMMA ScoreStep == ScoreInv /\ [X!Next]_ofScores => ScoreInv'
  <1> SUFFICES ASSUME ScoreInv, [X!Next]_ofScores PROVE ScoreInv'
    OBVIOUS
  <1>1. ASSUME NEW w \in Requests, X!BreakOff(w) PROVE ScoreInv'
    BY <1>1, Dropped DEF X!BreakOff
  <1>2. CASE UNCHANGED ofScores
    <2>1. /\ xDoc' = xDoc /\ xDay' = xDay /\ xJob' = xJob /\ xCalls' = xCalls
          /\ xDone' = xDone /\ xDays' = xDays /\ xSplit' = xSplit
      BY <1>2 DEF ofScores
    <2>2. ScoreStored' /\ Kept(xDoc, xDays, xSplit, xDay)'
      BY <2>1, Zenon DEF ScoreInv, ScoreStored, Kept, DaysKept, HistoryKept, EarnedKept, RunEnds
    <2>3. \A w \in Requests : JobKnows(w)'
      BY <2>1, Zenon DEF ScoreInv, JobKnows
    <2> QED BY <2>1, <2>2, <2>3 DEF ScoreInv
  <1>3. CASE X!Next
    BY <1>1, <1>3, Begun, Lost, Replayed, Inserted, Loaded, Replaced, DayPassed DEF X!Next
  <1> QED BY <1>2, <1>3

\* A run of days that end with one has one length.
LEMMA OneRun ==
  ASSUME NEW S, NEW C, NEW day \in Nat, NEW n, RunEnds(n, S, C, day), NEW m, RunEnds(m, S, C, day)
  PROVE  m = n
  <1>1. /\ n \in 1 .. MaxDay /\ (\A d \in day - n + 1 .. day : d \in S)
        /\ \A d \in day - n + 2 .. day : d \notin C
        /\ day - n \notin S \/ day - n + 1 \in C
    BY DEF RunEnds
  <1>2. /\ m \in 1 .. MaxDay /\ (\A d \in day - m + 1 .. day : d \in S)
        /\ \A d \in day - m + 2 .. day : d \notin C
        /\ day - m \notin S \/ day - m + 1 \in C
    BY DEF RunEnds
  <1>3. n \in Nat /\ m \in Nat /\ n > 0 /\ m > 0
    BY <1>1, <1>2, ScoreFacts
  <1>4. CASE n < m
    <2>1. day - n \in day - m + 1 .. day /\ day - n + 1 \in day - m + 2 .. day
      BY <1>3, <1>4
    <2> QED BY <2>1, <1>1, <1>2
  <1>5. CASE m < n
    <2>1. day - m \in day - n + 1 .. day /\ day - m + 1 \in day - n + 2 .. day
      BY <1>3, <1>5
    <2> QED BY <2>1, <1>1, <1>2
  <1> QED BY <1>3, <1>4, <1>5

LEMMA ScoreTrue == ScoreInv => X!TypeOK /\ X!ScoresWhole
  <1> SUFFICES ASSUME ScoreInv PROVE X!TypeOK /\ X!ScoresWhole
    OBVIOUS
  <1>1. /\ xDoc \in ScoreDoc /\ xDoc.last \in Nat /\ xDoc.counts = xDone
        /\ DaysKept(xDoc, xDays, xSplit, xDay) /\ HistoryKept(xDoc, xDay) /\ EarnedKept(xDoc)
        /\ xDay \in 1 .. MaxDay
    BY DocFields DEF ScoreInv, ScoreStored, Kept
  <1>2. X!TypeOK
    BY <1>1, DocFields, JobTyped, ScoreFacts DEF X!TypeOK, ScoreInv, ScoreStored, DaysKept, HistoryKept
  <1>3. ASSUME xDays # {} PROVE xDoc.last = X!Max(xDays) /\ xDoc.streak = X!RunOf(xDoc.last)
    <2>1. /\ xDoc.last \in xDays /\ \A d \in xDays : d <= xDoc.last
          /\ RunEnds(xDoc.streak, xDays, xSplit, xDoc.last) /\ xDays \subseteq 1 .. xDay
      BY <1>1, <1>3 DEF DaysKept
    <2>2. \A x \in xDays : (\A y \in xDays : x >= y) <=> x = xDoc.last
      BY <2>1, <1>1
    <2>3. X!Max(xDays) = xDoc.last
      BY <2>1, <2>2 DEF X!Max
    <2>4. \A m \in 1 .. MaxDay :
            (/\ xDoc.last - m + 1 .. xDoc.last \subseteq xDays
             /\ (xDoc.last - m + 2 .. xDoc.last) \cap xSplit = {}
             /\ xDoc.last - m \notin xDays \/ xDoc.last - m + 1 \in xSplit)
               <=> m = xDoc.streak
      <3> TAKE m \in 1 .. MaxDay
      <3>1. RunEnds(m, xDays, xSplit, xDoc.last) <=> m = xDoc.streak
        BY <2>1, <1>1, OneRun
      <3>2. RunEnds(m, xDays, xSplit, xDoc.last) <=>
              /\ xDoc.last - m + 1 .. xDoc.last \subseteq xDays
              /\ (xDoc.last - m + 2 .. xDoc.last) \cap xSplit = {}
              /\ xDoc.last - m \notin xDays \/ xDoc.last - m + 1 \in xSplit
        BY DEF RunEnds
      <3> QED BY <3>1, <3>2, Zenon
    <2>5. xDoc.streak \in 1 .. MaxDay
      BY <2>1 DEF RunEnds
    <2>6. X!RunOf(xDoc.last) = xDoc.streak
      BY <2>4, <2>5, Zenon DEF X!RunOf
    <2> QED BY <2>3, <2>6
  <1>4. {a \in Actions : xDone[a] >= Goal} \subseteq xDoc.earned
    BY <1>1 DEF EarnedKept
  <1>5. /\ xDoc.active = X!Cardinality(xDays) /\ xDoc.longest >= xDoc.streak
        /\ \A i \in 1 .. Len(xDoc.history) - 1 : xDoc.history[i] < xDoc.history[i + 1]
    BY <1>1 DEF DaysKept, HistoryKept
  <1> QED BY <1>1, <1>2, <1>3, <1>4, <1>5 DEF X!ScoresWhole

LEMMA ScoresAlways == MCSpec => []ScoreInv
  <1>1. MCInit => ScoreInv
    BY ScoreInit DEF MCInit
  <1>2. ScoreInv /\ [MCNext]_<<part, ofToggles, ofPosts, ofReels, ofChains, ofScores, ofDna,
                               ofRoulette, ofEgo, ofTaste, ofFeeds>> => ScoreInv'
    BY ScoreStep DEF MCNext, Rest
  <1> QED BY <1>1, <1>2, PTL DEF MCSpec

\* No handler loses what another has added to a pulse score: the counts are those of the
\* actions persisted and the days active those they were replayed on, each once; the streak
\* is the run of days that ends on the last of them, whatever midnight falls into but the two
\* looks at the clock of recordAction, which break it at that day and no other; the history is
\* in order and bounded (recordPulseScoreActions, recordAction, recalculate).
THEOREM ScoresHeld == MCSpec => []ScoresWhole
  <1>1. ScoreInv => ScoresWhole
    BY ScoreTrue DEF ScoresWhole
  <1> QED BY <1>1, ScoresAlways, PTL

-----------------------------------------------------------------------------
(* Induction, over sets where the library has it over predicates.                *)

\* A family of sets that has the empty set, and with a set also that with one more
\* element of S, has S.
LEMMA SetInduction ==
  ASSUME NEW A, IsFiniteSet(A), NEW F, {} \in F,
         \A M \in SUBSET A : \A x \in A \ M : M \in F => M \cup {x} \in F
  PROVE  A \in F
<1>1. FiniteSubsetsOf(A) = SUBSET A BY FS_FiniteSubsetsOfFinite
<1>2. IsWellFoundedOn(StrictSubsetOrdering(A), SUBSET A)
  BY <1>1, FS_StrictSubsetOrderingWellFounded
<1>. DEFINE Bad == {M \in SUBSET A : M \notin F}
<1>3. SUFFICES ASSUME Bad # {} PROVE FALSE OBVIOUS
<1>4. PICK M \in Bad : \A N \in Bad : ~(<<N, M>> \in StrictSubsetOrdering(A))
  <2>1. Bad \subseteq SUBSET A OBVIOUS
  <2>. HIDE DEF Bad
  <2>2. \E x \in Bad : \A y \in Bad : ~(<<y, x>> \in StrictSubsetOrdering(A))
    BY <1>2, <1>3, <2>1, WFMin
  <2>. QED BY <2>2
<1>5. PICK x \in M : TRUE BY <1>4
<1>6. M \ {x} \notin Bad
  <2>1. <<M \ {x}, M>> \in StrictSubsetOrdering(A) BY <1>4, <1>5 DEF StrictSubsetOrdering
  <2>. QED BY <1>4, <2>1
<1>7. M \ {x} \in F /\ M \ {x} \in SUBSET A /\ x \in A \ (M \ {x}) BY <1>4, <1>5, <1>6
<1>8. (M \ {x}) \cup {x} = M BY <1>5
<1>. QED BY <1>4, <1>7, <1>8

LEMMA CountInduction ==
  ASSUME NEW n \in Nat, NEW F, 0 \in F, \A k \in 0 .. n - 1 : k \in F => k + 1 \in F
  PROVE  n \in F
<1>1. IsFiniteSet(1 .. n) /\ Cardinality(1 .. n) = n BY FS_Interval
<1>. DEFINE Q == {M \in SUBSET (1 .. n) : Cardinality(M) \in F}
<1>2. {} \in Q BY FS_EmptySet
<1>3. ASSUME NEW M \in SUBSET (1 .. n), NEW x \in (1 .. n) \ M, M \in Q PROVE M \cup {x} \in Q
  <2>1. IsFiniteSet(M) /\ Cardinality(M) \in Nat BY <1>1, FS_Subset, FS_CardinalityType
  <2>2. Cardinality(M \cup {x}) = Cardinality(M) + 1 BY <2>1, FS_AddElement
  <2>3. IsFiniteSet(M \cup {x}) /\ Cardinality(M \cup {x}) <= n BY <1>1, FS_Subset
  <2>4. Cardinality(M) \in 0 .. n - 1 BY <2>1, <2>2, <2>3
  <2>. QED BY <1>3, <2>2, <2>4
<1>4. (1 .. n) \in Q
  <2>. HIDE DEF Q
  <2>. QED BY <1>1, <1>2, <1>3, SetInduction
<1>. QED BY <1>1, <1>4

-----------------------------------------------------------------------------
(* Sums                                                                          *)

\* What the folds compute, set by set.
SumOf(f, A, g) ==
  g = [S \in SUBSET A |-> IF S = {} THEN 0
                          ELSE LET x == CHOOSE x \in S : TRUE IN f[x] + g[S \ {x}]]
Total(f, A) == (CHOOSE g : SumOf(f, A, g))[A]

LEMMA ChainSums == \A f : K!Sum(f) = Total(f, Writers)
BY DEF K!Sum, K!FoldFunctionOnSet, K!MapThenFoldSet, Total, SumOf

LEMMA DnaSums == \A f : D!Sum(f) = Total(f, D!V)
BY DEF D!Sum, D!FoldFunctionOnSet, D!MapThenFoldSet, Total, SumOf


\* A sum, set by set and whichever element is taken first.
Adds(f, A, g) ==
  /\ g \in [SUBSET A -> Int] /\ g[{}] = 0
  /\ \A S \in SUBSET A : \A x \in S : g[S] = f[x] + g[S \ {x}]

LEMMA SumExists == ASSUME NEW A, IsFiniteSet(A), NEW f PROVE \E g : SumOf(f, A, g)
<1>. DEFINE c(S) == CHOOSE x \in S : TRUE
            Rule(S, h) == IF S = {} THEN 0 ELSE f[c(S)] + h[S \ {c(S)}]
            N == Cardinality(A)
            F == {n \in 0 .. N : \E h : \A S \in SUBSET A : Cardinality(S) <= n => h[S] = Rule(S, h)}
<1>1. N \in Nat BY FS_CardinalityType
<1>2. \A S \in SUBSET A : IsFiniteSet(S) /\ Cardinality(S) \in 0 .. N
  BY FS_Subset, FS_CardinalityType
<1>3. \A S \in SUBSET A : S # {} => /\ c(S) \in S /\ S \ {c(S)} \in SUBSET A
                                   /\ Cardinality(S \ {c(S)}) = Cardinality(S) - 1
  BY <1>2, FS_RemoveElement
<1>4. 0 \in F
  <2>. DEFINE h == [S \in SUBSET A |-> 0]
  <2>1. \A S \in SUBSET A : Cardinality(S) <= 0 => S = {} BY <1>2, FS_EmptySet
  <2>2. \A S \in SUBSET A : h[S] = 0 OBVIOUS
  <2>3. \A S \in SUBSET A : Cardinality(S) <= 0 => h[S] = Rule(S, h) BY <2>1, <2>2
  <2>. HIDE DEF h, Rule
  <2>. QED BY <1>1, <2>3
<1>5. ASSUME NEW n \in 0 .. N - 1, n \in F PROVE n + 1 \in F
  <2>1. PICK h : \A S \in SUBSET A : Cardinality(S) <= n => h[S] = Rule(S, h) BY <1>5
  <2>. DEFINE k == [S \in SUBSET A |-> Rule(S, h)]
  <2>2. \A S \in SUBSET A : k[S] = Rule(S, h) OBVIOUS
  <2>3. \A S \in SUBSET A : Cardinality(S) <= n => k[S] = h[S] BY <2>1, <2>2
  <2>. HIDE DEF k, c
  <2>4. \A S \in SUBSET A : Cardinality(S) <= n + 1 => k[S] = Rule(S, k)
    <3>. SUFFICES ASSUME NEW S \in SUBSET A, Cardinality(S) <= n + 1, S # {}
                  PROVE  k[S] = f[c(S)] + k[S \ {c(S)}]
      BY <2>2
    <3>1. S \ {c(S)} \in SUBSET A /\ Cardinality(S \ {c(S)}) <= n BY <1>2, <1>3
    <3>. QED BY <2>2, <2>3, <3>1
  <2>. HIDE DEF Rule
  <2>. QED BY <1>1, <2>4
<1>6. N \in F
  <2>. HIDE DEF F
  <2>. QED BY <1>1, <1>4, <1>5, CountInduction
<1>7. PICK h : \A S \in SUBSET A : Cardinality(S) <= N => h[S] = Rule(S, h) BY <1>6
<1>. DEFINE g == [S \in SUBSET A |-> h[S]]
<1>8. \A S \in SUBSET A : g[S] = Rule(S, g)
  <2>. SUFFICES ASSUME NEW S \in SUBSET A PROVE g[S] = Rule(S, g) OBVIOUS
  <2>1. h[S] = Rule(S, h) BY <1>1, <1>2, <1>7
  <2>2. CASE S = {} BY <2>1, <2>2
  <2>3. CASE S # {}
    <3>1. g[S \ {c(S)}] = h[S \ {c(S)}] BY <1>3, <2>3
    <3>. QED BY <2>1, <2>3, <3>1
  <2>. QED BY <2>2, <2>3
<1>9. g = [S \in SUBSET A |-> Rule(S, g)]
  <2>1. \A S \in SUBSET A : g[S] = [M \in SUBSET A |-> Rule(M, g)][S] BY <1>8
  <2>. HIDE DEF Rule
  <2>. QED BY <2>1
<1>10. SumOf(f, A, g)
  <2>. HIDE DEF g
  <2>. QED BY <1>9 DEF SumOf
<1>. QED BY <1>10
LEMMA SumAdds ==
  ASSUME NEW A, IsFiniteSet(A), NEW f \in [A -> Int], NEW g, SumOf(f, A, g) PROVE Adds(f, A, g)
<1>. DEFINE c(S) == CHOOSE x \in S : TRUE
            N == Cardinality(A)
            Free(S) == g[S] \in Int /\ \A x \in S : g[S] = f[x] + g[S \ {x}]
            F == {n \in 0 .. N : \A S \in SUBSET A : Cardinality(S) <= n => Free(S)}
<1>1. N \in Nat BY FS_CardinalityType
<1>2. \A S \in SUBSET A : IsFiniteSet(S) /\ Cardinality(S) \in 0 .. N
  BY FS_Subset, FS_CardinalityType
<1>3. \A S \in SUBSET A : \A x \in S : /\ S \ {x} \in SUBSET A
                                      /\ Cardinality(S \ {x}) = Cardinality(S) - 1
  BY <1>2, FS_RemoveElement
<1>4. g[{}] = 0 /\ \A S \in SUBSET A : S # {} => g[S] = f[c(S)] + g[S \ {c(S)}] BY DEF SumOf
<1>5. \A S \in SUBSET A : S # {} => c(S) \in S OBVIOUS
<1>. HIDE DEF c
<1>6. 0 \in F
  <2>1. \A S \in SUBSET A : Cardinality(S) <= 0 => S = {} BY <1>2, FS_EmptySet
  <2>2. Free({}) BY <1>4
  <2>. HIDE DEF Free
  <2>. QED BY <1>1, <2>1, <2>2
<1>7. ASSUME NEW n \in 0 .. N - 1, n \in F PROVE n + 1 \in F
  <2>1. ASSUME NEW S \in SUBSET A, Cardinality(S) <= n + 1 PROVE Free(S)
    <3>1. CASE S = {} BY <1>4, <3>1
    <3>2. CASE S # {}
      <4>1. PICK y \in S : y = c(S) /\ g[S] = f[y] + g[S \ {y}] BY <1>4, <1>5, <3>2
      <4>2. \A x \in S : Free(S \ {x})
        <5>. HIDE DEF Free
        <5>. QED BY <1>2, <1>3, <1>7, <2>1
      <4>3. f[y] \in Int /\ g[S \ {y}] \in Int /\ g[S] \in Int BY <4>1, <4>2
      <4>4. ASSUME NEW x \in S, x # y PROVE g[S] = f[x] + g[S \ {x}]
        <5>1. g[S \ {y}] = f[x] + g[(S \ {y}) \ {x}] BY <4>2, <4>4
        <5>2. g[S \ {x}] = f[y] + g[(S \ {x}) \ {y}] BY <4>1, <4>2, <4>4
        <5>3. PICK M : M = (S \ {y}) \ {x} /\ M = (S \ {x}) \ {y} OBVIOUS
        <5>4. M = (S \ {y}) \ {x} => g[M] \in Int
          <6>1. Free((S \ {y}) \ {x})
            <7>1. S \ {y} \in SUBSET A /\ x \in S \ {y} /\ Cardinality(S \ {y}) = Cardinality(S) - 1
              BY <1>3, <4>1, <4>4
            <7>2. PICK W \in SUBSET A : W = S \ {y} BY <7>1
            <7>3. W \ {x} \in SUBSET A /\ Cardinality(W \ {x}) = Cardinality(W) - 1
              BY <1>3, <7>1, <7>2
            <7>4. Cardinality(W \ {x}) <= n BY <1>2, <2>1, <7>1, <7>2, <7>3
            <7>. HIDE DEF Free
            <7>. QED BY <1>7, <7>2, <7>3, <7>4
          <6>. QED BY <6>1
        <5>5. f[x] \in Int OBVIOUS
        <5>6. PICK a \in Int, b \in Int, m \in Int : a = f[x] /\ b = f[y] /\ m = g[M]
          BY <4>3, <5>3, <5>4, <5>5
        <5>7. g[S \ {y}] = a + m /\ g[S \ {x}] = b + m /\ g[S] = b + g[S \ {y}]
          BY <4>1, <5>1, <5>2, <5>3, <5>6
        <5>8. g[S] = a + g[S \ {x}] BY <5>7
        <5>. QED BY <5>6, <5>8
      <4>. QED BY <4>1, <4>3, <4>4
    <3>. QED BY <3>1, <3>2
  <2>. HIDE DEF Free
  <2>. QED BY <1>1, <2>1
<1>8. N \in F
  <2>. HIDE DEF F
  <2>. QED BY <1>1, <1>6, <1>7, CountInduction
<1>9. \A S \in SUBSET A : Free(S)
  <2>. HIDE DEF Free
  <2>. QED BY <1>1, <1>2, <1>8
<1>10. g \in [SUBSET A -> Int]
  <2>1. g = [S \in SUBSET A |-> g[S]] BY DEF SumOf
  <2>. QED BY <1>9, <2>1
<1>. QED BY <1>4, <1>9, <1>10 DEF Adds

LEMMA TotalAdds ==
  ASSUME NEW A, IsFiniteSet(A), NEW f \in [A -> Int]
  PROVE  \E g : Adds(f, A, g) /\ Total(f, A) = g[A]
<1>1. SumOf(f, A, CHOOSE g : SumOf(f, A, g)) BY SumExists
<1>. QED BY <1>1, SumAdds DEF Total

LEMMA SumsAgree ==
  ASSUME NEW A, IsFiniteSet(A), NEW f, NEW g, Adds(f, A, g), NEW e, NEW h, Adds(e, A, h),
         NEW W \in SUBSET A, \A x \in W : f[x] = e[x]
  PROVE  g[W] = h[W]
<1>. DEFINE F == {S \in SUBSET W : g[S] = h[S]}
<1>1. {} \in F BY DEF Adds
<1>2. ASSUME NEW S \in SUBSET W, NEW x \in W \ S, S \in F PROVE S \cup {x} \in F
  <2>0. S \cup {x} \in SUBSET A /\ (S \cup {x}) \ {x} = S OBVIOUS
  <2>1. PICK M \in SUBSET A : M = S \cup {x} /\ x \in M /\ M \ {x} = S BY <2>0
  <2>2. g[M] = f[x] + g[S] /\ h[M] = e[x] + h[S] BY <2>1 DEF Adds
  <2>. QED BY <1>2, <2>1, <2>2
<1>3. IsFiniteSet(W) BY FS_Subset
<1>4. W \in F
  <2>. HIDE DEF F
  <2>. QED BY <1>1, <1>2, <1>3, SetInduction
<1>. QED BY <1>4

LEMMA TotalInt ==
  ASSUME NEW A, IsFiniteSet(A), NEW f \in [A -> Int] PROVE Total(f, A) \in Int
<1>1. PICK g : Adds(f, A, g) /\ Total(f, A) = g[A] BY TotalAdds
<1>2. A \in SUBSET A OBVIOUS
<1>. QED BY <1>1, <1>2 DEF Adds

\* One of the numbers is another.
LEMMA TotalChanges ==
  ASSUME NEW A, IsFiniteSet(A), NEW f \in [A -> Int], NEW e \in [A -> Int], NEW x \in A,
         \A y \in A \ {x} : f[y] = e[y]
  PROVE  Total(e, A) = Total(f, A) - f[x] + e[x]
<1>1. PICK g : Adds(f, A, g) /\ Total(f, A) = g[A] BY TotalAdds
<1>2. PICK h : Adds(e, A, h) /\ Total(e, A) = h[A] BY TotalAdds
<1>3. A \in SUBSET A /\ A \ {x} \in SUBSET A OBVIOUS
<1>4. g[A \ {x}] = h[A \ {x}] BY <1>1, <1>2, <1>3, SumsAgree
<1>5. g[A] = f[x] + g[A \ {x}] /\ h[A] = e[x] + h[A \ {x}] /\ g[A \ {x}] \in Int
  BY <1>1, <1>2, <1>3 DEF Adds
<1>6. f[x] \in Int /\ e[x] \in Int OBVIOUS
<1>. QED BY <1>1, <1>2, <1>4, <1>5, <1>6

LEMMA TotalZero ==
  ASSUME NEW A, IsFiniteSet(A) PROVE Total([x \in A |-> 0], A) = 0
<1>. DEFINE f == [x \in A |-> 0]
            g == [S \in SUBSET A |-> 0]
<1>1. f \in [A -> Int] OBVIOUS
<1>2. Adds(f, A, g)
  <2>1. \A S \in SUBSET A : g[S] = 0 OBVIOUS
  <2>2. \A x \in A : f[x] = 0 OBVIOUS
  <2>3. g \in [SUBSET A -> Int] OBVIOUS
  <2>. HIDE DEF f, g
  <2>. QED BY <2>1, <2>2, <2>3 DEF Adds
<1>3. A \in SUBSET A /\ g[A] = 0 /\ \A x \in A : f[x] = f[x] OBVIOUS
<1>. HIDE DEF f, g
<1>4. PICK h : Adds(f, A, h) /\ Total(f, A) = h[A] BY <1>1, TotalAdds
<1>5. h[A] = g[A] BY <1>2, <1>3, <1>4, SumsAgree
<1>6. Total(f, A) = 0 BY <1>3, <1>4, <1>5
<1>. QED BY <1>6 DEF f
-----------------------------------------------------------------------------
(* Chains                                                                        *)

ChainDoc == [v : Nat, by : [Segments -> Writers \cup {None}], pending : SUBSET Segments,
             story : Seq(Segments), count : Nat, contributors : SUBSET Writers,
             ballots : [Segments -> [Writers -> -1 .. 1]], votes : [Segments -> Int],
             total : Nat, likes : Nat, active : BOOLEAN]
ChainPCs == {"idle", "submit", "append", "vote", "count", "insert", "up", "down"}
ChainCall == [pc : ChainPCs, user : Writers \cup {None}, seg : Segments \cup {None},
              value : -1 .. 1, since : Nat, chain : ChainDoc, tries : 0 .. MaxRetries]
VoteStored == [user : Writers, seg : Segments, value : -1 .. 1, since : Nat]
InStory(c) == {c.story[i] : i \in DOMAIN c.story}
Placed(c) == c.pending \cup InStory(c)

\* A document every segment of which is in one place, by whoever sent it, with the sum
\* of its votes.
WholeDoc(c) ==
  /\ c \in ChainDoc
  /\ c.pending \cap InStory(c) = {}
  /\ c.count = Len(c.story) /\ Cardinality(InStory(c)) = Len(c.story) /\ IsFiniteSet(InStory(c))
  /\ \A s \in Segments : c.votes[s] = Total(c.ballots[s], Writers)
  /\ c.contributors \subseteq {Starter} \cup {c.by[s] : s \in InStory(c)}
  /\ \A s \in Segments : c.by[s] # None <=> s \in Placed(c)

\* What a handler knows: its segment is new, its document is the stored one while the
\* version is, and an attempt is left when it is to load again.
WriterOK(q, c) ==
  /\ q.pc # "idle" => q.user \in Writers
  /\ q.pc \in {"submit", "append", "vote", "count"} => q.seg \in Segments
  /\ q.pc \in {"submit", "append"} => c.by[q.seg] = None
  /\ q.pc \in {"submit", "vote"} => q.tries < MaxRetries
  /\ q.pc \in {"append", "count"} => q.chain.v <= c.v /\ (q.chain.v = c.v => q.chain = c)
  /\ q.pc = "count" => q.seg \in q.chain.pending
Submits(q, s) == q.pc \in {"submit", "append"} /\ q.seg = s
ChainsApart ==
  \A r, k \in Requests : \A s \in Segments : Submits(kReq[r], s) /\ Submits(kReq[k], s) => r = k

ChainTyped ==
  /\ kLedger \subseteq Writers /\ kReq \in [Requests -> ChainCall] /\ kCalls \in 0 .. MaxChainCalls
  /\ kVoted \in Seq(VoteStored) /\ kOdd \in BOOLEAN
ChainCore ==
  /\ ChainTyped /\ WholeDoc(kChain) /\ ChainsApart
  /\ \A r \in Requests : WriterOK(kReq[r], kChain)
  /\ kChain.v = 0 => kChain = K!NoChain
  /\ kMade = Placed(kChain) /\ kChain.total = Len(kVoted)

LEMMA ChainSizes ==
  /\ \A S : K!Cardinality(S) = Cardinality(S) /\ (K!IsFiniteSet(S) <=> IsFiniteSet(S))
  /\ \A c : K!ToSet(c.story) = InStory(c)
BY DEF Cardinality, IsFiniteSet, K!Cardinality, K!IsFiniteSet, K!ToSet, InStory

LEMMA NoChainWhole ==
  ASSUME K!ChainsAssumption
  PROVE  /\ WholeDoc(K!NoChain) /\ K!NoChain.v = 0 /\ Placed(K!NoChain) = {} /\ K!NoChain.total = 0
         /\ K!NoChain.likes = 0 /\ InStory(K!NoChain) = {}
         /\ K!Idle \in ChainCall /\ K!Idle.pc = "idle" /\ \A c : WriterOK(K!Idle, c)
<1>1. [u \in Writers |-> 0] \in [Writers -> -1 .. 1] OBVIOUS
<1>2. K!NoVotes \in [Segments -> [Writers -> -1 .. 1]] /\ \A s \in Segments : K!NoVotes[s] = [u \in Writers |-> 0]
  BY <1>1 DEF K!NoVotes
<1>3. /\ K!NoChain.by = [s \in Segments |-> None] /\ K!NoChain.pending = {} /\ K!NoChain.story = <<>>
      /\ K!NoChain.count = 0 /\ K!NoChain.contributors = {} /\ K!NoChain.ballots = K!NoVotes
      /\ K!NoChain.votes = [s \in Segments |-> 0] /\ K!NoChain.v = 0 /\ K!NoChain.total = 0
      /\ K!NoChain.likes = 0
  BY DEF K!NoChain
<1>4. K!NoChain \in ChainDoc
  <2>1. <<>> \in Seq(Segments) /\ FALSE \in BOOLEAN OBVIOUS
  <2>. QED BY <1>2, <2>1 DEF K!NoChain, ChainDoc
<1>5. InStory(K!NoChain) = {} /\ Len(K!NoChain.story) = 0 BY <1>3 DEF InStory
<1>6. \A s \in Segments : K!NoChain.votes[s] = Total(K!NoChain.ballots[s], Writers)
  BY <1>2, <1>3, TotalZero, ChainSizes DEF K!ChainsAssumption
<1>7. Placed(K!NoChain) = {} BY <1>3, <1>5 DEF Placed
<1>8. WholeDoc(K!NoChain) BY <1>3, <1>4, <1>5, <1>6, <1>7, FS_EmptySet DEF WholeDoc
<1>9. K!Idle \in ChainCall BY <1>4 DEF K!Idle, ChainCall, ChainPCs, K!ChainsAssumption
<1>10. K!Idle.pc = "idle" /\ \A c : WriterOK(K!Idle, c) BY DEF K!Idle, WriterOK
<1>. QED BY <1>3, <1>5, <1>7, <1>8, <1>9, <1>10
LEMMA ChainFields ==
  ASSUME NEW c \in ChainDoc
  PROVE  /\ c.v \in Nat /\ c.by \in [Segments -> Writers \cup {None}] /\ c.pending \subseteq Segments
         /\ c.story \in Seq(Segments) /\ c.count \in Nat /\ c.contributors \subseteq Writers
         /\ c.ballots \in [Segments -> [Writers -> -1 .. 1]] /\ c.votes \in [Segments -> Int]
         /\ c.total \in Nat /\ c.likes \in Nat /\ c.active \in BOOLEAN
  BY DEF ChainDoc

\* What a segment sent and a vote make of a document.
WithSegment(d, s, u, c) ==
  c = [[d EXCEPT !.pending = @ \cup {s}, !.by = [d.by EXCEPT ![s] = u]] EXCEPT !.v = d.v + 1]
WithVote(d, s, u, n, c) == c = [K!Counted(d, s, u, n) EXCEPT !.v = d.v + 1]
BallotCast(d, s, u, n, c) == c.ballots = [d.ballots EXCEPT ![s][u] = n]
NewTally(d, s, u, n, w, ballots, votes) ==
  /\ w = K!Tally(d, s, u, n)
  /\ ballots = [d.ballots EXCEPT ![s][u] = n]
  /\ votes = [d.votes EXCEPT ![s] = w]

\* A segment is sent: it is pending, and nothing else has changed.
LEMMA SegmentSent ==
  ASSUME K!ChainsAssumption, NEW d, WholeDoc(d), NEW s \in Segments, d.by[s] = None, NEW u \in Writers,
         NEW c, WithSegment(d, s, u, c)
  PROVE  /\ WholeDoc(c) /\ c.v = d.v + 1 /\ Placed(c) = Placed(d) \cup {s} /\ c.total = d.total
         /\ c.likes = d.likes /\ \A k \in Segments \ {s} : c.by[k] = d.by[k]
         /\ c.ballots = d.ballots
<1>1. d \in ChainDoc BY DEF WholeDoc
<1>2. PICK by \in [Segments -> Writers \cup {None}] : by = [d.by EXCEPT ![s] = u]
  BY <1>1, ChainFields
<1>3. by[s] = u /\ \A k \in Segments \ {s} : by[k] = d.by[k] BY <1>1, <1>2, ChainFields
<1>4. PICK pending \in SUBSET Segments : pending = d.pending \cup {s} BY <1>1, ChainFields
<1>5. PICK n \in Nat : n = d.v + 1 BY <1>1, ChainFields
<1>6. c = [d EXCEPT !.pending = pending, !.by = by, !.v = n]
  BY <1>1, <1>2, <1>4, <1>5 DEF WithSegment, ChainDoc
<1>7. c \in ChainDoc BY <1>1, <1>6 DEF ChainDoc
<1>8. /\ c.v = n /\ c.by = by /\ c.pending = pending /\ c.story = d.story /\ c.count = d.count
      /\ c.contributors = d.contributors /\ c.ballots = d.ballots /\ c.votes = d.votes
      /\ c.total = d.total /\ c.likes = d.likes
  BY <1>1, <1>6 DEF ChainDoc
<1>9. InStory(c) = InStory(d) BY <1>8 DEF InStory
<1>10. s \notin InStory(d) /\ InStory(d) \subseteq Segments
  <2>1. InStory(d) \subseteq Segments BY <1>1, ChainFields DEF InStory
  <2>. QED BY <2>1 DEF WholeDoc, Placed
<1>11. Placed(c) = Placed(d) \cup {s} BY <1>4, <1>8, <1>9 DEF Placed
<1>12. \A k \in InStory(d) : c.by[k] = d.by[k] BY <1>3, <1>8, <1>10
<1>13. c.contributors \subseteq {Starter} \cup {c.by[k] : k \in InStory(c)}
  BY <1>8, <1>9, <1>12 DEF WholeDoc
<1>14. \A k \in Segments : c.by[k] # None <=> k \in Placed(c)
  BY <1>3, <1>8, <1>11 DEF WholeDoc, K!ChainsAssumption
<1>15. c.pending \cap InStory(c) = {} BY <1>4, <1>8, <1>9, <1>10 DEF WholeDoc
<1>16. WholeDoc(c) BY <1>7, <1>8, <1>9, <1>13, <1>14, <1>15 DEF WholeDoc
<1>. QED BY <1>3, <1>5, <1>8, <1>11, <1>16

\* A vote is in the sum of its segment.
LEMMA VoteSummed ==
  ASSUME K!ChainsAssumption, NEW d, WholeDoc(d), NEW s \in Segments, NEW u \in Writers, NEW n \in -1 .. 1,
         NEW w, NEW ballots, NEW votes, NewTally(d, s, u, n, w, ballots, votes)
  PROVE  /\ ballots \in [Segments -> [Writers -> -1 .. 1]] /\ votes \in [Segments -> Int]
         /\ \A k \in Segments : votes[k] = Total(ballots[k], Writers)
<1>1. d \in ChainDoc BY DEF WholeDoc
<1>2. PICK f \in [Writers -> -1 .. 1] : f = d.ballots[s] BY <1>1, ChainFields
<1>3. PICK e \in [Writers -> -1 .. 1] : e = [f EXCEPT ![u] = n] BY <1>2
<1>4. /\ f \in [Writers -> Int] /\ e \in [Writers -> Int] /\ e[u] = n /\ f[u] \in Int /\ n \in Int
      /\ \A y \in Writers \ {u} : f[y] = e[y]
  BY <1>2, <1>3
<1>5. ballots = [d.ballots EXCEPT ![s] = e] BY <1>1, <1>2, <1>3, ChainFields DEF NewTally
<1>6. IsFiniteSet(Writers) BY ChainSizes DEF K!ChainsAssumption
<1>7. Total(e, Writers) = Total(f, Writers) - f[u] + e[u] BY <1>4, <1>6, TotalChanges
<1>8. d.votes[s] = Total(f, Writers) /\ d.votes[s] \in Int BY <1>1, <1>2, ChainFields DEF WholeDoc
<1>9. w = Total(e, Writers) /\ w \in Int
  BY <1>2, <1>4, <1>7, <1>8 DEF NewTally, K!Tally
<1>10. ballots \in [Segments -> [Writers -> -1 .. 1]] /\ votes \in [Segments -> Int]
       /\ votes[s] = w /\ ballots[s] = e
       /\ \A k \in Segments \ {s} : votes[k] = d.votes[k] /\ ballots[k] = d.ballots[k]
  BY <1>1, <1>5, <1>9, ChainFields DEF NewTally
<1>11. \A k \in Segments \ {s} : votes[k] = Total(ballots[k], Writers) BY <1>10 DEF WholeDoc
<1>. QED BY <1>9, <1>10, <1>11

\* What a vote makes of the document.
LEMMA Voted ==
  ASSUME K!ChainsAssumption, NEW d, WholeDoc(d), NEW s \in Segments, s \in d.pending,
         NEW u \in Writers, NEW n \in -1 .. 1,
         NEW c, WithVote(d, s, u, n, c)
  PROVE  /\ WholeDoc(c) /\ c.v = d.v + 1 /\ Placed(c) = Placed(d) /\ c.total = d.total + 1
         /\ c.likes = d.likes /\ c.by = d.by
         /\ BallotCast(d, s, u, n, c)
<1>1. d \in ChainDoc BY DEF WholeDoc
<1>2. PICK w : w = K!Tally(d, s, u, n) OBVIOUS
<1>3. PICK ballots : ballots = [d.ballots EXCEPT ![s][u] = n] OBVIOUS
<1>4. PICK votes : votes = [d.votes EXCEPT ![s] = w] OBVIOUS
<1>5. /\ ballots \in [Segments -> [Writers -> -1 .. 1]] /\ votes \in [Segments -> Int]
      /\ \A k \in Segments : votes[k] = Total(ballots[k], Writers)
  <2>1. NewTally(d, s, u, n, w, ballots, votes) BY <1>2, <1>3, <1>4 DEF NewTally
  <2>. QED BY <2>1, VoteSummed
<1>6. PICK total \in Nat, v \in Nat : total = d.total + 1 /\ v = d.v + 1 BY <1>1, ChainFields
<1>7. CASE w < RequireVotes
  <2>1. K!Counted(d, s, u, n) = [d EXCEPT !.ballots = ballots, !.votes = votes, !.total = total]
    BY <1>1, <1>2, <1>3, <1>4, <1>6, <1>7 DEF K!Counted, ChainDoc
  <2>2. c = [d EXCEPT !.ballots = ballots, !.votes = votes, !.total = total, !.v = v]
    BY <1>1, <1>6, <2>1 DEF WithVote, ChainDoc
  <2>3. c \in ChainDoc BY <1>1, <1>5, <2>2 DEF ChainDoc
  <2>4. /\ c.v = v /\ c.by = d.by /\ c.pending = d.pending /\ c.story = d.story /\ c.count = d.count
        /\ c.contributors = d.contributors /\ c.ballots = ballots /\ c.votes = votes
        /\ c.total = total /\ c.likes = d.likes
    BY <1>1, <2>2 DEF ChainDoc
  <2>5. InStory(c) = InStory(d) /\ Placed(c) = Placed(d) BY <2>4 DEF InStory, Placed
  <2>6. c.contributors \subseteq {Starter} \cup {c.by[k] : k \in InStory(c)} BY <2>4, <2>5 DEF WholeDoc
  <2>7. \A k \in Segments : c.by[k] # None <=> k \in Placed(c) BY <2>4, <2>5 DEF WholeDoc
  <2>8. WholeDoc(c) BY <1>5, <2>3, <2>4, <2>5, <2>6, <2>7 DEF WholeDoc
  <2>9. BallotCast(d, s, u, n, c) BY <1>3, <2>4 DEF BallotCast
  <2>. QED BY <1>6, <2>4, <2>5, <2>8, <2>9
<1>8. CASE ~(w < RequireVotes)
  <2>1. PICK story \in Seq(Segments), pending \in SUBSET Segments, count \in Nat :
          story = Append(d.story, s) /\ pending = d.pending \ {s} /\ count = d.count + 1
    <3>1. Append(d.story, s) \in Seq(Segments) BY <1>1, ChainFields
    <3>2. d.pending \ {s} \in SUBSET Segments /\ d.count + 1 \in Nat BY <1>1, ChainFields
    <3>. QED BY <3>1, <3>2
  <2>2. s \notin InStory(d) /\ s \in Placed(d) /\ d.by[s] \in Writers /\ d.by[s] # None
    BY <1>1, ChainFields DEF WholeDoc, Placed
  <2>3. PICK who \in SUBSET Writers : who = d.contributors \cup {d.by[s]} BY <1>1, <2>2, ChainFields
  <2>4. PICK active \in BOOLEAN : active = (d.active /\ d.count + 1 < MaxSegments) OBVIOUS
  <2>5. K!Counted(d, s, u, n) = [[d EXCEPT !.ballots = ballots, !.votes = votes, !.total = total]
          EXCEPT !.pending = pending, !.story = story, !.count = count, !.contributors = who,
                 !.active = active]
    BY <1>1, <1>2, <1>3, <1>4, <1>6, <1>8, <2>1, <2>3, <2>4 DEF K!Counted, ChainDoc
  <2>6. c = [d EXCEPT !.ballots = ballots, !.votes = votes, !.total = total, !.pending = pending,
               !.story = story, !.count = count, !.contributors = who, !.active = active, !.v = v]
    BY <1>1, <1>6, <2>5 DEF WithVote, ChainDoc
  <2>7. c \in ChainDoc BY <1>1, <1>5, <2>6 DEF ChainDoc
  <2>8. /\ c.v = v /\ c.by = d.by /\ c.pending = pending /\ c.story = story /\ c.count = count
        /\ c.contributors = who /\ c.ballots = ballots /\ c.votes = votes
        /\ c.total = total /\ c.likes = d.likes
    BY <1>1, <2>6 DEF ChainDoc
  <2>9. InStory(c) = InStory(d) \cup {s} /\ Len(story) = Len(d.story) + 1
    <3>1. d.story \in Seq(Segments) /\ story = Append(d.story, s) BY <1>1, <2>1, ChainFields
    <3>2. DOMAIN story = DOMAIN d.story \cup {Len(d.story) + 1} /\ story[Len(d.story) + 1] = s
          /\ \A i \in DOMAIN d.story : story[i] = d.story[i]
      BY <3>1
    <3>3. InStory(c) = {story[i] : i \in DOMAIN story} BY <2>8 DEF InStory
    <3>4. {story[i] : i \in DOMAIN story} = {d.story[i] : i \in DOMAIN d.story} \cup {s} BY <3>2
    <3>5. Len(story) = Len(d.story) + 1 BY <3>1
    <3>6. InStory(d) = {d.story[i] : i \in DOMAIN d.story} BY DEF InStory
    <3>. QED BY <3>3, <3>4, <3>5, <3>6
  <2>10. Cardinality(InStory(c)) = Len(c.story) /\ IsFiniteSet(InStory(c)) /\ c.count = Len(c.story)
    <3>1. IsFiniteSet(InStory(d)) /\ Cardinality(InStory(d)) = Len(d.story) /\ d.count = Len(d.story)
      BY DEF WholeDoc
    <3>2. Cardinality(InStory(d) \cup {s}) = Cardinality(InStory(d)) + 1 /\ IsFiniteSet(InStory(d) \cup {s})
      BY <2>2, <3>1, FS_AddElement
    <3>. QED BY <2>1, <2>8, <2>9, <3>1, <3>2
  <2>11. Placed(c) = Placed(d) BY <2>1, <2>8, <2>9 DEF Placed
  <2>12. c.pending \cap InStory(c) = {} BY <2>1, <2>8, <2>9 DEF WholeDoc
  <2>13. c.contributors \subseteq {Starter} \cup {c.by[k] : k \in InStory(c)}
    <3>1. d.contributors \subseteq {Starter} \cup {d.by[k] : k \in InStory(d)} BY DEF WholeDoc
    <3>2. {d.by[k] : k \in InStory(c)} = {d.by[k] : k \in InStory(d)} \cup {d.by[s]} BY <2>9
    <3>3. {c.by[k] : k \in InStory(c)} = {d.by[k] : k \in InStory(c)} BY <2>8
    <3>4. c.contributors = d.contributors \cup {d.by[s]} BY <2>3, <2>8
    <3>. QED BY <3>1, <3>2, <3>3, <3>4
  <2>14. \A k \in Segments : c.by[k] # None <=> k \in Placed(c) BY <2>8, <2>11 DEF WholeDoc
  <2>15. \A k \in Segments : c.votes[k] = Total(c.ballots[k], Writers) BY <1>5, <2>8
  <2>16. WholeDoc(c) BY <2>7, <2>10, <2>12, <2>13, <2>14, <2>15 DEF WholeDoc
  <2>17. BallotCast(d, s, u, n, c) BY <1>3, <2>8 DEF BallotCast
  <2>. QED BY <1>6, <2>8, <2>11, <2>16, <2>17
<1>. QED BY <1>7, <1>8

\* A like changes nothing else.
LEMMA LikedWhole ==
  ASSUME NEW d, WholeDoc(d), NEW n \in Nat, NEW c, c = K!BumpedForLike([d EXCEPT !.likes = n])
  PROVE  /\ WholeDoc(c) /\ c.v = d.v + 1 /\ Placed(c) = Placed(d) /\ c.total = d.total
         /\ c.likes = n /\ c.by = d.by /\ c.ballots = d.ballots
<1>1. d \in ChainDoc BY DEF WholeDoc
<1>2. PICK v \in Nat : v = d.v + 1 BY <1>1, ChainFields
<1>3. c = [d EXCEPT !.likes = n, !.v = v] BY <1>1, <1>2 DEF K!BumpedForLike, ChainDoc
<1>4. c \in ChainDoc BY <1>1, <1>3 DEF ChainDoc
<1>5. /\ c.v = v /\ c.by = d.by /\ c.pending = d.pending /\ c.story = d.story /\ c.count = d.count
      /\ c.contributors = d.contributors /\ c.ballots = d.ballots /\ c.votes = d.votes
      /\ c.total = d.total /\ c.likes = n
  BY <1>1, <1>3 DEF ChainDoc
<1>6. InStory(c) = InStory(d) /\ Placed(c) = Placed(d) BY <1>5 DEF InStory, Placed
<1>7. WholeDoc(c) BY <1>4, <1>5, <1>6 DEF WholeDoc
<1>. QED BY <1>2, <1>5, <1>6, <1>7

-----------------------------------------------------------------------------
(* What the steps of a chain do.                                                 *)

LEMMA ChainFacts ==
  /\ K!ChainsAssumption /\ IsFiniteSet(Writers) /\ None \notin Writers /\ Starter \in Writers
  /\ MaxRetries \in Nat /\ MaxRetries > 0 /\ MaxChainCalls \in Nat
BY ChainBounds, ChainSizes DEF K!ChainsAssumption

LEMMA CallFields ==
  ASSUME NEW q \in ChainCall
  PROVE  /\ q.pc \in ChainPCs /\ q.user \in Writers \cup {None} /\ q.seg \in Segments \cup {None}
         /\ q.value \in -1 .. 1 /\ q.since \in Nat /\ q.chain \in ChainDoc /\ q.tries \in 0 .. MaxRetries
BY DEF ChainCall

\* A handler moves, and the document stays.
LEMMA ChainMoves ==
  ASSUME ChainCore, NEW r \in Requests, NEW q \in ChainCall, kReq' = [kReq EXCEPT ![r] = q],
         WriterOK(q, kChain),
         \A s \in Segments : \A k \in Requests \ {r} : Submits(q, s) => ~Submits(kReq[k], s),
         UNCHANGED <<kChain, kMade, kVoted>>,
         kLedger' \subseteq Writers, kCalls' \in 0 .. MaxChainCalls, kOdd' \in BOOLEAN
  PROVE  ChainCore'
<1>1. kReq \in [Requests -> ChainCall] BY DEF ChainCore, ChainTyped
<1>2. kReq' \in [Requests -> ChainCall] BY <1>1
<1>3. kReq'[r] = q /\ \A k \in Requests \ {r} : kReq'[k] = kReq[k] BY <1>1
<1>4. ChainTyped' BY <1>2 DEF ChainCore, ChainTyped
<1>5. \A k \in Requests : WriterOK(kReq'[k], kChain') BY <1>3 DEF ChainCore
<1>6. ChainsApart'
  <2>. SUFFICES ASSUME NEW a \in Requests, NEW b \in Requests, NEW s \in Segments,
                       Submits(kReq'[a], s), Submits(kReq'[b], s), a # b
                PROVE  FALSE
    BY DEF ChainsApart
  <2>1. CASE a # r /\ b # r BY <1>3, <2>1 DEF ChainCore, ChainsApart
  <2>2. CASE a = r BY <1>3, <2>2
  <2>3. CASE b = r BY <1>3, <2>3
  <2>. QED BY <2>1, <2>2, <2>3
<1>7. WholeDoc(kChain') /\ (kChain'.v = 0 => kChain' = K!NoChain) /\ kMade' = Placed(kChain')
      /\ kChain'.total = Len(kVoted')
  BY DEF ChainCore
<1>. QED BY <1>4, <1>5, <1>6, <1>7 DEF ChainCore

\* A handler ends that changes the document, which is the next version then.
LEMMA ChainWrites ==
  ASSUME ChainCore, NEW r \in Requests, kReq' = [kReq EXCEPT ![r] = K!Idle],
         NEW c, kChain' = c, WholeDoc(c), c.v = kChain.v + 1,
         \A s \in Segments : Submits(kReq[r], s) \/ c.by[s] = kChain.by[s],
         kMade' = Placed(c), c.total = Len(kVoted'),
         kVoted' \in Seq(VoteStored),
         kLedger' \subseteq Writers, kCalls' \in 0 .. MaxChainCalls, kOdd' \in BOOLEAN
  PROVE  ChainCore'
<1>0. K!Idle \in ChainCall /\ K!Idle.pc = "idle" /\ \A d : WriterOK(K!Idle, d)
  BY ChainFacts, NoChainWhole
<1>1. kReq \in [Requests -> ChainCall] BY DEF ChainCore, ChainTyped
<1>2. kReq' \in [Requests -> ChainCall] BY <1>0, <1>1
<1>3. kReq'[r] = K!Idle /\ \A k \in Requests \ {r} : kReq'[k] = kReq[k] BY <1>1
<1>4. ChainTyped' BY <1>2 DEF ChainCore, ChainTyped
<1>5. ASSUME NEW k \in Requests PROVE WriterOK(kReq'[k], c)
  <2>1. CASE k = r BY <1>0, <1>3, <2>1
  <2>2. CASE k # r
    <3>1. kReq'[k] = kReq[k] /\ WriterOK(kReq[k], kChain) BY <1>3, <2>2 DEF ChainCore
    <3>2. kReq[k].chain \in ChainDoc /\ kChain \in ChainDoc BY <1>1, CallFields DEF ChainCore, WholeDoc
    <3>3. kReq[k].chain.v \in Nat /\ kChain.v \in Nat BY <3>2, ChainFields
    <3>4. kReq[k].pc \in {"append", "count"} => kReq[k].chain.v <= c.v /\ kReq[k].chain.v # c.v
      BY <3>1, <3>3 DEF WriterOK
    <3>5. ASSUME kReq[k].pc \in {"submit", "append"} PROVE c.by[kReq[k].seg] = None
      <4>1. PICK s \in Segments : s = kReq[k].seg BY <3>1, <3>5 DEF WriterOK
      <4>2. Submits(kReq[k], s) BY <3>5, <4>1 DEF Submits
      <4>3. ~Submits(kReq[r], s) BY <2>2, <4>2 DEF ChainCore, ChainsApart
      <4>. QED BY <3>1, <3>5, <4>1, <4>3 DEF WriterOK
    <3>. QED BY <3>1, <3>4, <3>5 DEF WriterOK
  <2>. QED BY <2>1, <2>2
<1>6. ChainsApart'
  <2>1. \A k \in Requests, s \in Segments : Submits(kReq'[k], s) => Submits(kReq[k], s)
    BY <1>0, <1>3 DEF Submits
  <2>. QED BY <2>1 DEF ChainCore, ChainsApart
<1>7. c.v # 0
  <2>1. kChain \in ChainDoc BY DEF ChainCore, WholeDoc
  <2>2. kChain.v \in Nat BY <2>1, ChainFields
  <2>. QED BY <2>2
<1>. QED BY <1>4, <1>5, <1>6, <1>7 DEF ChainCore

LEMMA ChainEnds ==
  ASSUME ChainCore, NEW r \in Requests, kReq' = [kReq EXCEPT ![r] = K!Idle],
         UNCHANGED <<kChain, kMade, kVoted, kLedger, kCalls>>, kOdd' \in BOOLEAN
  PROVE  ChainCore'
<1>0. K!Idle \in ChainCall /\ K!Idle.pc = "idle" /\ \A d : WriterOK(K!Idle, d)
  BY ChainFacts, NoChainWhole
<1>1. \A s \in Segments : ~Submits(K!Idle, s) BY <1>0 DEF Submits
<1>2. kLedger' \subseteq Writers /\ kCalls' \in 0 .. MaxChainCalls BY DEF ChainCore, ChainTyped
<1>. QED BY <1>0, <1>1, <1>2, ChainMoves

\* A handler begins.
LEMMA ChainBegins ==
  ASSUME ChainCore, NEW r \in Requests, NEW pc \in ChainPCs, NEW u \in Writers,
         NEW s \in Segments \cup {None}, NEW n \in -1 .. 1, K!Begin(r, pc, u, s, n),
         pc \in {"vote", "insert", "down"} \/ (pc = "submit" /\ kChain.by[s] = None),
         pc \in {"submit", "vote"} => s \in Segments,
         \A k \in Requests : pc = "submit" => ~Submits(kReq[k], s),
         UNCHANGED <<kChain, kMade, kVoted>>, kLedger' \subseteq Writers, kOdd' \in BOOLEAN
  PROVE  /\ ChainCore'
         /\ kReq[r].pc = "idle" /\ kReq'[r].pc = pc /\ kReq'[r].user = u
         /\ kReq'[r].seg = s /\ kReq'[r].value = n /\ kReq'[r].since = Len(kVoted)
         /\ \A k \in Requests \ {r} : kReq'[k] = kReq[k]
<1>0. K!Idle \in ChainCall BY ChainFacts, NoChainWhole
<1>1. PICK since \in Nat : since = Len(kVoted) BY DEF ChainCore, ChainTyped
<1>11. PICK q : q = [K!Idle EXCEPT !.pc = pc, !.user = u, !.seg = s, !.value = n, !.since = since] OBVIOUS
<1>2. q \in ChainCall BY <1>0, <1>11 DEF ChainCall
<1>3. q.pc = pc /\ q.user = u /\ q.seg = s /\ q.value = n /\ q.since = since /\ q.tries = 0 BY <1>11 DEF K!Idle
<1>4. kReq' = [kReq EXCEPT ![r] = q] /\ kReq[r].pc = "idle" /\ kCalls < MaxChainCalls /\ kCalls' = kCalls + 1
  BY <1>1, <1>11 DEF K!Begin, K!At
<1>5. kCalls \in 0 .. MaxChainCalls BY DEF ChainCore, ChainTyped
<1>6. kCalls' \in 0 .. MaxChainCalls BY <1>4, <1>5, ChainFacts
<1>7. WriterOK(q, kChain) BY <1>3, ChainFacts DEF WriterOK
<1>8. \A t \in Segments : \A k \in Requests \ {r} : Submits(q, t) => ~Submits(kReq[k], t)
  BY <1>3 DEF Submits
<1>9. ChainCore' BY <1>2, <1>4, <1>6, <1>7, <1>8, ChainMoves
<1>10. kReq \in [Requests -> ChainCall] BY DEF ChainCore, ChainTyped
<1>. QED BY <1>1, <1>3, <1>4, <1>9, <1>10

\* Likes: while nothing is odd a user has one toggle at most, which has still to insert,
\* to count up or to count down, and the counter has every like but those still to be
\* counted up, and those still to be counted down.
InToggle(q) == q.pc \in {"insert", "up", "down"}
Waits(pc, u) == \E r \in Requests : kReq[r].pc = pc /\ kReq[r].user = u
Counted == {u \in Writers : (u \in kLedger /\ ~Waits("up", u)) \/ Waits("down", u)}
OneToggle ==
  \A r, k \in Requests : InToggle(kReq[r]) /\ InToggle(kReq[k]) /\ kReq[r].user = kReq[k].user => r = k
LikesCore ==
  ~kOdd => /\ OneToggle
           /\ \A r \in Requests : /\ kReq[r].pc = "up" => kReq[r].user \in kLedger
                                  /\ kReq[r].pc \in {"insert", "down"} => kReq[r].user \notin kLedger
           /\ kChain.likes = Cardinality(Counted)
ChainInv == ChainCore /\ LikesCore

LEMMA CountedFinite == IsFiniteSet(Counted) /\ Cardinality(Counted) \in Nat
BY ChainFacts, FS_Subset, FS_CardinalityType DEF Counted

\* A step of no toggle.
LEMMA LikesStay ==
  ASSUME LikesCore, kLedger' = kLedger, kChain'.likes = kChain.likes, kOdd' = kOdd,
         \A r \in Requests : InToggle(kReq[r]) \/ InToggle(kReq'[r])
            => kReq'[r].pc = kReq[r].pc /\ kReq'[r].user = kReq[r].user
  PROVE  LikesCore'
<1>1. \A r \in Requests : InToggle(kReq'[r]) <=> InToggle(kReq[r]) BY DEF InToggle
<1>2. \A u : (Waits("up", u)' <=> Waits("up", u)) /\ (Waits("down", u)' <=> Waits("down", u))
  BY DEF Waits, InToggle
<1>3. Counted' = Counted BY <1>2 DEF Counted
<1>. SUFFICES ASSUME ~kOdd PROVE LikesCore' BY DEF LikesCore
<1>4. OneToggle' BY <1>1 DEF LikesCore, OneToggle
<1>5. \A r \in Requests : /\ kReq'[r].pc = "up" => kReq'[r].user \in kLedger'
                          /\ kReq'[r].pc \in {"insert", "down"} => kReq'[r].user \notin kLedger'
  BY DEF LikesCore, InToggle
<1>. QED BY <1>3, <1>4, <1>5 DEF LikesCore

\* A handler of no toggle ends or moves on.
LEMMA LikesAside ==
  ASSUME LikesCore, ChainCore, NEW r \in Requests, NEW q \in ChainCall, kReq' = [kReq EXCEPT ![r] = q],
         ~InToggle(kReq[r]), ~InToggle(q), kChain'.likes = kChain.likes,
         UNCHANGED <<kLedger, kOdd>>
  PROVE  LikesCore'
<1>1. kReq \in [Requests -> ChainCall] BY DEF ChainCore, ChainTyped
<1>2. kReq'[r] = q /\ \A k \in Requests \ {r} : kReq'[k] = kReq[k] BY <1>1
<1>. QED BY <1>2, LikesStay

-----------------------------------------------------------------------------
(* The steps.                                                                    *)

LEMMA ChainCreated == ASSUME ChainInv, K!Create PROVE ChainInv'
<1>1. ChainCore /\ LikesCore BY DEF ChainInv
<1>2. kChain = K!NoChain /\ kChain.v = 0 BY <1>1 DEF K!Create, ChainCore
<1>3. kChain \in ChainDoc /\ WholeDoc(kChain) /\ InStory(kChain) = {} BY <1>1, <1>2, ChainFacts, NoChainWhole DEF ChainCore, WholeDoc
<1>4. PICK c : c = [kChain EXCEPT !.v = 1, !.contributors = {Starter}, !.active = TRUE] OBVIOUS
<1>5. kChain' = c BY <1>2, <1>4 DEF K!Create
<1>6. /\ c.v = 1 /\ c.by = kChain.by /\ c.pending = kChain.pending /\ c.story = kChain.story
      /\ c.count = kChain.count /\ c.contributors = {Starter} /\ c.ballots = kChain.ballots
      /\ c.votes = kChain.votes /\ c.total = kChain.total /\ c.likes = kChain.likes /\ c \in ChainDoc
  BY <1>3, <1>4, ChainFacts DEF ChainDoc
<1>7. InStory(c) = InStory(kChain) /\ Placed(c) = Placed(kChain) BY <1>6 DEF InStory, Placed
<1>8. WholeDoc(c) BY <1>3, <1>6, <1>7 DEF WholeDoc
<1>9. UNCHANGED kReq /\ UNCHANGED kLedger /\ UNCHANGED kCalls /\ UNCHANGED kMade /\ UNCHANGED kVoted /\ UNCHANGED kOdd
  BY DEF K!Create
<1>10. \A r \in Requests : WriterOK(kReq[r], c)
  <2>. SUFFICES ASSUME NEW r \in Requests PROVE WriterOK(kReq[r], c) OBVIOUS
  <2>1. WriterOK(kReq[r], kChain) /\ kReq[r] \in ChainCall BY <1>1 DEF ChainCore, ChainTyped
  <2>2. kReq[r].chain.v \in Nat BY <2>1, CallFields, ChainFields
  <2>. QED BY <1>2, <1>6, <2>1, <2>2 DEF WriterOK
<1>11. ChainCore'
  <2>1. ChainTyped' /\ ChainsApart' BY <1>1, <1>9 DEF ChainCore, ChainTyped, ChainsApart
  <2>2. kMade' = Placed(c) /\ c.total = Len(kVoted') BY <1>1, <1>6, <1>7, <1>9 DEF ChainCore
  <2>. QED BY <1>5, <1>6, <1>8, <1>9, <1>10, <2>1, <2>2 DEF ChainCore
<1>12. LikesCore' BY <1>1, <1>5, <1>6, <1>9, LikesStay
<1>. QED BY <1>11, <1>12 DEF ChainInv

\* A submission and a vote begin.
LEMMA SubmitBegins ==
  ASSUME ChainInv, NEW r \in Requests, NEW u \in Writers, NEW s \in Segments, K!SubmitFind(r, u, s)
  PROVE  ChainInv'
<1>1. ChainCore /\ LikesCore BY DEF ChainInv
<1>2. K!Begin(r, "submit", u, s, 0) /\ kChain.by[s] = None
      /\ \A k \in Requests : ~Submits(kReq[k], s)
  BY DEF K!SubmitFind, Submits
<1>3. UNCHANGED kChain /\ UNCHANGED kLedger /\ UNCHANGED kMade /\ UNCHANGED kVoted /\ UNCHANGED kOdd
  BY DEF K!SubmitFind
<1>4. kLedger' \subseteq Writers /\ kOdd' \in BOOLEAN BY <1>1, <1>3 DEF ChainCore, ChainTyped
<1>5. /\ ChainCore'
      /\ kReq[r].pc = "idle" /\ kReq'[r].pc = "submit" /\ kReq'[r].user = u
      /\ \A k \in Requests \ {r} : kReq'[k] = kReq[k]
  <2>. PICK pc \in ChainPCs, n \in -1 .. 1 : pc = "submit" /\ n = 0 BY DEF ChainPCs
  <2>. QED BY <1>1, <1>2, <1>3, <1>4, ChainBegins
<1>6. LikesCore' BY <1>1, <1>3, <1>5, LikesStay DEF InToggle
<1>. QED BY <1>5, <1>6 DEF ChainInv

LEMMA VoteBegins ==
  ASSUME ChainInv, NEW r \in Requests, NEW u \in Writers, NEW s \in Segments, NEW n \in {-1, 1},
         K!VoteFind(r, u, s, n)
  PROVE  ChainInv'
<1>1. ChainCore /\ LikesCore BY DEF ChainInv
<1>2. K!Begin(r, "vote", u, s, n) BY DEF K!VoteFind
<1>3. UNCHANGED kChain /\ UNCHANGED kLedger /\ UNCHANGED kMade /\ UNCHANGED kVoted /\ UNCHANGED kOdd
  BY DEF K!VoteFind
<1>4. kLedger' \subseteq Writers /\ kOdd' \in BOOLEAN BY <1>1, <1>3 DEF ChainCore, ChainTyped
<1>5. /\ ChainCore'
      /\ kReq[r].pc = "idle" /\ kReq'[r].pc = "vote" /\ kReq'[r].user = u
      /\ \A k \in Requests \ {r} : kReq'[k] = kReq[k]
  <2>. PICK pc \in ChainPCs : pc = "vote" BY DEF ChainPCs
  <2>. QED BY <1>1, <1>2, <1>3, <1>4, ChainBegins
<1>6. LikesCore' BY <1>1, <1>3, <1>5, LikesStay DEF InToggle
<1>. QED BY <1>5, <1>6 DEF ChainInv

\* A handler loads the document.
LEMMA ChainLoads ==
  ASSUME ChainInv, NEW r \in Requests, NEW pc, NEW next,
         (pc = "submit" /\ next = "append") \/ (pc = "vote" /\ next = "count" /\ kReq[r].seg \in kChain.pending),
         kReq[r].pc = pc, K!LoadChain(r, next),
         UNCHANGED <<kChain, kLedger, kCalls, kMade, kVoted, kOdd>>
  PROVE  ChainInv'
<1>1. ChainCore /\ LikesCore BY DEF ChainInv
<1>2. kReq[r] \in ChainCall /\ WriterOK(kReq[r], kChain) /\ kChain \in ChainDoc /\ kReq \in [Requests -> ChainCall]
  BY <1>1 DEF ChainCore, ChainTyped, WholeDoc
<1>3. PICK t \in 0 .. MaxRetries : t = kReq[r].tries + 1
  <2>1. kReq[r].tries \in 0 .. MaxRetries /\ kReq[r].tries < MaxRetries BY <1>2, CallFields DEF WriterOK
  <2>2. kReq[r].tries + 1 \in 0 .. MaxRetries BY <2>1, ChainFacts
  <2>. QED BY <2>2
<1>4. next \in ChainPCs BY DEF ChainPCs
<1>5. PICK q : q = [kReq[r] EXCEPT !.pc = next, !.chain = kChain, !.tries = t] OBVIOUS
<1>6. q \in ChainCall BY <1>2, <1>4, <1>5 DEF ChainCall
<1>7. /\ q.pc = next /\ q.chain = kChain /\ q.user = kReq[r].user /\ q.seg = kReq[r].seg
  BY <1>2, <1>5 DEF ChainCall
<1>8. kReq' = [kReq EXCEPT ![r] = q]
  BY <1>2, <1>3, <1>5 DEF K!LoadChain, ChainCall
<1>9. WriterOK(q, kChain)
  <2>1. kChain.v \in Nat BY <1>2, ChainFields
  <2>. QED BY <1>2, <1>7, <2>1 DEF WriterOK
<1>10. \A s \in Segments : \A k \in Requests \ {r} : Submits(q, s) => ~Submits(kReq[k], s)
  BY <1>1, <1>7 DEF ChainCore, ChainsApart, Submits
<1>11. kLedger' \subseteq Writers /\ kCalls' \in 0 .. MaxChainCalls /\ kOdd' \in BOOLEAN
  BY <1>1 DEF ChainCore, ChainTyped
<1>12. ChainCore' BY <1>1, <1>6, <1>8, <1>9, <1>10, <1>11, ChainMoves
<1>13. LikesCore' BY <1>1, <1>6, <1>7, <1>8, LikesAside DEF InToggle
<1>. QED BY <1>12, <1>13 DEF ChainInv

LEMMA ChainGivesUp ==
  ASSUME ChainInv, NEW r \in Requests, kReq[r].pc \notin {"insert", "up", "down"}, K!Finish(r),
         UNCHANGED <<kChain, kLedger, kCalls, kMade, kVoted, kOdd>>
  PROVE  ChainInv'
<1>1. ChainCore /\ LikesCore BY DEF ChainInv
<1>2. kReq' = [kReq EXCEPT ![r] = K!Idle] BY DEF K!Finish
<1>3. K!Idle \in ChainCall /\ ~InToggle(K!Idle) BY ChainFacts, NoChainWhole DEF InToggle
<1>4. kOdd' \in BOOLEAN BY <1>1 DEF ChainCore, ChainTyped
<1>5. ChainCore' BY <1>1, <1>2, <1>4, ChainEnds
<1>6. LikesCore' BY <1>1, <1>2, <1>3, LikesAside DEF InToggle
<1>. QED BY <1>5, <1>6 DEF ChainInv

LEMMA LoadHolds ==
  ASSUME ChainInv, NEW r \in Requests, K!SubmitLoad(r) \/ K!VoteLoad(r) PROVE ChainInv'
<1>1. CASE K!SubmitLoad(r)
  <2>1. kReq[r].pc = "submit" /\ UNCHANGED <<kChain, kLedger, kCalls, kMade, kVoted, kOdd>>
    BY <1>1 DEF K!SubmitLoad, K!At
  <2>2. K!LoadChain(r, "append") \/ K!Finish(r) BY <1>1 DEF K!SubmitLoad
  <2>. QED BY <2>1, <2>2, ChainLoads, ChainGivesUp
<1>2. CASE K!VoteLoad(r)
  <2>1. kReq[r].pc = "vote" /\ UNCHANGED <<kChain, kLedger, kCalls, kMade, kVoted, kOdd>>
    BY <1>2 DEF K!VoteLoad, K!At
  <2>2. (K!LoadChain(r, "count") /\ kReq[r].seg \in kChain.pending) \/ K!Finish(r) BY <1>2 DEF K!VoteLoad
  <2>. QED BY <2>1, <2>2, ChainLoads, ChainGivesUp
<1>. QED BY <1>1, <1>2

\* Another writer was first: the handler loads again, or gives up.
LEMMA ChainLost ==
  ASSUME ChainInv, NEW r \in Requests, NEW again,
         (kReq[r].pc = "append" /\ again = "submit") \/ (kReq[r].pc = "count" /\ again = "vote"),
         K!SaveLost(r, again), UNCHANGED <<kLedger, kCalls, kMade, kVoted, kOdd>>
  PROVE  ChainInv'
<1>1. ChainCore /\ LikesCore BY DEF ChainInv
<1>2. UNCHANGED kChain BY DEF K!SaveLost
<1>3. CASE ~(kReq[r].tries < MaxRetries)
  <2>1. K!Finish(r) BY <1>3 DEF K!SaveLost, K!Finish
  <2>. QED BY <1>2, <2>1, ChainGivesUp
<1>4. CASE kReq[r].tries < MaxRetries
  <2>1. kReq[r] \in ChainCall /\ WriterOK(kReq[r], kChain) BY <1>1 DEF ChainCore, ChainTyped
  <2>2. again \in ChainPCs BY DEF ChainPCs
  <2>3. K!NoChain \in ChainDoc BY ChainFacts, NoChainWhole DEF WholeDoc
  <2>4. PICK q : q = [kReq[r] EXCEPT !.pc = again, !.chain = K!NoChain] OBVIOUS
  <2>5. q \in ChainCall BY <2>1, <2>2, <2>3, <2>4 DEF ChainCall
  <2>6. q.pc = again /\ q.user = kReq[r].user /\ q.seg = kReq[r].seg /\ q.tries = kReq[r].tries
    BY <2>1, <2>4 DEF ChainCall
  <2>7. kReq' = [kReq EXCEPT ![r] = q] BY <1>4, <2>4 DEF K!SaveLost
  <2>8. WriterOK(q, kChain) BY <1>4, <2>1, <2>6 DEF WriterOK
  <2>9. \A s \in Segments : \A k \in Requests \ {r} : Submits(q, s) => ~Submits(kReq[k], s)
    BY <1>1, <2>6 DEF ChainCore, ChainsApart, Submits
  <2>10. kLedger' \subseteq Writers /\ kCalls' \in 0 .. MaxChainCalls /\ kOdd' \in BOOLEAN
    BY <1>1 DEF ChainCore, ChainTyped
  <2>11. ChainCore' BY <1>1, <1>2, <2>5, <2>7, <2>8, <2>9, <2>10, ChainMoves
  <2>12. LikesCore' BY <1>1, <1>2, <2>5, <2>6, <2>7, LikesAside DEF InToggle
  <2>. QED BY <2>11, <2>12 DEF ChainInv
<1>. QED BY <1>3, <1>4

LEMMA SubmitHolds == ASSUME ChainInv, NEW r \in Requests, K!SubmitSegment(r) PROVE ChainInv'
<1>1. ChainCore /\ LikesCore BY DEF ChainInv
<1>2. kReq[r].pc = "append" /\ UNCHANGED kLedger /\ UNCHANGED kCalls /\ UNCHANGED kVoted /\ UNCHANGED kOdd
  BY DEF K!SubmitSegment, K!At
<1>3. CASE K!SaveLost(r, "submit") /\ UNCHANGED kMade BY <1>2, <1>3, ChainLost
<1>4. CASE /\ K!Save(r, [kReq[r].chain EXCEPT !.pending = @ \cup {kReq[r].seg},
                           !.by = [kReq[r].chain.by EXCEPT ![kReq[r].seg] = kReq[r].user]])
           /\ kMade' = kMade \cup {kReq[r].seg}
  <2>1. WriterOK(kReq[r], kChain) /\ kReq[r] \in ChainCall BY <1>1 DEF ChainCore, ChainTyped
  <2>2. kReq[r].chain = kChain BY <1>2, <1>4, <2>1 DEF K!Save, K!Savable, WriterOK
  <2>3. PICK s \in Segments, u \in Writers : s = kReq[r].seg /\ u = kReq[r].user
    BY <1>2, <2>1 DEF WriterOK
  <2>4. kChain.by[s] = None BY <1>2, <2>1, <2>3 DEF WriterOK
  <2>5. PICK c : WithSegment(kChain, s, u, c) BY DEF WithSegment
  <2>6. kChain' = c /\ kReq' = [kReq EXCEPT ![r] = K!Idle]
    BY <1>4, <2>2, <2>3, <2>5 DEF K!Save, K!Finish, WithSegment
  <2>7. WholeDoc(kChain) /\ kMade = Placed(kChain) /\ kChain.total = Len(kVoted) /\ ChainTyped BY <1>1 DEF ChainCore
  <2>8. /\ WholeDoc(c) /\ c.v = kChain.v + 1 /\ Placed(c) = Placed(kChain) \cup {s} /\ c.total = kChain.total
        /\ c.likes = kChain.likes /\ \A k \in Segments \ {s} : c.by[k] = kChain.by[k]
    BY <2>4, <2>5, <2>7, ChainFacts, SegmentSent
  <2>9. \A k \in Segments : Submits(kReq[r], k) \/ c.by[k] = kChain.by[k]
    BY <1>2, <2>3, <2>8 DEF Submits
  <2>10. kMade' = Placed(c) /\ c.total = Len(kVoted') BY <1>2, <1>4, <2>3, <2>7, <2>8
  <2>11. /\ kVoted' \in Seq(VoteStored) /\ kLedger' \subseteq Writers
         /\ kCalls' \in 0 .. MaxChainCalls /\ kOdd' \in BOOLEAN
    BY <1>2, <2>7 DEF ChainTyped
  <2>12. ChainCore' BY <1>1, <2>6, <2>8, <2>9, <2>10, <2>11, ChainWrites
  <2>13. K!Idle \in ChainCall /\ ~InToggle(K!Idle) BY ChainFacts, NoChainWhole DEF InToggle
  <2>14. LikesCore' BY <1>1, <1>2, <2>6, <2>8, <2>13, LikesAside DEF InToggle
  <2>. QED BY <2>12, <2>14 DEF ChainInv
<1>. QED BY <1>3, <1>4 DEF K!SubmitSegment

LEMMA VoteHolds == ASSUME ChainInv, NEW r \in Requests, K!VoteOnSegment(r) PROVE ChainInv'
<1>1. ChainCore /\ LikesCore BY DEF ChainInv
<1>2. kReq[r].pc = "count" /\ UNCHANGED kLedger /\ UNCHANGED kCalls /\ UNCHANGED kMade /\ UNCHANGED kOdd
  BY DEF K!VoteOnSegment, K!At
<1>3. CASE K!SaveLost(r, "vote") /\ UNCHANGED kVoted BY <1>2, <1>3, ChainLost
<1>4. CASE /\ K!Save(r, K!Counted(kReq[r].chain, kReq[r].seg, kReq[r].user, kReq[r].value))
           /\ kVoted' = Append(kVoted, [user |-> kReq[r].user, seg |-> kReq[r].seg,
                                         value |-> kReq[r].value, since |-> kReq[r].since])
  <2>1. WriterOK(kReq[r], kChain) /\ kReq[r] \in ChainCall BY <1>1 DEF ChainCore, ChainTyped
  <2>2. kReq[r].chain = kChain BY <1>2, <1>4, <2>1 DEF K!Save, K!Savable, WriterOK
  <2>3. PICK s \in Segments, u \in Writers, n \in -1 .. 1 : s = kReq[r].seg /\ u = kReq[r].user /\ n = kReq[r].value
    BY <1>2, <2>1, CallFields DEF WriterOK
  <2>4. s \in kChain.pending BY <1>2, <2>1, <2>2, <2>3 DEF WriterOK
  <2>5. PICK c : WithVote(kChain, s, u, n, c) BY DEF WithVote
  <2>6. kChain' = c /\ kReq' = [kReq EXCEPT ![r] = K!Idle]
    BY <1>4, <2>2, <2>3, <2>5 DEF K!Save, K!Finish, WithVote
  <2>7. WholeDoc(kChain) /\ kMade = Placed(kChain) /\ kChain.total = Len(kVoted) /\ ChainTyped BY <1>1 DEF ChainCore
  <2>8. /\ WholeDoc(c) /\ c.v = kChain.v + 1 /\ Placed(c) = Placed(kChain) /\ c.total = kChain.total + 1
        /\ c.likes = kChain.likes /\ c.by = kChain.by
    BY <2>4, <2>5, <2>7, ChainFacts, Voted
  <2>9. kVoted \in Seq(VoteStored) BY <2>7 DEF ChainTyped
  <2>10. kVoted' \in Seq(VoteStored) /\ Len(kVoted') = Len(kVoted) + 1
    <3>1. kReq[r].since \in Nat BY <2>1, CallFields
    <3>2. PICK e \in VoteStored : e = [user |-> u, seg |-> s, value |-> n, since |-> kReq[r].since]
      BY <3>1 DEF VoteStored
    <3>3. kVoted' = Append(kVoted, e) BY <1>4, <2>3, <3>2
    <3>. QED BY <2>9, <3>3
  <2>11. kMade' = Placed(c) /\ c.total = Len(kVoted') BY <1>2, <2>7, <2>8, <2>10
  <2>12. kLedger' \subseteq Writers /\ kCalls' \in 0 .. MaxChainCalls /\ kOdd' \in BOOLEAN
    BY <1>2, <2>7 DEF ChainTyped
  <2>13. ChainCore' BY <1>1, <2>6, <2>8, <2>10, <2>11, <2>12, ChainWrites
  <2>14. K!Idle \in ChainCall /\ ~InToggle(K!Idle) BY ChainFacts, NoChainWhole DEF InToggle
  <2>15. LikesCore' BY <1>1, <1>2, <2>6, <2>8, <2>14, LikesAside DEF InToggle
  <2>. QED BY <2>13, <2>15 DEF ChainInv
<1>. QED BY <1>3, <1>4 DEF K!VoteOnSegment

\* The toggles of a like.
LEMMA LikeDeleteHolds ==
  ASSUME ChainInv, NEW r \in Requests, NEW u \in Writers, K!LikeDelete(r, u) PROVE ChainInv'
<1>1. ChainCore /\ LikesCore /\ ChainTyped BY DEF ChainInv, ChainCore
<1>2. PICK pc \in ChainPCs, s \in Segments \cup {None}, n \in -1 .. 1 :
        pc = (IF u \in kLedger THEN "down" ELSE "insert") /\ s = None /\ n = 0
  BY DEF ChainPCs
<1>3. K!Begin(r, pc, u, s, n) BY <1>2 DEF K!LikeDelete
<1>4. kLedger' = kLedger \ {u} /\ kOdd' = (kOdd \/ K!Toggling(u) # {})
      /\ UNCHANGED kChain /\ UNCHANGED kMade /\ UNCHANGED kVoted
  BY DEF K!LikeDelete
<1>5. kLedger' \subseteq Writers /\ kOdd' \in BOOLEAN BY <1>1, <1>4 DEF ChainTyped
<1>6. pc \in {"insert", "down"} BY <1>2
<1>7. /\ ChainCore'
      /\ kReq[r].pc = "idle" /\ kReq'[r].pc = pc /\ kReq'[r].user = u
      /\ \A k \in Requests \ {r} : kReq'[k] = kReq[k]
  BY <1>1, <1>3, <1>4, <1>5, <1>6, ChainBegins
<1>8. LikesCore'
  <2>. SUFFICES ASSUME ~kOdd' PROVE LikesCore' BY DEF LikesCore
  <2>1. ~kOdd /\ K!Toggling(u) = {} BY <1>4
  <2>2. \A k \in Requests : ~(InToggle(kReq[k]) /\ kReq[k].user = u) BY <2>1 DEF K!Toggling, InToggle
  <2>3. OneToggle'
    <3>1. OneToggle BY <1>1, <2>1 DEF LikesCore
    <3>. QED BY <1>7, <2>2, <3>1 DEF OneToggle
  <2>4. \A k \in Requests : /\ kReq'[k].pc = "up" => kReq'[k].user \in kLedger'
                            /\ kReq'[k].pc \in {"insert", "down"} => kReq'[k].user \notin kLedger'
    <3>. SUFFICES ASSUME NEW k \in Requests
                  PROVE  /\ kReq'[k].pc = "up" => kReq'[k].user \in kLedger'
                         /\ kReq'[k].pc \in {"insert", "down"} => kReq'[k].user \notin kLedger'
      OBVIOUS
    <3>1. CASE k = r BY <1>4, <1>6, <1>7, <3>1
    <3>2. CASE k # r
      <4>1. kReq'[k] = kReq[k] BY <1>7, <3>2
      <4>2. /\ kReq[k].pc = "up" => kReq[k].user \in kLedger
            /\ kReq[k].pc \in {"insert", "down"} => kReq[k].user \notin kLedger
        BY <1>1, <2>1 DEF LikesCore
      <4>3. kReq[k].pc = "up" => kReq[k].user # u BY <2>2 DEF InToggle
      <4>. QED BY <1>4, <4>1, <4>2, <4>3
    <3>. QED BY <3>1, <3>2
  <2>5. \A w \in Writers : /\ Waits("up", w)' <=> Waits("up", w)
                           /\ Waits("down", w)' <=> (Waits("down", w) \/ (w = u /\ pc = "down"))
    BY <1>6, <1>7 DEF Waits
  <2>6. ~Waits("up", u) /\ ~Waits("down", u) BY <2>2 DEF Waits, InToggle
  <2>7. \A w \in Writers : w \in Counted' <=> w \in Counted
    BY <1>2, <1>4, <2>5, <2>6 DEF Counted
  <2>8. Counted' = Counted
    <3>1. Counted' \subseteq Writers /\ Counted \subseteq Writers BY DEF Counted
    <3>. QED BY <2>7, <3>1
  <2>9. kChain'.likes = Cardinality(Counted') BY <1>1, <1>4, <2>1, <2>8 DEF LikesCore
  <2>. QED BY <2>3, <2>4, <2>9 DEF LikesCore
<1>. QED BY <1>7, <1>8 DEF ChainInv

LEMMA LikeInsertHolds == ASSUME ChainInv, NEW r \in Requests, K!LikeInsert(r) PROVE ChainInv'
<1>1. ChainCore /\ LikesCore /\ ChainTyped BY DEF ChainInv, ChainCore
<1>2. kReq[r].pc = "insert" /\ UNCHANGED kChain /\ UNCHANGED kCalls /\ UNCHANGED kMade /\ UNCHANGED kVoted
  BY DEF K!LikeInsert, K!At
<1>3. WriterOK(kReq[r], kChain) /\ kReq[r] \in ChainCall /\ kReq \in [Requests -> ChainCall]
  BY <1>1 DEF ChainCore, ChainTyped
<1>4. PICK u \in Writers : u = kReq[r].user BY <1>2, <1>3 DEF WriterOK
<1>5. kLedger' = kLedger \cup {u} /\ kLedger' \subseteq Writers /\ kOdd' \in BOOLEAN /\ kCalls' \in 0 .. MaxChainCalls
  BY <1>1, <1>2, <1>4 DEF K!LikeInsert, ChainTyped
<1>6. PICK q \in ChainCall : /\ kReq' = [kReq EXCEPT ![r] = q]
                             /\ q.pc = "idle" \/ (q.pc = "up" /\ q.user = u)
                             /\ ~kOdd' => ~kOdd /\ (u \notin kLedger => q.pc = "up" /\ q.user = u)
  <2>1. K!Idle \in ChainCall /\ K!Idle.pc = "idle" BY ChainFacts, NoChainWhole
  <2>2. PICK up : up = [kReq[r] EXCEPT !.pc = "up"] OBVIOUS
  <2>3. up \in ChainCall /\ up.pc = "up" /\ up.user = u BY <1>3, <1>4, <2>2 DEF ChainCall, ChainPCs
  <2>4. \/ u \in kLedger /\ K!Finish(r) /\ UNCHANGED kOdd
        \/ u \notin kLedger /\ kReq' = [kReq EXCEPT ![r].pc = "up"] /\ UNCHANGED kOdd
        \/ u \notin kLedger /\ K!Finish(r) /\ kOdd' = TRUE
    BY <1>4 DEF K!LikeInsert
  <2>5. CASE K!Finish(r)
    <3>1. kReq' = [kReq EXCEPT ![r] = K!Idle] BY <2>5 DEF K!Finish
    <3>2. ~kOdd' => u \in kLedger \/ kReq' = [kReq EXCEPT ![r].pc = "up"] BY <2>4
    <3>3. ~kOdd' => ~kOdd BY <2>4
    <3>4. ~kOdd' => u \in kLedger
      <4>. SUFFICES ASSUME kReq' = [kReq EXCEPT ![r].pc = "up"] PROVE FALSE BY <3>2
      <4>1. kReq'[r].pc = "up" BY <1>3 DEF ChainCall
      <4>2. kReq'[r].pc = "idle" BY <1>3, <2>1, <3>1
      <4>. QED BY <4>1, <4>2
    <3>. QED BY <2>1, <3>1, <3>3, <3>4
  <2>6. CASE kReq' = [kReq EXCEPT ![r].pc = "up"]
    <3>1. kReq' = [kReq EXCEPT ![r] = up] BY <1>3, <2>2, <2>6
    <3>2. ~kOdd' => ~kOdd BY <2>4
    <3>. QED BY <2>3, <3>1, <3>2
  <2>. QED BY <2>4, <2>5, <2>6
<1>7. kReq' = [kReq EXCEPT ![r] = q] BY <1>6
<1>8. WriterOK(q, kChain) /\ \A s : ~Submits(q, s) BY <1>4, <1>6 DEF WriterOK, Submits
<1>9. ChainCore' BY <1>1, <1>2, <1>5, <1>7, <1>8, ChainMoves
<1>10. kReq'[r] = q /\ \A k \in Requests \ {r} : kReq'[k] = kReq[k] BY <1>3, <1>7
<1>11. LikesCore'
  <2>. SUFFICES ASSUME ~kOdd' PROVE LikesCore' BY DEF LikesCore
  <2>0. ~kOdd BY <1>6
  <2>1. u \notin kLedger BY <1>1, <1>2, <1>4, <2>0 DEF LikesCore
  <2>2. q.pc = "up" /\ q.user = u BY <1>6, <2>1
  <2>3. \A k \in Requests : /\ InToggle(kReq'[k]) <=> InToggle(kReq[k])
                            /\ InToggle(kReq[k]) => kReq'[k].user = kReq[k].user
    BY <1>2, <1>4, <1>10, <2>2 DEF InToggle
  <2>4. OneToggle BY <1>1, <2>0 DEF LikesCore
  <2>5. OneToggle' BY <2>3, <2>4 DEF OneToggle
  <2>6. \A k \in Requests \ {r} : ~(InToggle(kReq[k]) /\ kReq[k].user = u)
    BY <1>2, <1>4, <2>4 DEF OneToggle, InToggle
  <2>7. \A k \in Requests : /\ kReq'[k].pc = "up" => kReq'[k].user \in kLedger'
                            /\ kReq'[k].pc \in {"insert", "down"} => kReq'[k].user \notin kLedger'
    <3>. SUFFICES ASSUME NEW k \in Requests
                  PROVE  /\ kReq'[k].pc = "up" => kReq'[k].user \in kLedger'
                         /\ kReq'[k].pc \in {"insert", "down"} => kReq'[k].user \notin kLedger'
      OBVIOUS
    <3>1. CASE k = r BY <1>5, <1>10, <2>2, <3>1
    <3>2. CASE k # r
      <4>1. kReq'[k] = kReq[k] BY <1>10, <3>2
      <4>2. /\ kReq[k].pc = "up" => kReq[k].user \in kLedger
            /\ kReq[k].pc \in {"insert", "down"} => kReq[k].user \notin kLedger
        BY <1>1, <2>0 DEF LikesCore
      <4>3. kReq[k].pc \in {"insert", "down"} => kReq[k].user # u BY <2>6, <3>2 DEF InToggle
      <4>. QED BY <1>5, <4>1, <4>2, <4>3
    <3>. QED BY <3>1, <3>2
  <2>8. \A w \in Writers : /\ Waits("up", w)' <=> (Waits("up", w) \/ w = u)
                           /\ Waits("down", w)' <=> Waits("down", w)
    BY <1>2, <1>10, <2>2 DEF Waits
  <2>9. ~Waits("up", u) /\ ~Waits("down", u) BY <1>2, <2>6 DEF Waits, InToggle
  <2>10. \A w \in Writers : w \in Counted' <=> w \in Counted
    BY <1>5, <2>1, <2>8, <2>9 DEF Counted
  <2>11. Counted' = Counted
    <3>1. Counted' \subseteq Writers /\ Counted \subseteq Writers BY DEF Counted
    <3>. QED BY <2>10, <3>1
  <2>12. kChain'.likes = Cardinality(Counted') BY <1>1, <1>2, <2>0, <2>11 DEF LikesCore
  <2>. QED BY <2>5, <2>7, <2>12 DEF LikesCore
<1>. QED BY <1>9, <1>11 DEF ChainInv

\* A toggle ends that has counted: what its like was is what it is.
LEMMA LikeCounted ==
  ASSUME ChainCore, LikesCore, NEW r \in Requests, kReq[r].pc \in {"up", "down"}, ~kOdd,
         kReq' = [kReq EXCEPT ![r] = K!Idle], UNCHANGED kLedger, UNCHANGED kOdd,
         NEW u \in Writers, u = kReq[r].user
  PROVE  /\ OneToggle'
         /\ \A k \in Requests : /\ kReq'[k].pc = "up" => kReq'[k].user \in kLedger'
                                /\ kReq'[k].pc \in {"insert", "down"} => kReq'[k].user \notin kLedger'
         /\ kReq[r].pc = "up" => u \notin Counted /\ Counted' = Counted \cup {u}
         /\ kReq[r].pc = "down" => u \in Counted /\ Counted' = Counted \ {u}
<1>0. kReq \in [Requests -> ChainCall] BY DEF ChainCore, ChainTyped
<1>1. kReq'[r] = K!Idle /\ K!Idle.pc = "idle" /\ \A k \in Requests \ {r} : kReq'[k] = kReq[k]
  BY <1>0, ChainFacts, NoChainWhole
<1>2. OneToggle BY DEF LikesCore
<1>3. OneToggle' BY <1>1, <1>2 DEF OneToggle, InToggle
<1>4. \A k \in Requests : /\ kReq'[k].pc = "up" => kReq'[k].user \in kLedger'
                          /\ kReq'[k].pc \in {"insert", "down"} => kReq'[k].user \notin kLedger'
  BY <1>1 DEF LikesCore
<1>5. \A k \in Requests \ {r} : ~(InToggle(kReq[k]) /\ kReq[k].user = u) BY <1>2 DEF OneToggle, InToggle
<1>6. \A w \in Writers \ {u} : (Waits("up", w)' <=> Waits("up", w)) /\ (Waits("down", w)' <=> Waits("down", w))
  BY <1>1 DEF Waits
<1>7. ~Waits("up", u)' /\ ~Waits("down", u)' BY <1>1, <1>5 DEF Waits, InToggle
<1>8. \A w \in Writers \ {u} : w \in Counted' <=> w \in Counted BY <1>6 DEF Counted
<1>9. Counted' \subseteq Writers /\ Counted \subseteq Writers /\ (u \in Counted' <=> u \in kLedger)
  BY <1>7 DEF Counted
<1>10. CASE kReq[r].pc = "up"
  <2>1. Waits("up", u) /\ u \in kLedger BY <1>10 DEF Waits, LikesCore
  <2>2. ~Waits("down", u) BY <1>5, <1>10 DEF Waits, InToggle
  <2>3. u \notin Counted BY <2>1, <2>2 DEF Counted
  <2>. QED BY <1>3, <1>4, <1>8, <1>9, <1>10, <2>1, <2>3
<1>11. CASE kReq[r].pc = "down"
  <2>1. Waits("down", u) /\ u \notin kLedger BY <1>11 DEF Waits, LikesCore
  <2>2. u \in Counted BY <2>1 DEF Counted
  <2>. QED BY <1>3, <1>4, <1>8, <1>9, <1>11, <2>1, <2>2
<1>. QED BY <1>10, <1>11

LEMMA LikeUpHolds == ASSUME ChainInv, NEW r \in Requests, K!LikeUp(r) PROVE ChainInv'
<1>1. ChainCore /\ LikesCore /\ ChainTyped /\ WholeDoc(kChain) BY DEF ChainInv, ChainCore
<1>2. /\ kReq[r].pc = "up" /\ UNCHANGED kLedger /\ UNCHANGED kCalls /\ UNCHANGED kMade /\ UNCHANGED kVoted
      /\ UNCHANGED kOdd /\ kReq' = [kReq EXCEPT ![r] = K!Idle]
  BY DEF K!LikeUp, K!At, K!Finish
<1>3. PICK n \in Nat : n = kChain.likes + 1
  <2>1. kChain \in ChainDoc BY <1>1 DEF WholeDoc
  <2>2. kChain.likes \in Nat BY <2>1, ChainFields
  <2>. QED BY <2>2
<1>4. PICK c : c = K!BumpedForLike([kChain EXCEPT !.likes = n]) OBVIOUS
<1>5. kChain' = c
  <2>1. kChain \in ChainDoc BY <1>1 DEF WholeDoc
  <2>2. [kChain EXCEPT !.likes = n] = [kChain EXCEPT !.likes = @ + 1] BY <1>3, <2>1 DEF ChainDoc
  <2>. QED BY <1>4, <2>2 DEF K!LikeUp
<1>6. /\ WholeDoc(c) /\ c.v = kChain.v + 1 /\ Placed(c) = Placed(kChain) /\ c.total = kChain.total
      /\ c.likes = n /\ c.by = kChain.by
  BY <1>1, <1>4, LikedWhole
<1>7. ChainCore'
  <2>1. /\ kVoted' \in Seq(VoteStored) /\ kLedger' \subseteq Writers
        /\ kCalls' \in 0 .. MaxChainCalls /\ kOdd' \in BOOLEAN
    BY <1>1, <1>2 DEF ChainTyped
  <2>2. kMade' = Placed(c) /\ c.total = Len(kVoted') BY <1>1, <1>2, <1>6 DEF ChainCore
  <2>. QED BY <1>1, <1>2, <1>5, <1>6, <2>1, <2>2, ChainWrites
<1>8. LikesCore'
  <2>. SUFFICES ASSUME ~kOdd PROVE LikesCore' BY <1>2 DEF LikesCore
  <2>1. PICK u \in Writers : u = kReq[r].user BY <1>1, <1>2 DEF ChainCore, WriterOK
  <2>2. u \notin Counted /\ Counted' = Counted \cup {u} BY <1>1, <1>2, <2>1, LikeCounted
  <2>3. Cardinality(Counted') = Cardinality(Counted) + 1 BY <2>2, CountedFinite, FS_AddElement
  <2>4. kChain.likes = Cardinality(Counted) BY <1>1 DEF LikesCore
  <2>5. kChain'.likes = Cardinality(Counted') BY <1>3, <1>5, <1>6, <2>3, <2>4
  <2>6. /\ OneToggle'
        /\ \A k \in Requests : /\ kReq'[k].pc = "up" => kReq'[k].user \in kLedger'
                               /\ kReq'[k].pc \in {"insert", "down"} => kReq'[k].user \notin kLedger'
    BY <1>1, <1>2, <2>1, LikeCounted
  <2>. QED BY <2>5, <2>6 DEF LikesCore
<1>. QED BY <1>7, <1>8 DEF ChainInv

LEMMA LikeDownHolds == ASSUME ChainInv, NEW r \in Requests, K!LikeDown(r) PROVE ChainInv'
<1>1. ChainCore /\ LikesCore /\ ChainTyped /\ WholeDoc(kChain) BY DEF ChainInv, ChainCore
<1>2. /\ kReq[r].pc = "down" /\ UNCHANGED kLedger /\ UNCHANGED kCalls /\ UNCHANGED kMade /\ UNCHANGED kVoted
      /\ UNCHANGED kOdd /\ kReq' = [kReq EXCEPT ![r] = K!Idle]
  BY DEF K!LikeDown, K!At, K!Finish
<1>3. kChain \in ChainDoc /\ kChain.likes \in Nat BY <1>1, ChainFields DEF WholeDoc
<1>4. PICK u \in Writers : u = kReq[r].user BY <1>1, <1>2 DEF ChainCore, WriterOK
<1>5. ~kOdd => kChain.likes = Cardinality(Counted) /\ u \in Counted /\ Counted' = Counted \ {u}
  BY <1>1, <1>2, <1>4, LikeCounted DEF LikesCore
<1>6. ~kOdd => kChain.likes > 0 /\ Cardinality(Counted') = kChain.likes - 1
  <2>. SUFFICES ASSUME ~kOdd PROVE kChain.likes > 0 /\ Cardinality(Counted') = kChain.likes - 1 OBVIOUS
  <2>1. kChain.likes = Cardinality(Counted) /\ u \in Counted /\ Counted' = Counted \ {u} BY <1>5
  <2>2. PICK M : M = Counted BY CountedFinite
  <2>3. Cardinality(M \ {u}) = Cardinality(M) - 1 BY <2>1, <2>2, CountedFinite, FS_RemoveElement
  <2>4. M \ {u} \subseteq M /\ IsFiniteSet(M) BY <2>2, CountedFinite
  <2>5. Cardinality(M \ {u}) \in Nat BY <2>4, FS_Subset, FS_CardinalityType
  <2>. QED BY <2>1, <2>2, <2>3, <2>5, CountedFinite
<1>7. CASE ~(kChain.likes > 0)
  <2>1. UNCHANGED kChain BY <1>7 DEF K!LikeDown
  <2>2. kOdd /\ kOdd' BY <1>2, <1>6, <1>7
  <2>3. LikesCore' BY <2>2 DEF LikesCore
  <2>4. kOdd' \in BOOLEAN BY <1>1, <1>2 DEF ChainTyped
  <2>5. ChainCore' BY <1>1, <1>2, <2>1, <2>4, ChainEnds
  <2>. QED BY <2>3, <2>5 DEF ChainInv
<1>8. CASE kChain.likes > 0
  <2>1. PICK n \in Nat : n = kChain.likes - 1 BY <1>3, <1>8
  <2>2. PICK c : c = K!BumpedForLike([kChain EXCEPT !.likes = n]) OBVIOUS
  <2>3. kChain' = c
    <3>1. [kChain EXCEPT !.likes = n] = [kChain EXCEPT !.likes = @ - 1] BY <1>3, <2>1 DEF ChainDoc
    <3>. QED BY <1>8, <2>2, <3>1 DEF K!LikeDown
  <2>4. /\ WholeDoc(c) /\ c.v = kChain.v + 1 /\ Placed(c) = Placed(kChain) /\ c.total = kChain.total
        /\ c.likes = n /\ c.by = kChain.by
    BY <1>1, <2>2, LikedWhole
  <2>5. /\ kVoted' \in Seq(VoteStored) /\ kLedger' \subseteq Writers
        /\ kCalls' \in 0 .. MaxChainCalls /\ kOdd' \in BOOLEAN
    BY <1>1, <1>2 DEF ChainTyped
  <2>6. kMade' = Placed(c) /\ c.total = Len(kVoted') BY <1>1, <1>2, <2>4 DEF ChainCore
  <2>7. ChainCore' BY <1>1, <1>2, <2>3, <2>4, <2>5, <2>6, ChainWrites
  <2>8. LikesCore'
    <3>. SUFFICES ASSUME ~kOdd PROVE LikesCore' BY <1>2 DEF LikesCore
    <3>1. kChain'.likes = Cardinality(Counted') BY <1>6, <2>1, <2>3, <2>4
    <3>2. /\ OneToggle'
          /\ \A k \in Requests : /\ kReq'[k].pc = "up" => kReq'[k].user \in kLedger'
                                 /\ kReq'[k].pc \in {"insert", "down"} => kReq'[k].user \notin kLedger'
      BY <1>1, <1>2, <1>4, LikeCounted
    <3>. QED BY <3>1, <3>2 DEF LikesCore
  <2>. QED BY <2>7, <2>8 DEF ChainInv
<1>. QED BY <1>7, <1>8

LEMMA ChainBreaks == ASSUME ChainInv, NEW r \in Requests, K!BreakOff(r) PROVE ChainInv'
<1>1. ChainCore /\ LikesCore /\ ChainTyped BY DEF ChainInv, ChainCore
<1>2. /\ kReq' = [kReq EXCEPT ![r] = K!Idle] /\ kOdd' = (kOdd \/ kReq[r].pc = "up" \/ kReq[r].pc = "down")
      /\ UNCHANGED kChain /\ UNCHANGED kLedger /\ UNCHANGED kCalls /\ UNCHANGED kMade /\ UNCHANGED kVoted
  BY DEF K!BreakOff, K!At, K!Finish
<1>3. kOdd' \in BOOLEAN BY <1>1, <1>2 DEF ChainTyped
<1>4. ChainCore' BY <1>1, <1>2, <1>3, ChainEnds
<1>5. LikesCore'
  <2>. SUFFICES ASSUME ~kOdd' PROVE LikesCore' BY DEF LikesCore
  <2>1. ~kOdd /\ kReq[r].pc # "up" /\ kReq[r].pc # "down" BY <1>2
  <2>2. kReq \in [Requests -> ChainCall] BY <1>1 DEF ChainTyped
  <2>3. kReq'[r] = K!Idle /\ K!Idle.pc = "idle" /\ \A k \in Requests \ {r} : kReq'[k] = kReq[k]
    BY <1>2, <2>2, ChainFacts, NoChainWhole
  <2>4. OneToggle' BY <1>1, <2>1, <2>3 DEF LikesCore, OneToggle, InToggle
  <2>5. \A k \in Requests : /\ kReq'[k].pc = "up" => kReq'[k].user \in kLedger'
                            /\ kReq'[k].pc \in {"insert", "down"} => kReq'[k].user \notin kLedger'
    BY <1>1, <1>2, <2>1, <2>3 DEF LikesCore
  <2>6. \A w : (Waits("up", w)' <=> Waits("up", w)) /\ (Waits("down", w)' <=> Waits("down", w))
    BY <2>1, <2>3 DEF Waits
  <2>7. Counted' = Counted BY <1>2, <2>6 DEF Counted
  <2>8. kChain'.likes = Cardinality(Counted') BY <1>1, <1>2, <2>1, <2>7 DEF LikesCore
  <2>. QED BY <2>4, <2>5, <2>8 DEF LikesCore
<1>. QED BY <1>4, <1>5 DEF ChainInv

-----------------------------------------------------------------------------
(* Votes.                                                                        *)

\* The i-th vote is of a user on a segment, and the last such of the first n.
VoteOf(V, i, u, s) == V[i].user = u /\ V[i].seg = s
LastVote(V, n, i, u, s) == VoteOf(V, i, u, s) /\ \A k \in i + 1 .. n : ~VoteOf(V, k, u, s)

\* A ballot holds the last vote of its user; who still votes had another on it when he began.
BallotsTold(c, V) ==
  \A u \in Writers, s \in Segments : \A i \in 1 .. Len(V) :
    LastVote(V, Len(V), i, u, s) => c.ballots[s][u] = V[i].value
Votes(q) == q.pc \in {"vote", "count"}
VoteFresh(q, V) ==
  Votes(q) => /\ q.since \in 0 .. Len(V)
              /\ \A i \in 1 .. q.since : LastVote(V, q.since, i, q.user, q.seg) => V[i].value # q.value
Repeats(V) ==
  \A i, j \in 1 .. Len(V) :
    (/\ i < j /\ VoteOf(V, i, V[j].user, V[j].seg) /\ V[i].value = V[j].value
     /\ \A k \in i + 1 .. j - 1 : ~VoteOf(V, k, V[j].user, V[j].seg)) => V[j].since < i
VotesCore ==
  BallotsTold(kChain, kVoted) /\ Repeats(kVoted) /\ \A r \in Requests : VoteFresh(kReq[r], kVoted)

\* Nobody's vote is stored, and no ballot is cast.
LEMMA VotesAside ==
  ASSUME VotesCore, UNCHANGED kVoted, NEW r \in Requests, kChain'.ballots = kChain.ballots,
         \A k \in Requests \ {r} : kReq'[k] = kReq[k],
         VoteFresh(kReq'[r], kVoted)
  PROVE  VotesCore'
<1>1. \A k \in Requests : VoteFresh(kReq'[k], kVoted) BY DEF VotesCore
<1>2. BallotsTold(kChain', kVoted) BY DEF VotesCore, BallotsTold
<1>. QED BY <1>1, <1>2 DEF VotesCore

\* A handler votes for no other segment by going on.
LEMMA VoteKept ==
  ASSUME NEW q, NEW p, NEW V, VoteFresh(q, V),
         Votes(p) => Votes(q) /\ p.user = q.user /\ p.seg = q.seg /\ p.value = q.value /\ p.since = q.since
  PROVE  VoteFresh(p, V)
<1>. SUFFICES ASSUME Votes(p) PROVE VoteFresh(p, V) BY DEF VoteFresh
<1>1. Votes(q) /\ p.user = q.user /\ p.seg = q.seg /\ p.value = q.value /\ p.since = q.since OBVIOUS
<1>. QED BY <1>1, Zenon DEF VoteFresh

\* What the last vote is of the user it is by, and of others.
LEMMA VoteAppended ==
  ASSUME NEW V \in Seq(VoteStored), NEW e \in VoteStored, NEW q, Votes(q), VoteFresh(q, V),
         e.user = q.user, e.seg = q.seg, e.value = q.value, e.since = q.since,
         NEW W, W = Append(V, e)
  PROVE  /\ Len(W) = Len(V) + 1 /\ W[Len(W)] = e /\ \A i \in 1 .. Len(V) : W[i] = V[i]
         /\ Repeats(V) => Repeats(W)
         /\ \A p : VoteFresh(p, V) => VoteFresh(p, W)
<1>1. /\ Len(V) \in Nat /\ Len(W) = Len(V) + 1 /\ W[Len(W)] = e /\ \A i \in 1 .. Len(V) : W[i] = V[i]
  OBVIOUS
<1>2. ASSUME Repeats(V) PROVE Repeats(W)
  <2>. SUFFICES ASSUME NEW i \in 1 .. Len(W), NEW j \in 1 .. Len(W), i < j,
                       VoteOf(W, i, W[j].user, W[j].seg), W[i].value = W[j].value,
                       \A k \in i + 1 .. j - 1 : ~VoteOf(W, k, W[j].user, W[j].seg)
                PROVE  W[j].since < i
    BY DEF Repeats
  <2>1. i \in 1 .. Len(V) /\ W[i] = V[i] BY <1>1
  <2>2. CASE j # Len(W)
    <3>1. j \in 1 .. Len(V) /\ W[j] = V[j] BY <1>1, <2>2
    <3>2. \A k \in i + 1 .. j - 1 : W[k] = V[k] BY <1>1, <3>1
    <3>3. VoteOf(V, i, V[j].user, V[j].seg) /\ V[i].value = V[j].value
          /\ \A k \in i + 1 .. j - 1 : ~VoteOf(V, k, V[j].user, V[j].seg)
      BY <2>1, <3>1, <3>2 DEF VoteOf
    <3>. QED BY <1>2, <2>1, <3>1, <3>3 DEF Repeats
  <2>3. CASE j = Len(W)
    <3>1. W[j] = e /\ j = Len(V) + 1 BY <1>1, <2>3
    <3>2. VoteOf(V, i, q.user, q.seg) /\ V[i].value = q.value
      BY <2>1, <3>1 DEF VoteOf
    <3>3. q.since \in 0 .. Len(V) BY DEF VoteFresh
    <3>4. ASSUME ~(q.since < i) PROVE FALSE
      <4>1. i \in 1 .. q.since BY <1>1, <2>1, <3>3, <3>4
      <4>2. \A k \in i + 1 .. q.since : k \in i + 1 .. j - 1 /\ W[k] = V[k] BY <1>1, <3>1, <3>3, <4>1
      <4>3. \A k \in i + 1 .. q.since : ~VoteOf(V, k, q.user, q.seg) BY <3>1, <4>2 DEF VoteOf
      <4>. QED BY <3>2, <4>1, <4>3 DEF VoteFresh, LastVote
    <3>. QED BY <3>1, <3>4
  <2>. QED BY <2>2, <2>3
<1>3. ASSUME NEW p, VoteFresh(p, V) PROVE VoteFresh(p, W)
  <2>. SUFFICES ASSUME Votes(p) PROVE VoteFresh(p, W) BY DEF VoteFresh
  <2>1. p.since \in 0 .. Len(V) BY <1>3 DEF VoteFresh
  <2>2. p.since \in 0 .. Len(W) /\ \A i \in 1 .. p.since : W[i] = V[i] /\ i \in 1 .. Len(V) BY <1>1, <2>1
  <2>3. ASSUME NEW i \in 1 .. p.since, LastVote(W, p.since, i, p.user, p.seg) PROVE W[i].value # p.value
    <3>1. \A k \in i + 1 .. p.since : W[k] = V[k] BY <2>1, <2>2
    <3>2. LastVote(V, p.since, i, p.user, p.seg) BY <2>2, <2>3, <3>1 DEF LastVote, VoteOf
    <3>. QED BY <1>3, <2>2, <3>2 DEF VoteFresh
  <2>. QED BY <2>2, <2>3 DEF VoteFresh
<1>. QED BY <1>1, <1>2, <1>3

\* A vote is cast and stored at once.
LEMMA BallotStored ==
  ASSUME NEW V \in Seq(VoteStored), NEW e \in VoteStored, NEW d \in ChainDoc, NEW c,
         BallotsTold(d, V), BallotCast(d, e.seg, e.user, e.value, c), NEW W, W = Append(V, e)
  PROVE  BallotsTold(c, W)
<1>1. /\ Len(V) \in Nat /\ Len(W) = Len(V) + 1 /\ W[Len(W)] = e /\ \A i \in 1 .. Len(V) : W[i] = V[i]
  OBVIOUS
<1>2. e.seg \in Segments /\ e.user \in Writers BY DEF VoteStored
<1>3. d.ballots \in [Segments -> [Writers -> -1 .. 1]] BY ChainFields
<1>4. /\ c.ballots[e.seg][e.user] = e.value
      /\ \A s \in Segments, u \in Writers : s # e.seg \/ u # e.user => c.ballots[s][u] = d.ballots[s][u]
  BY <1>2, <1>3 DEF BallotCast
<1>. SUFFICES ASSUME NEW u \in Writers, NEW s \in Segments, NEW i \in 1 .. Len(W),
                     LastVote(W, Len(W), i, u, s)
              PROVE  c.ballots[s][u] = W[i].value
  BY DEF BallotsTold
<1>5. CASE i = Len(W) BY <1>1, <1>4, <1>5 DEF LastVote, VoteOf
<1>6. CASE i # Len(W)
  <2>1. i \in 1 .. Len(V) /\ W[i] = V[i] /\ Len(W) \in i + 1 .. Len(W) BY <1>1, <1>6
  <2>2. ~VoteOf(W, Len(W), u, s) BY <2>1 DEF LastVote
  <2>3. s # e.seg \/ u # e.user BY <1>1, <2>2 DEF VoteOf
  <2>4. \A k \in i + 1 .. Len(V) : k \in i + 1 .. Len(W) /\ W[k] = V[k] BY <1>1, <2>1
  <2>5. LastVote(V, Len(V), i, u, s) BY <2>1, <2>4 DEF LastVote, VoteOf
  <2>. QED BY <1>4, <2>1, <2>3, <2>5 DEF BallotsTold
<1>. QED BY <1>5, <1>6

LEMMA VoteTaken ==
  ASSUME ChainInv, VotesCore, NEW r \in Requests, K!VoteOnSegment(r) PROVE VotesCore'
<1>1. ChainCore /\ WholeDoc(kChain) /\ kReq \in [Requests -> ChainCall] /\ kVoted \in Seq(VoteStored)
      /\ kChain \in ChainDoc
  BY DEF ChainInv, ChainCore, ChainTyped, WholeDoc
<1>2. PICK q \in ChainCall : q = kReq[r] /\ WriterOK(q, kChain) /\ VoteFresh(q, kVoted)
  BY <1>1 DEF ChainCore, VotesCore
<1>3. q.pc = "count" BY <1>2 DEF K!VoteOnSegment, K!At
<1>4. CASE K!SaveLost(r, "vote") /\ UNCHANGED kVoted
  <2>1. UNCHANGED kChain BY <1>4 DEF K!SaveLost
  <2>2. PICK p : p = IF q.tries < MaxRetries THEN [q EXCEPT !.pc = "vote", !.chain = K!NoChain] ELSE K!Idle
    OBVIOUS
  <2>3. kReq' = [kReq EXCEPT ![r] = p] BY <1>2, <1>4, <2>2 DEF K!SaveLost
  <2>4. kReq'[r] = p /\ \A k \in Requests \ {r} : kReq'[k] = kReq[k] BY <1>1, <2>3
  <2>5. Votes(p) => Votes(q) /\ p.user = q.user /\ p.seg = q.seg /\ p.value = q.value /\ p.since = q.since
    <3>1. Votes(q) /\ ~Votes(K!Idle) BY <1>3, ChainFacts, NoChainWhole DEF Votes
    <3>. QED BY <1>2, <2>2, <3>1 DEF ChainCall
  <2>6. VoteFresh(p, kVoted) BY <1>2, <2>5, VoteKept
  <2>. QED BY <1>4, <2>1, <2>4, <2>6, VotesAside
<1>5. CASE /\ K!Save(r, K!Counted(kReq[r].chain, kReq[r].seg, kReq[r].user, kReq[r].value))
           /\ kVoted' = Append(kVoted, [user |-> kReq[r].user, seg |-> kReq[r].seg,
                                         value |-> kReq[r].value, since |-> kReq[r].since])
  <2>1. q.chain = kChain BY <1>2, <1>3, <1>5 DEF K!Save, K!Savable, WriterOK
  <2>2. PICK s \in Segments, u \in Writers, n \in -1 .. 1 : s = q.seg /\ u = q.user /\ n = q.value
    BY <1>2, <1>3, CallFields DEF WriterOK
  <2>3. s \in kChain.pending BY <1>2, <1>3, <2>1, <2>2 DEF WriterOK
  <2>4. PICK c : WithVote(kChain, s, u, n, c) BY DEF WithVote
  <2>5. kChain' = c /\ kReq' = [kReq EXCEPT ![r] = K!Idle]
    BY <1>2, <1>5, <2>1, <2>2, <2>4 DEF K!Save, K!Finish, WithVote
  <2>6. BallotCast(kChain, s, u, n, c) BY <1>1, <2>3, <2>4, ChainFacts, Voted
  <2>7. q.since \in Nat BY <1>2, CallFields
  <2>8. PICK e \in VoteStored : e = [user |-> u, seg |-> s, value |-> n, since |-> q.since]
    BY <2>7 DEF VoteStored
  <2>9. e.user = u /\ e.seg = s /\ e.value = n /\ e.since = q.since BY <2>8
  <2>10. kVoted' = Append(kVoted, e) BY <1>2, <1>5, <2>2, <2>8
  <2>11. BallotsTold(c, kVoted') BY <1>1, <2>6, <2>9, <2>10, BallotStored DEF VotesCore
  <2>12. Votes(q) BY <1>3 DEF Votes
  <2>13. Repeats(kVoted') /\ \A p : VoteFresh(p, kVoted) => VoteFresh(p, kVoted')
    BY <1>1, <1>2, <2>2, <2>9, <2>10, <2>12, VoteAppended DEF VotesCore
  <2>14. kReq'[r] = K!Idle /\ ~Votes(K!Idle) /\ \A k \in Requests \ {r} : kReq'[k] = kReq[k]
    BY <1>1, <2>5, ChainFacts, NoChainWhole DEF Votes
  <2>15. \A k \in Requests : VoteFresh(kReq'[k], kVoted') BY <2>13, <2>14 DEF VotesCore, VoteFresh
  <2>. QED BY <2>5, <2>11, <2>13, <2>15 DEF VotesCore
<1>. QED BY <1>4, <1>5 DEF K!VoteOnSegment

\* A vote begins that differs from the ballot, and so from the last that was stored.
LEMMA VoteAsked ==
  ASSUME ChainInv, VotesCore, NEW r \in Requests, NEW u \in Writers, NEW s \in Segments, NEW n \in {-1, 1},
         K!VoteFind(r, u, s, n)
  PROVE  VotesCore'
<1>1. ChainCore /\ kVoted \in Seq(VoteStored) BY DEF ChainInv, ChainCore, ChainTyped
<1>2. K!Begin(r, "vote", u, s, n) /\ kChain.ballots[s][u] # n BY DEF K!VoteFind
<1>3. UNCHANGED kChain /\ UNCHANGED kLedger /\ UNCHANGED kMade /\ UNCHANGED kVoted /\ UNCHANGED kOdd
  BY DEF K!VoteFind
<1>4. kLedger' \subseteq Writers /\ kOdd' \in BOOLEAN BY <1>1, <1>3 DEF ChainCore, ChainTyped
<1>5. /\ kReq'[r].pc = "vote" /\ kReq'[r].user = u /\ kReq'[r].seg = s /\ kReq'[r].value = n
      /\ kReq'[r].since = Len(kVoted) /\ \A k \in Requests \ {r} : kReq'[k] = kReq[k]
  <2>. PICK pc \in ChainPCs : pc = "vote" BY DEF ChainPCs
  <2>. QED BY <1>1, <1>2, <1>3, <1>4, ChainBegins
<1>6. Len(kVoted) \in 0 .. Len(kVoted) BY <1>1
<1>7. \A i \in 1 .. Len(kVoted) : LastVote(kVoted, Len(kVoted), i, u, s) => kVoted[i].value # n
  BY <1>2 DEF VotesCore, BallotsTold
<1>8. VoteFresh(kReq'[r], kVoted) BY <1>5, <1>6, <1>7 DEF VoteFresh
<1>. QED BY <1>3, <1>5, <1>8, VotesAside

\* Any other step of a handler.
LEMMA VotesElse ==
  ASSUME ChainInv, VotesCore, NEW r \in Requests, UNCHANGED kVoted, kChain'.ballots = kChain.ballots,
         NEW p, kReq' = [kReq EXCEPT ![r] = p],
         Votes(p) => /\ Votes(kReq[r]) /\ p.user = kReq[r].user /\ p.seg = kReq[r].seg
                     /\ p.value = kReq[r].value /\ p.since = kReq[r].since
  PROVE  VotesCore'
<1>1. kReq \in [Requests -> ChainCall] BY DEF ChainInv, ChainCore, ChainTyped
<1>2. kReq'[r] = p /\ \A k \in Requests \ {r} : kReq'[k] = kReq[k] BY <1>1
<1>3. VoteFresh(kReq[r], kVoted) BY DEF VotesCore
<1>4. VoteFresh(p, kVoted) BY <1>3, VoteKept
<1>. QED BY <1>2, <1>4, VotesAside

LEMMA VotesFinish ==
  ASSUME ChainInv, VotesCore, NEW r \in Requests, UNCHANGED kVoted, kChain'.ballots = kChain.ballots,
         K!Finish(r)
  PROVE  VotesCore'
<1>1. ~Votes(K!Idle) BY ChainFacts, NoChainWhole DEF Votes
<1>. QED BY <1>1, VotesElse DEF K!Finish

LEMMA VotesLoad ==
  ASSUME ChainInv, VotesCore, NEW r \in Requests, K!SubmitLoad(r) \/ K!VoteLoad(r) PROVE VotesCore'
<1>1. UNCHANGED kVoted /\ kChain'.ballots = kChain.ballots BY DEF K!SubmitLoad, K!VoteLoad
<1>2. PICK next : /\ K!LoadChain(r, next) \/ K!Finish(r)
                  /\ next = "count" => kReq[r].pc = "vote"
                  /\ next \in {"append", "count"}
  BY DEF K!SubmitLoad, K!VoteLoad, K!At
<1>3. CASE K!LoadChain(r, next)
  <2>1. kReq \in [Requests -> ChainCall] BY DEF ChainInv, ChainCore, ChainTyped
  <2>2. PICK p : p = [kReq[r] EXCEPT !.pc = next, !.chain = kChain, !.tries = @ + 1] OBVIOUS
  <2>3. kReq' = [kReq EXCEPT ![r] = p] BY <1>3, <2>1, <2>2 DEF K!LoadChain, ChainCall
  <2>4. p.pc = next /\ p.user = kReq[r].user /\ p.seg = kReq[r].seg /\ p.value = kReq[r].value
        /\ p.since = kReq[r].since
    BY <2>1, <2>2 DEF ChainCall
  <2>. QED BY <1>1, <1>2, <2>3, <2>4, VotesElse DEF Votes
<1>4. CASE K!Finish(r) BY <1>1, <1>4, VotesFinish
<1>. QED BY <1>2, <1>3, <1>4

LEMMA VotesSubmit ==
  ASSUME ChainInv, VotesCore, NEW r \in Requests, K!SubmitSegment(r) PROVE VotesCore'
<1>1. ChainCore /\ WholeDoc(kChain) /\ kReq \in [Requests -> ChainCall] /\ kChain \in ChainDoc
      /\ kReq[r].pc = "append" /\ UNCHANGED kVoted
  BY DEF ChainInv, ChainCore, ChainTyped, WholeDoc, K!SubmitSegment, K!At
<1>2. CASE K!SaveLost(r, "submit")
  <2>1. UNCHANGED kChain BY <1>2 DEF K!SaveLost
  <2>2. PICK p : p = IF kReq[r].tries < MaxRetries THEN [kReq[r] EXCEPT !.pc = "submit", !.chain = K!NoChain]
                     ELSE K!Idle
    OBVIOUS
  <2>3. kReq' = [kReq EXCEPT ![r] = p] BY <1>2, <2>2 DEF K!SaveLost
  <2>4. ~Votes(p)
    <3>1. ~Votes(K!Idle) BY ChainFacts, NoChainWhole DEF Votes
    <3>. QED BY <1>1, <2>2, <3>1 DEF Votes, ChainCall
  <2>. QED BY <1>1, <2>1, <2>3, <2>4, VotesElse
<1>3. CASE K!Save(r, [kReq[r].chain EXCEPT !.pending = @ \cup {kReq[r].seg},
                        !.by = [kReq[r].chain.by EXCEPT ![kReq[r].seg] = kReq[r].user]])
  <2>1. kReq[r].chain = kChain BY <1>1, <1>3 DEF K!Save, K!Savable, WriterOK, ChainCore
  <2>2. kChain'.ballots = kChain.ballots /\ K!Finish(r) BY <1>1, <1>3, <2>1 DEF K!Save, ChainDoc
  <2>. QED BY <1>1, <2>2, VotesFinish
<1>. QED BY <1>2, <1>3 DEF K!SubmitSegment

LEMMA VotesOfLikes ==
  ASSUME ChainInv, VotesCore, NEW r \in Requests, K!LikeInsert(r) \/ K!LikeUp(r) \/ K!LikeDown(r)
  PROVE  VotesCore'
<1>1. UNCHANGED kVoted BY DEF K!LikeInsert, K!LikeUp, K!LikeDown
<1>2. kChain \in ChainDoc /\ kReq \in [Requests -> ChainCall]
  BY DEF ChainInv, ChainCore, ChainTyped, WholeDoc
<1>3. kChain'.ballots = kChain.ballots
  BY <1>2 DEF K!LikeInsert, K!LikeUp, K!LikeDown, K!BumpedForLike, ChainDoc
<1>4. CASE K!Finish(r) BY <1>1, <1>3, <1>4, VotesFinish
<1>5. CASE kReq' = [kReq EXCEPT ![r].pc = "up"]
  <2>1. PICK p : p = [kReq[r] EXCEPT !.pc = "up"] OBVIOUS
  <2>2. kReq' = [kReq EXCEPT ![r] = p] /\ p.pc = "up" BY <1>2, <1>5, <2>1 DEF ChainCall
  <2>. QED BY <1>1, <1>3, <2>2, VotesElse DEF Votes
<1>. QED BY <1>4, <1>5 DEF K!LikeInsert, K!LikeUp, K!LikeDown

LEMMA VotesBegun ==
  ASSUME ChainInv, VotesCore, NEW r \in Requests, NEW u \in Writers,
         K!LikeDelete(r, u) \/ \E s \in Segments : K!SubmitFind(r, u, s)
  PROVE  VotesCore'
<1>1. UNCHANGED kVoted /\ kChain'.ballots = kChain.ballots BY DEF K!LikeDelete, K!SubmitFind
<1>2. PICK pc, s, n : K!Begin(r, pc, u, s, n) /\ pc \in {"down", "insert", "submit"}
  BY DEF K!LikeDelete, K!SubmitFind
<1>3. PICK p : p = [K!Idle EXCEPT !.pc = pc, !.user = u, !.seg = s, !.value = n, !.since = Len(kVoted)]
  OBVIOUS
<1>4. kReq' = [kReq EXCEPT ![r] = p] BY <1>2, <1>3 DEF K!Begin
<1>5. ~Votes(p) BY <1>2, <1>3 DEF K!Idle, Votes
<1>. QED BY <1>1, <1>4, <1>5, VotesElse

LEMMA VotesStep == ASSUME ChainInv, VotesCore, K!Next \/ UNCHANGED ofChains PROVE VotesCore'
<1>1. CASE K!Create
  <2>1. kChain = K!NoChain BY <1>1 DEF K!Create, ChainInv, ChainCore
  <2>2. UNCHANGED kReq /\ UNCHANGED kVoted BY <1>1 DEF K!Create
  <2>3. kChain'.ballots = kChain.ballots BY <1>1, <2>1 DEF K!Create, K!NoChain
  <2>4. BallotsTold(kChain', kVoted) BY <2>3 DEF VotesCore, BallotsTold
  <2>. QED BY <2>2, <2>4 DEF VotesCore
<1>2. ASSUME NEW r \in Requests, NEW u \in Writers, K!LikeDelete(r, u) PROVE VotesCore'
  BY <1>2, VotesBegun
<1>3. ASSUME NEW r \in Requests, NEW u \in Writers, NEW s \in Segments,
             \/ K!SubmitFind(r, u, s)
             \/ \E value \in {-1, 1} : K!VoteFind(r, u, s, value)
      PROVE  VotesCore'
  BY <1>3, VotesBegun, VoteAsked
<1>4. ASSUME NEW r \in Requests, K!BreakOff(r) PROVE VotesCore'
  BY <1>4, VotesFinish DEF K!BreakOff
<1>5. ASSUME NEW r \in Requests,
             \/ K!SubmitLoad(r) \/ K!SubmitSegment(r) \/ K!VoteLoad(r) \/ K!VoteOnSegment(r)
             \/ K!LikeInsert(r) \/ K!LikeUp(r) \/ K!LikeDown(r) \/ K!BreakOff(r)
      PROVE  VotesCore'
  BY <1>4, <1>5, VotesLoad, VotesSubmit, VoteTaken, VotesOfLikes
<1>6. CASE UNCHANGED ofChains
  <2>1. UNCHANGED kChain /\ UNCHANGED kReq /\ UNCHANGED kVoted BY <1>6 DEF ofChains
  <2>. QED BY <2>1 DEF VotesCore
<1>. QED BY <1>1, <1>2, <1>3, <1>5, <1>6 DEF K!Next

LEMMA VotesTrue == ASSUME ChainInv, VotesCore PROVE K!VotesOnce
<1>1. kVoted \in Seq(VoteStored) BY DEF ChainInv, ChainCore, ChainTyped
<1>2. DOMAIN kVoted = 1 .. Len(kVoted) BY <1>1
<1>. QED BY <1>2 DEF VotesCore, Repeats, VoteOf, K!VotesOnce

-----------------------------------------------------------------------------
LEMMA ChainBegun == ASSUME K!Init PROVE ChainInv
<1>1. /\ kChain = K!NoChain /\ kLedger = {} /\ kReq = [r \in Requests |-> K!Idle] /\ kCalls = 0
      /\ kMade = {} /\ kVoted = <<>> /\ kOdd = FALSE
  BY DEF K!Init
<1>2. /\ WholeDoc(K!NoChain) /\ Placed(K!NoChain) = {} /\ K!NoChain.total = 0
      /\ K!NoChain.likes = 0 /\ K!Idle \in ChainCall /\ K!Idle.pc = "idle" /\ \A c : WriterOK(K!Idle, c)
  BY ChainFacts, NoChainWhole
<1>3. \A r \in Requests : kReq[r] = K!Idle BY <1>1
<1>4. kVoted \in Seq(VoteStored) /\ Len(kVoted) = 0 BY <1>1
<1>5. ChainTyped
  <2>1. kLedger \subseteq Writers /\ kReq \in [Requests -> ChainCall] /\ kOdd \in BOOLEAN BY <1>1, <1>2
  <2>2. kCalls \in 0 .. MaxChainCalls BY <1>1, ChainFacts
  <2>. QED BY <1>4, <2>1, <2>2 DEF ChainTyped
<1>6. ChainsApart BY <1>2, <1>3 DEF ChainsApart, Submits
<1>7. ChainCore BY <1>1, <1>2, <1>3, <1>4, <1>5, <1>6 DEF ChainCore
<1>8. OneToggle BY <1>2, <1>3 DEF OneToggle, InToggle
<1>9. Counted = {} BY <1>1, <1>2, <1>3 DEF Counted, Waits
<1>10. LikesCore BY <1>1, <1>2, <1>3, <1>8, <1>9, FS_EmptySet DEF LikesCore
<1>. QED BY <1>7, <1>10 DEF ChainInv

LEMMA ChainStep == ASSUME ChainInv, K!Next \/ UNCHANGED ofChains PROVE ChainInv'
<1>1. CASE K!Create BY <1>1, ChainCreated
<1>2. ASSUME NEW r \in Requests, NEW u \in Writers, K!LikeDelete(r, u) PROVE ChainInv'
  BY <1>2, LikeDeleteHolds
<1>3. ASSUME NEW r \in Requests, NEW u \in Writers, NEW s \in Segments,
             \/ K!SubmitFind(r, u, s)
             \/ \E value \in {-1, 1} : K!VoteFind(r, u, s, value)
      PROVE  ChainInv'
  BY <1>3, SubmitBegins, VoteBegins
<1>4. ASSUME NEW r \in Requests,
             \/ K!SubmitLoad(r) \/ K!SubmitSegment(r) \/ K!VoteLoad(r) \/ K!VoteOnSegment(r)
             \/ K!LikeInsert(r) \/ K!LikeUp(r) \/ K!LikeDown(r) \/ K!BreakOff(r)
      PROVE  ChainInv'
  BY <1>4, LoadHolds, SubmitHolds, VoteHolds, LikeInsertHolds, LikeUpHolds, LikeDownHolds, ChainBreaks
<1>5. CASE UNCHANGED ofChains
  <2>1. UNCHANGED kChain /\ UNCHANGED kLedger /\ UNCHANGED kReq /\ UNCHANGED kCalls /\ UNCHANGED kMade
        /\ UNCHANGED kVoted /\ UNCHANGED kOdd
    BY <1>5 DEF ofChains
  <2>2. ChainCore' BY <2>1 DEF ChainInv, ChainCore, ChainTyped, ChainsApart
  <2>3. LikesCore' BY <2>1, LikesStay DEF ChainInv
  <2>. QED BY <2>2, <2>3 DEF ChainInv
<1>. QED BY <1>1, <1>2, <1>3, <1>4, <1>5 DEF K!Next

LEMMA ChainTrue == ASSUME ChainInv PROVE K!TypeOK /\ K!ChainWhole /\ K!LikesAgree
<1>1. ChainCore /\ LikesCore /\ ChainTyped /\ WholeDoc(kChain) /\ kChain \in ChainDoc
  BY DEF ChainInv, ChainCore, WholeDoc
<1>2. /\ kChain.v \in Nat /\ kChain.total \in Nat /\ kChain.likes \in Nat
      /\ kChain.pending \subseteq Segments /\ kChain.story \in Seq(Segments)
      /\ kChain.ballots \in [Segments -> [Writers -> -1 .. 1]]
  BY <1>1, ChainFields
<1>3. \A r \in Requests : kReq[r].tries \in 0 .. MaxRetries BY <1>1, CallFields DEF ChainTyped
<1>4. InStory(kChain) \subseteq Segments BY <1>2 DEF InStory
<1>5. kMade = Placed(kChain) BY <1>1 DEF ChainCore
<1>6. kMade \subseteq Segments BY <1>2, <1>4, <1>5 DEF Placed
<1>7. K!TypeOK BY <1>1, <1>2, <1>3, <1>6 DEF K!TypeOK, ChainTyped
<1>8. K!ToSet(kChain.story) = InStory(kChain)
      /\ K!Cardinality(InStory(kChain)) = Cardinality(InStory(kChain))
  BY ChainSizes
<1>9. \A s \in kMade : kChain.votes[s] = K!Sum(kChain.ballots[s])
  BY <1>1, <1>6, ChainSums DEF WholeDoc
<1>10. kChain.contributors \subseteq {Starter} \cup {kChain.by[s] : s \in InStory(kChain)}
       /\ kChain.pending \cap InStory(kChain) = {} /\ kChain.count = Len(kChain.story)
       /\ Cardinality(InStory(kChain)) = Len(kChain.story)
  BY <1>1 DEF WholeDoc
<1>11. K!ChainWhole
  <2>1. PICK story : story = K!ToSet(kChain.story) OBVIOUS
  <2>2. kChain.total = Len(kVoted) BY <1>1 DEF ChainCore
  <2>. QED BY <1>5, <1>8, <1>9, <1>10, <2>1, <2>2 DEF K!ChainWhole, Placed
<1>12. K!LikesAgree
  <2>. SUFFICES ASSUME ~kOdd, \A u \in Writers : K!Toggling(u) = {} PROVE kChain.likes = K!Cardinality(kLedger)
    BY DEF K!LikesAgree
  <2>1. \A u \in Writers : ~Waits("up", u) /\ ~Waits("down", u) BY DEF K!Toggling, Waits
  <2>2. Counted = kLedger BY <1>1, <2>1 DEF Counted, ChainTyped
  <2>. QED BY <1>1, <2>2, ChainSizes DEF LikesCore
<1>. QED BY <1>7, <1>11, <1>12

LEMMA ChainsAlways == MCSpec => [](ChainInv /\ VotesCore)
<1>1. MCInit => ChainInv /\ VotesCore
  <2>. SUFFICES ASSUME K!Init PROVE ChainInv /\ VotesCore BY DEF MCInit
  <2>1. ChainInv BY ChainBegun
  <2>2. kVoted = <<>> /\ Len(kVoted) = 0 /\ \A r \in Requests : kReq[r] = K!Idle BY DEF K!Init
  <2>3. ~Votes(K!Idle) BY ChainFacts, NoChainWhole DEF Votes
  <2>. QED BY <2>1, <2>2, <2>3 DEF VotesCore, BallotsTold, Repeats, VoteFresh
<1>2. ChainInv /\ VotesCore /\ [MCNext]_<<part, ofToggles, ofPosts, ofReels, ofChains, ofScores, ofDna,
                             ofRoulette, ofEgo, ofTaste, ofFeeds>>
        => (ChainInv /\ VotesCore)'
  BY ChainStep, VotesStep DEF MCNext, Rest
<1>. QED BY <1>1, <1>2, PTL DEF MCSpec

\* No writer of a chain undoes another's work, which each has read before and writes back
\* whole: every segment whose submission was answered is pending or in the story, the votes
\* for it are the sum of its voters', the votes answered are all counted, a vote repeated
\* only if it overlaps the first, and the likes agree with their ledger unless two toggles of
\* one user overlapped, one broke off, or the answer to its insert was lost (submitSegment,
\* voteSegment, saveChain, likeChain).
THEOREM ChainsHeld == MCSpec => []ChainWhole
<1>1. ChainInv /\ VotesCore => ChainWhole BY ChainTrue, VotesTrue DEF ChainWhole
<1>. QED BY <1>1, ChainsAlways, PTL

-----------------------------------------------------------------------------
(* Social DNA: the shares of five vibes.                                         *)

Shares == 1 .. 5
DnaDoc == [there : BOOLEAN, raw : [Shares -> Nat], total : Nat, strands : [Shares -> Int],
           dominant : Shares, snapshots : Seq([Shares -> Int]), weeks : Nat]

LEMMA DnaFacts ==
  /\ D!V = Shares /\ Len(VibeList) = 5 /\ None \notin Souls
  /\ MaxRecounts \in Nat /\ MaxRecounts > 0 /\ MaxSnapshots \in Nat
  /\ MaxDnaCalls \in Nat /\ MaxWeeks \in Nat /\ 2 <= MaxDnaCalls
<1>1. DOMAIN VibeList = 1 .. 5 /\ Len(VibeList) = 5 BY DEF VibeList
<1>. QED BY <1>1, DnaBounds, StartBounds DEF D!V, Shares, D!DnaAssumption

LEMMA FiveFinite == IsFiniteSet(Shares)
<1>1. PICK n \in Int : n = 5 OBVIOUS
<1>2. IsFiniteSet(1 .. n) BY FS_Interval
<1>. QED BY <1>1, <1>2 DEF Shares

LEMMA FiveSum ==
  ASSUME NEW f \in [Shares -> Int]
  PROVE  D!Sum(f) = f[1] + f[2] + f[3] + f[4] + f[5]
<1>1. IsFiniteSet(Shares) BY FiveFinite
<1>2. PICK g : Adds(f, Shares, g) /\ Total(f, Shares) = g[Shares] BY <1>1, TotalAdds
<1>3. D!Sum(f) = g[Shares] BY <1>2, DnaSums, DnaFacts
<1>4. /\ {1} \in SUBSET Shares /\ {1, 2} \in SUBSET Shares /\ {1, 2, 3} \in SUBSET Shares
      /\ {1, 2, 3, 4} \in SUBSET Shares /\ Shares \in SUBSET Shares
  BY DEF Shares
<1>5. \A S \in SUBSET Shares : \A x \in S : g[S] = f[x] + g[S \ {x}] BY <1>2 DEF Adds
<1>6. /\ {1} \ {1} = {} /\ {1, 2} \ {2} = {1} /\ {1, 2, 3} \ {3} = {1, 2}
      /\ {1, 2, 3, 4} \ {4} = {1, 2, 3} /\ Shares \ {5} = {1, 2, 3, 4} /\ 5 \in Shares
  BY DEF Shares
<1>7. g[{1}] = f[1] + g[{}] BY <1>4, <1>5, <1>6
<1>8. g[{1, 2}] = f[2] + g[{1}] BY <1>4, <1>5, <1>6
<1>9. g[{1, 2, 3}] = f[3] + g[{1, 2}] BY <1>4, <1>5, <1>6
<1>10. g[{1, 2, 3, 4}] = f[4] + g[{1, 2, 3}] BY <1>4, <1>5, <1>6
<1>11. g[Shares] = f[5] + g[{1, 2, 3, 4}] BY <1>4, <1>5, <1>6
<1>12. g[{}] = 0 BY <1>2 DEF Adds
<1>13. PICK a \in Int, b \in Int, c \in Int, d \in Int, e \in Int :
         a = f[1] /\ b = f[2] /\ c = f[3] /\ d = f[4] /\ e = f[5]
  BY DEF Shares
<1>14. g[Shares] = e + (d + (c + (b + (a + 0)))) BY <1>7, <1>8, <1>9, <1>10, <1>11, <1>12, <1>13
<1>. QED BY <1>3, <1>13, <1>14

\* One of five numbers is the highest, and of the highest there is a first and a last.
LEMMA HighestOf ==
  ASSUME NEW f \in [Shares -> Int] PROVE D!Highest(f) \in Shares /\ D!FirstHighest(f) \in Shares
<1>. DEFINE Top == {v \in D!V : \A w \in D!V : f[v] >= f[w]}
<1>1. D!V = Shares BY DnaFacts
<1>2. Top \subseteq {1, 2, 3, 4, 5} BY <1>1 DEF Shares
<1>3. Top # {}
  <2>1. PICK a \in Int, b \in Int, c \in Int, d \in Int, e \in Int :
         a = f[1] /\ b = f[2] /\ c = f[3] /\ d = f[4] /\ e = f[5]
    BY DEF Shares
  <2>2. \E v \in Shares : \A w \in Shares : f[v] >= f[w]
    <3>1. CASE a >= b /\ a >= c /\ a >= d /\ a >= e BY <2>1, <3>1 DEF Shares
    <3>2. CASE b >= a /\ b >= c /\ b >= d /\ b >= e BY <2>1, <3>2 DEF Shares
    <3>3. CASE c >= a /\ c >= b /\ c >= d /\ c >= e BY <2>1, <3>3 DEF Shares
    <3>4. CASE d >= a /\ d >= b /\ d >= c /\ d >= e BY <2>1, <3>4 DEF Shares
    <3>5. CASE e >= a /\ e >= b /\ e >= c /\ e >= d BY <2>1, <3>5 DEF Shares
    <3>. QED BY <3>1, <3>2, <3>3, <3>4, <3>5
  <2>. QED BY <1>1, <2>2
<1>. HIDE DEF Top
<1>4. \E x \in Top : \A y \in Top : x >= y
  <2>1. CASE 5 \in Top BY <1>2, <2>1
  <2>2. CASE 5 \notin Top /\ 4 \in Top BY <1>2, <2>2
  <2>3. CASE 5 \notin Top /\ 4 \notin Top /\ 3 \in Top BY <1>2, <2>3
  <2>4. CASE 5 \notin Top /\ 4 \notin Top /\ 3 \notin Top /\ 2 \in Top BY <1>2, <2>4
  <2>5. CASE 5 \notin Top /\ 4 \notin Top /\ 3 \notin Top /\ 2 \notin Top
    <3>1. \A y \in Top : y = 1 BY <1>2, <2>5
    <3>2. PICK x \in Top : TRUE BY <1>3
    <3>3. x = 1 BY <3>1
    <3>. QED BY <3>1, <3>3
  <2>. QED BY <2>1, <2>2, <2>3, <2>4, <2>5
<1>5. \E x \in Top : \A y \in Top : x <= y
  <2>1. CASE 1 \in Top BY <1>2, <2>1
  <2>2. CASE 1 \notin Top /\ 2 \in Top BY <1>2, <2>2
  <2>3. CASE 1 \notin Top /\ 2 \notin Top /\ 3 \in Top BY <1>2, <2>3
  <2>4. CASE 1 \notin Top /\ 2 \notin Top /\ 3 \notin Top /\ 4 \in Top BY <1>2, <2>4
  <2>5. CASE 1 \notin Top /\ 2 \notin Top /\ 3 \notin Top /\ 4 \notin Top
    <3>1. \A y \in Top : y = 5 BY <1>2, <2>5
    <3>2. PICK x \in Top : TRUE BY <1>3
    <3>3. x = 5 BY <3>1
    <3>. QED BY <3>1, <3>3
  <2>. QED BY <2>1, <2>2, <2>3, <2>4, <2>5
<1>6. D!Highest(f) \in Top BY <1>4 DEF D!Highest, D!Max, Top
<1>7. D!FirstHighest(f) \in Top BY <1>5 DEF D!FirstHighest, D!Min, Top
<1>8. \A v \in Top : v \in Shares BY <1>2 DEF Shares
<1>. QED BY <1>6, <1>7, <1>8

LEMMA EvenSum == D!Even \in [Shares -> Int] /\ D!Sum(D!Even) = 100
<1>1. D!Even = [v \in Shares |-> 100 \div 5] BY DnaFacts DEF D!Even
<1>2. 100 \div 5 = 20 OBVIOUS
<1>3. D!Even = [v \in Shares |-> 20] BY <1>1, <1>2
<1>4. D!Even \in [Shares -> Int] BY <1>3
<1>5. D!Even[1] = 20 /\ D!Even[2] = 20 /\ D!Even[3] = 20 /\ D!Even[4] = 20 /\ D!Even[5] = 20
  BY <1>3 DEF Shares
<1>. QED BY <1>4, <1>5, FiveSum

\* Whatever the signals are, what rounding leaves over is given away.
LEMMA StrandsSum ==
  ASSUME NEW d \in DnaDoc
  PROVE  /\ D!Strands(d) \in [Shares -> Int] /\ D!Sum(D!Strands(d)) = 100
         /\ D!FirstHighest(D!Strands(d)) \in Shares
<1>1. d.raw \in [Shares -> Nat] /\ d.total \in Nat BY DEF DnaDoc
<1>2. PICK total \in Nat \ {0} : total = (IF d.total = 0 THEN 1 ELSE d.total) BY <1>1
<1>3. PICK p : p = [v \in Shares |-> D!Percent(d.raw[v], total)] OBVIOUS
<1>4. p \in [Shares -> Int]
  <2>1. ASSUME NEW n \in Nat PROVE D!Percent(n, total) \in Int
    <3>1. PICK a \in Nat, b \in Nat \ {0} : a = 200 * n + total /\ b = 2 * total BY <1>2
    <3>2. a \div b \in Int BY <3>1
    <3>. QED BY <3>1, <3>2 DEF D!Percent
  <2>. QED BY <1>1, <1>3, <2>1
<1>5. PICK top \in Shares : top = D!Highest(p) BY <1>4, HighestOf
<1>6. PICK m \in Int : m = D!Sum(p)
  <2>1. D!Sum(p) = p[1] + p[2] + p[3] + p[4] + p[5] BY <1>4, FiveSum
  <2>2. p[1] \in Int /\ p[2] \in Int /\ p[3] \in Int /\ p[4] \in Int /\ p[5] \in Int
    BY <1>4 DEF Shares
  <2>. QED BY <2>1, <2>2
<1>7. PICK k \in Int : k = p[top] + 100 - m BY <1>4, <1>5, <1>6
<1>8. D!Strands(d) = [p EXCEPT ![top] = k]
  <2>1. [v \in D!V |-> D!Percent(d.raw[v], total)] = p BY <1>3, DnaFacts
  <2>. QED BY <1>2, <1>5, <1>6, <1>7, <2>1 DEF D!Strands
<1>9. PICK q \in [Shares -> Int] : q = [p EXCEPT ![top] = k] BY <1>4, <1>7
<1>10. D!Sum(q) = 100
  <2>1. q[top] = k /\ \A v \in Shares \ {top} : p[v] = q[v] BY <1>4, <1>9
  <2>2. IsFiniteSet(Shares) BY FiveFinite
  <2>3. Total(q, Shares) = Total(p, Shares) - p[top] + q[top]
    BY <1>4, <2>1, <2>2, TotalChanges
  <2>4. D!Sum(q) = m - p[top] + k BY <1>6, <2>1, <2>3, DnaSums, DnaFacts
  <2>5. p[top] \in Int BY <1>4
  <2>. QED BY <1>6, <1>7, <2>4, <2>5
<1>. QED BY <1>8, <1>9, <1>10, HighestOf

\* Documents with signals in sum, and shares that add up to a hundred now and before.
Hundred(p) == p \in [Shares -> Int] /\ D!Sum(p) = 100
WholeDna(d) ==
  /\ d \in DnaDoc /\ d.total = D!Sum(d.raw) /\ Hundred(d.strands)
  /\ Len(d.snapshots) <= MaxSnapshots /\ \A i \in DOMAIN d.snapshots : Hundred(d.snapshots[i])
DnaPCs == {"idle", "insert", "add", "store", "again", "twins"}
DnaCall == [pc : DnaPCs, user : Souls \cup {None}, vibe : Shares, doc : DnaDoc,
            tries : 0 .. MaxRecounts, found : SUBSET Souls]
DnaWork == [left : SUBSET Souls, user : Souls \cup {None}, doc : DnaDoc]

\* What a handler knows of the stored documents.
CounterOK(q, docs0) ==
  /\ q.pc # "idle" => q.user \in Souls
  /\ q.pc \in {"add", "store", "again"} => docs0[q.user].there
  /\ q.pc \in {"insert", "add"} => q.tries = 0
  /\ q.pc = "store" => /\ q.tries < MaxRecounts
                       /\ q.doc.total <= docs0[q.user].total
                       /\ q.doc.total = docs0[q.user].total => q.doc.raw = docs0[q.user].raw
  /\ q.pc = "twins" => q.found \subseteq Souls \ {q.user}
\* A handler that has still to store its shares of u, or to try again.
Recounts(q, u) ==
  q.user = u /\ (q.pc = "store" \/ (q.pc = "again" /\ q.tries < MaxRecounts))
Settles(u) ==
  u \notin dStale /\ dDoc[u].total > 0 =>
    dDoc[u].strands = D!Strands(dDoc[u]) \/ \E h \in Requests : Recounts(dJob[h], u)

DnaTyped ==
  /\ dDoc \in [Souls -> DnaDoc] /\ dJob \in [Requests -> DnaCall] /\ dWeek \in DnaWork
  /\ dCalls \in 0 .. MaxDnaCalls /\ dWeeks \in 0 .. MaxWeeks /\ dVisits \in [Souls -> Nat]
  /\ dStale \subseteq Souls
SoulOK(u) ==
  /\ WholeDna(dDoc[u]) /\ dDoc[u].weeks = dVisits[u]
  /\ ~dDoc[u].there => dDoc[u] = D!NoDoc
  /\ Settles(u)
WeekOK ==
  /\ \A u \in dWeek.left : dDoc[u].there
  /\ dWeek.user # None => /\ dDoc[dWeek.user].there /\ WholeDna(dWeek.doc)
                          /\ dWeek.doc.weeks = dDoc[dWeek.user].weeks
DnaInv ==
  /\ DnaTyped /\ WeekOK /\ D!TwinsOnce
  /\ \A u \in Souls : SoulOK(u)
  /\ \A h \in Requests : CounterOK(dJob[h], dDoc)

LEMMA DnaFields ==
  ASSUME NEW d \in DnaDoc
  PROVE  /\ d.there \in BOOLEAN /\ d.raw \in [Shares -> Nat] /\ d.total \in Nat
         /\ d.strands \in [Shares -> Int] /\ d.dominant \in Shares
         /\ d.snapshots \in Seq([Shares -> Int]) /\ d.weeks \in Nat
BY DEF DnaDoc

LEMMA DnaCallFields ==
  ASSUME NEW q \in DnaCall
  PROVE  /\ q.pc \in DnaPCs /\ q.user \in Souls \cup {None} /\ q.vibe \in Shares /\ q.doc \in DnaDoc
         /\ q.tries \in 0 .. MaxRecounts /\ q.found \subseteq Souls
BY DEF DnaCall

LEMMA DnaNew ==
  /\ WholeDna(D!NewDoc) /\ D!NewDoc.there /\ D!NewDoc.total = 0 /\ D!NewDoc.weeks = 0
  /\ WholeDna(D!NoDoc) /\ ~D!NoDoc.there /\ D!NoDoc.total = 0 /\ D!NoDoc.weeks = 0
  /\ D!NewDoc.raw = D!NoDoc.raw
  /\ D!Idle \in DnaCall /\ D!Idle.pc = "idle" /\ D!Resting \in DnaWork
<1>1. PICK z \in [Shares -> Nat] : z = [v \in Shares |-> 0] OBVIOUS
<1>2. D!NewDoc = [there |-> TRUE, raw |-> z, total |-> 0, strands |-> D!Even,
                  dominant |-> 1, snapshots |-> <<>>, weeks |-> 0]
  BY <1>1, DnaFacts DEF D!NewDoc
<1>3. D!NewDoc \in DnaDoc
  <2>1. <<>> \in Seq([Shares -> Int]) /\ 1 \in Shares /\ TRUE \in BOOLEAN BY DEF Shares
  <2>. QED BY <1>2, <2>1, EvenSum DEF DnaDoc
<1>4. /\ D!NewDoc.raw = z /\ D!NewDoc.total = 0 /\ D!NewDoc.strands = D!Even
      /\ D!NewDoc.snapshots = <<>> /\ D!NewDoc.weeks = 0 /\ D!NewDoc.there
  BY <1>2
<1>5. D!Sum(z) = 0
  <2>1. z \in [Shares -> Int] BY <1>1
  <2>2. z[1] = 0 /\ z[2] = 0 /\ z[3] = 0 /\ z[4] = 0 /\ z[5] = 0 BY <1>1 DEF Shares
  <2>. QED BY <2>1, <2>2, FiveSum
<1>6. Len(<<>>) = 0 /\ DOMAIN <<>> = {} OBVIOUS
<1>7. WholeDna(D!NewDoc) BY <1>3, <1>4, <1>5, <1>6, EvenSum, DnaFacts DEF WholeDna, Hundred
<1>8. D!NoDoc = [D!NewDoc EXCEPT !.there = FALSE] BY DEF D!NoDoc
<1>9. /\ D!NoDoc \in DnaDoc /\ D!NoDoc.raw = D!NewDoc.raw /\ D!NoDoc.total = D!NewDoc.total
      /\ D!NoDoc.strands = D!NewDoc.strands /\ D!NoDoc.snapshots = D!NewDoc.snapshots
      /\ D!NoDoc.weeks = D!NewDoc.weeks /\ D!NoDoc.there = FALSE
  BY <1>3, <1>8 DEF DnaDoc
<1>10. WholeDna(D!NoDoc) BY <1>7, <1>9 DEF WholeDna
<1>11. D!Idle \in DnaCall /\ D!Idle.pc = "idle"
  <2>1. 1 \in Shares /\ 0 \in 0 .. MaxRecounts BY DnaFacts DEF Shares
  <2>. QED BY <1>9, <2>1 DEF D!Idle, DnaCall, DnaPCs
<1>12. D!Resting \in DnaWork BY <1>9 DEF D!Resting, DnaWork
<1>. QED BY <1>4, <1>7, <1>9, <1>10, <1>11, <1>12

-----------------------------------------------------------------------------
\* A handler moves, and the documents stay.
LEMMA CounterMoves ==
  ASSUME DnaInv, NEW h \in Requests, NEW q \in DnaCall, dJob' = [dJob EXCEPT ![h] = q],
         CounterOK(q, dDoc), UNCHANGED dDoc, UNCHANGED dWeek, UNCHANGED dWeeks, UNCHANGED dVisits,
         dCalls' \in 0 .. MaxDnaCalls, dStale \subseteq dStale', dStale' \subseteq Souls, D!TwinsOnce',
         \A u \in Souls : Recounts(dJob[h], u) => Recounts(q, u) \/ u \in dStale'
  PROVE  DnaInv'
<1>1. DnaTyped /\ WeekOK /\ dJob \in [Requests -> DnaCall] BY DEF DnaInv, DnaTyped
<1>2. dJob' \in [Requests -> DnaCall] BY <1>1
<1>3. dJob'[h] = q /\ \A k \in Requests \ {h} : dJob'[k] = dJob[k] BY <1>1
<1>4. DnaTyped' BY <1>1, <1>2 DEF DnaTyped
<1>5. WeekOK' BY <1>1 DEF WeekOK
<1>6. \A k \in Requests : CounterOK(dJob'[k], dDoc')
  <2>. SUFFICES ASSUME NEW k \in Requests PROVE CounterOK(dJob'[k], dDoc') OBVIOUS
  <2>1. CASE k = h BY <1>3, <2>1
  <2>2. CASE k # h BY <1>3, <2>2 DEF DnaInv
  <2>. QED BY <2>1, <2>2
<1>7. ASSUME NEW u \in Souls PROVE SoulOK(u)'
  <2>1. SoulOK(u) BY DEF DnaInv
  <2>2. Settles(u)'
    <3>. SUFFICES ASSUME u \notin dStale', dDoc[u].total > 0, dDoc[u].strands # D!Strands(dDoc[u])
                  PROVE  \E k \in Requests : Recounts(dJob'[k], u)
      BY DEF Settles
    <3>1. PICK k \in Requests : Recounts(dJob[k], u) BY <2>1 DEF SoulOK, Settles
    <3>2. Recounts(dJob'[k], u)
      <4>1. CASE k = h BY <1>3, <3>1, <4>1
      <4>2. CASE k # h BY <1>3, <3>1, <4>2
      <4>. QED BY <4>1, <4>2
    <3>. QED BY <3>2
  <2>. QED BY <2>1, <2>2 DEF SoulOK
<1>. QED BY <1>4, <1>5, <1>6, <1>7 DEF DnaInv

\* A handler changes the document of its user, whose signals are no fewer then.
LEMMA CounterWrites ==
  ASSUME DnaInv, NEW h \in Requests, NEW q \in DnaCall, dJob' = [dJob EXCEPT ![h] = q],
         NEW u \in Souls, NEW d, dDoc' = [dDoc EXCEPT ![u] = d], WholeDna(d), d.there,
         d.weeks = dDoc[u].weeks, d.total >= dDoc[u].total,
         d.total = dDoc[u].total => d.raw = dDoc[u].raw,
         CounterOK(q, dDoc'), UNCHANGED dWeek, UNCHANGED dCalls, UNCHANGED dWeeks, UNCHANGED dVisits,
         UNCHANGED dTwins, dStale' \subseteq Souls, dStale \subseteq dStale' \cup {u},
         u \notin dStale' /\ d.total > 0 => d.strands = D!Strands(d) \/ Recounts(q, u),
         \A w \in Souls \ {u} : ~Recounts(dJob[h], w)
  PROVE  DnaInv'
<1>1. DnaTyped /\ WeekOK /\ dJob \in [Requests -> DnaCall] /\ dDoc \in [Souls -> DnaDoc] /\ d \in DnaDoc
  BY DEF DnaInv, DnaTyped, WholeDna
<1>2. dJob' \in [Requests -> DnaCall] /\ dDoc' \in [Souls -> DnaDoc] BY <1>1
<1>3. dJob'[h] = q /\ \A k \in Requests \ {h} : dJob'[k] = dJob[k] BY <1>1
<1>4. dDoc'[u] = d /\ \A w \in Souls \ {u} : dDoc'[w] = dDoc[w] BY <1>1
<1>5. DnaTyped' BY <1>1, <1>2 DEF DnaTyped
<1>6. WeekOK'
  <2>1. dWeek.left \subseteq Souls /\ (dWeek.user # None => dWeek.user \in Souls) BY <1>1 DEF DnaTyped, DnaWork
  <2>2. \A w \in dWeek.left : dDoc'[w].there BY <1>1, <1>4, <2>1 DEF WeekOK
  <2>3. dWeek.user # None => /\ dDoc'[dWeek.user].there /\ WholeDna(dWeek.doc)
                             /\ dWeek.doc.weeks = dDoc'[dWeek.user].weeks
    BY <1>1, <1>4, <2>1 DEF WeekOK
  <2>. QED BY <2>2, <2>3 DEF WeekOK
<1>7. \A k \in Requests : CounterOK(dJob'[k], dDoc')
  <2>. SUFFICES ASSUME NEW k \in Requests, k # h PROVE CounterOK(dJob'[k], dDoc') BY <1>3
  <2>1. PICK c \in DnaCall : c = dJob[k] /\ dJob'[k] = c BY <1>1, <1>3
  <2>2. CounterOK(c, dDoc) BY <2>1 DEF DnaInv
  <2>3. c.doc.total \in Nat /\ dDoc[u].total \in Nat /\ d.total \in Nat
    BY <1>1, DnaCallFields, DnaFields
  <2>4. CASE c.user = u BY <1>4, <2>1, <2>2, <2>3, <2>4 DEF CounterOK
  <2>5. CASE c.user # u BY <1>4, <2>1, <2>2, <2>5 DEF CounterOK
  <2>. QED BY <2>4, <2>5
<1>8. ASSUME NEW w \in Souls PROVE SoulOK(w)'
  <2>1. SoulOK(w) BY DEF DnaInv
  <2>2. CASE w = u
    <3>1. Settles(w)' BY <1>3, <1>4, <2>2 DEF Settles
    <3>. QED BY <1>4, <2>1, <2>2, <3>1 DEF SoulOK
  <2>3. CASE w # u
    <3>1. Settles(w)'
      <4>. SUFFICES ASSUME w \notin dStale', dDoc[w].total > 0, dDoc[w].strands # D!Strands(dDoc[w])
                    PROVE  \E k \in Requests : Recounts(dJob'[k], w)
        BY <1>4, <2>3 DEF Settles
      <4>1. PICK k \in Requests : Recounts(dJob[k], w) BY <2>1, <2>3 DEF SoulOK, Settles
      <4>2. k # h BY <2>3, <4>1
      <4>. QED BY <1>3, <4>1, <4>2
    <3>. QED BY <1>4, <2>1, <2>3, <3>1 DEF SoulOK
  <2>. QED BY <2>2, <2>3
<1>9. D!TwinsOnce' BY DEF DnaInv, D!TwinsOnce
<1>. QED BY <1>5, <1>6, <1>7, <1>8, <1>9 DEF DnaInv

-----------------------------------------------------------------------------
(* The steps of social DNA.                                                      *)

\* A handler begins, for one of the users.
LEMMA DnaBegins ==
  ASSUME DnaInv, NEW h \in Requests, NEW u \in Souls, NEW pc \in {"add", "insert", "twins"},
         pc = "add" => dDoc[u].there, NEW found \in SUBSET (Souls \ {u}),
         dJob[h].pc = "idle", dCalls < MaxDnaCalls, dCalls' = dCalls + 1,
         NEW q, q = [D!Idle EXCEPT !.pc = pc, !.user = u, !.found = found],
         dJob' = [dJob EXCEPT ![h] = q],
         UNCHANGED <<dDoc, dWeek, dWeeks, dVisits, dStale, dTwins>>
  PROVE  DnaInv'
<1>1. q \in DnaCall BY DnaNew DEF DnaCall, DnaPCs
<1>2. q.pc = pc /\ q.user = u /\ q.found = found /\ q.tries = 0 BY DEF D!Idle
<1>3. CounterOK(q, dDoc) BY <1>2 DEF CounterOK
<1>4. dCalls \in 0 .. MaxDnaCalls /\ dStale \subseteq Souls BY DEF DnaInv, DnaTyped
<1>5. dCalls' \in 0 .. MaxDnaCalls BY <1>4, DnaFacts
<1>6. D!TwinsOnce' BY DEF DnaInv, D!TwinsOnce
<1>7. \A w \in Souls : ~Recounts(dJob[h], w) BY DEF Recounts
<1>. QED BY <1>1, <1>3, <1>4, <1>5, <1>6, <1>7, CounterMoves

LEMMA GetHolds == ASSUME DnaInv, NEW h \in Requests, NEW u \in Souls, D!GetOrCreate(h, u) PROVE DnaInv'
<1>1. PICK pc \in {"add", "insert", "twins"} : pc = (IF dDoc[u].there THEN "add" ELSE "insert") OBVIOUS
<1>2. /\ dJob[h].pc = "idle" /\ dCalls < MaxDnaCalls /\ dCalls' = dCalls + 1
  BY <1>1 DEF D!GetOrCreate, D!Begin, D!At
<1>3. UNCHANGED <<dDoc, dWeek, dWeeks, dVisits, dStale, dTwins>> BY DEF D!GetOrCreate
<1>4. PICK q : q = [D!Idle EXCEPT !.pc = pc, !.user = u] OBVIOUS
<1>5. PICK found \in SUBSET (Souls \ {u}) : found = {} OBVIOUS
<1>6. q = [D!Idle EXCEPT !.pc = pc, !.user = u, !.found = found]
  <2>1. PICK e \in DnaCall : e = D!Idle /\ e.found = {} BY DnaNew DEF D!Idle
  <2>2. [e EXCEPT !.pc = pc, !.user = u] = [e EXCEPT !.pc = pc, !.user = u, !.found = found]
    BY <1>5, <2>1 DEF DnaCall
  <2>. QED BY <1>4, <2>1, <2>2
<1>7. dJob' = [dJob EXCEPT ![h] = q] BY <1>1, <1>4 DEF D!GetOrCreate, D!Begin
<1>8. pc = "add" => dDoc[u].there BY <1>1
<1>. QED BY <1>2, <1>3, <1>6, <1>7, <1>8, DnaBegins

LEMMA FindHolds == ASSUME DnaInv, NEW h \in Requests, NEW u \in Souls, D!FindTwins(h, u) PROVE DnaInv'
<1>1. PICK found \in SUBSET (Souls \ {u}) :
        found = {w \in Souls \ {u} : D!Mature(w) /\ dDoc[w].dominant = dDoc[u].dominant}
  OBVIOUS
<1>2. PICK q : q = [D!Idle EXCEPT !.pc = "twins", !.user = u, !.found = found] OBVIOUS
<1>3. /\ dJob[h].pc = "idle" /\ dCalls < MaxDnaCalls /\ dCalls' = dCalls + 1
      /\ dJob' = [dJob EXCEPT ![h] = q]
  BY <1>1, <1>2 DEF D!FindTwins, D!At
<1>4. UNCHANGED <<dDoc, dWeek, dWeeks, dVisits, dStale, dTwins>> BY DEF D!FindTwins
<1>5. PICK pc \in {"add", "insert", "twins"} : pc = "twins" OBVIOUS
<1>6. q = [D!Idle EXCEPT !.pc = pc, !.user = u, !.found = found] BY <1>2, <1>5
<1>7. pc # "add" BY <1>5
<1>. QED BY <1>3, <1>4, <1>6, <1>7, DnaBegins

\* A handler ends that has no shares to store.
LEMMA DnaEnds ==
  ASSUME DnaInv, NEW h \in Requests, dJob' = [dJob EXCEPT ![h] = D!Idle],
         \A u \in Souls : ~Recounts(dJob[h], u) \/ u \in dStale',
         dStale \subseteq dStale', dStale' \subseteq Souls, D!TwinsOnce',
         UNCHANGED <<dDoc, dWeek, dCalls, dWeeks, dVisits>>
  PROVE  DnaInv'
<1>1. dCalls' \in 0 .. MaxDnaCalls BY DEF DnaInv, DnaTyped
<1>2. CounterOK(D!Idle, dDoc) BY DnaNew DEF CounterOK
<1>. QED BY <1>1, <1>2, DnaNew, CounterMoves

LEMMA InsertHolds == ASSUME DnaInv, NEW h \in Requests, D!InsertDna(h) PROVE DnaInv'
<1>1. /\ dJob[h].pc = "insert" /\ UNCHANGED dWeek /\ UNCHANGED dCalls /\ UNCHANGED dWeeks
      /\ UNCHANGED dVisits /\ UNCHANGED dStale /\ UNCHANGED dTwins
  BY DEF D!InsertDna, D!At
<1>2. CounterOK(dJob[h], dDoc) /\ dJob[h] \in DnaCall /\ dJob \in [Requests -> DnaCall] /\ DnaTyped
  BY DEF DnaInv, DnaTyped
<1>3. PICK u \in Souls : u = dJob[h].user BY <1>1, <1>2 DEF CounterOK
<1>4. dStale \subseteq dStale' /\ dStale' \subseteq Souls BY <1>1, <1>2 DEF DnaTyped
<1>5. D!TwinsOnce' BY <1>1 DEF DnaInv, D!TwinsOnce
<1>6. \A w \in Souls : ~Recounts(dJob[h], w) BY <1>1 DEF Recounts
<1>7. CASE dDoc[u].there
  <2>1. dJob' = [dJob EXCEPT ![h] = D!Idle] /\ UNCHANGED dDoc BY <1>3, <1>7 DEF D!InsertDna
  <2>. QED BY <1>1, <1>4, <1>5, <1>6, <2>1, DnaEnds
<1>8. CASE ~dDoc[u].there
  <2>1. dJob' = [dJob EXCEPT ![h].pc = "add"] /\ dDoc' = [dDoc EXCEPT ![u] = D!NewDoc]
    BY <1>3, <1>8 DEF D!InsertDna
  <2>2. PICK q \in DnaCall : q = [dJob[h] EXCEPT !.pc = "add"] /\ q.pc = "add" /\ q.user = u /\ q.tries = dJob[h].tries
    <3>1. PICK q : q = [dJob[h] EXCEPT !.pc = "add"] OBVIOUS
    <3>2. q \in DnaCall BY <1>2, <3>1 DEF DnaCall, DnaPCs
    <3>3. q.pc = "add" /\ q.user = u /\ q.tries = dJob[h].tries BY <1>2, <1>3, <3>1 DEF DnaCall
    <3>. QED BY <3>1, <3>2, <3>3
  <2>3. dJob' = [dJob EXCEPT ![h] = q] BY <1>2, <2>1, <2>2
  <2>4. dDoc[u] = D!NoDoc BY <1>8 DEF DnaInv, SoulOK
  <2>5. PICK d : d = D!NewDoc OBVIOUS
  <2>6. /\ WholeDna(d) /\ d.there /\ d.weeks = dDoc[u].weeks /\ d.total = 0 /\ dDoc[u].total = 0
        /\ d.raw = dDoc[u].raw
    BY <2>4, <2>5, DnaNew
  <2>7. dDoc' = [dDoc EXCEPT ![u] = d] /\ dDoc'[u] = d BY <1>2, <2>1, <2>5 DEF DnaTyped
  <2>8. q.tries = 0 BY <1>1, <1>2, <2>2 DEF CounterOK
  <2>9. CounterOK(q, dDoc') BY <2>2, <2>6, <2>7, <2>8 DEF CounterOK
  <2>10. ~(d.total > 0) /\ d.total >= dDoc[u].total BY <2>6
  <2>. QED BY <1>1, <1>4, <1>6, <2>3, <2>6, <2>7, <2>9, <2>10, CounterWrites
<1>. QED BY <1>7, <1>8

\* A signal is added, and its shares are to be stored.
LEMMA AddHolds == ASSUME DnaInv, NEW h \in Requests, NEW v \in D!V, D!AddRaw(h, v) PROVE DnaInv'
<1>1. /\ dJob[h].pc = "add" /\ UNCHANGED dWeek /\ UNCHANGED dCalls /\ UNCHANGED dWeeks
      /\ UNCHANGED dVisits /\ UNCHANGED dStale /\ UNCHANGED dTwins
  BY DEF D!AddRaw, D!At
<1>2. CounterOK(dJob[h], dDoc) /\ dJob[h] \in DnaCall /\ dJob \in [Requests -> DnaCall] /\ DnaTyped
  BY DEF DnaInv, DnaTyped
<1>3. PICK u \in Souls : u = dJob[h].user BY <1>1, <1>2 DEF CounterOK
<1>4. SoulOK(u) /\ WholeDna(dDoc[u]) /\ dDoc[u] \in DnaDoc /\ dDoc[u].there /\ dJob[h].tries = 0
  BY <1>1, <1>2, <1>3 DEF DnaInv, SoulOK, WholeDna, CounterOK
<1>5. PICK raw \in [Shares -> Nat] : raw = [dDoc[u].raw EXCEPT ![v] = @ + 1]
  <2>1. PICK f \in [Shares -> Nat] : f = dDoc[u].raw BY <1>4, DnaFields
  <2>2. v \in Shares BY DnaFacts
  <2>3. f[v] + 1 \in Nat BY <2>2
  <2>4. [f EXCEPT ![v] = @ + 1] \in [Shares -> Nat] BY <2>2, <2>3
  <2>. QED BY <2>1, <2>4
<1>6. PICK n \in Nat : n = dDoc[u].total + 1 BY <1>4, DnaFields
<1>7. PICK d : d = [dDoc[u] EXCEPT !.raw = raw, !.total = n] OBVIOUS
<1>8. d \in DnaDoc /\ d.raw = raw /\ d.total = n /\ d.strands = dDoc[u].strands
      /\ d.snapshots = dDoc[u].snapshots /\ d.weeks = dDoc[u].weeks /\ d.there
  BY <1>4, <1>7 DEF DnaDoc
<1>9. D!Sum(raw) = D!Sum(dDoc[u].raw) + 1
  <2>1. PICK f \in [Shares -> Int], e \in [Shares -> Int] : f = dDoc[u].raw /\ e = raw
    <3>1. dDoc[u].raw \in [Shares -> Nat] /\ raw \in [Shares -> Nat] BY <1>4, <1>5, DnaFields
    <3>2. \A f \in [Shares -> Nat] : f \in [Shares -> Int] OBVIOUS
    <3>. QED BY <3>1, <3>2
  <2>2. v \in Shares /\ e[v] = f[v] + 1 /\ \A y \in Shares \ {v} : f[y] = e[y]
    BY <1>4, <1>5, <2>1, DnaFields, DnaFacts
  <2>3. Total(e, Shares) = Total(f, Shares) - f[v] + e[v] BY <2>1, <2>2, FiveFinite, TotalChanges
  <2>4. f[v] \in Int /\ Total(f, Shares) \in Int BY <2>1, <2>2, FiveFinite, TotalInt
  <2>5. Total(e, Shares) = Total(f, Shares) + 1 BY <2>2, <2>3, <2>4
  <2>. QED BY <2>1, <2>5, DnaSums, DnaFacts
<1>10. WholeDna(d) BY <1>4, <1>6, <1>8, <1>9 DEF WholeDna
<1>11. [dDoc[u] EXCEPT !.raw = [dDoc[u].raw EXCEPT ![v] = @ + 1], !.total = @ + 1] = d
  BY <1>4, <1>5, <1>6, <1>7 DEF DnaDoc
<1>12. dDoc' = [dDoc EXCEPT ![u] = d] /\ dDoc'[u] = d
  <2>1. dDoc' = [dDoc EXCEPT ![u] = d] BY <1>3, <1>11 DEF D!AddRaw
  <2>. QED BY <1>2, <2>1 DEF DnaTyped
<1>13. v \in Shares BY DnaFacts
<1>14. PICK q : q = [dJob[h] EXCEPT !.pc = "store", !.vibe = v, !.doc = d] OBVIOUS
<1>15. q \in DnaCall /\ q.pc = "store" /\ q.user = u /\ q.doc = d /\ q.tries = 0
  BY <1>2, <1>3, <1>4, <1>8, <1>13, <1>14 DEF DnaCall, DnaPCs
<1>16. dJob' = [dJob EXCEPT ![h] = q] BY <1>2, <1>3, <1>11, <1>14 DEF D!AddRaw
<1>17. dDoc[u].total \in Nat BY <1>4, DnaFields
<1>18. CounterOK(q, dDoc') BY <1>8, <1>12, <1>15, DnaFacts DEF CounterOK
<1>19. Recounts(q, u) BY <1>15 DEF Recounts
<1>20. dStale' \subseteq Souls /\ dStale \subseteq dStale' \cup {u} BY <1>1, <1>2 DEF DnaTyped
<1>21. \A w \in Souls \ {u} : ~Recounts(dJob[h], w) BY <1>3 DEF Recounts
<1>22. d.total >= dDoc[u].total /\ d.total # dDoc[u].total BY <1>6, <1>8, <1>17
<1>. QED BY <1>1, <1>8, <1>10, <1>12, <1>15, <1>16, <1>18, <1>19, <1>20, <1>21, <1>22, CounterWrites

\* The shares are stored where nothing was added since; otherwise once more.
LEMMA StoreHolds == ASSUME DnaInv, NEW h \in Requests, D!StoreStrands(h) PROVE DnaInv'
<1>1. /\ dJob[h].pc = "store" /\ UNCHANGED dWeek /\ UNCHANGED dCalls /\ UNCHANGED dWeeks
      /\ UNCHANGED dVisits /\ UNCHANGED dTwins
  BY DEF D!StoreStrands, D!At
<1>2. CounterOK(dJob[h], dDoc) /\ dJob[h] \in DnaCall /\ dJob \in [Requests -> DnaCall] /\ DnaTyped
  BY DEF DnaInv, DnaTyped
<1>3. PICK u \in Souls : u = dJob[h].user BY <1>1, <1>2 DEF CounterOK
<1>4. SoulOK(u) /\ WholeDna(dDoc[u]) /\ dDoc[u] \in DnaDoc /\ dDoc[u].there
  BY <1>1, <1>2, <1>3 DEF DnaInv, SoulOK, WholeDna, CounterOK
<1>5. dJob[h].doc \in DnaDoc /\ dJob[h].tries \in 0 .. MaxRecounts /\ dJob[h].tries < MaxRecounts
  BY <1>1, <1>2, DnaCallFields DEF CounterOK
<1>6. CASE D!SameTotal(u, dJob[h].doc)
  <2>1. PICK strands \in [Shares -> Int] : strands = D!Strands(dJob[h].doc) BY <1>5, StrandsSum
  <2>2. D!Sum(strands) = 100 /\ D!FirstHighest(strands) \in Shares BY <1>5, <2>1, StrandsSum
  <2>3. PICK top \in Shares : top = D!FirstHighest(strands) BY <2>2
  <2>4. PICK d : d = [dDoc[u] EXCEPT !.strands = strands, !.dominant = top] OBVIOUS
  <2>5. /\ d \in DnaDoc /\ d.raw = dDoc[u].raw /\ d.total = dDoc[u].total /\ d.strands = strands
        /\ d.snapshots = dDoc[u].snapshots /\ d.weeks = dDoc[u].weeks /\ d.there
    BY <1>4, <2>4 DEF DnaDoc
  <2>6. WholeDna(d) BY <1>4, <2>2, <2>5 DEF WholeDna, Hundred
  <2>7. dDoc' = [dDoc EXCEPT ![u] = d] /\ dDoc'[u] = d
    <3>1. dDoc' = [dDoc EXCEPT ![u].strands = strands, ![u].dominant = top]
      BY <1>3, <1>6, <2>1, <2>3 DEF D!StoreStrands
    <3>2. dDoc \in [Souls -> DnaDoc] BY <1>2 DEF DnaTyped
    <3>3. dDoc' = [dDoc EXCEPT ![u] = d] BY <2>4, <3>1, <3>2
    <3>. QED BY <3>2, <3>3
  <2>8. dJob' = [dJob EXCEPT ![h] = D!Idle] /\ dStale' = dStale \ {u}
    BY <1>3, <1>6 DEF D!StoreStrands
  <2>9. dJob[h].doc.total = dDoc[u].total /\ dJob[h].doc.raw = dDoc[u].raw
    BY <1>1, <1>2, <1>3, <1>6 DEF D!SameTotal, CounterOK
  <2>10. strands = D!Strands(d) BY <2>1, <2>5, <2>9 DEF D!Strands
  <2>11. CounterOK(D!Idle, dDoc') BY DnaNew DEF CounterOK
  <2>12. dStale' \subseteq Souls /\ dStale \subseteq dStale' \cup {u} BY <1>2, <2>8 DEF DnaTyped
  <2>13. \A w \in Souls \ {u} : ~Recounts(dJob[h], w) BY <1>3 DEF Recounts
  <2>14. dDoc[u].total \in Nat BY <1>4, DnaFields
  <2>15. d.total >= dDoc[u].total BY <2>5, <2>14
  <2>. QED BY <1>1, <2>5, <2>6, <2>7, <2>8, <2>10, <2>11, <2>12, <2>13, <2>15, DnaNew, CounterWrites
<1>7. CASE ~D!SameTotal(u, dJob[h].doc)
  <2>1. PICK n \in 0 .. MaxRecounts : n = dJob[h].tries + 1 BY <1>5, DnaFacts
  <2>2. PICK q : q = [dJob[h] EXCEPT !.pc = "again", !.tries = n] OBVIOUS
  <2>3. q \in DnaCall /\ q.pc = "again" /\ q.tries = n /\ q.user = u
    BY <1>2, <1>3, <2>1, <2>2 DEF DnaCall, DnaPCs
  <2>4. dJob' = [dJob EXCEPT ![h] = q] BY <1>2, <1>3, <1>7, <2>1, <2>2 DEF D!StoreStrands
  <2>5. UNCHANGED dDoc /\ dStale' = IF n = MaxRecounts THEN dStale \cup {u} ELSE dStale
    BY <1>3, <1>7, <2>1 DEF D!StoreStrands
  <2>6. CounterOK(q, dDoc) BY <1>4, <2>3 DEF CounterOK
  <2>7. \A w \in Souls : Recounts(dJob[h], w) => Recounts(q, w) \/ w \in dStale'
    BY <1>3, <2>1, <2>3, <2>5, DnaFacts DEF Recounts
  <2>8. dStale \subseteq dStale' /\ dStale' \subseteq Souls BY <1>2, <2>5 DEF DnaTyped
  <2>9. D!TwinsOnce' BY <1>1 DEF DnaInv, D!TwinsOnce
  <2>10. dCalls' \in 0 .. MaxDnaCalls BY <1>1, <1>2 DEF DnaTyped
  <2>. QED BY <1>1, <2>3, <2>4, <2>5, <2>6, <2>7, <2>8, <2>9, <2>10, CounterMoves
<1>. QED BY <1>6, <1>7

LEMMA LatestHolds == ASSUME DnaInv, NEW h \in Requests, D!ReadLatest(h) PROVE DnaInv'
<1>1. /\ dJob[h].pc = "again" /\ UNCHANGED dDoc /\ UNCHANGED dWeek /\ UNCHANGED dCalls
      /\ UNCHANGED dWeeks /\ UNCHANGED dVisits /\ UNCHANGED dStale /\ UNCHANGED dTwins
  BY DEF D!ReadLatest, D!At
<1>2. CounterOK(dJob[h], dDoc) /\ dJob[h] \in DnaCall /\ dJob \in [Requests -> DnaCall] /\ DnaTyped
  BY DEF DnaInv, DnaTyped
<1>3. PICK u \in Souls : u = dJob[h].user BY <1>1, <1>2 DEF CounterOK
<1>4. dDoc[u] \in DnaDoc /\ dDoc[u].there BY <1>1, <1>2, <1>3 DEF DnaTyped, CounterOK
<1>5. dStale \subseteq dStale' /\ dStale' \subseteq Souls BY <1>1, <1>2 DEF DnaTyped
<1>6. D!TwinsOnce' BY <1>1 DEF DnaInv, D!TwinsOnce
<1>7. CASE dJob[h].tries = MaxRecounts
  <2>1. dJob' = [dJob EXCEPT ![h] = D!Idle] BY <1>7 DEF D!ReadLatest
  <2>2. \A w \in Souls : ~Recounts(dJob[h], w) BY <1>1, <1>7, DnaFacts DEF Recounts
  <2>. QED BY <1>1, <1>5, <1>6, <2>1, <2>2, DnaEnds
<1>8. CASE dJob[h].tries # MaxRecounts
  <2>1. PICK q : q = [dJob[h] EXCEPT !.pc = "store", !.doc = dDoc[u]] OBVIOUS
  <2>2. q \in DnaCall /\ q.pc = "store" /\ q.user = u /\ q.doc = dDoc[u] /\ q.tries = dJob[h].tries
    BY <1>2, <1>3, <1>4, <2>1 DEF DnaCall, DnaPCs
  <2>3. dJob' = [dJob EXCEPT ![h] = q] BY <1>3, <1>8, <2>1 DEF D!ReadLatest
  <2>4. q.tries < MaxRecounts /\ dDoc[u].total \in Nat
    <3>1. dJob[h].tries \in 0 .. MaxRecounts /\ dDoc[u].total \in Nat BY <1>2, <1>4, DnaCallFields, DnaFields
    <3>. QED BY <1>8, <2>2, <3>1, DnaFacts
  <2>5. CounterOK(q, dDoc) BY <1>4, <2>2, <2>4 DEF CounterOK
  <2>6. \A w \in Souls : Recounts(dJob[h], w) => Recounts(q, w) BY <1>3, <2>2 DEF Recounts
  <2>7. dCalls' \in 0 .. MaxDnaCalls BY <1>1, <1>2 DEF DnaTyped
  <2>. QED BY <1>1, <1>5, <1>6, <2>2, <2>3, <2>5, <2>6, <2>7, CounterMoves
<1>. QED BY <1>7, <1>8

\* Of the mature users those found before are left out, and the user himself never found.
LEMMA TopUpHolds == ASSUME DnaInv, NEW h \in Requests, D!TopUp(h) PROVE DnaInv'
<1>1. /\ dJob[h].pc = "twins" /\ dJob' = [dJob EXCEPT ![h] = D!Idle] /\ UNCHANGED dDoc
      /\ UNCHANGED dWeek /\ UNCHANGED dCalls /\ UNCHANGED dWeeks /\ UNCHANGED dVisits /\ UNCHANGED dStale
  BY DEF D!TopUp, D!At
<1>2. PICK more : /\ more \subseteq Souls \ {dJob[h].user} /\ more \cap dJob[h].found = {}
                  /\ dTwins' = [user |-> dJob[h].user, times |-> [w \in Souls |->
                       (IF w \in dJob[h].found THEN 1 ELSE 0) + (IF w \in more THEN 1 ELSE 0)]]
  <2>1. PICK more : more = IF D!Cardinality(dJob[h].found) >= MaxTwins THEN {}
                           ELSE D!NewOnes(dJob[h].found, {w \in Souls \ {dJob[h].user} : D!Mature(w)})
    OBVIOUS
  <2>2. more \subseteq Souls \ {dJob[h].user} /\ more \cap dJob[h].found = {} BY <2>1 DEF D!NewOnes
  <2>3. dTwins' = [user |-> dJob[h].user, times |-> [w \in Souls |->
                     (IF w \in dJob[h].found THEN 1 ELSE 0) + (IF w \in more THEN 1 ELSE 0)]]
    BY <2>1 DEF D!TopUp
  <2>. QED BY <2>2, <2>3
<1>3. dJob[h].found \subseteq Souls \ {dJob[h].user} BY <1>1 DEF DnaInv, CounterOK
<1>4. D!TwinsOnce'
  <2>. SUFFICES ASSUME NEW w \in Souls PROVE dTwins'.times[w] <= IF w = dTwins'.user THEN 0 ELSE 1
    BY DEF D!TwinsOnce
  <2>1. dTwins'.user = dJob[h].user
        /\ dTwins'.times[w] = (IF w \in dJob[h].found THEN 1 ELSE 0) + (IF w \in more THEN 1 ELSE 0)
    BY <1>2
  <2>. QED BY <1>2, <1>3, <2>1
<1>5. dStale \subseteq dStale' /\ dStale' \subseteq Souls BY <1>1 DEF DnaInv, DnaTyped
<1>6. \A w \in Souls : ~Recounts(dJob[h], w) BY <1>1 DEF Recounts
<1>. QED BY <1>1, <1>4, <1>5, <1>6, DnaEnds

LEMMA DnaBreaks == ASSUME DnaInv, NEW h \in Requests, D!BreakOff(h) PROVE DnaInv'
<1>1. /\ dJob[h].pc # "idle" /\ dJob' = [dJob EXCEPT ![h] = D!Idle] /\ UNCHANGED dDoc
      /\ UNCHANGED dWeek /\ UNCHANGED dCalls /\ UNCHANGED dWeeks /\ UNCHANGED dVisits /\ UNCHANGED dTwins
      /\ dStale' = IF dJob[h].pc = "store" \/ dJob[h].pc = "again" THEN dStale \cup {dJob[h].user} ELSE dStale
  BY DEF D!BreakOff, D!At
<1>2. dJob[h].user \in Souls /\ dStale \subseteq Souls BY <1>1 DEF DnaInv, DnaTyped, CounterOK
<1>3. dStale \subseteq dStale' /\ dStale' \subseteq Souls BY <1>1, <1>2
<1>4. D!TwinsOnce' BY <1>1 DEF DnaInv, D!TwinsOnce
<1>5. \A w \in Souls : ~Recounts(dJob[h], w) \/ w \in dStale' BY <1>1 DEF Recounts
<1>. QED BY <1>1, <1>3, <1>4, <1>5, DnaEnds

\* The weekly job begins, comes to a user, and takes a snapshot of him.
LEMMA WeekHolds ==
  ASSUME DnaInv, D!WeekBegins \/ \E u \in Souls : D!WeekRead(u) PROVE DnaInv'
<1>1. DnaTyped /\ WeekOK BY DEF DnaInv
<1>2. dWeek \in DnaWork /\ dWeek.left \subseteq Souls BY <1>1 DEF DnaTyped, DnaWork
<1>3. /\ UNCHANGED dDoc /\ UNCHANGED dJob /\ UNCHANGED dCalls /\ UNCHANGED dVisits /\ UNCHANGED dStale
      /\ UNCHANGED dTwins
  BY DEF D!WeekBegins, D!WeekRead
<1>4. dWeeks' \in 0 .. MaxWeeks
  <2>1. dWeeks \in 0 .. MaxWeeks BY <1>1 DEF DnaTyped
  <2>2. dWeeks' = dWeeks \/ (dWeeks < MaxWeeks /\ dWeeks' = dWeeks + 1) BY DEF D!WeekBegins, D!WeekRead
  <2>. QED BY <2>1, <2>2, DnaFacts
<1>5. dWeek' \in DnaWork /\ WeekOK'
  <2>1. CASE D!WeekBegins
    <3>1. PICK left \in SUBSET Souls : left = {u \in Souls : dDoc[u].there /\ dDoc[u].total >= 1} OBVIOUS
    <3>2. dWeek' = [D!Resting EXCEPT !.left = left] BY <2>1, <3>1 DEF D!WeekBegins
    <3>3. D!Resting \in DnaWork /\ D!Resting.user = None BY DnaNew DEF D!Resting
    <3>4. dWeek' \in DnaWork /\ dWeek'.left = left /\ dWeek'.user = None BY <3>2, <3>3 DEF DnaWork
    <3>. QED BY <1>3, <3>1, <3>4 DEF WeekOK
  <2>2. ASSUME NEW u \in Souls, D!WeekRead(u) PROVE dWeek' \in DnaWork /\ WeekOK'
    <3>1. PICK left \in SUBSET Souls : left = dWeek.left \ {u} BY <1>2
    <3>2. u \in dWeek.left /\ dWeek' = [dWeek EXCEPT !.user = u, !.doc = dDoc[u], !.left = @ \ {u}]
      BY <2>2 DEF D!WeekRead
    <3>3. dWeek' = [dWeek EXCEPT !.user = u, !.doc = dDoc[u], !.left = left] BY <1>2, <3>1, <3>2 DEF DnaWork
    <3>4. dDoc[u] \in DnaDoc BY <1>1 DEF DnaTyped
    <3>5. dWeek' \in DnaWork /\ dWeek'.left = left /\ dWeek'.user = u /\ dWeek'.doc = dDoc[u]
      BY <1>2, <3>3, <3>4 DEF DnaWork
    <3>6. dDoc[u].there /\ \A w \in left : dDoc[w].there BY <1>1, <3>1, <3>2 DEF WeekOK
    <3>7. WholeDna(dDoc[u]) BY DEF DnaInv, SoulOK
    <3>. QED BY <1>3, <3>5, <3>6, <3>7 DEF WeekOK
  <2>. QED BY <2>1, <2>2
<1>6. DnaTyped' BY <1>1, <1>3, <1>4, <1>5 DEF DnaTyped
<1>7. D!TwinsOnce' BY <1>3 DEF DnaInv, D!TwinsOnce
<1>8. \A u \in Souls : SoulOK(u)' BY <1>3 DEF DnaInv, SoulOK, Settles
<1>9. \A h \in Requests : CounterOK(dJob'[h], dDoc') BY <1>3 DEF DnaInv
<1>. QED BY <1>5, <1>6, <1>7, <1>8, <1>9 DEF DnaInv

\* t is s, of length n, without its first k elements.
WithoutFirst(S, s, n, k, t) ==
  /\ t \in Seq(S)
  /\ Len(t) = n - k
  /\ \A i \in 1 .. (n - k) : i + k \in 1 .. n /\ t[i] = s[i + k]

LEMMA TailOf ==
  ASSUME NEW S, NEW s \in Seq(S), NEW n \in Nat, n = Len(s), NEW k \in Nat, k <= n,
         NEW a \in Int, a = k + 1, NEW t, t = SubSeq(s, a, n)
  PROVE  WithoutFirst(S, s, n, k, t)
<1>1. a \in Int /\ a = k + 1 OBVIOUS
<1>2. n \in Int /\ t = SubSeq(s, a, n) OBVIOUS
<1>3. \A i \in a .. n : s[i] \in S
  <2>1. \A i \in a .. n : i \in 1 .. Len(s) BY <1>1
  <2>. QED BY <2>1
<1>4. /\ SubSeq(s, a, n) \in Seq(S)
      /\ Len(SubSeq(s, a, n)) = IF a <= n THEN n - a + 1 ELSE 0
      /\ \A i \in 1 .. n - a + 1 : SubSeq(s, a, n)[i] = s[a + i - 1]
  BY <1>1, <1>2, <1>3, SubSeqProperties
<1>5. PICK m \in Nat : m = n - k
  <2>1. n - k \in Nat OBVIOUS
  <2>. QED BY <2>1
<1>6. n - a + 1 = m /\ (a <= n \/ m = 0) /\ (a <= n => n - a + 1 = m) BY <1>1, <1>5
<1>7. \A i \in 1 .. m : a + i - 1 = i + k /\ i + k \in 1 .. n BY <1>1, <1>5
<1>8. Len(t) = m BY <1>2, <1>4, <1>6
<1>9. \A i \in 1 .. m : t[i] = s[a + i - 1] BY <1>2, <1>4, <1>6
<1>. QED BY <1>2, <1>4, <1>5, <1>7, <1>8, <1>9 DEF WithoutFirst

\* The oldest snapshots go where there are too many.
LEMMA SnapshotsKept ==
  ASSUME NEW s \in Seq([Shares -> Int]), Len(s) <= MaxSnapshots, \A i \in DOMAIN s : Hundred(s[i]),
         NEW p, Hundred(p), NEW list, list = Append(s, p), NEW cut, cut = Len(list) - MaxSnapshots,
         NEW t, t = (IF cut > 0 THEN SubSeq(list, cut + 1, Len(list)) ELSE list)
  PROVE  /\ t \in Seq([Shares -> Int]) /\ Len(t) <= MaxSnapshots /\ \A i \in DOMAIN t : Hundred(t[i])
<1>1. p \in [Shares -> Int] /\ MaxSnapshots \in Nat BY DnaFacts DEF Hundred
<1>2. list \in Seq([Shares -> Int]) /\ Len(list) = Len(s) + 1 BY <1>1
<1>3. \A i \in 1 .. Len(list) : Hundred(list[i])
  <2>. SUFFICES ASSUME NEW i \in 1 .. Len(list) PROVE Hundred(list[i]) OBVIOUS
  <2>1. CASE i \in 1 .. Len(s)
    <3>1. list[i] = s[i] /\ i \in DOMAIN s BY <1>1, <2>1
    <3>. QED BY <3>1
  <2>2. CASE i = Len(s) + 1
    <3>1. list[i] = p BY <1>1, <2>2
    <3>. QED BY <3>1
  <2>3. i \in 1 .. Len(s) \/ i = Len(s) + 1
    <3>1. Len(s) \in Nat OBVIOUS
    <3>. QED BY <1>2, <3>1
  <2>. QED BY <2>1, <2>2, <2>3
<1>4. PICK n \in Nat, k \in Int : n = Len(list) /\ k = cut /\ k = n - MaxSnapshots /\ n <= MaxSnapshots + 1
  <2>1. Len(s) \in Nat /\ Len(list) \in Nat BY <1>2
  <2>. QED BY <1>1, <1>2, <2>1
<1>5. CASE ~(cut > 0)
  <2>1. t = list BY <1>5
  <2>2. n <= MaxSnapshots BY <1>1, <1>4, <1>5
  <2>3. DOMAIN t = 1 .. Len(list) BY <1>2, <2>1
  <2>. QED BY <1>2, <1>3, <1>4, <2>1, <2>2, <2>3
<1>6. CASE cut > 0
  <2>1. t = SubSeq(list, k + 1, n) BY <1>4, <1>6
  <2>2. k > 0 /\ k + 1 \in Nat /\ k + 1 <= n + 1 /\ n - k = MaxSnapshots /\ n - k \in Nat
    BY <1>1, <1>4, <1>6
  <2>3. k \in Nat /\ k <= n /\ n = Len(list)
    <3>1. k \in Int /\ n \in Nat /\ n = Len(list) BY <1>4
    <3>. QED BY <2>2, <3>1
  <2>4. PICK m \in Nat : m = n - k BY <2>2
  <2>5. /\ t \in Seq([Shares -> Int]) /\ Len(t) = m
        /\ \A i \in 1 .. m : i + k \in 1 .. n /\ t[i] = list[i + k]
    <3>1. PICK a \in Int : a = k + 1 BY <2>3
    <3>2. n \in Nat /\ t = SubSeq(list, a, n) BY <1>4, <2>1, <3>1
    <3>3. PICK V : V = [Shares -> Int] OBVIOUS
    <3>4. list \in Seq(V) BY <1>2, <3>3
    <3>5. WithoutFirst(V, list, n, k, t) BY <2>3, <3>1, <3>2, <3>4, TailOf
    <3>. QED BY <2>4, <3>3, <3>5 DEF WithoutFirst
  <2>6. DOMAIN t = 1 .. m BY <2>5
  <2>7. \A i \in DOMAIN t : Hundred(t[i]) BY <1>3, <1>4, <2>5, <2>6
  <2>8. m = MaxSnapshots BY <2>2, <2>4
  <2>9. Len(t) <= MaxSnapshots BY <1>1, <2>5, <2>8
  <2>. QED BY <2>5, <2>7, <2>9
<1>. QED BY <1>5, <1>6

LEMMA SnapshotHolds == ASSUME DnaInv, D!TakeSnapshot PROVE DnaInv'
<1>1. DnaTyped /\ WeekOK /\ dWeek \in DnaWork /\ dWeek.user # None BY DEF DnaInv, DnaTyped, D!TakeSnapshot
<1>2. PICK u \in Souls : u = dWeek.user BY <1>1 DEF DnaWork
<1>3. PICK e : e = dWeek.doc OBVIOUS
<1>4. WholeDna(e) /\ e \in DnaDoc /\ dDoc[u].there /\ e.weeks = dDoc[u].weeks
  BY <1>1, <1>2, <1>3 DEF WeekOK, WholeDna
<1>5. SoulOK(u) /\ WholeDna(dDoc[u]) /\ dDoc[u] \in DnaDoc /\ dDoc[u].weeks = dVisits[u] /\ e.weeks \in Nat
  BY <1>4, DnaFields DEF DnaInv, SoulOK, WholeDna
<1>6. PICK list : list = Append(e.snapshots, e.strands) OBVIOUS
<1>7. PICK t : t = (IF Len(list) - MaxSnapshots > 0 THEN SubSeq(list, Len(list) - MaxSnapshots + 1, Len(list)) ELSE list)
  OBVIOUS
<1>8. /\ t \in Seq([Shares -> Int]) /\ Len(t) <= MaxSnapshots /\ \A i \in DOMAIN t : Hundred(t[i])
  <2>1. PICK cut : cut = Len(list) - MaxSnapshots OBVIOUS
  <2>2. t = (IF cut > 0 THEN SubSeq(list, cut + 1, Len(list)) ELSE list) BY <1>7, <2>1
  <2>3. e.snapshots \in Seq([Shares -> Int]) BY <1>4, DnaFields
  <2>4. Len(e.snapshots) <= MaxSnapshots /\ Hundred(e.strands) /\ \A i \in DOMAIN e.snapshots : Hundred(e.snapshots[i])
    BY <1>4 DEF WholeDna
  <2>. QED BY <1>6, <2>1, <2>2, <2>3, <2>4, SnapshotsKept
<1>9. PICK n \in Nat : n = e.weeks + 1 BY <1>5
<1>10. PICK d : d = [dDoc[u] EXCEPT !.weeks = n, !.snapshots = t] OBVIOUS
<1>11. /\ d \in DnaDoc /\ d.raw = dDoc[u].raw /\ d.total = dDoc[u].total /\ d.strands = dDoc[u].strands
       /\ d.snapshots = t /\ d.weeks = n /\ d.there
  BY <1>4, <1>5, <1>8, <1>10 DEF DnaDoc
<1>12. WholeDna(d) BY <1>5, <1>8, <1>11 DEF WholeDna
<1>13. dDoc' = [dDoc EXCEPT ![u] = d]
  <2>1. dDoc' = [dDoc EXCEPT ![u].weeks = n, ![u].snapshots = t]
    BY <1>2, <1>3, <1>6, <1>7, <1>9 DEF D!TakeSnapshot
  <2>2. dDoc \in [Souls -> DnaDoc] BY <1>1 DEF DnaTyped
  <2>. QED BY <1>10, <2>1, <2>2
<1>14. dDoc' \in [Souls -> DnaDoc] /\ dDoc'[u] = d /\ \A w \in Souls \ {u} : dDoc'[w] = dDoc[w]
  BY <1>1, <1>11, <1>13 DEF DnaTyped
<1>15. /\ UNCHANGED dJob /\ UNCHANGED dCalls /\ UNCHANGED dWeeks /\ UNCHANGED dStale /\ UNCHANGED dTwins
       /\ dVisits' = [dVisits EXCEPT ![u] = @ + 1]
  BY <1>2 DEF D!TakeSnapshot
<1>16. dVisits' \in [Souls -> Nat] /\ dVisits'[u] = n /\ \A w \in Souls \ {u} : dVisits'[w] = dVisits[w]
  BY <1>1, <1>4, <1>5, <1>9, <1>15 DEF DnaTyped
<1>17. dWeek' \in DnaWork /\ WeekOK'
  <2>1. dWeek' = [dWeek EXCEPT !.user = None, !.doc = D!NoDoc] BY DEF D!TakeSnapshot
  <2>2. D!NoDoc \in DnaDoc BY DnaNew DEF WholeDna
  <2>3. dWeek' \in DnaWork /\ dWeek'.user = None /\ dWeek'.left = dWeek.left BY <1>1, <2>1, <2>2 DEF DnaWork
  <2>4. dWeek.left \subseteq Souls BY <1>1 DEF DnaWork
  <2>5. \A w \in dWeek.left : dDoc'[w].there BY <1>1, <1>11, <1>14, <2>4 DEF WeekOK
  <2>. QED BY <2>3, <2>5 DEF WeekOK
<1>18. DnaTyped' BY <1>1, <1>14, <1>15, <1>16, <1>17 DEF DnaTyped
<1>19. D!TwinsOnce' BY <1>15 DEF DnaInv, D!TwinsOnce
<1>20. ASSUME NEW w \in Souls PROVE SoulOK(w)'
  <2>1. SoulOK(w) BY DEF DnaInv
  <2>2. CASE w # u BY <1>14, <1>15, <1>16, <2>1, <2>2 DEF SoulOK, Settles
  <2>3. CASE w = u
    <3>1. D!Strands(d) = D!Strands(dDoc[u]) BY <1>11 DEF D!Strands
    <3>2. Settles(w)' BY <1>11, <1>14, <1>15, <2>1, <2>3, <3>1 DEF SoulOK, Settles
    <3>. QED BY <1>11, <1>12, <1>14, <1>16, <2>3, <3>2 DEF SoulOK
  <2>. QED BY <2>2, <2>3
<1>21. ASSUME NEW h \in Requests PROVE CounterOK(dJob'[h], dDoc')
  <2>1. CounterOK(dJob[h], dDoc) BY DEF DnaInv
  <2>2. CASE dJob[h].user = u BY <1>4, <1>11, <1>14, <1>15, <2>1, <2>2 DEF CounterOK
  <2>3. CASE dJob[h].user # u BY <1>14, <1>15, <2>1, <2>3 DEF CounterOK
  <2>. QED BY <2>2, <2>3
<1>. QED BY <1>17, <1>18, <1>19, <1>20, <1>21 DEF DnaInv

-----------------------------------------------------------------------------
LEMMA DnaBegun == ASSUME D!Fresh, dCalls \in 0 .. MaxDnaCalls, dWeeks \in 0 .. MaxWeeks PROVE DnaInv
<1>1. /\ dDoc = [u \in Souls |-> D!NoDoc] /\ dJob = [h \in Requests |-> D!Idle] /\ dWeek = D!Resting
      /\ dVisits = [u \in Souls |-> 0] /\ dStale = {}
      /\ dTwins = [user |-> None, times |-> [u \in Souls |-> 0]]
  BY DEF D!Fresh
<1>2. /\ WholeDna(D!NoDoc) /\ D!NoDoc \in DnaDoc /\ D!NoDoc.total = 0 /\ D!NoDoc.weeks = 0
      /\ D!Idle \in DnaCall /\ D!Idle.pc = "idle" /\ D!Resting \in DnaWork
  BY DnaNew DEF WholeDna
<1>3. DnaTyped BY <1>1, <1>2 DEF DnaTyped
<1>4. dWeek.left = {} /\ dWeek.user = None BY <1>1 DEF D!Resting
<1>5. WeekOK BY <1>4 DEF WeekOK
<1>6. D!TwinsOnce BY <1>1, DnaFacts DEF D!TwinsOnce
<1>7. \A u \in Souls : SoulOK(u) BY <1>1, <1>2 DEF SoulOK, Settles
<1>8. \A h \in Requests : CounterOK(dJob[h], dDoc) BY <1>1, <1>2 DEF CounterOK
<1>. QED BY <1>3, <1>5, <1>6, <1>7, <1>8 DEF DnaInv

LEMMA DnaStep == ASSUME DnaInv, D!Next \/ UNCHANGED ofDna PROVE DnaInv'
<1>1. ASSUME NEW h \in Requests, NEW u \in Souls, D!FindTwins(h, u) \/ D!GetOrCreate(h, u) PROVE DnaInv'
  BY <1>1, FindHolds, GetHolds
<1>2. ASSUME NEW h \in Requests, NEW v \in D!V, D!AddRaw(h, v) PROVE DnaInv'
  BY <1>2, AddHolds
<1>3. ASSUME NEW h \in Requests,
             D!InsertDna(h) \/ D!StoreStrands(h) \/ D!ReadLatest(h) \/ D!TopUp(h) \/ D!BreakOff(h)
      PROVE  DnaInv'
  BY <1>3, InsertHolds, StoreHolds, LatestHolds, TopUpHolds, DnaBreaks
<1>4. CASE D!WeekBegins \/ (\E u \in Souls : D!WeekRead(u)) \/ D!TakeSnapshot
  BY <1>4, WeekHolds, SnapshotHolds
<1>5. CASE UNCHANGED ofDna
  <2>1. /\ UNCHANGED dDoc /\ UNCHANGED dJob /\ UNCHANGED dWeek /\ UNCHANGED dCalls /\ UNCHANGED dWeeks
        /\ UNCHANGED dVisits /\ UNCHANGED dStale /\ UNCHANGED dTwins
    BY <1>5 DEF ofDna
  <2>2. DnaTyped' /\ WeekOK' BY <2>1 DEF DnaInv, DnaTyped, WeekOK
  <2>3. D!TwinsOnce' BY <2>1 DEF DnaInv, D!TwinsOnce
  <2>4. \A u \in Souls : SoulOK(u)' BY <2>1 DEF DnaInv, SoulOK, Settles
  <2>5. \A h \in Requests : CounterOK(dJob'[h], dDoc') BY <2>1 DEF DnaInv
  <2>. QED BY <2>2, <2>3, <2>4, <2>5 DEF DnaInv
<1>. QED BY <1>1, <1>2, <1>3, <1>4, <1>5 DEF D!Next

LEMMA DnaTrue == ASSUME DnaInv PROVE D!TypeOK /\ D!StrandsSettle /\ D!TwinsOnce
<1>1. DnaTyped /\ D!TwinsOnce /\ dWeek.left \subseteq Souls BY DEF DnaInv, DnaTyped, DnaWork
<1>2. \A u \in Souls : WholeDna(dDoc[u]) /\ dDoc[u] \in DnaDoc BY DEF DnaInv, SoulOK, WholeDna
<1>3. \A u \in Souls : /\ dDoc[u].raw \in [D!V -> Nat] /\ Len(dDoc[u].snapshots) <= MaxSnapshots
                       /\ dDoc[u].dominant \in D!V
  BY <1>2, DnaFields, DnaFacts DEF WholeDna
<1>4. \A h \in Requests : dJob[h].tries \in 0 .. MaxRecounts BY <1>1, DnaCallFields DEF DnaTyped
<1>5. D!TypeOK BY <1>1, <1>3, <1>4 DEF D!TypeOK, DnaTyped
<1>6. D!StrandsSettle
  <2>. SUFFICES ASSUME NEW u \in Souls
                PROVE  /\ dDoc[u].total = D!Sum(dDoc[u].raw)
                       /\ (D!Counting(u) = {} /\ u \notin dStale /\ dDoc[u].total > 0)
                            => dDoc[u].strands = D!Strands(dDoc[u])
                       /\ \A p \in {dDoc[u].strands} \cup D!ToSet(dDoc[u].snapshots) : D!Sum(p) = 100
                       /\ dDoc[u].weeks = dVisits[u]
    BY DEF D!StrandsSettle
  <2>1. SoulOK(u) /\ WholeDna(dDoc[u]) BY <1>2 DEF DnaInv
  <2>2. ASSUME D!Counting(u) = {}, u \notin dStale, dDoc[u].total > 0
        PROVE  dDoc[u].strands = D!Strands(dDoc[u])
    <3>1. \A h \in Requests : ~Recounts(dJob[h], u) BY <2>2 DEF D!Counting, Recounts
    <3>. QED BY <2>1, <2>2, <3>1 DEF SoulOK, Settles
  <2>3. \A p \in D!ToSet(dDoc[u].snapshots) : D!Sum(p) = 100
    BY <2>1 DEF D!ToSet, WholeDna, Hundred
  <2>4. D!Sum(dDoc[u].strands) = 100 /\ dDoc[u].total = D!Sum(dDoc[u].raw) /\ dDoc[u].weeks = dVisits[u]
    BY <2>1 DEF SoulOK, WholeDna, Hundred
  <2>. QED BY <2>2, <2>3, <2>4
<1>. QED BY <1>1, <1>5, <1>6

LEMMA DnaAlways == MCSpec => []DnaInv
<1>1. MCInit => DnaInv
  <2>1. CASE DnaStart
    <3>1. D!Fresh /\ ((dCalls = MaxDnaCalls - 2 /\ dWeeks = 0) \/ (dCalls = 0 /\ dWeeks = MaxWeeks))
      BY <2>1, Zenon DEF DnaStart
    <3>2. dCalls \in 0 .. MaxDnaCalls /\ dWeeks \in 0 .. MaxWeeks BY <3>1, DnaFacts
    <3>. QED BY <3>1, <3>2, DnaBegun
  <2>2. CASE D!Init
    <3>1. D!Fresh /\ dCalls = 0 /\ dWeeks = 0 BY <2>2 DEF D!Init
    <3>2. dCalls \in 0 .. MaxDnaCalls /\ dWeeks \in 0 .. MaxWeeks BY <3>1, DnaFacts
    <3>. QED BY <3>1, <3>2, DnaBegun
  <2>. QED BY <2>1, <2>2 DEF MCInit
<1>2. DnaInv /\ [MCNext]_<<part, ofToggles, ofPosts, ofReels, ofChains, ofScores, ofDna,
                           ofRoulette, ofEgo, ofTaste, ofFeeds>> => DnaInv'
  BY DnaStep DEF MCNext, Rest
<1>. QED BY <1>1, <1>2, PTL DEF MCSpec

\* Signals are added while the shares of those before are worked out, stored or given up:
\* a user's total is the sum of his signals, his shares, and those of every snapshot, add up
\* to a hundred whatever is rounded, and they are those of his signals once nobody has still
\* to recount them and none has given up; every visit of the weekly job leaves one snapshot;
\* and nobody is found as a twin twice, or as his own (recordSignal, recalcStrands,
\* runWeeklyComputation, findTwins).
THEOREM SharesHeld == MCSpec => []DnaSettles
<1>1. DnaInv => DnaSettles BY DnaTrue DEF DnaSettles
<1>. QED BY <1>1, DnaAlways, PTL
=============================================================================
