---------------------------------- MODULE Dna ----------------------------------
(* The social DNA of the users (socialdna.cc): raw signals are added atomically     *)
(* and their shares then worked out and stored under the total they were worked     *)
(* out of; a weekly job takes snapshots; SocialDNAController looks for twins.       *)
EXTENDS Integers, Sequences, FiniteSets, SequencesExt, FiniteSetsExt

CONSTANTS
  Souls,          \* users
  Vibes,          \* kVibeList, a sequence
  Hands,          \* handlers
  None,
  MaxRecounts,    \* eight, in recordSignal
  MaxSnapshots,   \* 52
  MinSignals,     \* kMinSignalsForMatch
  MaxTwins,       \* the limit of findTwins, at most kMaxTwinsReturned
  MaxDnaCalls,    \* bound: calls
  MaxWeeks        \* bound: runs of the weekly job

\* Nobody's name is nothing, the shares of a new document add up, and at least one
\* recount is made.
DnaAssumption ==
  /\ None \notin Souls /\ 100 % Len(Vibes) = 0
  /\ MaxRecounts \in Nat \ {0} /\ MaxSnapshots \in Nat
  /\ MaxDnaCalls \in Nat /\ MaxWeeks \in Nat

VARIABLES
  dDoc,           \* the collection, one document per user
  dJob,           \* handlers
  dWeek,          \* the weekly job: the users it has still to visit, and the one it is at
  dCalls,         \* what MaxDnaCalls bounds
  dWeeks,         \* what MaxWeeks bounds
  dVisits,        \* history: for each user, snapshots taken
  dStale,         \* history: users whose last recount was given up or broke off
  dTwins          \* history: the last answer of findTwins

dnaVars == <<dDoc, dJob, dWeek, dCalls, dWeeks, dVisits, dStale, dTwins>>

V == DOMAIN Vibes
Even == [v \in V |-> 100 \div Len(Vibes)]
NewDoc == [there |-> TRUE, raw |-> [v \in V |-> 0], total |-> 0, strands |-> Even,
           dominant |-> 1, snapshots |-> <<>>, weeks |-> 0]
NoDoc == [NewDoc EXCEPT !.there = FALSE]
Idle == [pc |-> "idle", user |-> None, vibe |-> 1, doc |-> NoDoc, tries |-> 0, found |-> {}]
Resting == [left |-> {}, user |-> None, doc |-> NoDoc]
At(h, pc) == dJob[h].pc = pc

-----------------------------------------------------------------------------
(* recalcStrands.                                                               *)
Sum(p) == FoldFunctionOnSet(LAMBDA a, b : a + b, 0, p, V)
Percent(raw, total) == (200 * raw + total) \div (2 * total)   \* rounded, halves up
\* The two reductions differ in what they do with equals: > moves on, >= stays.
Highest(p) == Max({v \in V : \A w \in V : p[v] >= p[w]})
FirstHighest(p) == Min({v \in V : \A w \in V : p[v] >= p[w]})

\* Mutant: what rounding leaves over is not given to anybody.
StrandsRounded(doc) ==
  LET total == IF doc.total = 0 THEN 1 ELSE doc.total IN
  [v \in V |-> Percent(doc.raw[v], total)]

\* Shares in percent; what rounding leaves over goes to the dominant one.
Strands(doc) ==
  LET total == IF doc.total = 0 THEN 1 ELSE doc.total
      p == [v \in V |-> Percent(doc.raw[v], total)]
      top == Highest(p) IN
  [p EXCEPT ![top] = p[top] + 100 - Sum(p)]

-----------------------------------------------------------------------------
(* recordSignal.                                                                *)
Begin(h, pc, u) ==
  /\ At(h, "idle")
  /\ dCalls < MaxDnaCalls
  /\ dCalls' = dCalls + 1
  /\ dJob' = [dJob EXCEPT ![h] = [Idle EXCEPT !.pc = pc, !.user = u]]

\* The document is made if there is none.  A second insert breaks the unique index,
\* which nobody catches: the call fails and its signal is lost.
GetOrCreate(h, u) ==
  /\ Begin(h, IF dDoc[u].there THEN "add" ELSE "insert", u)
  /\ UNCHANGED <<dDoc, dWeek, dWeeks, dVisits, dStale, dTwins>>
InsertDna(h) ==
  LET u == dJob[h].user IN
  /\ At(h, "insert")
  /\ IF dDoc[u].there
     THEN dJob' = [dJob EXCEPT ![h] = Idle] /\ UNCHANGED dDoc
     ELSE dJob' = [dJob EXCEPT ![h].pc = "add"] /\ dDoc' = [dDoc EXCEPT ![u] = NewDoc]
  /\ UNCHANGED <<dWeek, dCalls, dWeeks, dVisits, dStale, dTwins>>

\* One update, which answers the document it has made.
AddRaw(h, vibe) ==
  LET u == dJob[h].user
      doc == [dDoc[u] EXCEPT !.raw = [dDoc[u].raw EXCEPT ![vibe] = @ + 1], !.total = @ + 1] IN
  /\ At(h, "add")
  /\ dDoc' = [dDoc EXCEPT ![u] = doc]
  /\ dJob' = [dJob EXCEPT ![h].pc = "store", ![h].vibe = vibe, ![h].doc = doc]
  /\ UNCHANGED <<dWeek, dCalls, dWeeks, dVisits, dStale, dTwins>>

\* Mutant: the shares are stored whatever has been added since.
SameTotalAny(u, doc) == dDoc[u].there
SameTotal(u, doc) == dDoc[u].total = doc.total

StoreStrands(h) ==
  LET u == dJob[h].user
      strands == Strands(dJob[h].doc) IN
  /\ At(h, "store")
  /\ IF SameTotal(u, dJob[h].doc)
     THEN /\ dDoc' = [dDoc EXCEPT ![u].strands = strands, ![u].dominant = FirstHighest(strands)]
          /\ dStale' = dStale \ {u}
          /\ dJob' = [dJob EXCEPT ![h] = Idle]
     ELSE /\ dStale' = IF dJob[h].tries + 1 = MaxRecounts THEN dStale \cup {u} ELSE dStale
          /\ dJob' = [dJob EXCEPT ![h].pc = "again", ![h].tries = @ + 1]
          /\ UNCHANGED dDoc
  /\ UNCHANGED <<dWeek, dCalls, dWeeks, dVisits, dTwins>>

\* The latest document, and once more from there, eight times in all.
ReadLatest(h) ==
  /\ At(h, "again")
  /\ dJob' = [dJob EXCEPT ![h] = IF dJob[h].tries = MaxRecounts THEN Idle
                                 ELSE [dJob[h] EXCEPT !.pc = "store", !.doc = dDoc[dJob[h].user]]]
  /\ UNCHANGED <<dDoc, dWeek, dCalls, dWeeks, dVisits, dStale, dTwins>>

-----------------------------------------------------------------------------
(* findTwins.                                                                   *)
Mature(u) == dDoc[u].there /\ dDoc[u].total >= MinSignals

\* Users of the same dominant vibe first.
FindTwins(h, u) ==
  /\ Mature(u)
  /\ At(h, "idle") /\ dCalls < MaxDnaCalls
  /\ dCalls' = dCalls + 1
  /\ dJob' = [dJob EXCEPT ![h] = [Idle EXCEPT !.pc = "twins", !.user = u,
       !.found = {w \in Souls \ {u} : Mature(w) /\ dDoc[w].dominant = dDoc[u].dominant}]]
  /\ UNCHANGED <<dDoc, dWeek, dWeeks, dVisits, dStale, dTwins>>

\* Mutant: users found the first time are found again.
NewOnesAll(found, more) == more
NewOnes(found, more) == more \ found

\* Fewer than wanted: any mature users, less those that were found before.  The
\* best matches of all that were found are answered.
TopUp(h) ==
  LET q == dJob[h]
      more == IF Cardinality(q.found) >= MaxTwins THEN {}
              ELSE NewOnes(q.found, {w \in Souls \ {q.user} : Mature(w)}) IN
  /\ At(h, "twins")
  /\ dTwins' = [user |-> q.user, times |-> [w \in Souls |->
                   (IF w \in q.found THEN 1 ELSE 0) + (IF w \in more THEN 1 ELSE 0)]]
  /\ dJob' = [dJob EXCEPT ![h] = Idle]
  /\ UNCHANGED <<dDoc, dWeek, dCalls, dWeeks, dVisits, dStale>>

-----------------------------------------------------------------------------
(* runWeeklyComputation.                                                        *)
WeekBegins ==
  /\ dWeek = Resting
  /\ dWeeks < MaxWeeks
  /\ dWeeks' = dWeeks + 1
  /\ dWeek' = [Resting EXCEPT !.left = {u \in Souls : dDoc[u].there /\ dDoc[u].total >= 1}]
  /\ UNCHANGED <<dDoc, dJob, dCalls, dVisits, dStale, dTwins>>

\* The next document, as it was when its batch was read.
WeekRead(u) ==
  /\ dWeek.user = None
  /\ u \in dWeek.left
  /\ dWeek' = [dWeek EXCEPT !.user = u, !.doc = dDoc[u], !.left = @ \ {u}]
  /\ UNCHANGED <<dDoc, dJob, dCalls, dWeeks, dVisits, dStale, dTwins>>

\* Only the fields that nobody else writes are stored.
TakeSnapshot ==
  LET u == dWeek.user
      list == Append(dWeek.doc.snapshots, dWeek.doc.strands)
      cut == Len(list) - MaxSnapshots IN
  /\ u # None
  /\ dDoc' = [dDoc EXCEPT ![u].weeks = dWeek.doc.weeks + 1,
                ![u].snapshots = IF cut > 0 THEN SubSeq(list, cut + 1, Len(list)) ELSE list]
  /\ dWeek' = [dWeek EXCEPT !.user = None, !.doc = NoDoc]
  /\ dVisits' = [dVisits EXCEPT ![u] = @ + 1]
  /\ UNCHANGED <<dJob, dCalls, dWeeks, dStale, dTwins>>

-----------------------------------------------------------------------------
\* The process dies, or a command throws, between two commands.
BreakOff(h) ==
  /\ ~At(h, "idle")
  /\ dJob' = [dJob EXCEPT ![h] = Idle]
  /\ dStale' = IF At(h, "store") \/ At(h, "again") THEN dStale \cup {dJob[h].user} ELSE dStale
  /\ UNCHANGED <<dDoc, dWeek, dCalls, dWeeks, dVisits, dTwins>>

Fresh ==
  /\ dDoc = [u \in Souls |-> NoDoc]
  /\ dJob = [h \in Hands |-> Idle]
  /\ dWeek = Resting
  /\ dVisits = [u \in Souls |-> 0]
  /\ dStale = {}
  /\ dTwins = [user |-> None, times |-> [u \in Souls |-> 0]]

Init == Fresh /\ dCalls = 0 /\ dWeeks = 0

Next ==
  \/ \E h \in Hands, u \in Souls : FindTwins(h, u) \/ GetOrCreate(h, u)
  \/ \E h \in Hands, vibe \in V : AddRaw(h, vibe)
  \/ \E h \in Hands : InsertDna(h) \/ StoreStrands(h) \/ ReadLatest(h) \/ TopUp(h) \/ BreakOff(h)
  \/ WeekBegins \/ (\E u \in Souls : WeekRead(u)) \/ TakeSnapshot

Spec == Init /\ [][Next]_dnaVars

-----------------------------------------------------------------------------
TypeOK ==
  /\ \A u \in Souls : /\ dDoc[u].raw \in [V -> Nat]
                      /\ Len(dDoc[u].snapshots) <= MaxSnapshots
                      /\ dDoc[u].dominant \in V
  /\ \A h \in Hands : dJob[h].tries \in 0 .. MaxRecounts
  /\ dWeek.left \subseteq Souls
  /\ dCalls \in 0 .. MaxDnaCalls /\ dWeeks \in 0 .. MaxWeeks
  /\ dStale \subseteq Souls

Counting(u) == {h \in Hands : dJob[h].user = u /\ dJob[h].pc \in {"store", "again"}}

\* Signals are added while shares of the ones before are worked out: with no recount
\* under way, and none given up since the last that was stored, the shares kept are
\* those of the signals, and always, snapshots included, they add up to a hundred.
StrandsSettle ==
  \A u \in Souls :
    /\ dDoc[u].total = Sum(dDoc[u].raw)
    /\ (Counting(u) = {} /\ u \notin dStale /\ dDoc[u].total > 0)
         => dDoc[u].strands = Strands(dDoc[u])
    /\ \A p \in {dDoc[u].strands} \cup ToSet(dDoc[u].snapshots) : Sum(p) = 100
    /\ dDoc[u].weeks = dVisits[u]

\* Two queries find a user's twins while others mature and change their vibe: nobody
\* is found twice, and nobody is his own twin.
TwinsOnce == \A u \in Souls : dTwins.times[u] <= IF u = dTwins.user THEN 0 ELSE 1
=============================================================================
