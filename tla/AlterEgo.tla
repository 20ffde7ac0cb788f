------------------------------- MODULE AlterEgo -------------------------------
(* A user's alter ego, which answers for him: models/alterego.cc, the handlers   *)
(* of AlterEgoController and the providers behind generateAIResponse.  Each       *)
(* handler reads the ego first and writes later; some write one field from what   *)
(* they read, some have MongoDB count.  A field of the training is filled or      *)
(* blank; a trigger is the set of its pieces, and contains another's.             *)
EXTENDS Integers, Sequences, FiniteSets, SequencesExt

CONSTANTS
  Requests,       \* handlers of the user's requests
  LevelFields,    \* of the training, those computeTrainingLevel counts
  OtherFields,    \* the rest: phrases, emojis
  Pieces,         \* triggers are made of
  MaxLog,         \* activities kept (kMaxActivityLog)
  MaxPatterns,    \* patterns kept (kMaxResponsePatterns)
  MaxEgoCalls     \* bound: requests begun

VARIABLES
  eDoc,      \* the user's document in alteregos
  eReq,      \* handlers
  eCalls,    \* requests begun
  eDone      \* history: what the requests that came to their end had done

eVars == <<eDoc, eReq, eCalls, eDone>>

Fields == LevelFields \cup OtherFields
Triggers == SUBSET Pieces \ {{}}
Ops == {"me", "update", "train", "generate", "toggle", "learn", "guess"}
\* buildNewEgoDoc.
NewEgo == [there |-> TRUE, active |-> FALSE, training |-> {}, level |-> 0, patterns |-> <<>>,
           replies |-> 0, log |-> <<>>, games |-> 0, correct |-> 0, fooled |-> 0]
NoEgo == [NewEgo EXCEPT !.there = FALSE]
\* was: the document as it was read; with: what the request brings.
Idle == [pc |-> "idle", op |-> "me", id |-> 0, was |-> NoEgo, given |-> {}, filled |-> {},
         trigger |-> {}, yes |-> FALSE]
Nothing == [replies |-> <<>>, correct |-> 0, fooled |-> 0, learnt |-> 0,
            trains |-> FALSE, learns |-> FALSE, cut |-> FALSE, lost |-> {}]

At(r, pc) == eReq[r].pc = pc
\* Another handler of the same kind is under way.
Busy(r, op) == \E o \in Requests \ {r} : eReq[o].op = op /\ eReq[o].pc # "idle"
End(r) == eReq' = [eReq EXCEPT ![r] = Idle]

-----------------------------------------------------------------------------
(* How a request begins: findEgoByUser, and the answers that need no more.       *)
Begin(r, q) ==
  /\ eCalls < MaxEgoCalls /\ At(r, "idle")
  /\ eCalls' = eCalls + 1
  /\ eReq' = [eReq EXCEPT ![r] = q]
  /\ eDone' = [eDone EXCEPT !.trains = @ \/ (q.op = "train" /\ Busy(r, "train")),
                            !.learns = @ \/ (q.op = "learn" /\ Busy(r, "learn"))]
  /\ UNCHANGED eDoc
Asked(op) == [Idle EXCEPT !.op = op, !.id = eCalls + 1]

\* getOrCreate.
GetMyEgo(r) == ~eDoc.there /\ Begin(r, [Asked("me") EXCEPT !.pc = "insert"])
Update(r) ==
  /\ eDoc.there
  /\ \E yes \in BOOLEAN : Begin(r, [Asked("update") EXCEPT !.pc = "write", !.yes = yes])
Train(r) ==
  /\ eDoc.there
  /\ \E given \in SUBSET Fields \ {{}} : \E filled \in {{}, given} :
       Begin(r, [Asked("train") EXCEPT !.pc = "read", !.given = given, !.filled = filled])
Generate(r) == eDoc.there /\ Begin(r, [Asked("generate") EXCEPT !.pc = "ask"])
\* An ego that is off is turned on when it was trained a little.
Toggle(r) ==
  /\ eDoc.there /\ (eDoc.active \/ eDoc.level >= 1)
  /\ Begin(r, [Asked("toggle") EXCEPT !.pc = "write", !.yes = ~eDoc.active])
Learn(r) ==
  /\ eDoc.there
  /\ \E t \in Triggers : Begin(r, [Asked("learn") EXCEPT !.pc = "read", !.trigger = t])
Guess(r) ==
  /\ eDoc.there
  /\ \E yes \in BOOLEAN : Begin(r, [Asked("guess") EXCEPT !.pc = "write", !.yes = yes])

-----------------------------------------------------------------------------
\* The unique index lets one of two inserts in; the other reads what it put there.
InsertEgo(r) ==
  /\ At(r, "insert")
  /\ eDoc' = IF eDoc.there THEN eDoc ELSE NewEgo
  /\ End(r)
  /\ UNCHANGED <<eCalls, eDone>>

\* updateTraining and learnFromUser read the document again.
ReadAgain(r) ==
  /\ At(r, "read")
  /\ eReq' = [eReq EXCEPT ![r].pc = "write", ![r].was = eDoc]
  /\ UNCHANGED <<eDoc, eCalls, eDone>>

\* generateAIResponse: Gemini, or, where it has no key or fails, OpenAI, or a template.
AskGemini(r) ==
  /\ At(r, "ask")
  /\ \E pc \in {"write", "askOpenAI"} : eReq' = [eReq EXCEPT ![r].pc = pc]
  /\ UNCHANGED <<eDoc, eCalls, eDone>>
AskOpenAI(r) ==
  /\ At(r, "askOpenAI")
  /\ \E pc \in {"write", "template"} : eReq' = [eReq EXCEPT ![r].pc = pc]
  /\ UNCHANGED <<eDoc, eCalls, eDone>>
TemplateResponse(r) ==
  /\ At(r, "template")
  /\ eReq' = [eReq EXCEPT ![r].pc = "write"]
  /\ UNCHANGED <<eDoc, eCalls, eDone>>

\* PUT takes any isActive; the level is not asked for.
WriteUpdate(r) ==
  /\ At(r, "write") /\ eReq[r].op \in {"update", "toggle"}
  /\ eDoc' = [eDoc EXCEPT !.active = eReq[r].yes]
  /\ End(r)
  /\ UNCHANGED <<eCalls, eDone>>

\* computeTrainingLevel.
Level(training) == Cardinality(training \cap LevelFields)
\* Mutant: the fields that are given and blank stay filled in the level.
TrainedAdding(was, q) ==
  LET merged == (was.training \ q.given) \cup q.filled IN
  [training |-> merged, level |-> Level(was.training \cup q.filled)]
Trained(was, q) ==
  LET merged == (was.training \ q.given) \cup q.filled IN
  [training |-> merged, level |-> Level(merged)]
\* updateTraining sets the training and the level, and nothing else.
WriteTraining(r) ==
  LET q == eReq[r]
      new == Trained(q.was, q) IN
  /\ At(r, "write") /\ q.op = "train"
  /\ eDoc' = [eDoc EXCEPT !.training = new.training, !.level = new.level]
  /\ eDone' = [eDone EXCEPT !.lost = IF eDone.trains THEN @
                 ELSE @ \cup {f \in Fields \ q.given : (f \in eDoc.training) # (f \in new.training)}]
  /\ End(r)
  /\ UNCHANGED eCalls

Recorded(doc, q) ==
  [doc EXCEPT !.replies = @ + 1,
              !.log = SubSeq(<<q.id>> \o @, 1, IF Len(@) < MaxLog THEN Len(@) + 1 ELSE MaxLog)]
\* recordReply: one update counts, and pushes at the front of the log.
RecordReply(r) ==
  LET q == eReq[r] IN
  /\ At(r, "write") /\ q.op = "generate"
  /\ eDoc' = Recorded(eDoc, q)
  /\ eDone' = [eDone EXCEPT !.replies = <<q.id>> \o @]
  /\ End(r)
  /\ UNCHANGED eCalls

\* recordGuessResult.
RecordGuess(r) ==
  LET yes == eReq[r].yes IN
  /\ At(r, "write") /\ eReq[r].op = "guess"
  /\ eDoc' = [eDoc EXCEPT !.games = @ + 1, !.correct = IF yes THEN @ + 1 ELSE @,
                          !.fooled = IF yes THEN @ ELSE @ + 1]
  /\ eDone' = [eDone EXCEPT !.correct = IF yes THEN @ + 1 ELSE @,
                            !.fooled = IF yes THEN @ ELSE @ + 1]
  /\ End(r)
  /\ UNCHANGED eCalls

\* learnFromUser: the first pattern whose trigger contains the new one is counted
\* again, or a pattern added; the most frequent come first, and the rest is cut.
Counted(patterns, t) ==
  IF \E i \in DOMAIN patterns : t \subseteq patterns[i].trigger
  THEN LET first == CHOOSE i \in DOMAIN patterns :
                      /\ t \subseteq patterns[i].trigger
                      /\ \A j \in 1 .. i - 1 : ~(t \subseteq patterns[j].trigger) IN
       [patterns EXCEPT ![first].frequency = @ + 1]
  ELSE Append(patterns, [trigger |-> t, frequency |-> 1])
\* A stable sort, down the frequency.
Ordered(patterns) ==
  LET Before(i, j) == \/ patterns[i].frequency > patterns[j].frequency
                      \/ patterns[i].frequency = patterns[j].frequency /\ i < j
      order == SetToSortSeq(DOMAIN patterns, Before) IN
  [i \in DOMAIN patterns |-> patterns[order[i]]]
Kept(patterns) ==
  SubSeq(Ordered(patterns), 1, IF Len(patterns) < MaxPatterns THEN Len(patterns) ELSE MaxPatterns)
LearnFromUser(r) ==
  LET new == Counted(eReq[r].was.patterns, eReq[r].trigger) IN
  /\ At(r, "write") /\ eReq[r].op = "learn"
  /\ eDoc' = [eDoc EXCEPT !.patterns = Kept(new)]
  /\ eDone' = [eDone EXCEPT !.learnt = @ + 1, !.cut = @ \/ Len(new) > MaxPatterns]
  /\ End(r)
  /\ UNCHANGED eCalls

\* MongoDB fails, or the request's process ends.
Fails(r) ==
  /\ eReq[r].pc # "idle"
  /\ End(r)
  /\ UNCHANGED <<eDoc, eCalls, eDone>>

-----------------------------------------------------------------------------
Begun(doc) ==
  /\ eDoc = doc
  /\ eReq = [r \in Requests |-> Idle]
  /\ eCalls = 0
  /\ eDone = Nothing
Init == Begun(NoEgo)

Next == \E r \in Requests :
  \/ GetMyEgo(r) \/ Update(r) \/ Train(r) \/ Generate(r) \/ Toggle(r) \/ Learn(r) \/ Guess(r)
  \/ InsertEgo(r) \/ ReadAgain(r) \/ AskGemini(r) \/ AskOpenAI(r) \/ TemplateResponse(r)
  \/ WriteUpdate(r) \/ WriteTraining(r) \/ RecordReply(r) \/ RecordGuess(r) \/ LearnFromUser(r)
  \/ Fails(r)

Spec == Init /\ [][Next]_eVars

-----------------------------------------------------------------------------
(* Properties                                                                    *)
Sum(patterns) == FoldLeft(LAMBDA n, p : n + p.frequency, 0, patterns)

TypeOK ==
  /\ eDoc.training \subseteq Fields
  /\ eCalls \in 0 .. MaxEgoCalls
  /\ \A r \in Requests : /\ eReq[r].pc \in {"idle", "insert", "read", "ask", "askOpenAI",
                                            "template", "write"}
                         /\ eReq[r].op \in Ops

\* Whatever overlaps, replies and guesses are counted once each, and the log holds the
\* newest replies; the level is that of the training beside it; patterns are sorted,
\* and no trigger has two.  What overlaps no other of its kind loses nothing: a
\* training leaves the fields alone that it does not give, and while nothing was cut
\* the frequencies add up to what was learnt.
EgoWhole ==
  /\ eDoc.replies = Len(eDone.replies)
  /\ eDoc.log = SubSeq(eDone.replies, 1, IF eDoc.replies < MaxLog THEN eDoc.replies ELSE MaxLog)
  /\ eDoc.correct = eDone.correct /\ eDoc.fooled = eDone.fooled
  /\ eDoc.games = eDoc.correct + eDoc.fooled
  /\ eDoc.level = Level(eDoc.training)
  /\ eDone.lost = {}
  /\ \A i, j \in DOMAIN eDoc.patterns : i < j =>
       /\ eDoc.patterns[i].frequency >= eDoc.patterns[j].frequency
       /\ eDoc.patterns[i].trigger # eDoc.patterns[j].trigger
  /\ ~eDone.learns /\ ~eDone.cut => Sum(eDoc.patterns) = eDone.learnt
=============================================================================
