----------------------------- MODULE ContentProofs -----------------------------
(* Proofs about the components that ContentMC puts together, for every value of  *)
(* the constants its assumptions allow.                                           *)
EXTENDS ContentMC, WellFoundedInduction, FiniteSetTheorems, TLAPS

-----------------------------------------------------------------------------
(* Roulette.                                                                    *)

\* Two users at most.
Few(S) == \E a, b \in Players \cup {None} : S \subseteq {a, b}
Paired(S) == \E a, b \in S : a # b

DocOK(s) ==
  LET d == docs[s] IN
  /\ d.status = "absent" <=> s > made
  /\ d.status = "absent" => d.dies = FALSE
  /\ Few(R!Members(d.dec))
  /\ Paired(R!Members(d.dec)) => d.dies
  /\ d.status \in R!Active \ {"waiting"} => d.dies
  /\ d.status = "waiting" => d.outcome = "none" /\ \E u \in Players : R!Members(d.dec) = {u}
  /\ d.status = "completed" => R!Decided(d.dec) /\ d.outcome = R!OutcomeOf(d.dec)
  /\ \A u \in Players : d.dec[u] = "connect" => <<u, s>> \in connected
  /\ ~alone /\ d.outcome = "mutual_connect" => \A u \in R!Members(d.dec) : <<u, s>> \in connected

\* What a request that has found its document knows of it.
InDoc == {"startChat", "flip", "expire", "record", "write", "follow", "followBack"}
Deciding == {"record", "write"}
Following == {"follow", "followBack"}
AskerKnows(r) ==
  LET q == req[r]
      s == q.sess IN
  /\ q.pc # "idle" => q.user \in Players
  /\ q.pc \in InDoc => s \in R!Sessions /\ s <= made
  /\ q.pc \in {"startChat", "flip"} /\ R!Exists(s) => docs[s].dies
  /\ q.pc \in Deciding =>
       /\ q.choice \in {"connect", "pass"}
       /\ q.choice = "connect" => <<q.user, s>> \in connected
       /\ ~alone => q.other \in Players \ {q.user}
       /\ ~alone /\ R!Exists(s) => R!Members(docs[s].dec) = {q.user, q.other}
  /\ q.pc = "write" =>
       /\ Few(R!Members(q.snap)) /\ q.snap[q.user] = q.choice
       /\ \A u \in Players : q.snap[u] = "connect" => <<u, s>> \in connected
       /\ Paired(R!Members(q.snap)) /\ R!Exists(s) => docs[s].dies
       /\ ~alone => R!Members(q.snap) = {q.user, q.other}
  /\ q.pc \in Following =>
       /\ q.other \in Players
       /\ ~alone => {<<q.user, s>>, <<q.other, s>>} \subseteq connected

OneDoc == \A u \in Players : \A s, t \in R!ActiveOf(u) : s = t
FollowsMeant ==
  ~alone => \A f \in follows : \E s \in R!Sessions : {<<f[1], s>>, <<f[2], s>>} \subseteq connected

RouletteCall == [pc : R!PCs, user : Players \cup {None}, sess : 0 .. MaxSessions, choice : R!Decisions,
         other : Players \cup {None}, snap : [Players -> R!Decisions]]
RouletteStored ==
  /\ docs \in [R!Sessions -> R!Docs]
  /\ req \in [Requests -> RouletteCall]
  /\ made \in 0 .. MaxSessions
  /\ follows \subseteq Players \X Players /\ connected \subseteq Players \X R!Sessions
  /\ decisions \in 0 .. MaxDecisions /\ alone \in BOOLEAN

RouletteInv ==
  /\ RouletteStored /\ OneDoc /\ FollowsMeant
  /\ \A s \in R!Sessions : DocOK(s)
  /\ \A r \in Requests : AskerKnows(r)

LEMMA LeastIn ==
  ASSUME NEW S, S \subseteq Nat, S # {}
  PROVE  R!Min(S) \in S
  <1> DEFINE Less == {ss \in Nat \X Nat : ss[1] < ss[2]}
  <1>1. IsWellFoundedOn(Less, Nat)
    BY NatLessThanWellFounded, Zenon DEF OpToRel
  <1>2. \A x, y \in Nat : <<y, x>> \notin Less => x <= y
    OBVIOUS
  <1> HIDE DEF Less
  <1>3. PICK x \in S : \A y \in S : <<y, x>> \notin Less
    BY <1>1, WFMin
  <1>4. \A y \in S : x <= y
    BY <1>2, <1>3, Zenon
  <1> QED BY <1>4, Zenon DEF R!Min

LEMMA Sizes ==
  /\ \A S : Few(S) => R!Cardinality(S) <= 2
  /\ \A S : Few(S) /\ R!Cardinality(S) = 1 => \E x : S = {x}
  /\ \A x : R!Cardinality({x}) = 1
  <1>1. ASSUME NEW S, Few(S) PROVE IsFiniteSet(S) /\ Cardinality(S) \in Nat /\ Cardinality(S) <= 2
    <2>1. PICK a, b : S \subseteq {a, b}
      BY <1>1 DEF Few
    <2>2. IsFiniteSet({a}) /\ Cardinality({a}) = 1
      BY FS_Singleton
    <2>3. {a} \cup {b} = {a, b}
      OBVIOUS
    <2>4. IsFiniteSet({a, b}) /\ Cardinality({a, b}) <= 2
      <3>1. IsFiniteSet({a} \cup {b}) /\ Cardinality({a} \cup {b}) <= 2
        BY <2>2, FS_AddElement
      <3> QED BY <2>3, <3>1, Zenon
    <2>5. S \in SUBSET {a, b}
      BY <2>1
    <2>6. IsFiniteSet(S) /\ Cardinality(S) <= Cardinality({a, b})
      BY <2>4, <2>5, FS_Subset
    <2>7. Cardinality(S) \in Nat /\ Cardinality({a, b}) \in Nat
      BY <2>4, <2>6, FS_CardinalityType
    <2> QED BY <2>4, <2>6, <2>7
  <1>2. \A x : Cardinality({x}) = 1
    BY FS_Singleton
  <1>3. ASSUME NEW S, Few(S), Cardinality(S) = 1 PROVE \E x : S = {x}
    BY <1>1, <1>3, FS_Singleton
  <1>4. \A S : R!Cardinality(S) = Cardinality(S)
    BY DEF Cardinality, IsFiniteSet, R!Cardinality, R!IsFiniteSet
  <1> QED BY <1>1, <1>2, <1>3, <1>4

LEMMA RouletteFacts ==
  /\ R!Sessions \subseteq Nat \ {0} /\ None \notin Players /\ MaxSessions \in Nat /\ MaxDecisions \in Nat
  BY RouletteBounds DEF R!RouletteAssumption, R!Sessions

LEMMA DocTyped ==
  ASSUME RouletteStored, NEW s \in R!Sessions
  PROVE  /\ docs[s] \in R!Docs /\ docs[s].dec \in [Players -> R!Decisions] /\ docs[s].status \in R!Statuses
         /\ docs[s].outcome \in R!Outcomes /\ docs[s].fresh \in BOOLEAN /\ docs[s].over \in BOOLEAN
         /\ docs[s].dies \in BOOLEAN
  BY DEF RouletteStored, R!Docs

LEMMA AskerTyped ==
  ASSUME RouletteStored, NEW r \in Requests
  PROVE  /\ req[r] \in RouletteCall /\ req[r].pc \in R!PCs /\ req[r].user \in Players \cup {None}
         /\ req[r].sess \in 0 .. MaxSessions /\ req[r].choice \in R!Decisions
         /\ req[r].other \in Players \cup {None} /\ req[r].snap \in [Players -> R!Decisions]
  BY DEF RouletteStored, RouletteCall

\* Where a request goes.
OtherAskers(r) == \A k \in Requests \ {r} : req'[k] = req[k]

LEMMA AskerMoves ==
  ASSUME RouletteStored, NEW r \in Requests, NEW q \in RouletteCall, req' = [req EXCEPT ![r] = q]
  PROVE  req' \in [Requests -> RouletteCall] /\ OtherAskers(r) /\ req'[r] = q
  BY DEF RouletteStored, OtherAskers

LEMMA AskerDone ==
  ASSUME RouletteStored, NEW r \in Requests, R!Done(r)
  PROVE  req' \in [Requests -> RouletteCall] /\ OtherAskers(r) /\ AskerKnows(r)'
  <1>1. R!Idle \in RouletteCall
    BY RouletteFacts DEF R!Idle, RouletteCall, R!PCs, R!Decisions
  <1>2. req' \in [Requests -> RouletteCall] /\ OtherAskers(r) /\ req'[r] = R!Idle
    BY <1>1, AskerMoves DEF R!Done
  <1> QED BY <1>2 DEF AskerKnows, R!Idle, InDoc, Deciding, Following

LEMMA AskerWent ==
  ASSUME RouletteStored, NEW r \in Requests, NEW pc \in R!PCs, NEW s \in 0 .. MaxSessions, R!Goto(r, pc, s)
  PROVE  /\ req' \in [Requests -> RouletteCall] /\ OtherAskers(r)
         /\ req'[r].pc = pc /\ req'[r].sess = s /\ req'[r].user = req[r].user
         /\ req'[r].choice = req[r].choice /\ req'[r].other = req[r].other
         /\ req'[r].snap = req[r].snap
  <1>1. PICK q : q = [req[r] EXCEPT !.pc = pc, !.sess = s]
    OBVIOUS
  <1>2. /\ q \in RouletteCall /\ q.pc = pc /\ q.sess = s /\ q.user = req[r].user /\ q.choice = req[r].choice
        /\ q.other = req[r].other /\ q.snap = req[r].snap
    BY <1>1, AskerTyped DEF RouletteCall
  <1>3. req' = [req EXCEPT ![r] = q]
    BY <1>1 DEF R!Goto, RouletteStored
  <1> QED BY <1>2, <1>3, AskerMoves

LEMMA AskerBegan ==
  ASSUME RouletteStored, NEW r \in Requests, NEW u \in Players, NEW pc \in R!PCs, NEW s \in 0 .. MaxSessions,
         R!Begin(r, u, pc, s)
  PROVE  /\ req' \in [Requests -> RouletteCall] /\ OtherAskers(r)
         /\ req'[r].pc = pc /\ req'[r].sess = s /\ req'[r].user = u
  <1>1. PICK q : q = [req[r] EXCEPT !.pc = pc, !.user = u, !.sess = s]
    OBVIOUS
  <1>2. q \in RouletteCall /\ q.pc = pc /\ q.sess = s /\ q.user = u
    BY <1>1, AskerTyped DEF RouletteCall
  <1>3. req' = [req EXCEPT ![r] = q]
    BY <1>1 DEF R!Begin, RouletteStored
  <1> QED BY <1>2, <1>3, AskerMoves

\* What others do leaves what a request knows: documents in use stay, or are deleted.
SessionsForward ==
  /\ made <= made' /\ (alone => alone') /\ connected \subseteq connected'
  /\ \A s \in R!Sessions : s <= made /\ R!Exists(s)' =>
       /\ R!Exists(s) /\ (docs[s].dies => docs'[s].dies)
       /\ ~alone' /\ Paired(R!Members(docs[s].dec)) => R!Members(docs'[s].dec) = R!Members(docs[s].dec)

LEMMA AskerKeeps ==
  ASSUME RouletteInv, NEW r \in Requests, req'[r] = req[r], SessionsForward, made' \in Nat
  PROVE  AskerKnows(r)'
  <1>1. PICK q : q = req[r]
    OBVIOUS
  <1>2. AskerKnows(r) /\ req'[r] = q /\ made \in Nat
    BY <1>1 DEF RouletteInv, RouletteStored
  <1>3. q.pc \in InDoc => q.sess \in R!Sessions /\ q.sess <= made /\ q.sess <= made'
    <2>1. q.pc \in InDoc => q.sess \in R!Sessions /\ q.sess <= made
      BY <1>1, <1>2 DEF AskerKnows
    <2>2. made <= made' /\ \A s \in R!Sessions : s \in Nat
      BY RouletteFacts DEF SessionsForward
    <2> QED BY <1>2, <2>1, <2>2
  <1>4. q.pc \in {"startChat", "flip"} /\ R!Exists(q.sess)' => docs'[q.sess].dies
    BY <1>1, <1>2, <1>3 DEF AskerKnows, SessionsForward, InDoc
  <1>5. q.pc \in Deciding =>
          /\ q.choice = "connect" => <<q.user, q.sess>> \in connected'
          /\ ~alone' => q.other \in Players \ {q.user}
          /\ ~alone' /\ R!Exists(q.sess)' => R!Members(docs'[q.sess].dec) = {q.user, q.other}
    <2> SUFFICES ASSUME q.pc \in Deciding PROVE
          /\ q.choice = "connect" => <<q.user, q.sess>> \in connected'
          /\ ~alone' => q.other \in Players \ {q.user}
          /\ ~alone' /\ R!Exists(q.sess)' => R!Members(docs'[q.sess].dec) = {q.user, q.other}
      OBVIOUS
    <2>1. q.pc \in InDoc
      BY DEF InDoc, Deciding
    <2>2. q.choice = "connect" => <<q.user, q.sess>> \in connected'
      BY <1>1, <1>2 DEF AskerKnows, SessionsForward
    <2>3. ~alone' => q.other \in Players \ {q.user}
      BY <1>1, <1>2 DEF AskerKnows, SessionsForward
    <2>4. ASSUME ~alone', R!Exists(q.sess)' PROVE R!Members(docs'[q.sess].dec) = {q.user, q.other}
      <3>1. R!Exists(q.sess) /\ ~alone
        BY <1>3, <2>1, <2>4 DEF SessionsForward
      <3>2. R!Members(docs[q.sess].dec) = {q.user, q.other}
        BY <1>1, <1>2, <3>1 DEF AskerKnows
      <3>3. Paired(R!Members(docs[q.sess].dec))
        BY <2>3, <2>4, <3>2 DEF Paired
      <3> QED BY <1>3, <2>1, <2>4, <3>2, <3>3 DEF SessionsForward
    <2> QED BY <2>2, <2>3, <2>4
  <1>6. q.pc = "write" =>
          /\ \A u \in Players : q.snap[u] = "connect" => <<u, q.sess>> \in connected'
          /\ Paired(R!Members(q.snap)) /\ R!Exists(q.sess)' => docs'[q.sess].dies
          /\ ~alone' => R!Members(q.snap) = {q.user, q.other}
    BY <1>1, <1>2, <1>3 DEF AskerKnows, SessionsForward, InDoc
  <1>7. q.pc \in Following /\ ~alone' => {<<q.user, q.sess>>, <<q.other, q.sess>>} \subseteq connected'
    BY <1>1, <1>2 DEF AskerKnows, SessionsForward
  <1> QED BY <1>1, <1>2, <1>3, <1>4, <1>5, <1>6, <1>7 DEF AskerKnows

\* A step of a request that leaves the collection alone.
LEMMA OnlyAsker ==
  ASSUME RouletteInv, NEW r \in Requests, req' \in [Requests -> RouletteCall], OtherAskers(r), AskerKnows(r)',
         UNCHANGED docs, UNCHANGED made, UNCHANGED alone, UNCHANGED connected, UNCHANGED decisions,
         follows' \subseteq Players \X Players, FollowsMeant'
  PROVE  RouletteInv'
  <1>1. RouletteStored' /\ OneDoc' /\ \A s \in R!Sessions : DocOK(s)'
    <2>1. RouletteStored'
      BY DEF RouletteInv, RouletteStored
    <2>2. \A s \in R!Sessions : DocOK(s)'
      BY DEF RouletteInv, DocOK
    <2>3. OneDoc'
      BY DEF RouletteInv, OneDoc, R!ActiveOf, R!In
    <2> QED BY <2>1, <2>2, <2>3
  <1>2. SessionsForward /\ made' \in Nat
    BY DEF SessionsForward, R!Exists, RouletteInv, RouletteStored
  <1>3. \A k \in Requests : AskerKnows(k)'
    BY <1>2, AskerKeeps DEF OtherAskers
  <1> QED BY <1>1, <1>3 DEF RouletteInv

LEMMA FitsSame ==
  ASSUME OneDoc, NEW s \in R!Sessions, NEW d, d.dec = docs[s].dec, docs[s].status \in R!Active
  PROVE  R!Fits(s, d)
  <1> SUFFICES ASSUME NEW u \in R!Members(d.dec) PROVE R!ActiveOf(u) \subseteq {s}
    BY DEF R!Fits
  <1>1. u \in Players /\ s \in R!ActiveOf(u)
    BY DEF R!ActiveOf, R!In, R!Members
  <1> QED BY <1>1 DEF OneDoc

\* A document is replaced: one that is there, or the next one.
DocReplaced(s, d) ==
  /\ docs' = [docs EXCEPT ![s] = d]
  /\ R!Fits(s, d)
  /\ \/ UNCHANGED made /\ s <= made
     \/ s = made + 1 /\ made' = made + 1
  /\ UNCHANGED alone /\ UNCHANGED connected /\ UNCHANGED decisions /\ UNCHANGED follows

LEMMA OneDocKept ==
  ASSUME RouletteInv, NEW s \in R!Sessions, NEW d \in R!Docs, DocReplaced(s, d)
  PROVE  /\ docs' \in [R!Sessions -> R!Docs] /\ docs'[s] = d
         /\ \A t \in R!Sessions \ {s} : docs'[t] = docs[t]
         /\ OneDoc'
  <1>1. /\ docs' \in [R!Sessions -> R!Docs] /\ docs'[s] = d
        /\ \A t \in R!Sessions \ {s} : docs'[t] = docs[t]
    BY DEF RouletteInv, RouletteStored, DocReplaced
  <1>2. ASSUME NEW u \in Players, NEW t1 \in R!ActiveOf(u)', NEW t2 \in R!ActiveOf(u)' PROVE t1 = t2
    <2>1. \A t \in R!ActiveOf(u)' : t \in R!Sessions /\ (t # s => t \in R!ActiveOf(u))
      BY <1>1 DEF R!ActiveOf, R!In
    <2>2. s \in R!ActiveOf(u)' => R!ActiveOf(u) \subseteq {s}
      BY <1>1 DEF R!ActiveOf, R!In, DocReplaced, R!Fits
    <2>3. \A t3, t4 \in R!ActiveOf(u) : t3 = t4
      BY DEF RouletteInv, OneDoc
    <2> QED BY <2>1, <2>2, <2>3
  <1> QED BY <1>1, <1>2 DEF OneDoc

\* Where it goes on to be what the requests think it is.
LEMMA DocForward ==
  ASSUME RouletteInv, NEW s \in R!Sessions, NEW d \in R!Docs, DocReplaced(s, d),
         s <= made /\ d.status \notin {"absent", "deleted"} =>
           /\ R!Exists(s) /\ (docs[s].dies => d.dies)
           /\ ~alone /\ Paired(R!Members(docs[s].dec)) => R!Members(d.dec) = R!Members(docs[s].dec)
  PROVE  SessionsForward /\ made' \in Nat
  <1>1. made \in Nat /\ s \in Nat /\ made <= made' /\ made' \in Nat
    BY RouletteFacts DEF RouletteInv, RouletteStored, DocReplaced
  <1>2. \A t \in R!Sessions : t <= made /\ R!Exists(t)' =>
          /\ R!Exists(t) /\ (docs[t].dies => docs'[t].dies)
          /\ ~alone' /\ Paired(R!Members(docs[t].dec)) => R!Members(docs'[t].dec) = R!Members(docs[t].dec)
    BY <1>1, OneDocKept DEF R!Exists, DocReplaced
  <1> QED BY <1>1, <1>2 DEF SessionsForward, DocReplaced

LEMMA DocMoves ==
  ASSUME RouletteInv, NEW s \in R!Sessions, NEW d \in R!Docs, DocReplaced(s, d), DocOK(s)',
         req' \in [Requests -> RouletteCall], \A k \in Requests : AskerKnows(k)'
  PROVE  RouletteInv'
  <1>1. made \in 0 .. MaxSessions /\ made' \in 0 .. MaxSessions /\ s \in Nat /\ s <= MaxSessions
    BY RouletteFacts DEF RouletteInv, RouletteStored, DocReplaced, R!Sessions
  <1>2. \A t \in R!Sessions \ {s} : t \in Nat /\ (t > made' <=> t > made)
    BY <1>1, RouletteFacts DEF DocReplaced
  <1>3. \A t \in R!Sessions : DocOK(t)'
    <2> TAKE t \in R!Sessions
    <2>1. CASE t = s
      BY <2>1
    <2>2. CASE t # s
      <3>1. docs'[t] = docs[t] /\ DocOK(t) /\ (t > made' <=> t > made)
        BY <1>2, <2>2, OneDocKept DEF RouletteInv
      <3> QED BY <3>1 DEF DocOK, DocReplaced
    <2> QED BY <2>1, <2>2
  <1>4. RouletteStored' /\ FollowsMeant'
    BY <1>1, OneDocKept DEF RouletteInv, RouletteStored, FollowsMeant, DocReplaced
  <1> QED BY <1>3, <1>4, OneDocKept DEF RouletteInv

LEMMA InUse ==
  ASSUME RouletteInv, NEW s \in R!Sessions, R!Exists(s)
  PROVE  s <= made /\ s \in 0 .. MaxSessions
  <1>1. s \in Nat /\ made \in Nat /\ s <= MaxSessions
    BY RouletteFacts DEF R!Sessions, RouletteInv, RouletteStored
  <1>2. ~(s > made)
    BY DEF RouletteInv, DocOK, R!Exists
  <1> QED BY <1>1, <1>2

LEMMA ActiveExists ==
  ASSUME NEW u, NEW s \in R!ActiveOf(u)
  PROVE  s \in R!Sessions /\ R!Exists(s) /\ docs[s].status \in R!Active /\ u \in R!Members(docs[s].dec)
  BY DEF R!ActiveOf, R!Exists, R!Active, R!In

-----------------------------------------------------------------------------

LEMMA LooksOK ==
  ASSUME RouletteInv, NEW r \in Requests,
         \/ \E u \in Players : R!JoinFindsNobody(r, u) \/ R!CheckStatus(r, u) \/ R!Leave(r, u)
         \/ R!Recover(r) \/ R!Admit(r)
  PROVE  RouletteInv'
  <1>1. RouletteStored /\ AskerKnows(r) /\ 0 \in 0 .. MaxSessions
    BY RouletteFacts DEF RouletteInv
  <1>2. UNCHANGED docs /\ UNCHANGED made /\ UNCHANGED alone /\ UNCHANGED connected
        /\ UNCHANGED decisions /\ UNCHANGED follows
    BY DEF R!JoinFindsNobody, R!CheckStatus, R!Leave, R!Recover, R!Admit
  <1>3. follows' \subseteq Players \X Players /\ FollowsMeant'
    BY <1>2 DEF RouletteInv, RouletteStored, FollowsMeant
  <1> DEFINE OK == req' \in [Requests -> RouletteCall] /\ OtherAskers(r) /\ AskerKnows(r)'
  <1>4. ASSUME NEW pc \in {"admit", "insert"}, req' \in [Requests -> RouletteCall], OtherAskers(r),
               req'[r].pc = pc, req'[r].user \in Players
        PROVE  OK
    BY <1>4 DEF AskerKnows, InDoc, Deciding, Following
  <1>5. ASSUME NEW pc \in {"startChat", "flip", "expire"}, NEW s \in R!Sessions, R!Exists(s),
               pc # "expire" => docs[s].dies, req' \in [Requests -> RouletteCall], OtherAskers(r),
               req'[r].pc = pc, req'[r].user \in Players, req'[r].sess = s
        PROVE  OK
    <2>1. s <= made
      BY <1>5, InUse
    <2> QED BY <1>2, <1>5, <2>1 DEF AskerKnows, InDoc, Deciding, Following, R!Exists
  <1> HIDE DEF OK
  <1>6. ASSUME NEW u \in Players, R!JoinFindsNobody(r, u) PROVE OK
    <2>1. R!Begin(r, u, "admit", 0) /\ "admit" \in R!PCs
      BY <1>6 DEF R!JoinFindsNobody, R!PCs
    <2> QED BY <1>1, <1>4, <2>1, AskerBegan
  <1>7. ASSUME NEW u \in Players, NEW pc \in {"flip", "expire"}, NEW s \in R!ActiveOf(u), R!Begin(r, u, pc, s),
               pc = "flip" => docs[s].status = "chatting"
        PROVE  OK
    <2>1. s \in R!Sessions /\ R!Exists(s) /\ s \in 0 .. MaxSessions /\ pc \in R!PCs
      BY ActiveExists, InUse DEF R!PCs
    <2>2. pc = "flip" => docs[s].dies
      BY <1>7, <2>1 DEF RouletteInv, DocOK, R!Active
    <2>3. /\ req' \in [Requests -> RouletteCall] /\ OtherAskers(r)
          /\ req'[r].pc = pc /\ req'[r].sess = s /\ req'[r].user = u
      BY <1>1, <1>7, <2>1, AskerBegan
    <2> QED BY <1>5, <2>1, <2>2, <2>3
  <1>8. ASSUME R!Recover(r) PROVE OK
    <2>1. req[r].user \in Players /\ "admit" \in R!PCs /\ "startChat" \in R!PCs
      BY <1>1, <1>8 DEF AskerKnows, R!Recover, R!At, R!PCs
    <2>2. CASE R!Goto(r, "admit", 0)
      <3>1. /\ req' \in [Requests -> RouletteCall] /\ OtherAskers(r)
            /\ req'[r].pc = "admit" /\ req'[r].user = req[r].user
        BY <1>1, <2>1, <2>2, AskerWent
      <3> QED BY <1>4, <2>1, <3>1
    <2>3. ASSUME NEW s \in R!ActiveOf(req[r].user), R!Cardinality(R!Members(docs[s].dec)) >= 2,
                 R!Goto(r, "startChat", s)
          PROVE  OK
      <3>1. s \in R!Sessions /\ R!Exists(s) /\ s \in 0 .. MaxSessions /\ docs[s].status \in R!Active
        BY ActiveExists, InUse
      <3>2. docs[s].status # "waiting"
        <4> SUFFICES ASSUME docs[s].status = "waiting" PROVE FALSE
          OBVIOUS
        <4>1. PICK v \in Players : R!Members(docs[s].dec) = {v}
          BY <3>1 DEF RouletteInv, DocOK
        <4>2. R!Cardinality(R!Members(docs[s].dec)) = 1
          BY <4>1, Sizes, Zenon
        <4> QED BY <2>3, <4>2
      <3>3. docs[s].dies
        BY <3>1, <3>2 DEF RouletteInv, DocOK
      <3>4. /\ req' \in [Requests -> RouletteCall] /\ OtherAskers(r)
            /\ req'[r].pc = "startChat" /\ req'[r].sess = s /\ req'[r].user = req[r].user
        BY <1>1, <2>1, <2>3, <3>1, AskerWent
      <3> QED BY <1>5, <2>1, <3>1, <3>3, <3>4
    <2> QED BY <1>8, <2>2, <2>3 DEF R!Recover
  <1>9. ASSUME R!Admit(r) PROVE OK
    <2>1. CASE R!Done(r)
      BY <1>1, <2>1, AskerDone DEF OK
    <2>2. CASE R!Goto(r, "insert", 0)
      <3>1. req[r].user \in Players /\ "insert" \in R!PCs
        BY <1>1, <1>9 DEF AskerKnows, R!Admit, R!At, R!PCs
      <3>2. /\ req' \in [Requests -> RouletteCall] /\ OtherAskers(r)
            /\ req'[r].pc = "insert" /\ req'[r].user = req[r].user
        BY <1>1, <2>2, <3>1, AskerWent
      <3> QED BY <1>4, <3>1, <3>2
    <2> QED BY <1>9, <2>1, <2>2 DEF R!Admit
  <1>10. OK
    BY <1>6, <1>7, <1>8, <1>9 DEF R!CheckStatus, R!Leave
  <1> QED BY <1>2, <1>3, <1>10, OnlyAsker DEF OK

\* A document of its members changes its state.
LEMMA StateMoves ==
  ASSUME RouletteInv, NEW s \in R!Sessions, NEW d \in R!Docs, DocReplaced(s, d), R!Exists(s),
         d.dec = docs[s].dec, docs[s].dies => d.dies, d.status \notin {"absent", "waiting", "completed"},
         d.status \in R!Active => d.dies, d.outcome \in {docs[s].outcome, "expired"},
         req' \in [Requests -> RouletteCall], NEW r \in Requests, OtherAskers(r), AskerKnows(r)'
  PROVE  RouletteInv'
  <1>1. docs'[s] = d /\ s <= made /\ DocOK(s)
    BY OneDocKept, InUse DEF RouletteInv
  <1>2. s \in Nat /\ made \in Nat /\ made' = made
    BY <1>1, RouletteFacts DEF RouletteInv, RouletteStored, DocReplaced
  <1>3. DocOK(s)'
    <2>1. ~(s > made')
      BY <1>1, <1>2
    <2> QED BY <1>1, <2>1 DEF DocOK, DocReplaced
  <1>4. SessionsForward /\ made' \in Nat
    BY DocForward
  <1>5. \A k \in Requests : AskerKnows(k)'
    BY <1>4, AskerKeeps DEF OtherAskers
  <1> QED BY <1>3, <1>5, DocMoves

LEMMA StartsOK ==
  ASSUME RouletteInv, NEW r \in Requests, R!StartChat(r) \/ R!FlipToDeciding(r) \/ R!LeaveWrites(r)
  PROVE  RouletteInv'
  <1>1. RouletteStored /\ AskerKnows(r)
    BY DEF RouletteInv
  <1>2. PICK s \in R!Sessions : s = req[r].sess
    BY <1>1 DEF AskerKnows, R!StartChat, R!FlipToDeciding, R!LeaveWrites, R!At, InDoc
  <1>3. s <= made /\ (R!Exists(s) /\ ~R!At(r, "expire") => docs[s].dies)
    BY <1>1, <1>2 DEF AskerKnows, R!StartChat, R!FlipToDeciding, R!LeaveWrites, R!At, InDoc
  <1>4. /\ UNCHANGED made /\ UNCHANGED follows /\ UNCHANGED decisions /\ UNCHANGED connected
        /\ UNCHANGED alone /\ R!Done(r)
    BY DEF R!StartChat, R!FlipToDeciding, R!LeaveWrites
  <1>5. req' \in [Requests -> RouletteCall] /\ OtherAskers(r) /\ AskerKnows(r)'
    BY <1>1, <1>4, AskerDone
  <1>6. CASE UNCHANGED docs
    BY <1>4, <1>5, <1>6, OnlyAsker DEF RouletteInv, RouletteStored, FollowsMeant
  <1>7. ASSUME NEW d \in R!Docs, R!Exists(s), R!Fits(s, d), docs' = [docs EXCEPT ![s] = d],
               d.dec = docs[s].dec, docs[s].dies => d.dies,
               d.status \notin {"absent", "waiting", "completed"},
               d.status \in R!Active => d.dies, d.outcome \in {docs[s].outcome, "expired"}
        PROVE  RouletteInv'
    <2>1. DocReplaced(s, d)
      BY <1>3, <1>4, <1>7 DEF DocReplaced
    <2> QED BY <1>5, <1>7, <2>1, StateMoves
  <1>8. CASE R!StartChat(r) /\ docs' # docs
    <2>1. PICK d : d = [docs[s] EXCEPT !.status = "chatting", !.over = FALSE]
      OBVIOUS
    <2>2. /\ d \in R!Docs /\ d.dec = docs[s].dec /\ d.dies = docs[s].dies /\ d.status = "chatting"
          /\ d.outcome = docs[s].outcome
      BY <1>1, <2>1, DocTyped DEF R!Docs, R!Statuses, R!Active
    <2>3. R!Exists(s) /\ R!Fits(s, d) /\ docs' = [docs EXCEPT ![s] = d] /\ docs[s].dies
      BY <1>2, <1>3, <1>8, <2>1 DEF R!StartChat, R!Store, R!At
    <2> QED BY <1>7, <2>2, <2>3
  <1>9. CASE R!FlipToDeciding(r) /\ docs' # docs
    <2>1. PICK d : d = [docs[s] EXCEPT !.status = "deciding"]
      OBVIOUS
    <2>2. /\ d \in R!Docs /\ d.dec = docs[s].dec /\ d.dies = docs[s].dies /\ d.status = "deciding"
          /\ d.outcome = docs[s].outcome
      BY <1>1, <2>1, DocTyped DEF R!Docs, R!Statuses, R!Active
    <2>3. R!Exists(s) /\ R!Fits(s, d) /\ docs' = [docs EXCEPT ![s] = d] /\ docs[s].dies
      BY <1>2, <1>3, <1>9, <2>1 DEF R!FlipToDeciding, R!Store, R!At
    <2> QED BY <1>7, <2>2, <2>3
  <1>10. CASE R!LeaveWrites(r) /\ docs' # docs
    <2>1. PICK d : d = [docs[s] EXCEPT !.status = "expired", !.outcome = "expired"]
      OBVIOUS
    <2>2. /\ d \in R!Docs /\ d.dec = docs[s].dec /\ d.dies = docs[s].dies /\ d.status = "expired"
          /\ d.outcome = "expired" /\ d.status \notin R!Active
      BY <1>1, <2>1, DocTyped DEF R!Docs, R!Statuses, R!Active, R!Outcomes
    <2>3. R!Exists(s) /\ docs' = [docs EXCEPT ![s] = d]
      BY <1>2, <1>10, <2>1 DEF R!LeaveWrites, R!Store
    <2>4. R!Fits(s, d)
      BY <2>2 DEF R!Fits
    <2> QED BY <1>7, <2>2, <2>3, <2>4
  <1> QED BY <1>6, <1>8, <1>9, <1>10

LEMMA InsertOK ==
  ASSUME RouletteInv, NEW r \in Requests, R!Insert(r)
  PROVE  RouletteInv'
  <1>1. RouletteStored /\ AskerKnows(r) /\ made \in 0 .. MaxSessions /\ MaxSessions \in Nat
    BY RouletteFacts DEF RouletteInv, RouletteStored
  <1>2. PICK u \in Players : u = req[r].user
    BY <1>1 DEF AskerKnows, R!Insert, R!At
  <1>3. /\ UNCHANGED follows /\ UNCHANGED decisions /\ UNCHANGED connected
        /\ UNCHANGED alone /\ R!Done(r)
    BY DEF R!Insert
  <1>4. req' \in [Requests -> RouletteCall] /\ OtherAskers(r) /\ AskerKnows(r)'
    BY <1>1, <1>3, AskerDone
  <1>5. CASE UNCHANGED <<docs, made>>
    BY <1>1, <1>3, <1>4, <1>5, OnlyAsker DEF RouletteInv, RouletteStored, FollowsMeant
  <1>6. CASE /\ made < MaxSessions /\ R!Fits(made + 1, R!Waiting(u))
             /\ docs' = [docs EXCEPT ![made + 1] = R!Waiting(u)] /\ made' = made + 1
    <2>1. PICK d : d = R!Waiting(u)
      OBVIOUS
    <2>2. /\ d \in R!Docs /\ d.dec = [v \in Players |-> IF v = u THEN "pending" ELSE "absent"]
          /\ d.status = "waiting" /\ d.outcome = "none" /\ d.dies = FALSE
      BY <2>1 DEF R!Waiting, R!Gone, R!Docs, R!Statuses, R!Active, R!Outcomes, R!Decisions
    <2>3. PICK s \in R!Sessions : s = made + 1
      BY <1>1, <1>6 DEF R!Sessions
    <2>4. DocReplaced(s, d)
      BY <1>3, <1>6, <2>1, <2>3 DEF DocReplaced
    <2>5. R!Members(d.dec) = {u} /\ Few({u}) /\ ~Paired({u})
      BY <2>2 DEF R!Members, Few, Paired
    <2>6. docs'[s] = d /\ ~(s > made') /\ ~(s <= made)
      BY <1>1, <1>6, <2>2, <2>3, <2>4, OneDocKept
    <2>7. DocOK(s)'
      BY <2>2, <2>5, <2>6, Zenon DEF DocOK, R!Active
    <2>8. SessionsForward /\ made' \in Nat
      BY <2>2, <2>4, <2>6, DocForward
    <2>9. \A k \in Requests : AskerKnows(k)'
      BY <1>4, <2>8, AskerKeeps DEF OtherAskers
    <2> QED BY <1>4, <2>4, <2>7, <2>9, DocMoves, <2>2
  <1> QED BY <1>2, <1>5, <1>6 DEF R!Insert, R!Store

LEMMA JoinsOK ==
  ASSUME RouletteInv, NEW r \in Requests, NEW u \in Players, R!JoinClaims(r, u)
  PROVE  RouletteInv'
  <1>1. RouletteStored /\ 0 \in 0 .. MaxSessions /\ "recover" \in R!PCs /\ "startChat" \in R!PCs
    BY RouletteFacts DEF RouletteInv, R!PCs
  <1>2. PICK s \in R!Claimable(u) : s = R!Min(R!Claimable(u))
    <2>1. R!Claimable(u) \subseteq Nat /\ R!Claimable(u) # {}
      BY RouletteFacts DEF R!Claimable, R!JoinClaims
    <2> QED BY <2>1, LeastIn
  <1>3. /\ s \in R!Sessions /\ docs[s].status = "waiting" /\ u \notin R!Members(docs[s].dec)
        /\ DocOK(s)
    BY DEF R!Claimable, R!In, RouletteInv
  <1>4. R!Exists(s) /\ s <= made /\ s \in 0 .. MaxSessions
    BY <1>3, InUse DEF R!Exists
  <1>5. /\ UNCHANGED made /\ UNCHANGED follows /\ UNCHANGED decisions /\ UNCHANGED connected
        /\ UNCHANGED alone
    BY DEF R!JoinClaims
  <1>6. CASE R!Begin(r, u, "recover", 0) /\ UNCHANGED docs
    <2>1. req' \in [Requests -> RouletteCall] /\ OtherAskers(r) /\ req'[r].pc = "recover" /\ req'[r].user = u
      BY <1>1, <1>6, AskerBegan
    <2>2. AskerKnows(r)'
      BY <2>1 DEF AskerKnows, InDoc, Deciding, Following
    <2> QED BY <1>5, <1>6, <2>1, <2>2, OnlyAsker DEF RouletteInv, RouletteStored, FollowsMeant
  <1>7. CASE /\ R!Fits(s, R!Claimed(s, u)) /\ docs' = [docs EXCEPT ![s] = R!Claimed(s, u)]
             /\ R!Begin(r, u, "startChat", s)
    <2>1. PICK d : d = R!Claimed(s, u)
      OBVIOUS
    <2>2. PICK dec : dec = [docs[s].dec EXCEPT ![u] = "pending"]
      OBVIOUS
    <2>3. docs[s] \in R!Docs /\ docs[s].dec \in [Players -> R!Decisions]
      BY <1>1, <1>3, DocTyped
    <2>4. dec \in [Players -> R!Decisions]
      BY <2>2, <2>3 DEF R!Decisions
    <2>5. d = [docs[s] EXCEPT !.dec = dec, !.status = "matched", !.dies = TRUE]
      BY <2>1, <2>2, <2>3 DEF R!Claimed, R!Docs
    <2>6. /\ d \in R!Docs /\ d.dec = dec /\ d.status = "matched" /\ d.dies = TRUE
          /\ d.outcome = docs[s].outcome
      BY <2>3, <2>4, <2>5 DEF R!Docs, R!Statuses, R!Active
    <2>7. PICK v \in Players : R!Members(docs[s].dec) = {v}
      BY <1>3 DEF DocOK
    <2>8. R!Members(d.dec) = {u, v} /\ Few({u, v}) /\ ~Paired({v})
      BY <2>2, <2>3, <2>6, <2>7 DEF R!Members, Few, Paired
    <2>9. DocReplaced(s, d)
      BY <1>4, <1>5, <1>7, <2>1 DEF DocReplaced
    <2>10. docs'[s] = d /\ made' = made /\ ~(made < s)
      <3>1. docs'[s] = d
        BY <1>3, <2>6, <2>9, OneDocKept
      <3>2. made \in Nat /\ s \in Nat
        BY <1>1, <1>4 DEF RouletteStored
      <3> QED BY <1>4, <1>5, <3>1, <3>2
    <2>11. DocOK(s)'
      <3>1. d.outcome = "none" /\ ~(s > made)
        BY <1>3, <1>4, <2>6 DEF DocOK, RouletteInv, R!Exists
      <3>2. \A w \in Players : d.dec[w] = "connect" => <<w, s>> \in connected
        BY <1>3, <2>2, <2>3, <2>6 DEF DocOK
      <3>3. d.status \notin {"absent", "waiting", "completed"} /\ d.outcome # "mutual_connect"
        BY <2>6, <3>1
      <3> QED BY <1>5, <2>6, <2>8, <2>10, <3>1, <3>2, <3>3 DEF DocOK
    <2>12. SessionsForward /\ made' \in Nat
      BY <1>3, <1>4, <2>6, <2>7, <2>8, <2>9, DocForward
    <2>13. /\ req' \in [Requests -> RouletteCall] /\ OtherAskers(r)
           /\ req'[r].pc = "startChat" /\ req'[r].sess = s /\ req'[r].user = u
      BY <1>1, <1>4, <1>7, AskerBegan
    <2>14. AskerKnows(r)'
      BY <1>3, <1>4, <1>5, <2>6, <2>10, <2>13 DEF AskerKnows, InDoc, Deciding, Following
    <2>15. \A k \in Requests : AskerKnows(k)'
      BY <2>12, <2>13, <2>14, AskerKeeps DEF OtherAskers
    <2> QED BY <1>3, <2>6, <2>9, <2>11, <2>13, <2>15, DocMoves
  <1> QED BY <1>2, <1>6, <1>7 DEF R!JoinClaims, R!Store

-----------------------------------------------------------------------------
(* Decisions.                                                                   *)

LEMMA Partner ==
  ASSUME NEW S, Few(S), NEW u \in S, NEW v \in S, u # v
  PROVE  S = {u, v}
  BY DEF Few

LEMMA DecideOK ==
  ASSUME RouletteInv, NEW r \in Requests, NEW u \in Players, NEW s \in R!Sessions,
         NEW choice \in {"connect", "pass"}, R!Decide(r, u, s, choice)
  PROVE  RouletteInv'
  <1>1. RouletteStored /\ R!Exists(s) /\ u \in R!Members(docs[s].dec) /\ DocOK(s) /\ MaxDecisions \in Nat
    BY RouletteFacts DEF RouletteInv, R!Decide, R!In
  <1>2. UNCHANGED docs /\ UNCHANGED made /\ UNCHANGED follows
    BY DEF R!Decide
  <1>3. PICK others : others = R!Members(docs[s].dec) \ {u}
    OBVIOUS
  <1>4. PICK other : other = IF others = {} THEN None ELSE CHOOSE o \in others : TRUE
    OBVIOUS
  <1>5. PICK q : q = [req[r] EXCEPT !.pc = "record", !.user = u, !.sess = s, !.choice = choice,
                                    !.other = other]
    OBVIOUS
  <1>6. req' = [req EXCEPT ![r] = q] /\ alone' = (alone \/ others = {})
    BY <1>1, <1>3, <1>4, <1>5 DEF R!Decide, RouletteStored
  <1>7. others # {} => other \in others
    BY <1>4
  <1>8. others \subseteq Players
    BY <1>3 DEF R!Members
  <1>9. other \in Players \cup {None}
    BY <1>4, <1>7, <1>8
  <1>10. s \in 0 .. MaxSessions /\ s <= made
    BY <1>1, InUse
  <1>11. /\ q \in RouletteCall /\ q.pc = "record" /\ q.user = u /\ q.sess = s /\ q.choice = choice
         /\ q.other = other
    BY <1>1, <1>5, <1>9, <1>10, AskerTyped DEF RouletteCall, R!PCs, R!Decisions
  <1>12. req' \in [Requests -> RouletteCall] /\ OtherAskers(r) /\ req'[r] = q
    BY <1>1, <1>6, <1>11, AskerMoves
  <1>13. /\ connected \subseteq connected' /\ connected' \subseteq Players \X R!Sessions
         /\ choice = "connect" => <<u, s>> \in connected'
    BY <1>1 DEF R!Decide, RouletteStored
  <1>14. alone' \in BOOLEAN /\ (alone => alone') /\ (~alone' => others # {})
    BY <1>1, <1>6 DEF RouletteStored
  <1>15. decisions' \in 0 .. MaxDecisions
    BY <1>1 DEF R!Decide, RouletteStored
  <1>16. ~alone' => other \in Players \ {u} /\ R!Members(docs[s].dec) = {u, other}
    <2> SUFFICES ASSUME ~alone' PROVE other \in Players \ {u} /\ R!Members(docs[s].dec) = {u, other}
      OBVIOUS
    <2>1. other \in R!Members(docs[s].dec) /\ other # u /\ other \in Players
      BY <1>3, <1>7, <1>8, <1>14
    <2> QED BY <1>1, <2>1, Partner DEF DocOK
  <1>17. AskerKnows(r)'
    BY <1>2, <1>10, <1>11, <1>12, <1>13, <1>16 DEF AskerKnows, InDoc, Deciding, Following
  <1>18. SessionsForward /\ made' \in Nat
    BY <1>1, <1>2, <1>13, <1>14 DEF SessionsForward, R!Exists, RouletteStored
  <1>19. \A k \in Requests : AskerKnows(k)'
    BY <1>12, <1>17, <1>18, AskerKeeps DEF OtherAskers
  <1>20. \A t \in R!Sessions : DocOK(t)'
    BY <1>2, <1>13, <1>14 DEF RouletteInv, DocOK
  <1>21. OneDoc'
    BY <1>2 DEF RouletteInv, OneDoc, R!ActiveOf, R!In
  <1>22. FollowsMeant'
    <2> SUFFICES ASSUME ~alone', NEW f \in follows'
                 PROVE  \E t \in R!Sessions : {<<f[1], t>>, <<f[2], t>>} \subseteq connected'
      BY DEF FollowsMeant
    <2>1. PICK t \in R!Sessions : {<<f[1], t>>, <<f[2], t>>} \subseteq connected
      BY <1>2, <1>14 DEF RouletteInv, FollowsMeant
    <2> QED BY <1>13, <2>1
  <1> QED BY <1>1, <1>2, <1>12, <1>13, <1>14, <1>15, <1>19, <1>20, <1>21, <1>22
          DEF RouletteInv, RouletteStored

LEMMA ReadsOK ==
  ASSUME RouletteInv, NEW r \in Requests, R!RecordReads(r)
  PROVE  RouletteInv'
  <1>1. RouletteStored /\ AskerKnows(r) /\ req[r].pc = "record"
    BY DEF RouletteInv, R!RecordReads, R!At
  <1>2. UNCHANGED docs /\ UNCHANGED made /\ UNCHANGED follows /\ UNCHANGED alone
        /\ UNCHANGED connected /\ UNCHANGED decisions
    BY DEF R!RecordReads
  <1>3. PICK c : c = req[r]
    OBVIOUS
  <1>4. CASE R!Done(r)
    <2>1. req' \in [Requests -> RouletteCall] /\ OtherAskers(r) /\ AskerKnows(r)'
      BY <1>1, <1>4, AskerDone
    <2> QED BY <1>2, <2>1, OnlyAsker DEF RouletteInv, RouletteStored, FollowsMeant
  <1>5. CASE /\ R!Exists(c.sess) /\ R!In(c.user, c.sess)
             /\ req' = [req EXCEPT ![r].pc = "write",
                          ![r].snap = [docs[c.sess].dec EXCEPT ![c.user] = c.choice]]
    <2>1. PICK s \in R!Sessions : s = c.sess
      BY <1>1, <1>3 DEF AskerKnows, InDoc
    <2>2. PICK u \in Players : u = c.user
      BY <1>1, <1>3 DEF AskerKnows
    <2>3. /\ c \in RouletteCall /\ c.choice \in {"connect", "pass"} /\ s <= made
          /\ c.choice = "connect" => <<u, s>> \in connected
          /\ ~alone => c.other \in Players \ {u}
          /\ ~alone => R!Members(docs[s].dec) = {u, c.other}
      BY <1>1, <1>3, <1>5, <2>1, <2>2, AskerTyped DEF AskerKnows, Deciding, InDoc
    <2>4. docs[s].dec \in [Players -> R!Decisions] /\ DocOK(s) /\ u \in R!Members(docs[s].dec)
      BY <1>1, <1>5, <2>1, <2>2, DocTyped DEF R!In, RouletteInv
    <2>5. PICK snap : snap = [docs[s].dec EXCEPT ![u] = c.choice]
      OBVIOUS
    <2>6. snap \in [Players -> R!Decisions] /\ snap[u] = c.choice
          /\ \A v \in Players \ {u} : snap[v] = docs[s].dec[v]
      BY <2>3, <2>4, <2>5 DEF R!Decisions
    <2>7. R!Members(snap) = R!Members(docs[s].dec)
      BY <2>3, <2>4, <2>6 DEF R!Members
    <2>8. PICK q : q = [c EXCEPT !.pc = "write", !.snap = snap]
      OBVIOUS
    <2>9. /\ q \in RouletteCall /\ q.pc = "write" /\ q.user = u /\ q.sess = s /\ q.choice = c.choice
          /\ q.other = c.other /\ q.snap = snap
      BY <2>1, <2>2, <2>3, <2>6, <2>8 DEF RouletteCall, R!PCs
    <2>10. req' = [req EXCEPT ![r] = q]
      BY <1>1, <1>3, <1>5, <2>1, <2>2, <2>5, <2>8 DEF RouletteStored
    <2>11. req' \in [Requests -> RouletteCall] /\ OtherAskers(r) /\ req'[r] = q
      BY <1>1, <2>9, <2>10, AskerMoves
    <2>12. \A v \in Players : snap[v] = "connect" => <<v, s>> \in connected
      BY <2>3, <2>4, <2>6 DEF DocOK
    <2>13. Few(R!Members(snap)) /\ (Paired(R!Members(snap)) => docs[s].dies)
      BY <2>4, <2>7 DEF DocOK
    <2>14. AskerKnows(r)'
      BY <1>2, <2>3, <2>6, <2>7, <2>9, <2>11, <2>12, <2>13
         DEF AskerKnows, InDoc, Deciding, Following
    <2> QED BY <1>2, <2>11, <2>14, OnlyAsker DEF RouletteInv, RouletteStored, FollowsMeant
  <1> QED BY <1>3, <1>4, <1>5 DEF R!RecordReads

\* Where a request goes on after a mutual decision.
LEMMA Followed ==
  ASSUME RouletteStored, NEW r \in Requests, NEW pc \in Following,
         R!Goto(r, pc, req[r].sess), req[r].user \in Players, req[r].other \in Players,
         req[r].sess \in R!Sessions, req[r].sess <= made, UNCHANGED made,
         ~alone' => {<<req[r].user, req[r].sess>>, <<req[r].other, req[r].sess>>} \subseteq connected'
  PROVE  req' \in [Requests -> RouletteCall] /\ OtherAskers(r) /\ AskerKnows(r)'
  <1>1. pc \in R!PCs /\ req[r].sess \in 0 .. MaxSessions
    BY AskerTyped DEF Following, R!PCs
  <1>2. /\ req' \in [Requests -> RouletteCall] /\ OtherAskers(r)
        /\ req'[r].pc = pc /\ req'[r].sess = req[r].sess /\ req'[r].user = req[r].user
        /\ req'[r].other = req[r].other
    BY <1>1, AskerWent
  <1> QED BY <1>2 DEF AskerKnows, InDoc, Deciding, Following

LEMMA WritesOK ==
  ASSUME RouletteInv, NEW r \in Requests, R!RecordWrites(r)
  PROVE  RouletteInv'
  <1>1. RouletteStored /\ AskerKnows(r) /\ req[r].pc = "write"
    BY DEF RouletteInv, R!RecordWrites, R!At
  <1>2. UNCHANGED made /\ UNCHANGED follows /\ UNCHANGED alone
        /\ UNCHANGED connected /\ UNCHANGED decisions
    BY DEF R!RecordWrites
  <1>3. PICK c \in RouletteCall : c = req[r]
    BY <1>1, AskerTyped
  <1>4. PICK s \in R!Sessions : s = c.sess
    BY <1>1, <1>3 DEF AskerKnows, InDoc
  <1>5. PICK snap \in [Players -> R!Decisions] : snap = c.snap
    BY <1>3 DEF RouletteCall
  <1>6. /\ s <= made /\ c.user \in Players /\ snap[c.user] = c.choice /\ c.choice \in {"connect", "pass"}
        /\ Few(R!Members(snap))
        /\ \A u \in Players : snap[u] = "connect" => <<u, s>> \in connected
        /\ Paired(R!Members(snap)) /\ R!Exists(s) => docs[s].dies
        /\ ~alone => c.other \in Players \ {c.user} /\ R!Members(snap) = {c.user, c.other}
        /\ ~alone /\ R!Exists(s) => R!Members(docs[s].dec) = {c.user, c.other}
    BY <1>1, <1>3, <1>4, <1>5 DEF AskerKnows, InDoc, Deciding
  <1>7. DocOK(s) /\ docs[s] \in R!Docs
    BY <1>1, DocTyped DEF RouletteInv
  <1>8. PICK d : d = R!Recorded(docs[s], c)
    OBVIOUS
  <1>9. /\ d \in R!Docs /\ d.dec = snap /\ d.dies = docs[s].dies
        /\ d.status \in {"completed", "deciding"}
        /\ R!Decided(snap) => d.status = "completed" /\ d.outcome = R!OutcomeOf(snap)
        /\ ~R!Decided(snap) => d.status = "deciding" /\ d.outcome = docs[s].outcome
    <2>1. R!OutcomeOf(snap) \in R!Outcomes
      BY DEF R!OutcomeOf, R!Outcomes
    <2>2. CASE R!Decided(snap)
      <3>1. d = [docs[s] EXCEPT !.dec = snap, !.status = "completed", !.outcome = R!OutcomeOf(snap)]
        BY <1>5, <1>8, <2>2 DEF R!Recorded
      <3> QED BY <1>7, <2>1, <2>2, <3>1 DEF R!Docs, R!Statuses
    <2>3. CASE ~R!Decided(snap)
      <3>1. d = [docs[s] EXCEPT !.dec = snap, !.status = "deciding"]
        BY <1>5, <1>8, <2>3 DEF R!Recorded
      <3> QED BY <1>7, <2>3, <3>1 DEF R!Docs, R!Statuses, R!Active
    <2> QED BY <2>2, <2>3
  \* A mutual outcome is what the members decided.
  <1>10. R!OutcomeOf(snap) = "mutual_connect" => \A u \in R!Members(snap) : <<u, s>> \in connected
    <2>1. R!OutcomeOf(snap) = "mutual_connect" => {snap[u] : u \in R!Members(snap)} = {"connect"}
      BY DEF R!OutcomeOf
    <2> QED BY <1>6, <2>1 DEF R!Members
  <1>11. c.user \in R!Members(snap)
    BY <1>6 DEF R!Members
  <1>12. ~alone /\ c.other # None /\ d.outcome = "mutual_connect" /\ (R!Exists(s) \/ R!Decided(snap))
           => {<<c.user, s>>, <<c.other, s>>} \subseteq connected
    <2> SUFFICES ASSUME ~alone, d.outcome = "mutual_connect", R!Exists(s) \/ R!Decided(snap)
                 PROVE  {<<c.user, s>>, <<c.other, s>>} \subseteq connected
      OBVIOUS
    <2>1. CASE R!Decided(snap)
      BY <1>6, <1>9, <1>10, <2>1
    <2>2. CASE ~R!Decided(snap)
      <3>1. docs[s].outcome = "mutual_connect" /\ R!Members(docs[s].dec) = {c.user, c.other}
        BY <1>6, <1>9, <2>2
      <3> QED BY <1>7, <3>1 DEF DocOK
    <2> QED BY <2>1, <2>2
  <1>13. req' \in [Requests -> RouletteCall] /\ OtherAskers(r) /\ AskerKnows(r)'
    <2>1. CASE R!Done(r)
      BY <1>1, <2>1, AskerDone
    <2>2. CASE /\ R!Exists(s) \/ R!Decided(snap)
               /\ d.outcome = "mutual_connect" /\ c.other # None
               /\ R!Goto(r, "follow", s)
      <3>1. c.other \in Players /\ "follow" \in Following
        BY <1>3, <2>2 DEF RouletteCall, Following
      <3> QED BY <1>1, <1>2, <1>3, <1>4, <1>6, <1>12, <2>2, <3>1, Followed
    <2>3. \/ R!Done(r)
          \/ /\ R!Exists(s) \/ R!Decided(snap)
             /\ d.outcome = "mutual_connect" /\ c.other # None
             /\ R!Goto(r, "follow", s)
      BY <1>3, <1>4, <1>5, <1>8 DEF R!RecordWrites
    <2> QED BY <2>1, <2>2, <2>3
  <1>14. CASE UNCHANGED docs
    BY <1>2, <1>13, <1>14, OnlyAsker DEF RouletteInv, RouletteStored, FollowsMeant
  <1>15. CASE R!Exists(s) /\ R!Fits(s, d) /\ docs' = [docs EXCEPT ![s] = d]
    <2>1. DocReplaced(s, d)
      BY <1>2, <1>6, <1>15 DEF DocReplaced
    <2>2. docs'[s] = d
      BY <1>9, <2>1, OneDocKept
    <2>3. ~R!Decided(snap) => Paired(R!Members(snap))
      <3>1. ASSUME NEW u \in Players, snap[u] = "pending" PROVE u \in R!Members(snap) /\ u # c.user
        BY <1>6, <3>1 DEF R!Members
      <3> QED BY <1>11, <3>1 DEF R!Decided, Paired
    <2>4. ~alone /\ d.outcome = "mutual_connect" => \A u \in R!Members(snap) : <<u, s>> \in connected
      BY <1>6, <1>12, <1>15, RouletteFacts
    <2>5. ~(s > made)
      BY <1>7, <1>15 DEF DocOK, R!Exists
    <2>6. DocOK(s)'
      <3>1. Paired(R!Members(d.dec)) => d.dies
        BY <1>6, <1>9, <1>15
      <3>2. d.status \in R!Active \ {"waiting"} => d.dies
        BY <1>9, <2>3, <3>1 DEF R!Active
      <3> QED BY <1>2, <1>6, <1>9, <2>2, <2>4, <2>5, <3>1, <3>2 DEF DocOK
    <2>7. SessionsForward /\ made' \in Nat
      <3>1. ~alone => R!Members(d.dec) = R!Members(docs[s].dec)
        BY <1>6, <1>9, <1>15
      <3> QED BY <1>9, <1>15, <2>1, <3>1, DocForward
    <2>8. \A k \in Requests : AskerKnows(k)'
      BY <1>13, <2>7, AskerKeeps DEF OtherAskers
    <2> QED BY <1>9, <1>13, <2>1, <2>6, <2>8, DocMoves
  <1> QED BY <1>3, <1>4, <1>8, <1>14, <1>15 DEF R!RecordWrites, R!Store

LEMMA FollowsOK ==
  ASSUME RouletteInv, NEW r \in Requests, R!Follow(r) \/ R!FollowBack(r)
  PROVE  RouletteInv'
  <1>1. RouletteStored /\ AskerKnows(r) /\ req[r].pc \in Following
    BY DEF RouletteInv, R!Follow, R!FollowBack, R!At, Following
  <1>2. UNCHANGED docs /\ UNCHANGED made /\ UNCHANGED alone /\ UNCHANGED connected
        /\ UNCHANGED decisions
    BY DEF R!Follow, R!FollowBack
  <1>3. /\ req[r].user \in Players /\ req[r].other \in Players /\ req[r].sess \in R!Sessions
        /\ req[r].sess <= made
        /\ ~alone => {<<req[r].user, req[r].sess>>, <<req[r].other, req[r].sess>>} \subseteq connected
    BY <1>1 DEF AskerKnows, InDoc, Following
  <1>4. req' \in [Requests -> RouletteCall] /\ OtherAskers(r) /\ AskerKnows(r)'
    <2>1. CASE R!Done(r)
      BY <1>1, <2>1, AskerDone
    <2>2. CASE R!Goto(r, "followBack", req[r].sess)
      <3>1. "followBack" \in Following
        BY DEF Following
      <3> QED BY <1>1, <1>2, <1>3, <2>2, <3>1, Followed
    <2> QED BY <2>1, <2>2 DEF R!Follow, R!FollowBack
  <1>5. PICK f \in {<<req[r].user, req[r].other>>, <<req[r].other, req[r].user>>} :
          follows' \subseteq follows \cup {f}
    BY DEF R!Follow, R!FollowBack
  <1>6. /\ follows' \subseteq Players \X Players
        /\ FollowsMeant'
    <2>1. follows' \subseteq Players \X Players
      BY <1>1, <1>3, <1>5 DEF RouletteStored
    <2>2. ASSUME ~alone, NEW g \in follows'
          PROVE  \E s \in R!Sessions : {<<g[1], s>>, <<g[2], s>>} \subseteq connected
      <3>1. CASE g \in follows
        BY <2>2, <3>1 DEF RouletteInv, FollowsMeant
      <3>2. CASE g = f
        BY <1>3, <1>5, <2>2, <3>2
      <3> QED BY <1>5, <3>1, <3>2
    <2> QED BY <1>2, <2>1, <2>2 DEF FollowsMeant
  <1> QED BY <1>2, <1>4, <1>6, OnlyAsker

-----------------------------------------------------------------------------
(* Time.                                                                        *)

LEMMA TimeOK ==
  ASSUME RouletteInv, NEW s \in R!Sessions, R!GrowsOld(s) \/ R!ChatRunsOut(s) \/ R!TTLDeletes(s)
  PROVE  RouletteInv'
  <1>1. RouletteStored /\ DocOK(s) /\ docs[s] \in R!Docs
    BY DocTyped DEF RouletteInv
  <1>2. UNCHANGED made /\ UNCHANGED req /\ UNCHANGED follows /\ UNCHANGED alone
        /\ UNCHANGED connected /\ UNCHANGED decisions
    BY DEF R!GrowsOld, R!ChatRunsOut, R!TTLDeletes
  <1>3. ASSUME NEW d \in R!Docs, docs' = [docs EXCEPT ![s] = d], R!Fits(s, d), s <= made, DocOK(s)',
               d.status = "deleted" \/ (R!Exists(s) /\ d.dec = docs[s].dec /\ d.dies = docs[s].dies)
        PROVE  RouletteInv'
    <2>1. DocReplaced(s, d)
      BY <1>2, <1>3 DEF DocReplaced
    <2>2. SessionsForward /\ made' \in Nat
      BY <1>3, <2>1, DocForward
    <2>3. req' \in [Requests -> RouletteCall] /\ \A k \in Requests : AskerKnows(k)'
      BY <1>1, <1>2, <2>2, AskerKeeps DEF RouletteStored
    <2> QED BY <1>3, <2>1, <2>3, DocMoves
  <1>4. ASSUME NEW d \in R!Docs, docs' = [docs EXCEPT ![s] = d], R!Exists(s), docs[s].status \in R!Active,
               d.dec = docs[s].dec, d.dies = docs[s].dies, d.status = docs[s].status,
               d.outcome = docs[s].outcome
        PROVE  RouletteInv'
    <2>1. docs'[s] = d /\ s <= made
      BY <1>1, <1>4, InUse DEF RouletteStored
    <2>2. DocOK(s)'
      BY <1>1, <1>2, <1>4, <2>1 DEF DocOK
    <2>3. R!Fits(s, d)
      BY <1>4, FitsSame DEF RouletteInv
    <2> QED BY <1>3, <1>4, <2>1, <2>2, <2>3
  <1>5. CASE R!GrowsOld(s)
    <2>1. PICK d : d = [docs[s] EXCEPT !.fresh = FALSE]
      OBVIOUS
    <2>2. /\ d \in R!Docs /\ d.dec = docs[s].dec /\ d.dies = docs[s].dies /\ d.status = docs[s].status
          /\ d.outcome = docs[s].outcome
      BY <1>1, <2>1 DEF R!Docs
    <2>3. docs' = [docs EXCEPT ![s] = d] /\ R!Exists(s) /\ docs[s].status \in R!Active
      BY <1>5, <2>1 DEF R!GrowsOld, R!Store, R!Exists, R!Active
    <2> QED BY <1>4, <2>2, <2>3
  <1>6. CASE R!ChatRunsOut(s)
    <2>1. PICK d : d = [docs[s] EXCEPT !.over = TRUE]
      OBVIOUS
    <2>2. /\ d \in R!Docs /\ d.dec = docs[s].dec /\ d.dies = docs[s].dies /\ d.status = docs[s].status
          /\ d.outcome = docs[s].outcome
      BY <1>1, <2>1 DEF R!Docs
    <2>3. docs' = [docs EXCEPT ![s] = d] /\ R!Exists(s) /\ docs[s].status \in R!Active
      BY <1>6, <2>1 DEF R!ChatRunsOut, R!Store, R!Exists, R!Active
    <2> QED BY <1>4, <2>2, <2>3
  <1>7. CASE R!TTLDeletes(s)
    <2>1. PICK d : d = R!Gone("deleted")
      OBVIOUS
    <2>2. /\ d \in R!Docs /\ d.dec = [u \in Players |-> "absent"] /\ d.status = "deleted"
          /\ d.outcome = "none"
      BY <2>1 DEF R!Gone, R!Docs, R!Statuses, R!Outcomes, R!Decisions
    <2>3. docs' = [docs EXCEPT ![s] = d] /\ docs[s].dies
      BY <1>7, <2>1 DEF R!TTLDeletes, R!Store
    <2>4. docs'[s] = d
      BY <1>1, <2>3 DEF RouletteStored
    <2>5. R!Members(d.dec) = {} /\ Few({}) /\ ~Paired({})
      BY <2>2 DEF R!Members, Few, Paired
    <2>6. ~(s > made) /\ s <= made
      <3>1. s \in Nat /\ made \in Nat /\ docs[s].status # "absent"
        BY <1>1, <2>3, RouletteFacts DEF RouletteStored, DocOK
      <3> QED BY <1>1, <3>1 DEF DocOK
    <2>7. DocOK(s)'
      BY <1>2, <2>2, <2>4, <2>5, <2>6 DEF DocOK, R!Active
    <2>8. R!Fits(s, d)
      BY <2>2 DEF R!Fits, R!Active
    <2> QED BY <1>3, <2>2, <2>3, <2>6, <2>7, <2>8
  <1> QED BY <1>5, <1>6, <1>7

-----------------------------------------------------------------------------

LEMMA RouletteStep == RouletteInv /\ [R!Next]_ofRoulette => RouletteInv'
  <1> SUFFICES ASSUME RouletteInv, [R!Next]_ofRoulette PROVE RouletteInv'
    OBVIOUS
  <1>1. CASE UNCHANGED ofRoulette
    <2>1. RouletteStored' /\ FollowsMeant'
      BY <1>1 DEF ofRoulette, RouletteInv, RouletteStored, FollowsMeant
    <2>2. OneDoc'
      BY <1>1 DEF ofRoulette, RouletteInv, OneDoc, R!ActiveOf, R!In
    <2>3. \A s \in R!Sessions : DocOK(s)'
      BY <1>1 DEF ofRoulette, RouletteInv, DocOK
    <2>4. \A r \in Requests : AskerKnows(r)'
      BY <1>1 DEF ofRoulette, RouletteInv, AskerKnows, R!Exists
    <2> QED BY <2>1, <2>2, <2>3, <2>4 DEF RouletteInv
  <1>2. CASE R!Next
    BY <1>2, LooksOK, StartsOK, InsertOK, JoinsOK, DecideOK, ReadsOK, WritesOK, FollowsOK, TimeOK
       DEF R!Next, R!Continue, R!Join
  <1> QED BY <1>1, <1>2

LEMMA RouletteInit == R!Init => RouletteInv
  <1> SUFFICES ASSUME R!Init PROVE RouletteInv
    OBVIOUS
  <1>1. R!Gone("absent") \in R!Docs /\ R!Idle \in RouletteCall
    BY RouletteFacts DEF R!Gone, R!Docs, R!Statuses, R!Outcomes, R!Decisions, R!Idle, RouletteCall, R!PCs
  <1>2. \A s \in R!Sessions : docs[s] = R!Gone("absent") /\ s \in Nat /\ s > made
    BY RouletteFacts DEF R!Init
  <1>3. RouletteStored
    <2>1. docs \in [R!Sessions -> R!Docs] /\ req \in [Requests -> RouletteCall]
      BY <1>1 DEF R!Init
    <2>2. made = 0 /\ decisions = 0 /\ follows = {} /\ connected = {} /\ alone = FALSE
      BY DEF R!Init
    <2>3. made \in 0 .. MaxSessions /\ decisions \in 0 .. MaxDecisions
      BY <2>2, RouletteFacts
    <2>4. follows \subseteq Players \X Players /\ connected \subseteq Players \X R!Sessions /\ alone \in BOOLEAN
      BY <2>2
    <2> QED BY <2>1, <2>3, <2>4 DEF RouletteStored
  <1>4. R!Members(R!Gone("absent").dec) = {} /\ Few({}) /\ ~Paired({})
    BY DEF R!Members, Few, Paired, R!Gone
  <1>5. \A s \in R!Sessions : DocOK(s)
    BY <1>2, <1>4 DEF DocOK, R!Active, R!Gone
  <1>6. OneDoc /\ FollowsMeant
    BY <1>2 DEF R!Init, OneDoc, R!ActiveOf, R!Active, FollowsMeant, R!Gone
  <1>7. \A r \in Requests : AskerKnows(r)
    BY DEF R!Init, AskerKnows, R!Idle, InDoc, Deciding, Following
  <1> QED BY <1>3, <1>5, <1>6, <1>7 DEF RouletteInv

LEMMA RouletteImplies == RouletteInv => R!OneActive /\ R!PairsExpire /\ R!OutcomeHonest
  <1> SUFFICES ASSUME RouletteInv PROVE R!OneActive /\ R!PairsExpire /\ R!OutcomeHonest
    OBVIOUS
  <1>1. R!TypeOK
    <2>1. \A s \in R!Sessions : R!Cardinality(R!Members(docs[s].dec)) <= 2
      BY Sizes DEF RouletteInv, DocOK
    <2> QED BY <2>1 DEF RouletteInv, RouletteStored, DocOK, R!TypeOK, RouletteCall
  <1>2. ASSUME NEW u \in Players PROVE R!Cardinality(R!ActiveOf(u)) <= 1
    <2>1. CASE R!ActiveOf(u) = {}
      <3>1. R!Cardinality({}) = 0
        BY FS_EmptySet DEF Cardinality, IsFiniteSet, R!Cardinality, R!IsFiniteSet
      <3> QED BY <2>1, <3>1
    <2>2. CASE R!ActiveOf(u) # {}
      <3>1. PICK s \in R!ActiveOf(u) : TRUE
        BY <2>2
      <3>2. R!ActiveOf(u) = {s}
        BY <3>1 DEF RouletteInv, OneDoc
      <3>3. R!Cardinality(R!ActiveOf(u)) = 1
        BY <3>2, Sizes, Zenon
      <3> QED BY <3>3
    <2> QED BY <2>1, <2>2
  <1>3. R!PairsExpire
    BY DEF RouletteInv, DocOK, R!PairsExpire
  <1>4. R!OutcomeHonest
    BY DEF RouletteInv, DocOK, FollowsMeant, R!OutcomeHonest
  <1> QED BY <1>1, <1>2, <1>3, <1>4 DEF R!OneActive

\* Two who chat, as a behaviour of the run may begin with.
LEMMA RouletteStarts == RouletteStart => RouletteInv
  <1> SUFFICES ASSUME RouletteStart PROVE RouletteInv
    OBVIOUS
  <1>1. PICK pair : pair = [u \in Players |-> IF u \in Twins THEN "pending" ELSE "absent"]
    OBVIOUS
  <1>2. PICK chat : chat = [R!Gone("chatting") EXCEPT !.fresh = TRUE, !.dies = TRUE, !.dec = pair]
    OBVIOUS
  <1>3. /\ chat \in R!Docs /\ chat.dec = pair /\ chat.dies = TRUE /\ chat.status = "chatting"
        /\ chat.outcome = "none"
    BY <1>1, <1>2 DEF R!Gone, R!Docs, R!Statuses, R!Active, R!Outcomes, R!Decisions
  <1>4. ASSUME NEW status \in {"absent", "deleted"}
        PROVE  /\ R!Gone(status) \in R!Docs /\ R!Gone(status).status = status
               /\ R!Gone(status).dies = FALSE /\ R!Gone(status).outcome = "none"
               /\ R!Gone(status).dec = [u \in Players |-> "absent"]
    BY DEF R!Gone, R!Docs, R!Statuses, R!Outcomes, R!Decisions
  <1>5. made \in 0 .. MaxSessions /\ made \in Nat /\ MaxSessions \in Nat
    <2>1. made \in 0 .. MaxSessions
      BY Zenon DEF RouletteStart
    <2>2. MaxSessions \in Nat
      BY RouletteFacts
    <2> QED BY <2>1, <2>2
  <1>6. ASSUME NEW s \in R!Sessions
        PROVE  docs[s] = IF s > made THEN R!Gone("absent")
                         ELSE IF s < made THEN R!Gone("deleted") ELSE chat
    BY <1>1, <1>2 DEF RouletteStart
  <1>7. docs \in [R!Sessions -> R!Docs]
    <2>1. \A s \in R!Sessions : docs[s] \in R!Docs
      BY <1>3, <1>4, <1>6
    <2>2. docs = [s \in R!Sessions |-> docs[s]]
      BY DEF RouletteStart
    <2> QED BY <2>1, <2>2
  <1>8. R!Idle \in RouletteCall
    BY RouletteFacts DEF R!Idle, RouletteCall, R!PCs, R!Decisions
  <1>9. decisions \in 0 .. MaxDecisions
    <2>1. decisions = MaxDecisions - made
      BY Zenon DEF RouletteStart
    <2>2. MaxSessions <= MaxDecisions /\ MaxDecisions \in Nat
      BY RouletteFacts, StartBounds
    <2> QED BY <1>5, <2>1, <2>2
  <1>10. /\ req \in [Requests -> RouletteCall] /\ \A r \in Requests : req[r] = R!Idle
         /\ follows = {} /\ connected = {} /\ alone = FALSE
    BY <1>8 DEF RouletteStart
  <1>11. RouletteStored
    BY <1>5, <1>7, <1>9, <1>10 DEF RouletteStored
  <1>12. R!Members(pair) = Players \cap Twins
    BY <1>1 DEF R!Members
  <1>13. Few(Players \cap Twins)
    <2>1. PICK x \in Twins, y \in Twins : Twins = {x, y}
      BY StartBounds
    <2>2. PICK a \in Players \cup {None} : x \in Players => a = x
      OBVIOUS
    <2>3. PICK b \in Players \cup {None} : y \in Players => b = y
      OBVIOUS
    <2>4. Players \cap Twins \subseteq {a, b}
      BY <2>1, <2>2, <2>3
    <2> QED BY <2>4 DEF Few
  <1>14. \A s \in R!Sessions : DocOK(s)
    <2> TAKE s \in R!Sessions
    <2>1. s \in Nat
      BY RouletteFacts
    <2>2. CASE s > made
      <3>1. docs[s] = R!Gone("absent")
        BY <1>6, <2>2
      <3>2. R!Members(docs[s].dec) = {} /\ Few({}) /\ ~Paired({})
        BY <1>4, <3>1 DEF R!Members, Few, Paired
      <3> QED BY <1>4, <2>2, <3>1, <3>2 DEF DocOK, R!Active
    <2>3. CASE s < made
      <3>1. docs[s] = R!Gone("deleted") /\ ~(s > made)
        BY <1>5, <1>6, <2>1, <2>3
      <3>2. R!Members(docs[s].dec) = {} /\ Few({}) /\ ~Paired({})
        BY <1>4, <3>1 DEF R!Members, Few, Paired
      <3> QED BY <1>4, <3>1, <3>2 DEF DocOK, R!Active
    <2>4. CASE ~(s > made) /\ ~(s < made)
      <3>1. docs[s] = chat
        BY <1>6, <2>4
      <3>2. \A u \in Players : chat.dec[u] # "connect"
        BY <1>1, <1>3
      <3> QED BY <1>3, <1>12, <1>13, <2>4, <3>1, <3>2 DEF DocOK, R!Active
    <2> QED BY <2>2, <2>3, <2>4
  <1>15. OneDoc
    <2>1. ASSUME NEW u \in Players, NEW s \in R!ActiveOf(u) PROVE s = made
      <3>1. s \in R!Sessions /\ s \in Nat /\ docs[s].status \in R!Active
        BY RouletteFacts DEF R!ActiveOf
      <3>2. ~(s > made) /\ ~(s < made)
        BY <1>4, <1>6, <3>1 DEF R!Active
      <3> QED BY <1>5, <3>1, <3>2
    <2> QED BY <2>1 DEF OneDoc
  <1>16. FollowsMeant
    BY <1>10 DEF FollowsMeant
  <1>17. \A r \in Requests : AskerKnows(r)
    BY <1>10 DEF AskerKnows, R!Idle, InDoc, Deciding, Following
  <1> QED BY <1>11, <1>14, <1>15, <1>16, <1>17 DEF RouletteInv

LEMMA RouletteAlways == MCSpec => []RouletteInv
  <1>1. MCInit => RouletteInv
    BY RouletteInit, RouletteStarts DEF MCInit
  <1>2. RouletteInv /\ [MCNext]_<<part, ofToggles, ofPosts, ofReels, ofChains, ofScores, ofDna,
                                 ofRoulette, ofEgo, ofTaste, ofFeeds>> => RouletteInv'
    BY RouletteStep DEF MCNext, Rest
  <1> QED BY <1>1, <1>2, PTL DEF MCSpec

\* A user has at most one document that is waiting, matched, chatting or deciding, even
\* where a late write brings an ended one back, because the unique index stands in the
\* way; and each that got a partner has its end set (RouletteController, roulette.cc).
THEOREM PairsHeld == MCSpec => []PairsHold
  <1>1. RouletteInv => PairsHold
    BY RouletteImplies DEF PairsHold
  <1> QED BY <1>1, RouletteAlways, PTL

\* The stored outcome is that of the stored decisions, and two users come to follow each
\* other only if both chose to in one session (recordDecision, decide).
THEOREM OutcomesHeld == MCSpec => []OutcomeHonest
  <1>1. RouletteInv => OutcomeHonest
    BY RouletteImplies DEF OutcomeHonest
  <1> QED BY <1>1, RouletteAlways, PTL

-----------------------------------------------------------------------------
(* Posts.                                                                       *)

PostPCs == {"idle", "increment", "deactivate", "decrement", "save", "comment", "count", "push",
            "tell", "thread", "get", "list"}
PostArgs == CommentIds \cup P!Visibilities \cup {"open", "closed", "text", "follows", "stranger", None}
PostCall == [pc : PostPCs, user : People \cup {None}, post : PostIds \cup {None},
             doc : P!Post \cup {P!NoPost}, arg : PostArgs, before : SUBSET CommentIds]
PostAnswer == [to : People \cup {None}, posts : SUBSET PostIds, named : SUBSET PostIds,
               may : SUBSET PostIds, moved : BOOLEAN, thread : SUBSET CommentIds,
               must : SUBSET CommentIds]
PostsStored ==
  /\ oPosts \in [PostIds -> P!Post \cup {P!NoPost}]
  /\ oCount \in [People -> Int]
  /\ oComments \in [CommentIds -> P!Comment \cup {P!NoComment}]
  /\ oShown \in [PostIds -> Nat] /\ oViews \in [PostIds -> Nat]
  /\ oTold \subseteq CommentIds
  /\ oFollows \subseteq People \X People
  /\ oReq \in [Requests -> PostCall]
  /\ oCalls \in 0 .. MaxPostCalls
  /\ oWas \in [Requests -> SUBSET PostIds]
  /\ oMoved \subseteq Requests
  /\ oAnswer \in PostAnswer
  /\ oHidden \in [People -> Int]
  /\ oBroken \in BOOLEAN

\* What a handler knows of the post it has read.
OnPost == {"deactivate", "save", "comment", "count", "push", "tell", "thread", "get"}
PosterKnows(r) ==
  LET q == oReq[r] IN
  /\ q.pc # "idle" => q.user \in People
  /\ q.pc \in OnPost => q.post \in PostIds /\ P!Exists(q.post) /\ q.doc \in P!Post
                       /\ q.doc.author = oPosts[q.post].author
                       /\ q.doc.anonymous = oPosts[q.post].anonymous
  /\ q.pc = "deactivate" => oPosts[q.post].author = q.user
\* What it was shown it might see at some moment.
ReaderKnows(r) ==
  LET q == oReq[r] IN
  /\ q.pc \in {"get", "thread"} /\ r \notin oMoved /\ P!CanView(q.user, q.doc, oFollows)
       => q.post \in oWas[r]
  /\ q.pc = "list" =>
       /\ q.doc.author \in People
       /\ P!Visible(q.user, oPosts, oFollows) \subseteq oWas[r]
       /\ r \notin oMoved => (q.arg = "follows" <=> <<q.user, q.doc.author>> \in oFollows)
\* A comment is there before it is counted, and is counted before it is a reply.
CommenterKnows(r) ==
  LET q == oReq[r] IN
  /\ q.pc \in {"count", "push", "tell"} =>
       q.arg \in CommentIds /\ P!Taken(q.arg) /\ oComments[q.arg].post = q.post
  /\ q.pc = "push" => oComments[q.arg].parent # None

\* A reply is in the list of the comment it answers, or about to be entered there.
Entering(c) == \E r \in Requests : oReq[r].pc \in {"count", "push"} /\ oReq[r].arg = c
Answering ==
  \A c \in CommentIds : oComments[c].parent # None =>
    /\ P!Taken(oComments[c].parent)
    /\ ~oBroken => c \in oComments[oComments[c].parent].replies \/ Entering(c)
ThreadsRead ==
  ~oBroken =>
    /\ oAnswer.must \subseteq oAnswer.thread
    /\ \A r \in Requests : P!At(r, "thread") => oReq[r].before \subseteq P!PopulateReplies(oReq[r].post)

Creating(u) == Cardinality({r \in Requests : P!At(r, "increment") /\ oReq[r].user = u})
Deleting(u) == Cardinality({r \in Requests : P!At(r, "decrement") /\ oReq[r].user = u})
ActiveOf(u) == Cardinality({p \in PostIds : oPosts[p].author = u /\ oPosts[p].active})
AuthorsCounted ==
  ~oBroken => \A u \in People :
    oCount[u] + Creating(u) - Deleting(u) = ActiveOf(u) + oHidden[u]
Uncounted(p) == Cardinality({r \in Requests : P!At(r, "count") /\ oReq[r].post = p})
CommentsOf(p) == Cardinality({c \in CommentIds : oComments[c].post = p})
CommentsCounted == ~oBroken => \A p \in PostIds : oShown[p] + Uncounted(p) = CommentsOf(p)

PostsInv ==
  /\ PostsStored
  /\ \A r \in Requests : PosterKnows(r)
  /\ \A r \in Requests : ReaderKnows(r)
  /\ \A r \in Requests : CommenterKnows(r)
  /\ P!AnswersVisible
  /\ oAnswer.named \subseteq {p \in PostIds : P!Exists(p)}
  /\ AuthorsCounted
  /\ CommentsCounted
  /\ Answering
  /\ ThreadsRead


\* The sizes that Posts counts.
LEMMA SameSize == \A S : P!Cardinality(S) = Cardinality(S)
  BY DEF Cardinality, IsFiniteSet, P!Cardinality, P!IsFiniteSet

LEMMA PostIdsFinite ==
  ASSUME P!PostsAssumption
  PROVE  IsFiniteSet(PostIds) /\ IsFiniteSet(CommentIds) /\ IsFiniteSet(Requests)
  BY DEF P!PostsAssumption, IsFiniteSet, P!IsFiniteSet

\* One element more, one less, or none.
LEMMA OneApart ==
  ASSUME NEW U, IsFiniteSet(U), NEW Old \in SUBSET U, NEW Now \in SUBSET U, NEW r \in U, Old \ {r} = Now \ {r}
  PROVE  /\ Cardinality(Old) \in Nat /\ Cardinality(Now) \in Nat
         /\ (r \in Old <=> r \in Now) => Cardinality(Now) = Cardinality(Old)
         /\ r \in Now /\ r \notin Old => Cardinality(Now) = Cardinality(Old) + 1
         /\ r \in Old /\ r \notin Now => Cardinality(Now) = Cardinality(Old) - 1
<1>1. IsFiniteSet(Old) /\ IsFiniteSet(Now)
  BY FS_Subset
<1>2. Cardinality(Old) \in Nat /\ Cardinality(Now) \in Nat
  BY <1>1, FS_CardinalityType
<1>3. (r \in Old <=> r \in Now) => Old = Now
  OBVIOUS
<1>4. ASSUME r \in Now, r \notin Old PROVE Cardinality(Now) = Cardinality(Old) + 1
  <2>1. Now = Old \cup {r}
    BY <1>4
  <2> QED BY <1>1, <1>4, <2>1, FS_AddElement
<1>5. ASSUME r \in Old, r \notin Now PROVE Cardinality(Now) = Cardinality(Old) - 1
  <2>1. Old = Now \cup {r}
    BY <1>5
  <2>2. Cardinality(Old) = Cardinality(Now) + 1
    BY <1>1, <1>5, <2>1, FS_AddElement
  <2> QED BY <1>2, <2>2
<1> QED BY <1>2, <1>3, <1>4, <1>5

LEMMA PostFields ==
  ASSUME NEW d \in P!Post
  PROVE  /\ d.author \in People /\ d.visibility \in P!Visibilities /\ d.allow \in BOOLEAN
         /\ d.anonymous \in BOOLEAN /\ d.active \in BOOLEAN
  BY DEF P!Post

LEMMA CallFields ==
  ASSUME NEW q \in PostCall
  PROVE  /\ q.pc \in PostPCs /\ q.user \in People \cup {None} /\ q.post \in PostIds \cup {None}
         /\ q.doc \in P!Post \cup {P!NoPost} /\ q.arg \in PostArgs /\ q.before \subseteq CommentIds
  BY DEF PostCall

LEMMA CommentFields ==
  ASSUME NEW d \in P!Comment
  PROVE  /\ d.post \in PostIds /\ d.author \in People /\ d.parent \in CommentIds \cup {None}
         /\ d.replies \subseteq CommentIds
  BY DEF P!Comment

\* Of nothing is no post and no comment.
LEMMA Nothing ==
  ASSUME P!PostsAssumption, PostsStored
  PROVE  /\ P!NoPost.author = None /\ P!NoPost.active = FALSE /\ P!NoPost.anonymous = FALSE
         /\ P!NoPost \notin P!Post /\ P!NoComment \notin P!Comment
         /\ P!NoComment.post = None /\ P!NoComment.parent = None /\ P!NoComment.replies = {}
         /\ \A p \in PostIds : P!Exists(p) <=> oPosts[p] \in P!Post
         /\ \A p \in PostIds : P!Exists(p) <=> oPosts[p].author # None
         /\ \A p \in PostIds : P!Exists(p) <=> oPosts[p].author \in People
         /\ \A p \in PostIds : oPosts[p].active => P!Exists(p)
         /\ \A c \in CommentIds : P!Taken(c) <=> oComments[c] \in P!Comment
         /\ \A c \in CommentIds : P!Taken(c) <=> oComments[c].post \in PostIds
         /\ \A c \in CommentIds : oComments[c].parent # None => P!Taken(c)
         /\ \A c \in CommentIds : oComments[c].replies # {} => P!Taken(c)
<1>1. /\ P!NoPost.author = None /\ P!NoPost.active = FALSE /\ P!NoPost.anonymous = FALSE
      /\ P!NoComment.post = None /\ P!NoComment.parent = None /\ P!NoComment.replies = {}
  BY DEF P!NoPost, P!NoComment
<1>2. None \notin People /\ None \notin PostIds
  BY DEF P!PostsAssumption
<1>3. P!NoPost \notin P!Post /\ P!NoComment \notin P!Comment
  BY <1>1, <1>2, PostFields, CommentFields
<1>4. \A p \in PostIds : oPosts[p] \in P!Post \cup {P!NoPost}
  BY DEF PostsStored
<1>5. \A c \in CommentIds : oComments[c] \in P!Comment \cup {P!NoComment}
  BY DEF PostsStored
<1>6. /\ \A p \in PostIds : P!Exists(p) <=> oPosts[p] \in P!Post
      /\ \A c \in CommentIds : P!Taken(c) <=> oComments[c] \in P!Comment
  BY <1>3, <1>4, <1>5 DEF P!Exists, P!Taken
<1>7. \A p \in PostIds : /\ P!Exists(p) <=> oPosts[p].author # None
                         /\ P!Exists(p) <=> oPosts[p].author \in People
                         /\ oPosts[p].active => P!Exists(p)
  BY <1>1, <1>2, <1>4, <1>6, PostFields DEF P!Exists
<1>8. \A c \in CommentIds : /\ P!Taken(c) <=> oComments[c].post \in PostIds
                            /\ oComments[c].parent # None => P!Taken(c)
                            /\ oComments[c].replies # {} => P!Taken(c)
  BY <1>1, <1>2, <1>5, <1>6, CommentFields DEF P!Taken
<1> QED BY <1>1, <1>3, <1>6, <1>7, <1>8

-----------------------------------------------------------------------------
\* What a step leaves as it is.
PostsGrow ==
  \A p \in PostIds : P!Exists(p) => /\ P!Exists(p)'
                                    /\ oPosts[p].author' = oPosts[p].author
                                    /\ oPosts[p].anonymous' = oPosts[p].anonymous
CommentsGrow ==
  \A c \in CommentIds : P!Taken(c) => /\ P!Taken(c)'
                                      /\ oComments[c].post' = oComments[c].post
                                      /\ oComments[c].parent' = oComments[c].parent
                                      /\ oComments[c].replies \subseteq oComments[c].replies'
Watching(k) ==
  /\ oWas[k] \subseteq oWas[k]'
  /\ k \notin oMoved' => k \notin oMoved /\ oFollows' = oFollows
  /\ \/ UNCHANGED <<oPosts, oFollows>>
     \/ oReq[k].pc # "idle" => P!Visible(oReq[k].user, oPosts', oFollows') \subseteq oWas[k]'

LEMMA PosterStays ==
  ASSUME NEW k \in Requests, PosterKnows(k), oReq[k]' = oReq[k], PostsGrow
  PROVE  PosterKnows(k)'
  BY DEF PosterKnows, PostsGrow, OnPost

LEMMA CommenterStays ==
  ASSUME NEW k \in Requests, CommenterKnows(k), oReq[k]' = oReq[k], CommentsGrow
  PROVE  CommenterKnows(k)'
  BY DEF CommenterKnows, CommentsGrow

LEMMA ReaderStays ==
  ASSUME NEW k \in Requests, ReaderKnows(k), oReq[k]' = oReq[k], Watching(k)
  PROVE  ReaderKnows(k)'
<1> DEFINE q == oReq[k]
<1>1. oReq'[k] = q
  OBVIOUS
<1>2. ASSUME q.pc \in {"get", "thread"}, k \notin oMoved', P!CanView(q.user, q.doc, oFollows')
      PROVE  q.post \in oWas'[k]
  <2>1. k \notin oMoved /\ oFollows' = oFollows /\ oWas[k] \subseteq oWas'[k]
    BY <1>2 DEF Watching
  <2> QED BY <1>2, <2>1 DEF ReaderKnows
<1>3. ASSUME q.pc = "list"
      PROVE  /\ q.doc.author \in People
             /\ P!Visible(q.user, oPosts', oFollows') \subseteq oWas'[k]
             /\ k \notin oMoved' => (q.arg = "follows" <=> <<q.user, q.doc.author>> \in oFollows')
  <2>1. /\ q.doc.author \in People
        /\ P!Visible(q.user, oPosts, oFollows) \subseteq oWas[k]
        /\ k \notin oMoved => (q.arg = "follows" <=> <<q.user, q.doc.author>> \in oFollows)
    BY <1>3 DEF ReaderKnows
  <2>2. P!Visible(q.user, oPosts', oFollows') \subseteq oWas'[k]
    BY <1>3, <2>1 DEF Watching
  <2>3. k \notin oMoved' => (q.arg = "follows" <=> <<q.user, q.doc.author>> \in oFollows')
    BY <2>1 DEF Watching
  <2> QED BY <2>1, <2>2, <2>3
<1>4. (ReaderKnows(k))' <=>
        /\ oReq'[k].pc \in {"get", "thread"} /\ k \notin oMoved' /\ P!CanView(oReq'[k].user, oReq'[k].doc, oFollows')
             => oReq'[k].post \in oWas'[k]
        /\ oReq'[k].pc = "list" =>
             /\ oReq'[k].doc.author \in People
             /\ P!Visible(oReq'[k].user, oPosts', oFollows') \subseteq oWas'[k]
             /\ k \notin oMoved' => (oReq'[k].arg = "follows" <=> <<oReq'[k].user, oReq'[k].doc.author>> \in oFollows')
  BY DEF ReaderKnows, P!CanView, P!Visible
<1> QED BY <1>1, <1>2, <1>3, <1>4

\* A thread only grows.
LEMMA ThreadGrows ==
  ASSUME P!PostsAssumption, PostsStored, CommentsGrow, NEW p \in PostIds
  PROVE  P!PopulateReplies(p) \subseteq P!PopulateReplies(p)'
<1> DEFINE Below == {e \in CommentIds \X CommentIds :
                       oComments[e[2]].post = p /\ e[2] \in oComments[e[1]].replies}
           Under == {e \in CommentIds \X CommentIds :
                       oComments'[e[2]].post = p /\ e[2] \in oComments'[e[1]].replies}
           Top == P!TopLevel(p)
           New == {c \in CommentIds : oComments'[c].post = p /\ oComments'[c].parent = None}
<1>1. Top \subseteq New
  BY Nothing DEF P!TopLevel, CommentsGrow
<1>2. Below \subseteq Under
  <2> SUFFICES ASSUME NEW e \in Below PROVE e \in Under
    OBVIOUS
  <2>1. e[1] \in CommentIds /\ e[2] \in CommentIds /\ e \in CommentIds \X CommentIds
    OBVIOUS
  <2>2. P!Taken(e[2]) /\ P!Taken(e[1])
    BY <2>1, Nothing
  <2> QED BY <2>1, <2>2 DEF CommentsGrow
<1>3. P!PopulateReplies(p) = P!Threaded(Top, Below)
  BY DEF P!PopulateReplies
<1>4. P!PopulateReplies(p)' = P!Threaded(New, Under)
  BY DEF P!PopulateReplies, P!Threaded, P!TopLevel
<1> HIDE DEF Below, Under, Top, New
<1> QED BY <1>1, <1>2, <1>3, <1>4 DEF P!Threaded

\* Nobody misses what all its handlers have ended.
LEMMA SettledFound ==
  ASSUME P!PostsAssumption, PostsInv, ~oBroken, NEW p
  PROVE  P!SettledThread(p) \subseteq P!PopulateReplies(p)
<1> DEFINE Below == {e \in CommentIds \X CommentIds :
                       oComments[e[2]].post = p /\ e[2] \in oComments[e[1]].replies}
           Up == {e \in CommentIds \X P!Settled :
                       oComments[e[2]].post = p /\ oComments[e[2]].parent = e[1]}
           Top == P!TopLevel(p)
<1>1. Up \subseteq Below
  <2> SUFFICES ASSUME NEW e \in Up PROVE e \in Below
    OBVIOUS
  <2>1. e[1] \in CommentIds /\ e[2] \in P!Settled /\ e[2] \in CommentIds
    BY DEF P!Settled
  <2>2. \A r \in Requests : oReq[r].arg # e[2]
    BY <2>1 DEF P!Settled
  <2>3. oComments[e[2]].parent = e[1] /\ e[1] # None
    BY <2>1 DEF P!PostsAssumption
  <2>4. e[2] \in oComments[e[1]].replies
    BY <2>1, <2>2, <2>3 DEF PostsInv, Answering, Entering
  <2> QED BY <2>1, <2>4
<1>2. P!PopulateReplies(p) = P!Threaded(Top, Below)
  BY DEF P!PopulateReplies
<1>3. P!SettledThread(p) = P!Threaded(Top \cap P!Settled, Up)
  BY DEF P!SettledThread
<1> HIDE DEF Below, Up, Top
<1> QED BY <1>1, <1>2, <1>3 DEF P!Threaded

\* The handlers that stand somewhere, when one of them moves.
LEMMA HandlerMoves ==
  ASSUME PostsStored, NEW r \in Requests, NEW q \in PostCall, oReq' = [oReq EXCEPT ![r] = q]
  PROVE  /\ oReq' \in [Requests -> PostCall] /\ oReq'[r] = q
         /\ \A k \in Requests \ {r} : oReq'[k] = oReq[k]
BY DEF PostsStored

LEMMA CreatingMoves ==
  ASSUME P!PostsAssumption, PostsStored, NEW r \in Requests, NEW q \in PostCall,
         oReq' = [oReq EXCEPT ![r] = q], NEW u
  PROVE  /\ Creating(u) \in Nat /\ Creating(u)' \in Nat
         /\ (q.pc = "increment" /\ q.user = u <=> oReq[r].pc = "increment" /\ oReq[r].user = u)
              => Creating(u)' = Creating(u)
         /\ q.pc = "increment" /\ q.user = u /\ oReq[r].pc # "increment"
              => Creating(u)' = Creating(u) + 1
         /\ oReq[r].pc = "increment" /\ oReq[r].user = u /\ q.pc # "increment"
              => Creating(u)' = Creating(u) - 1
<1> DEFINE Old == {k \in Requests : oReq[k].pc = "increment" /\ oReq[k].user = u}
           Now == {k \in Requests : oReq'[k].pc = "increment" /\ oReq'[k].user = u}
<1>1. Old \in SUBSET Requests /\ Now \in SUBSET Requests /\ Old \ {r} = Now \ {r}
  BY HandlerMoves
<1>2. /\ r \in Old <=> oReq[r].pc = "increment" /\ oReq[r].user = u
      /\ r \in Now <=> q.pc = "increment" /\ q.user = u
  BY HandlerMoves
<1>3. Creating(u) = Cardinality(Old) /\ Creating(u)' = Cardinality(Now)
  BY Zenon DEF Creating, P!At
<1> HIDE DEF Old, Now
<1>4. /\ Cardinality(Old) \in Nat /\ Cardinality(Now) \in Nat
      /\ (r \in Old <=> r \in Now) => Cardinality(Now) = Cardinality(Old)
      /\ r \in Now /\ r \notin Old => Cardinality(Now) = Cardinality(Old) + 1
      /\ r \in Old /\ r \notin Now => Cardinality(Now) = Cardinality(Old) - 1
  BY <1>1, OneApart, PostIdsFinite
<1> QED BY <1>2, <1>3, <1>4

LEMMA DeletingMoves ==
  ASSUME P!PostsAssumption, PostsStored, NEW r \in Requests, NEW q \in PostCall,
         oReq' = [oReq EXCEPT ![r] = q], NEW u
  PROVE  /\ Deleting(u) \in Nat /\ Deleting(u)' \in Nat
         /\ (q.pc = "decrement" /\ q.user = u <=> oReq[r].pc = "decrement" /\ oReq[r].user = u)
              => Deleting(u)' = Deleting(u)
         /\ q.pc = "decrement" /\ q.user = u /\ oReq[r].pc # "decrement"
              => Deleting(u)' = Deleting(u) + 1
         /\ oReq[r].pc = "decrement" /\ oReq[r].user = u /\ q.pc # "decrement"
              => Deleting(u)' = Deleting(u) - 1
<1> DEFINE Old == {k \in Requests : oReq[k].pc = "decrement" /\ oReq[k].user = u}
           Now == {k \in Requests : oReq'[k].pc = "decrement" /\ oReq'[k].user = u}
<1>1. Old \in SUBSET Requests /\ Now \in SUBSET Requests /\ Old \ {r} = Now \ {r}
  BY HandlerMoves
<1>2. /\ r \in Old <=> oReq[r].pc = "decrement" /\ oReq[r].user = u
      /\ r \in Now <=> q.pc = "decrement" /\ q.user = u
  BY HandlerMoves
<1>3. Deleting(u) = Cardinality(Old) /\ Deleting(u)' = Cardinality(Now)
  BY Zenon DEF Deleting, P!At
<1> HIDE DEF Old, Now
<1>4. /\ Cardinality(Old) \in Nat /\ Cardinality(Now) \in Nat
      /\ (r \in Old <=> r \in Now) => Cardinality(Now) = Cardinality(Old)
      /\ r \in Now /\ r \notin Old => Cardinality(Now) = Cardinality(Old) + 1
      /\ r \in Old /\ r \notin Now => Cardinality(Now) = Cardinality(Old) - 1
  BY <1>1, OneApart, PostIdsFinite
<1> QED BY <1>2, <1>3, <1>4

LEMMA UncountedMoves ==
  ASSUME P!PostsAssumption, PostsStored, NEW r \in Requests, NEW q \in PostCall,
         oReq' = [oReq EXCEPT ![r] = q], NEW p
  PROVE  /\ Uncounted(p) \in Nat /\ Uncounted(p)' \in Nat
         /\ (q.pc = "count" /\ q.post = p <=> oReq[r].pc = "count" /\ oReq[r].post = p)
              => Uncounted(p)' = Uncounted(p)
         /\ q.pc = "count" /\ q.post = p /\ oReq[r].pc # "count"
              => Uncounted(p)' = Uncounted(p) + 1
         /\ oReq[r].pc = "count" /\ oReq[r].post = p /\ q.pc # "count"
              => Uncounted(p)' = Uncounted(p) - 1
<1> DEFINE Old == {k \in Requests : oReq[k].pc = "count" /\ oReq[k].post = p}
           Now == {k \in Requests : oReq'[k].pc = "count" /\ oReq'[k].post = p}
<1>1. Old \in SUBSET Requests /\ Now \in SUBSET Requests /\ Old \ {r} = Now \ {r}
  BY HandlerMoves
<1>2. /\ r \in Old <=> oReq[r].pc = "count" /\ oReq[r].post = p
      /\ r \in Now <=> q.pc = "count" /\ q.post = p
  BY HandlerMoves
<1>3. Uncounted(p) = Cardinality(Old) /\ Uncounted(p)' = Cardinality(Now)
  BY Zenon DEF Uncounted, P!At
<1> HIDE DEF Old, Now
<1>4. /\ Cardinality(Old) \in Nat /\ Cardinality(Now) \in Nat
      /\ (r \in Old <=> r \in Now) => Cardinality(Now) = Cardinality(Old)
      /\ r \in Now /\ r \notin Old => Cardinality(Now) = Cardinality(Old) + 1
      /\ r \in Old /\ r \notin Now => Cardinality(Now) = Cardinality(Old) - 1
  BY <1>1, OneApart, PostIdsFinite
<1> QED BY <1>2, <1>3, <1>4

LEMMA AuthorsStay ==
  ASSUME P!PostsAssumption, PostsInv, NEW r \in Requests, NEW q \in PostCall,
         oReq' = [oReq EXCEPT ![r] = q], oBroken => oBroken', UNCHANGED <<oPosts, oCount, oHidden>>,
         oReq[r].pc \notin {"increment", "decrement"}, q.pc \notin {"increment", "decrement"}
  PROVE  AuthorsCounted'
<1>0. PostsStored
  BY DEF PostsInv
<1>1. \A u : Creating(u)' = Creating(u)
  BY <1>0, CreatingMoves
<1>2. \A u : Deleting(u)' = Deleting(u)
  BY <1>0, DeletingMoves
<1>3. \A u : ActiveOf(u)' = ActiveOf(u)
  BY DEF ActiveOf
<1> QED BY <1>1, <1>2, <1>3 DEF PostsInv, AuthorsCounted

LEMMA CommentsStay ==
  ASSUME P!PostsAssumption, PostsInv, NEW r \in Requests, NEW q \in PostCall,
         oReq' = [oReq EXCEPT ![r] = q], oBroken => oBroken', UNCHANGED <<oComments, oShown>>,
         oReq[r].pc # "count", q.pc # "count"
  PROVE  CommentsCounted'
<1>1. \A p : Uncounted(p)' = Uncounted(p)
  <2>1. PostsStored
    BY DEF PostsInv
  <2> QED BY <2>1, UncountedMoves
<1>2. \A p : CommentsOf(p)' = CommentsOf(p)
  BY DEF CommentsOf
<1> QED BY <1>1, <1>2 DEF PostsInv, CommentsCounted

LEMMA AnsweringStays ==
  ASSUME PostsInv, NEW r \in Requests, NEW q \in PostCall, oReq' = [oReq EXCEPT ![r] = q],
         oBroken => oBroken', UNCHANGED oComments,
         oReq[r].pc \in {"count", "push"} => oBroken' \/ (q.pc \in {"count", "push"} /\ q.arg = oReq[r].arg)
  PROVE  Answering'
<1>1. oReq \in [Requests -> PostCall]
  BY DEF PostsInv, PostsStored
<1>2. ASSUME NEW c, Entering(c), ~oBroken' PROVE Entering(c)'
  <2>1. PICK k \in Requests : oReq[k].pc \in {"count", "push"} /\ oReq[k].arg = c
    BY <1>2 DEF Entering
  <2>2. oReq'[k].pc \in {"count", "push"} /\ oReq'[k].arg = c
    BY <1>1, <1>2, <2>1
  <2> QED BY <2>2 DEF Entering
<1> QED BY <1>2 DEF PostsInv, Answering, P!Taken

LEMMA ThreadsStay ==
  ASSUME P!PostsAssumption, PostsInv, NEW r \in Requests, NEW q \in PostCall,
         oReq' = [oReq EXCEPT ![r] = q], oBroken => oBroken', CommentsGrow, UNCHANGED oAnswer,
         q.pc = "thread" => oBroken' \/ (q.post \in PostIds /\ q.before \subseteq P!PopulateReplies(q.post)')
  PROVE  ThreadsRead'
<1> SUFFICES ASSUME ~oBroken'
             PROVE  /\ oAnswer'.must \subseteq oAnswer'.thread
                    /\ \A k \in Requests : P!At(k, "thread")' => oReq'[k].before \subseteq P!PopulateReplies(oReq[k].post)'
  BY DEF ThreadsRead
<1>1. ~oBroken /\ oReq \in [Requests -> PostCall] /\ ThreadsRead
  BY DEF PostsInv, PostsStored
<1>2. ASSUME NEW k \in Requests, oReq'[k].pc = "thread"
      PROVE  oReq'[k].before \subseteq P!PopulateReplies(oReq[k].post)'
  <2>1. CASE k = r
    <3>1. oReq'[k] = q
      BY <1>1, <2>1
    <3>2. \A p : p = oReq'[k].post => P!PopulateReplies(oReq[k].post)' = P!PopulateReplies(p)'
      BY DEF P!PopulateReplies, P!TopLevel
    <3> QED BY <1>2, <3>1, <3>2
  <2>2. CASE k # r
    <3>1. oReq'[k] = oReq[k]
      BY <1>1, <2>2
    <3>2. oReq[k].post \in PostIds /\ oReq[k].before \subseteq P!PopulateReplies(oReq[k].post)
      BY <1>1, <1>2, <3>1 DEF ThreadsRead, P!At, PostsInv, PosterKnows, OnPost
    <3>3. PICK p \in PostIds : p = oReq[k].post
      BY <3>2
    <3>4. P!PopulateReplies(p) \subseteq P!PopulateReplies(p)'
      BY ThreadGrows DEF PostsInv
    <3>5. P!PopulateReplies(oReq[k].post)' = P!PopulateReplies(p)'
      BY <3>1, <3>3 DEF P!PopulateReplies, P!TopLevel
    <3>6. P!PopulateReplies(oReq[k].post) = P!PopulateReplies(p)
      BY <3>3
    <3> QED BY <3>1, <3>2, <3>4, <3>5, <3>6
  <2> QED BY <2>1, <2>2
<1> QED BY <1>1, <1>2 DEF ThreadsRead, P!At

LEMMA AnswersStay ==
  ASSUME PostsInv, UNCHANGED oAnswer, PostsGrow
  PROVE  P!AnswersVisible' /\ (oAnswer.named \subseteq {p \in PostIds : P!Exists(p)})'
<1>1. oAnswer.named \subseteq {p \in PostIds : P!Exists(p)}
  BY DEF PostsInv
<1>2. \A p \in oAnswer.named : P!Exists(p)' /\ oPosts'[p].author = oPosts[p].author
                               /\ oPosts'[p].anonymous = oPosts[p].anonymous
  BY <1>1 DEF PostsGrow
<1>3. P!AnswersVisible'
  BY <1>2 DEF PostsInv, P!AnswersVisible
<1> QED BY <1>1, <1>2, <1>3 DEF P!Exists

LEMMA SameGrows ==
  /\ UNCHANGED oPosts => PostsGrow
  /\ UNCHANGED oComments => CommentsGrow
  BY DEF PostsGrow, CommentsGrow, P!Exists, P!Taken

\* What a step of one handler must be shown to do.
LEMMA HandlersKnow ==
  ASSUME PostsInv, NEW r \in Requests, NEW q \in PostCall, oReq' = [oReq EXCEPT ![r] = q],
         PostsGrow, CommentsGrow, \A k \in Requests \ {r} : Watching(k),
         PosterKnows(r)', ReaderKnows(r)', CommenterKnows(r)'
  PROVE  \A k \in Requests : PosterKnows(k)' /\ ReaderKnows(k)' /\ CommenterKnows(k)'
<1> SUFFICES ASSUME NEW k \in Requests
             PROVE  PosterKnows(k)' /\ ReaderKnows(k)' /\ CommenterKnows(k)'
  OBVIOUS
<1>1. CASE k = r
  BY <1>1
<1>2. CASE k # r
  <2>1. oReq[k]' = oReq[k]
    BY <1>2, HandlerMoves DEF PostsInv
  <2>2. PosterKnows(k) /\ ReaderKnows(k) /\ CommenterKnows(k) /\ Watching(k)
    BY <1>2 DEF PostsInv
  <2> QED BY <2>1, <2>2, PosterStays, ReaderStays, CommenterStays
<1> QED BY <1>1, <1>2

\* A handler that has returned knows nothing.
LEMMA IdleKnows ==
  ASSUME NEW r \in Requests, oReq'[r] = P!Idle
  PROVE  PosterKnows(r)' /\ ReaderKnows(r)' /\ CommenterKnows(r)'
<1>1. oReq'[r].pc = "idle"
  BY DEF P!Idle
<1> QED BY <1>1 DEF PosterKnows, ReaderKnows, CommenterKnows, OnPost

LEMMA IdleCall == P!Idle \in PostCall
  BY DEF P!Idle, PostCall, PostPCs, PostArgs

\* Without a write of the posts or the follow graph nothing new becomes visible.
LEMMA SameWatches ==
  ASSUME UNCHANGED <<oPosts, oFollows, oWas, oMoved>>
  PROVE  \A k \in Requests : Watching(k)
  BY DEF Watching

LEMMA WatchWatches ==
  ASSUME PostsStored, P!Watch, UNCHANGED <<oFollows, oMoved>>
  PROVE  \A k \in Requests : Watching(k)
  BY DEF Watching, P!Watch, P!At, PostsStored

LEMMA WatchTyped ==
  ASSUME PostsStored, P!Watch
  PROVE  oWas' \in [Requests -> SUBSET PostIds]
  BY DEF PostsStored, P!Watch, P!Visible, P!At

LEMMA Stepping ==
  ASSUME PostsInv, NEW r \in Requests, NEW q \in PostCall, oReq' = [oReq EXCEPT ![r] = q],
         PostsStored', PostsGrow, CommentsGrow, \A k \in Requests \ {r} : Watching(k),
         PosterKnows(r)', ReaderKnows(r)', CommenterKnows(r)',
         P!AnswersVisible', (oAnswer.named \subseteq {p \in PostIds : P!Exists(p)})',
         AuthorsCounted', CommentsCounted', Answering', ThreadsRead'
  PROVE  PostsInv'
<1>1. \A k \in Requests : PosterKnows(k)' /\ ReaderKnows(k)' /\ CommenterKnows(k)'
  BY HandlersKnow
<1> QED BY <1>1 DEF PostsInv

\* The call that Begin opens.
Opened(pc, u, p, doc, arg) ==
  [pc |-> pc, user |-> u, post |-> p, doc |-> doc, arg |-> arg,
   before |-> IF pc = "thread" THEN P!SettledThread(p) ELSE {}]

LEMMA OpenedCall ==
  ASSUME NEW pc \in PostPCs, NEW u \in People, NEW p \in PostIds \cup {None},
         NEW doc \in P!Post \cup {P!NoPost}, NEW arg \in PostArgs
  PROVE  Opened(pc, u, p, doc, arg) \in PostCall
<1>1. P!SettledThread(p) \subseteq CommentIds
  BY DEF P!SettledThread, P!Threaded
<1> QED BY <1>1 DEF Opened, PostCall

LEMMA ReadsStep ==
  ASSUME P!PostsAssumption, PostsInv, NEW r \in Requests,
         NEW pc \in {"deactivate", "save", "comment", "thread", "get", "list"},
         NEW u \in People, NEW p \in PostIds \cup {None}, NEW doc \in P!Post, NEW arg \in PostArgs,
         P!Reads(r, pc, u, p, doc, arg),
         pc # "list" => p \in PostIds /\ P!Exists(p) /\ doc = oPosts[p],
         pc = "deactivate" => oPosts[p].author = u,
         pc = "list" => (arg = "follows" <=> <<u, doc.author>> \in oFollows)
  PROVE  PostsInv'
<1>1. PICK q : q = Opened(pc, u, p, doc, arg)
  OBVIOUS
<1>2. /\ q.pc = pc /\ q.user = u /\ q.post = p /\ q.doc = doc /\ q.arg = arg
      /\ q.before = IF pc = "thread" THEN P!SettledThread(p) ELSE {}
  BY <1>1 DEF Opened
<1>3. q \in PostCall
  BY <1>1, OpenedCall DEF PostPCs
<1>4. /\ oReq[r].pc = "idle" /\ oReq' = [oReq EXCEPT ![r] = q] /\ oCalls < MaxPostCalls /\ oCalls' = oCalls + 1
  BY <1>1 DEF P!Reads, P!Begin, P!At, Opened
<1>5. /\ oWas' = [oWas EXCEPT ![r] = P!Visible(u, oPosts, oFollows)]
      /\ oMoved' = oMoved \ {r}
      /\ UNCHANGED <<oPosts, oCount, oComments, oShown, oViews, oTold, oFollows, oAnswer, oHidden, oBroken>>
  BY DEF P!Reads, P!collections
<1>6. PostsStored
  BY DEF PostsInv
<1>7. oReq' \in [Requests -> PostCall] /\ oReq'[r] = q
  BY <1>3, <1>4, <1>6, HandlerMoves
<1>8. PostsStored'
  <2>1. oWas' \in [Requests -> SUBSET PostIds] /\ oMoved' \subseteq Requests
    BY <1>5, <1>6 DEF PostsStored, P!Visible
  <2>2. oCalls' \in 0 .. MaxPostCalls
    BY <1>4, <1>6 DEF PostsStored, P!PostsAssumption
  <2> QED BY <1>5, <1>6, <1>7, <2>1, <2>2 DEF PostsStored
<1>9. PostsGrow /\ CommentsGrow
  BY <1>5, SameGrows
<1>10. \A k \in Requests \ {r} : Watching(k)
  BY <1>5, <1>6 DEF Watching, PostsStored
<1>11. doc.author \in People
  BY PostFields
<1>12. PosterKnows(r)'
  BY <1>2, <1>5, <1>7 DEF PosterKnows, OnPost, P!Exists
<1>13. oWas'[r] = P!Visible(u, oPosts, oFollows) /\ r \notin oMoved'
  BY <1>5, <1>6 DEF PostsStored
<1>14. ReaderKnows(r)'
  <2>1. pc \in {"get", "thread"} /\ P!CanView(u, doc, oFollows) => p \in P!Visible(u, oPosts, oFollows)
    BY DEF P!Visible
  <2>2. pc \in {"get", "thread"} /\ P!CanView(oReq'[r].user, oReq'[r].doc, oFollows') => oReq'[r].post \in oWas'[r]
    BY <1>2, <1>5, <1>7, <1>13, <2>1
  <2>3. P!Visible(oReq'[r].user, oPosts', oFollows') \subseteq oWas'[r]
    BY <1>2, <1>5, <1>7, <1>13
  <2>4. pc = "list" => (oReq'[r].arg = "follows" <=> <<oReq'[r].user, oReq'[r].doc.author>> \in oFollows')
    BY <1>2, <1>5, <1>7
  <2>5. oReq'[r].doc.author \in People /\ oReq'[r].pc = pc
    BY <1>2, <1>7, <1>11
  <2> QED BY <2>2, <2>3, <2>4, <2>5 DEF ReaderKnows, P!CanView, P!Visible
<1>15. CommenterKnows(r)'
  BY <1>2, <1>7 DEF CommenterKnows
<1>16. P!AnswersVisible' /\ (oAnswer.named \subseteq {k \in PostIds : P!Exists(k)})'
  BY <1>5, <1>9, AnswersStay
<1>17. AuthorsCounted'
  BY <1>2, <1>3, <1>4, <1>5, AuthorsStay
<1>18. CommentsCounted'
  BY <1>2, <1>3, <1>4, <1>5, CommentsStay
<1>19. Answering'
  BY <1>2, <1>3, <1>4, <1>5, AnsweringStays
<1>20. ThreadsRead'
  <2>1. ASSUME pc = "thread", ~oBroken' PROVE p \in PostIds /\ q.before \subseteq P!PopulateReplies(p)'
    <3>1. P!SettledThread(p) \subseteq P!PopulateReplies(p) /\ p \in PostIds
      BY <1>5, <2>1, SettledFound
    <3>2. P!PopulateReplies(p)' = P!PopulateReplies(p)
      BY <1>5 DEF P!PopulateReplies, P!TopLevel, P!Threaded
    <3> QED BY <1>2, <2>1, <3>1, <3>2
  <2>2. \A k : k = p => P!PopulateReplies(k)' = P!PopulateReplies(p)'
    BY DEF P!PopulateReplies, P!TopLevel, P!Threaded
  <2>3. q.pc = "thread" => oBroken' \/ (q.post \in PostIds /\ q.before \subseteq P!PopulateReplies(q.post)')
    BY <1>2, <2>1, <2>2
  <2> QED BY <1>3, <1>4, <1>5, <1>9, <2>3, ThreadsStay
<1> QED BY <1>3, <1>4, <1>8, <1>9, <1>10, <1>12, <1>14, <1>15, <1>16, <1>17, <1>18, <1>19, <1>20, Stepping

LEMMA FindsStep ==
  ASSUME P!PostsAssumption, PostsInv, NEW r \in Requests, NEW u \in People, NEW p \in PostIds,
         \/ \E change \in P!Visibilities \cup {"open", "closed", "text"} : P!UpdateFind(r, u, p, change)
         \/ P!DeleteFind(r, u, p) \/ P!CommentFind(r, u, p)
         \/ P!GetPostFind(r, u, p) \/ P!GetCommentsFind(r, u, p)
  PROVE  PostsInv'
<1>1. PostsStored
  BY DEF PostsInv
<1>2. /\ P!Exists(p) <=> oPosts[p] \in P!Post
      /\ P!Exists(p) <=> oPosts[p].author \in People
  BY <1>1, Nothing
<1>3. ASSUME NEW pc \in {"deactivate", "save", "comment", "thread", "get"}, NEW arg \in PostArgs,
             pc = "deactivate" => oPosts[p].author = u,
             P!Exists(p), P!Reads(r, pc, u, p, oPosts[p], arg)
      PROVE  PostsInv'
  <2>1. oPosts[p] \in P!Post /\ p \in PostIds \cup {None} /\ pc # "list"
    BY <1>2, <1>3
  <2> QED BY <1>3, <2>1, ReadsStep
<1>4. ASSUME NEW change \in P!Visibilities \cup {"open", "closed", "text"}, P!UpdateFind(r, u, p, change)
      PROVE  PostsInv'
  <2>1. change \in PostArgs
    BY DEF PostArgs
  <2>2. P!Exists(p) /\ P!Reads(r, "save", u, p, oPosts[p], change)
    BY <1>2, <1>4 DEF P!UpdateFind
  <2> QED BY <1>3, <2>1, <2>2
<1>5. None \in PostArgs
  BY DEF PostArgs
<1>6. CASE P!DeleteFind(r, u, p)
  <2>1. P!Exists(p) /\ oPosts[p].author = u /\ P!Reads(r, "deactivate", u, p, oPosts[p], None)
    BY <1>2, <1>6 DEF P!DeleteFind
  <2> QED BY <1>3, <1>5, <2>1
<1>7. CASE P!CommentFind(r, u, p)
  BY <1>3, <1>5, <1>7 DEF P!CommentFind, P!FindPost
<1>8. CASE P!GetPostFind(r, u, p)
  BY <1>3, <1>5, <1>8 DEF P!GetPostFind, P!FindPost
<1>9. CASE P!GetCommentsFind(r, u, p)
  BY <1>3, <1>5, <1>9 DEF P!GetCommentsFind, P!FindPost
<1> QED BY <1>4, <1>6, <1>7, <1>8, <1>9

LEMMA ListFindStep ==
  ASSUME P!PostsAssumption, PostsInv, NEW r \in Requests, NEW u \in People, NEW v \in People,
         P!GetUserPostsFind(r, u, v)
  PROVE  PostsInv'
<1>1. PICK d : d = [P!NoPost EXCEPT !.author = v]
  OBVIOUS
<1>2. d \in P!Post /\ d.author = v
  BY <1>1 DEF P!NoPost, P!Post, P!Visibilities
<1>3. PICK arg : arg = IF <<u, v>> \in oFollows THEN "follows" ELSE "stranger"
  OBVIOUS
<1>4. arg \in PostArgs
  BY <1>3 DEF PostArgs
<1>5. arg = "follows" <=> <<u, v>> \in oFollows
  BY <1>3
<1>6. P!Reads(r, "list", u, None, d, arg)
  BY <1>1, <1>3 DEF P!GetUserPostsFind
<1> QED BY <1>2, <1>4, <1>5, <1>6, ReadsStep

\* The posts of an author that are shown, when one post is written.
LEMMA ActiveMoves ==
  ASSUME P!PostsAssumption, PostsStored, NEW p \in PostIds, NEW d \in P!Post,
         oPosts' = [oPosts EXCEPT ![p] = d], NEW u
  PROVE  /\ ActiveOf(u) \in Nat /\ ActiveOf(u)' \in Nat
         /\ (d.author = u /\ d.active <=> oPosts[p].author = u /\ oPosts[p].active)
              => ActiveOf(u)' = ActiveOf(u)
         /\ d.author = u /\ d.active /\ ~(oPosts[p].author = u /\ oPosts[p].active)
              => ActiveOf(u)' = ActiveOf(u) + 1
         /\ oPosts[p].author = u /\ oPosts[p].active /\ ~(d.author = u /\ d.active)
              => ActiveOf(u)' = ActiveOf(u) - 1
<1> DEFINE Old == {k \in PostIds : oPosts[k].author = u /\ oPosts[k].active}
           Now == {k \in PostIds : oPosts'[k].author = u /\ oPosts'[k].active}
<1>0. oPosts'[p] = d /\ \A k \in PostIds \ {p} : oPosts'[k] = oPosts[k]
  BY DEF PostsStored
<1>1. Old \in SUBSET PostIds /\ Now \in SUBSET PostIds /\ Old \ {p} = Now \ {p}
  BY <1>0
<1>2. /\ p \in Old <=> oPosts[p].author = u /\ oPosts[p].active
      /\ p \in Now <=> d.author = u /\ d.active
  BY <1>0
<1>3. ActiveOf(u) = Cardinality(Old) /\ ActiveOf(u)' = Cardinality(Now)
  BY Zenon DEF ActiveOf
<1> HIDE DEF Old, Now
<1>4. /\ Cardinality(Old) \in Nat /\ Cardinality(Now) \in Nat
      /\ (p \in Old <=> p \in Now) => Cardinality(Now) = Cardinality(Old)
      /\ p \in Now /\ p \notin Old => Cardinality(Now) = Cardinality(Old) + 1
      /\ p \in Old /\ p \notin Now => Cardinality(Now) = Cardinality(Old) - 1
  BY <1>1, OneApart, PostIdsFinite
<1> QED BY <1>2, <1>3, <1>4

LEMMA CommentsMove ==
  ASSUME P!PostsAssumption, PostsStored, NEW c \in CommentIds, NEW d \in P!Comment,
         oComments' = [oComments EXCEPT ![c] = d], NEW p
  PROVE  /\ CommentsOf(p) \in Nat /\ CommentsOf(p)' \in Nat
         /\ (d.post = p <=> oComments[c].post = p) => CommentsOf(p)' = CommentsOf(p)
         /\ d.post = p /\ oComments[c].post # p => CommentsOf(p)' = CommentsOf(p) + 1
<1> DEFINE Old == {k \in CommentIds : oComments[k].post = p}
           Now == {k \in CommentIds : oComments'[k].post = p}
<1>0. oComments'[c] = d /\ \A k \in CommentIds \ {c} : oComments'[k] = oComments[k]
  BY DEF PostsStored
<1>1. Old \in SUBSET CommentIds /\ Now \in SUBSET CommentIds /\ Old \ {c} = Now \ {c}
  BY <1>0
<1>2. (c \in Old <=> oComments[c].post = p) /\ (c \in Now <=> d.post = p)
  BY <1>0
<1>3. CommentsOf(p) = Cardinality(Old) /\ CommentsOf(p)' = Cardinality(Now)
  BY Zenon DEF CommentsOf
<1> HIDE DEF Old, Now
<1>4. /\ Cardinality(Old) \in Nat /\ Cardinality(Now) \in Nat
      /\ (c \in Old <=> c \in Now) => Cardinality(Now) = Cardinality(Old)
      /\ c \in Now /\ c \notin Old => Cardinality(Now) = Cardinality(Old) + 1
  BY <1>1, OneApart, PostIdsFinite
<1> QED BY <1>2, <1>3, <1>4

\* A handler that writes posts, or counts those of its author.
LEMMA WritesStep ==
  ASSUME P!PostsAssumption, PostsInv, NEW r \in Requests, NEW q \in PostCall,
         oReq' = [oReq EXCEPT ![r] = q], q.pc \in {"idle", "increment", "decrement"},
         q.pc # "idle" => q.user \in People, oReq[r].pc \notin {"count", "push"},
         oPosts' \in [PostIds -> P!Post \cup {P!NoPost}], oCount' \in [People -> Int],
         oCalls' \in 0 .. MaxPostCalls, oWas' \in [Requests -> SUBSET PostIds],
         UNCHANGED <<oComments, oShown, oViews, oTold, oFollows, oMoved, oAnswer, oHidden, oBroken>>,
         PostsGrow, \A k \in Requests : Watching(k), AuthorsCounted'
  PROVE  PostsInv'
<1>1. PostsStored
  BY DEF PostsInv
<1>2. oReq' \in [Requests -> PostCall] /\ oReq'[r] = q
  BY <1>1, HandlerMoves
<1>3. PostsStored'
  BY <1>1, <1>2 DEF PostsStored
<1>4. CommentsGrow
  BY SameGrows
<1>5. PosterKnows(r)' /\ ReaderKnows(r)' /\ CommenterKnows(r)'
  BY <1>2 DEF PosterKnows, ReaderKnows, CommenterKnows, OnPost
<1>6. P!AnswersVisible' /\ (oAnswer.named \subseteq {k \in PostIds : P!Exists(k)})'
  BY AnswersStay
<1>7. CommentsCounted'
  BY CommentsStay
<1>8. Answering'
  BY AnsweringStays
<1>9. ThreadsRead'
  BY <1>4, ThreadsStay
<1> QED BY <1>3, <1>4, <1>5, <1>6, <1>7, <1>8, <1>9, Stepping

LEMMA PostWritten ==
  ASSUME P!PostsAssumption, PostsStored, NEW p \in PostIds, NEW d \in P!Post,
         oPosts' = [oPosts EXCEPT ![p] = d],
         P!Exists(p) => d.author = oPosts[p].author /\ d.anonymous = oPosts[p].anonymous
  PROVE  PostsGrow /\ oPosts' \in [PostIds -> P!Post \cup {P!NoPost}]
<1>1. d # P!NoPost
  BY Nothing
<1>2. oPosts'[p] = d /\ \A k \in PostIds \ {p} : oPosts'[k] = oPosts[k]
  BY DEF PostsStored
<1>3. oPosts' \in [PostIds -> P!Post \cup {P!NoPost}]
  BY DEF PostsStored
<1>4. PostsGrow
  <2> SUFFICES ASSUME NEW k \in PostIds, P!Exists(k)
               PROVE  oPosts'[k] # P!NoPost /\ oPosts'[k].author = oPosts[k].author
                      /\ oPosts'[k].anonymous = oPosts[k].anonymous
    BY DEF PostsGrow, P!Exists
  <2>1. CASE k = p
    BY <1>1, <1>2, <2>1
  <2>2. CASE k # p
    BY <1>2, <2>2 DEF P!Exists
  <2> QED BY <2>1, <2>2
<1> QED BY <1>3, <1>4

LEMMA CreateStep ==
  ASSUME P!PostsAssumption, PostsInv, NEW r \in Requests, NEW u \in People, NEW p \in PostIds,
         NEW visibility \in P!Visibilities, NEW allow \in BOOLEAN, NEW anonymous \in BOOLEAN,
         P!CreatePost(r, u, p, visibility, allow, anonymous)
  PROVE  PostsInv'
<1>1. PICK q : q = Opened("increment", u, p, P!NoPost, None)
  OBVIOUS
<1>2. PICK d : d = [author |-> u, visibility |-> visibility, allow |-> allow,
                    anonymous |-> anonymous, active |-> TRUE]
  OBVIOUS
<1>3. d \in P!Post /\ d.author = u /\ d.active = TRUE
  BY <1>2 DEF P!Post
<1>4. q \in PostCall /\ q.pc = "increment" /\ q.user = u
  BY <1>1, OpenedCall DEF PostPCs, PostArgs, Opened
<1>5. /\ ~P!Exists(p) /\ oPosts' = [oPosts EXCEPT ![p] = d] /\ P!Watch
      /\ UNCHANGED <<oCount, oComments, oShown, oViews, oTold, oFollows, oMoved, oAnswer, oHidden, oBroken>>
  BY <1>2 DEF P!CreatePost
<1>6. /\ oReq[r].pc = "idle" /\ oReq' = [oReq EXCEPT ![r] = q]
      /\ oCalls < MaxPostCalls /\ oCalls' = oCalls + 1
  BY <1>1 DEF P!CreatePost, P!Begin, P!At, Opened
<1>7. PostsStored
  BY DEF PostsInv
<1>8. PostsGrow /\ oPosts' \in [PostIds -> P!Post \cup {P!NoPost}]
  BY <1>3, <1>5, <1>7, PostWritten
<1>9. \A k \in Requests : Watching(k)
  BY <1>5, <1>7, WatchWatches
<1>10. oWas' \in [Requests -> SUBSET PostIds] /\ oCalls' \in 0 .. MaxPostCalls
  BY <1>5, <1>6, <1>7, WatchTyped DEF PostsStored, P!PostsAssumption
<1>11. oPosts[p].active = FALSE
  BY <1>5 DEF P!Exists, P!NoPost
<1>12. AuthorsCounted'
  <2>1. ASSUME NEW v PROVE Creating(v)' - Deleting(v)' - ActiveOf(v)' = Creating(v) - Deleting(v) - ActiveOf(v)
                           /\ Creating(v)' \in Nat /\ Deleting(v)' \in Nat /\ ActiveOf(v)' \in Nat
                           /\ Creating(v) \in Nat /\ Deleting(v) \in Nat /\ ActiveOf(v) \in Nat
    <3>1. /\ Creating(v) \in Nat /\ Creating(v)' \in Nat
          /\ u # v => Creating(v)' = Creating(v)
          /\ u = v => Creating(v)' = Creating(v) + 1
      BY <1>4, <1>6, <1>7, CreatingMoves
    <3>2. Deleting(v) \in Nat /\ Deleting(v)' = Deleting(v)
      BY <1>4, <1>6, <1>7, DeletingMoves
    <3>3. /\ ActiveOf(v) \in Nat /\ ActiveOf(v)' \in Nat
          /\ u # v => ActiveOf(v)' = ActiveOf(v)
          /\ u = v => ActiveOf(v)' = ActiveOf(v) + 1
      BY <1>3, <1>5, <1>7, <1>11, ActiveMoves
    <3> QED BY <3>1, <3>2, <3>3
  <2>2. \A v \in People : oCount[v] \in Int /\ oHidden[v] \in Int
    BY <1>7 DEF PostsStored
  <2> QED BY <1>5, <2>1, <2>2 DEF PostsInv, AuthorsCounted
<1>13. oCount' \in [People -> Int]
  BY <1>5, <1>7 DEF PostsStored
<1> QED BY <1>4, <1>5, <1>6, <1>8, <1>9, <1>10, <1>12, <1>13, WritesStep

LEMMA IncrementStep ==
  ASSUME P!PostsAssumption, PostsInv, NEW r \in Requests, P!IncrementPosts(r)
  PROVE  PostsInv'
<1>1. PostsStored /\ P!Idle \in PostCall /\ P!Idle.pc = "idle"
  BY IdleCall DEF PostsInv, P!Idle
<1>2. /\ oReq[r].pc = "increment" /\ oReq' = [oReq EXCEPT ![r] = P!Idle]
      /\ oCount' = [oCount EXCEPT ![oReq[r].user] = @ + 1]
      /\ UNCHANGED <<oPosts, oComments, oShown, oViews, oTold, oFollows, oCalls, oWas, oMoved, oAnswer,
                     oHidden, oBroken>>
  BY DEF P!IncrementPosts, P!At, P!Return, P!Stepped, P!history
<1>3. PICK u \in People : u = oReq[r].user
  BY <1>2 DEF PostsInv, PosterKnows
<1>4. /\ oCount' \in [People -> Int] /\ oCount'[u] = oCount[u] + 1
      /\ \A v \in People \ {u} : oCount'[v] = oCount[v]
  BY <1>1, <1>2, <1>3 DEF PostsStored
<1>5. AuthorsCounted'
  <2>1. ASSUME NEW v \in People
        PROVE  Creating(v)' - Deleting(v)' + oCount'[v] = Creating(v) - Deleting(v) + oCount[v]
    <3>1. /\ Creating(v) \in Nat /\ Creating(v)' \in Nat
          /\ u # v => Creating(v)' = Creating(v)
          /\ u = v => Creating(v)' = Creating(v) - 1
      BY <1>1, <1>2, <1>3, CreatingMoves
    <3>2. Deleting(v) \in Nat /\ Deleting(v)' = Deleting(v)
      BY <1>1, <1>2, DeletingMoves
    <3>3. oCount[v] \in Int
      BY <1>1 DEF PostsStored
    <3> QED BY <1>4, <3>1, <3>2, <3>3
  <2>2. \A v : ActiveOf(v)' = ActiveOf(v)
    BY <1>2 DEF ActiveOf
  <2>3. \A v \in People : /\ Creating(v) \in Nat /\ Creating(v)' \in Nat
                          /\ Deleting(v) \in Nat /\ Deleting(v)' \in Nat
    BY <1>1, <1>2, CreatingMoves, DeletingMoves
  <2>4. \A v \in People : oCount[v] \in Int /\ oCount'[v] \in Int
    BY <1>1, <1>4 DEF PostsStored
  <2> QED BY <1>2, <2>1, <2>2, <2>3, <2>4 DEF PostsInv, AuthorsCounted
<1>6. PostsGrow /\ \A k \in Requests : Watching(k)
  BY <1>2, SameGrows, SameWatches
<1>7. /\ oPosts' \in [PostIds -> P!Post \cup {P!NoPost}] /\ oWas' \in [Requests -> SUBSET PostIds]
      /\ oCalls' \in 0 .. MaxPostCalls
  BY <1>1, <1>2 DEF PostsStored
<1> QED BY <1>1, <1>2, <1>4, <1>5, <1>6, <1>7, WritesStep

LEMMA DecrementStep ==
  ASSUME P!PostsAssumption, PostsInv, NEW r \in Requests, P!DecrementPosts(r)
  PROVE  PostsInv'
<1>1. PostsStored /\ P!Idle \in PostCall /\ P!Idle.pc = "idle"
  BY IdleCall DEF PostsInv, P!Idle
<1>2. /\ oReq[r].pc = "decrement" /\ oReq' = [oReq EXCEPT ![r] = P!Idle]
      /\ oCount' = [oCount EXCEPT ![oReq[r].user] = @ - 1]
      /\ UNCHANGED <<oPosts, oComments, oShown, oViews, oTold, oFollows, oCalls, oWas, oMoved, oAnswer,
                     oHidden, oBroken>>
  BY DEF P!DecrementPosts, P!At, P!Return, P!Stepped, P!history
<1>3. PICK u \in People : u = oReq[r].user
  BY <1>2 DEF PostsInv, PosterKnows
<1>4. /\ oCount' \in [People -> Int] /\ oCount'[u] = oCount[u] - 1
      /\ \A v \in People \ {u} : oCount'[v] = oCount[v]
  BY <1>1, <1>2, <1>3 DEF PostsStored
<1>5. AuthorsCounted'
  <2>1. ASSUME NEW v \in People
        PROVE  Creating(v)' - Deleting(v)' + oCount'[v] = Creating(v) - Deleting(v) + oCount[v]
    <3>1. /\ Deleting(v) \in Nat /\ Deleting(v)' \in Nat
          /\ u # v => Deleting(v)' = Deleting(v)
          /\ u = v => Deleting(v)' = Deleting(v) - 1
      BY <1>1, <1>2, <1>3, DeletingMoves
    <3>2. Creating(v) \in Nat /\ Creating(v)' = Creating(v)
      BY <1>1, <1>2, CreatingMoves
    <3>3. oCount[v] \in Int
      BY <1>1 DEF PostsStored
    <3> QED BY <1>4, <3>1, <3>2, <3>3
  <2>2. \A v : ActiveOf(v)' = ActiveOf(v)
    BY <1>2 DEF ActiveOf
  <2>3. \A v \in People : /\ Creating(v) \in Nat /\ Creating(v)' \in Nat
                          /\ Deleting(v) \in Nat /\ Deleting(v)' \in Nat
    BY <1>1, <1>2, CreatingMoves, DeletingMoves
  <2>4. \A v \in People : oCount[v] \in Int /\ oCount'[v] \in Int
    BY <1>1, <1>4 DEF PostsStored
  <2> QED BY <1>2, <2>1, <2>2, <2>3, <2>4 DEF PostsInv, AuthorsCounted
<1>6. PostsGrow /\ \A k \in Requests : Watching(k)
  BY <1>2, SameGrows, SameWatches
<1>7. /\ oPosts' \in [PostIds -> P!Post \cup {P!NoPost}] /\ oWas' \in [Requests -> SUBSET PostIds]
      /\ oCalls' \in 0 .. MaxPostCalls
  BY <1>1, <1>2 DEF PostsStored
<1> QED BY <1>1, <1>2, <1>4, <1>5, <1>6, <1>7, WritesStep

LEMMA Goes ==
  ASSUME PostsStored, NEW r \in Requests, NEW pc \in PostPCs, NEW arg \in PostArgs, P!Goto(r, pc, arg)
  PROVE  \E q \in PostCall : /\ oReq' = [oReq EXCEPT ![r] = q] /\ q.pc = pc /\ q.arg = arg
                             /\ q.user = oReq[r].user /\ q.post = oReq[r].post
                             /\ q.doc = oReq[r].doc /\ q.before = oReq[r].before
<1>1. oReq[r] \in PostCall /\ oReq \in [Requests -> PostCall]
  BY DEF PostsStored
<1>2. PICK q : q = [oReq[r] EXCEPT !.pc = pc, !.arg = arg]
  OBVIOUS
<1>3. /\ q \in PostCall /\ q.pc = pc /\ q.arg = arg /\ q.user = oReq[r].user /\ q.post = oReq[r].post
      /\ q.doc = oReq[r].doc /\ q.before = oReq[r].before
  BY <1>1, <1>2 DEF PostCall
<1>4. oReq' = [oReq EXCEPT ![r] = q]
  BY <1>1, <1>2 DEF P!Goto
<1> QED BY <1>3, <1>4

LEMMA DeactivateStep ==
  ASSUME P!PostsAssumption, PostsInv, NEW r \in Requests, P!Deactivate(r)
  PROVE  PostsInv'
<1>1. PostsStored
  BY DEF PostsInv
<1>2. /\ oReq[r].pc = "deactivate" /\ oPosts' = [oPosts EXCEPT ![oReq[r].post].active = FALSE] /\ P!Watch
      /\ UNCHANGED <<oCount, oComments, oShown, oViews, oTold, oFollows, oCalls, oMoved, oAnswer,
                     oHidden, oBroken>>
      /\ IF oPosts[oReq[r].post].active THEN P!Goto(r, "decrement", None) ELSE P!Return(r)
  BY DEF P!Deactivate, P!At
<1>3. PosterKnows(r)
  BY DEF PostsInv
<1>4. PICK p \in PostIds, u \in People : /\ p = oReq[r].post /\ u = oReq[r].user
                                         /\ P!Exists(p) /\ oPosts[p].author = u
  BY <1>2, <1>3 DEF PosterKnows, OnPost
<1>5. oPosts[p] \in P!Post
  BY <1>1, <1>4, Nothing
<1>6. PICK d : d = [oPosts[p] EXCEPT !.active = FALSE]
  OBVIOUS
<1>7. d \in P!Post /\ d.active = FALSE /\ d.author = u /\ d.anonymous = oPosts[p].anonymous
  BY <1>4, <1>5, <1>6 DEF P!Post
<1>8. oPosts' = [oPosts EXCEPT ![p] = d]
  BY <1>1, <1>2, <1>4, <1>6 DEF PostsStored
<1>9. PostsGrow /\ oPosts' \in [PostIds -> P!Post \cup {P!NoPost}]
  BY <1>1, <1>4, <1>7, <1>8, PostWritten
<1>10. \A k \in Requests : Watching(k)
  BY <1>1, <1>2, WatchWatches
<1>11. /\ oWas' \in [Requests -> SUBSET PostIds] /\ oCalls' \in 0 .. MaxPostCalls
       /\ oCount' \in [People -> Int]
  BY <1>1, <1>2, WatchTyped DEF PostsStored
<1>12. PICK q \in PostCall : /\ oReq' = [oReq EXCEPT ![r] = q] /\ q.pc \in {"idle", "decrement"}
                             /\ q.pc = "decrement" <=> oPosts[p].active
                             /\ q.pc = "decrement" => q.user = u
  <2>1. CASE oPosts[p].active
    <3>1. "decrement" \in PostPCs /\ None \in PostArgs
      BY DEF PostPCs, PostArgs
    <3>2. P!Goto(r, "decrement", None)
      BY <1>2, <1>4, <2>1
    <3>3. PICK q \in PostCall : oReq' = [oReq EXCEPT ![r] = q] /\ q.pc = "decrement" /\ q.user = oReq[r].user
      BY <1>1, <3>1, <3>2, Goes
    <3> QED BY <1>4, <2>1, <3>3
  <2>2. CASE ~oPosts[p].active
    <3>1. oReq' = [oReq EXCEPT ![r] = P!Idle]
      BY <1>2, <1>4, <2>2 DEF P!Return
    <3> QED BY <2>2, <3>1, IdleCall DEF P!Idle
  <2> QED BY <2>1, <2>2
<1>13. AuthorsCounted'
  <2>1. ASSUME NEW v \in People
        PROVE  /\ Deleting(v)' + ActiveOf(v)' = Deleting(v) + ActiveOf(v)
               /\ Creating(v) \in Nat /\ Creating(v)' = Creating(v)
               /\ Deleting(v) \in Nat /\ Deleting(v)' \in Nat /\ ActiveOf(v) \in Nat /\ ActiveOf(v)' \in Nat
    <3>1. /\ Deleting(v) \in Nat /\ Deleting(v)' \in Nat
          /\ u # v \/ ~oPosts[p].active => Deleting(v)' = Deleting(v)
          /\ u = v /\ oPosts[p].active => Deleting(v)' = Deleting(v) + 1
      BY <1>1, <1>2, <1>12, DeletingMoves
    <3>2. Creating(v) \in Nat /\ Creating(v)' = Creating(v)
      BY <1>1, <1>2, <1>12, CreatingMoves
    <3>3. /\ ActiveOf(v) \in Nat /\ ActiveOf(v)' \in Nat
          /\ u # v \/ ~oPosts[p].active => ActiveOf(v)' = ActiveOf(v)
          /\ u = v /\ oPosts[p].active => ActiveOf(v)' = ActiveOf(v) - 1
      BY <1>1, <1>4, <1>7, <1>8, ActiveMoves
    <3> QED BY <3>1, <3>2, <3>3
  <2>2. \A v \in People : oCount[v] \in Int /\ oHidden[v] \in Int
    BY <1>1 DEF PostsStored
  <2> QED BY <1>2, <2>1, <2>2 DEF PostsInv, AuthorsCounted
<1>14. q.pc # "idle" => q.user \in People
  BY <1>12
<1> QED BY <1>2, <1>9, <1>10, <1>11, <1>12, <1>13, <1>14, WritesStep

LEMMA SaveStep ==
  ASSUME P!PostsAssumption, PostsInv, NEW r \in Requests, P!UpdateSave(r)
  PROVE  PostsInv'
<1>1. PostsStored /\ P!Idle \in PostCall /\ P!Idle.pc = "idle"
  BY IdleCall DEF PostsInv, P!Idle
<1>2. PICK visibility, allow :
        /\ visibility = IF oReq[r].arg \in P!Visibilities THEN oReq[r].arg ELSE oReq[r].doc.visibility
        /\ allow = IF oReq[r].arg \in {"open", "closed"} THEN oReq[r].arg = "open" ELSE oReq[r].doc.allow
  OBVIOUS
<1>3. /\ oReq[r].pc = "save" /\ P!Watch /\ oReq' = [oReq EXCEPT ![r] = P!Idle]
      /\ oPosts' = [oPosts EXCEPT ![oReq[r].post].visibility = visibility, ![oReq[r].post].allow = allow]
      /\ UNCHANGED <<oCount, oComments, oShown, oViews, oTold, oFollows, oCalls, oMoved, oAnswer,
                     oHidden, oBroken>>
  BY <1>2 DEF P!UpdateSave, P!At, P!Return
<1>4. PosterKnows(r)
  BY DEF PostsInv
<1>5. PICK p \in PostIds : p = oReq[r].post /\ P!Exists(p) /\ oReq[r].doc \in P!Post
  BY <1>3, <1>4 DEF PosterKnows, OnPost
<1>6. oPosts[p] \in P!Post
  BY <1>1, <1>5, Nothing
<1>7. visibility \in P!Visibilities /\ allow \in BOOLEAN
  BY <1>2, <1>5, PostFields
<1>8. PICK d : d = [oPosts[p] EXCEPT !.visibility = visibility, !.allow = allow]
  OBVIOUS
<1>9. /\ d \in P!Post /\ d.author = oPosts[p].author /\ d.anonymous = oPosts[p].anonymous
      /\ d.active = oPosts[p].active
  BY <1>6, <1>7, <1>8 DEF P!Post
<1>10. oPosts' = [oPosts EXCEPT ![p] = d]
  BY <1>1, <1>3, <1>5, <1>8 DEF PostsStored
<1>11. PostsGrow /\ oPosts' \in [PostIds -> P!Post \cup {P!NoPost}]
  BY <1>1, <1>9, <1>10, PostWritten
<1>12. \A k \in Requests : Watching(k)
  BY <1>1, <1>3, WatchWatches
<1>13. /\ oWas' \in [Requests -> SUBSET PostIds] /\ oCalls' \in 0 .. MaxPostCalls
       /\ oCount' \in [People -> Int]
  BY <1>1, <1>3, WatchTyped DEF PostsStored
<1>14. AuthorsCounted'
  <2>1. \A v \in People : Creating(v)' = Creating(v)
    BY <1>1, <1>3, CreatingMoves
  <2>2. \A v \in People : Deleting(v)' = Deleting(v)
    BY <1>1, <1>3, DeletingMoves
  <2>3. \A v \in People : ActiveOf(v)' = ActiveOf(v)
    <3>1. \A v : d.author = v /\ d.active <=> oPosts[p].author = v /\ oPosts[p].active
      BY <1>9, Zenon
    <3> QED BY <1>1, <1>9, <1>10, <3>1, ActiveMoves
  <2> QED BY <1>3, <2>1, <2>2, <2>3 DEF PostsInv, AuthorsCounted
<1> QED BY <1>1, <1>3, <1>11, <1>12, <1>13, <1>14, WritesStep

\* A step that no handler of this module takes.
LEMMA Elsewhere ==
  ASSUME P!PostsAssumption, PostsInv, UNCHANGED <<oReq, oComments, oShown, oBroken>>,
         PostsStored', PostsGrow, \A k \in Requests : Watching(k),
         P!AnswersVisible', (oAnswer.named \subseteq {p \in PostIds : P!Exists(p)})',
         ~oBroken => oAnswer'.must \subseteq oAnswer'.thread, AuthorsCounted'
  PROVE  PostsInv'
<1>1. CommentsGrow
  BY SameGrows
<1>2. \A k \in Requests : PosterKnows(k)' /\ ReaderKnows(k)' /\ CommenterKnows(k)'
  <2> SUFFICES ASSUME NEW k \in Requests PROVE PosterKnows(k)' /\ ReaderKnows(k)' /\ CommenterKnows(k)'
    OBVIOUS
  <2>1. oReq[k]' = oReq[k] /\ PosterKnows(k) /\ ReaderKnows(k) /\ CommenterKnows(k) /\ Watching(k)
    BY DEF PostsInv
  <2> QED BY <1>1, <2>1, PosterStays, ReaderStays, CommenterStays
<1>3. CommentsCounted'
  <2>1. \A p : Uncounted(p)' = Uncounted(p) /\ CommentsOf(p)' = CommentsOf(p)
    BY DEF Uncounted, CommentsOf, P!At
  <2> QED BY <2>1 DEF PostsInv, CommentsCounted
<1>4. Answering'
  BY DEF PostsInv, Answering, Entering, P!Taken
<1>5. ThreadsRead'
  <2>1. \A p : P!PopulateReplies(p)' = P!PopulateReplies(p)
    BY DEF P!PopulateReplies, P!TopLevel, P!Threaded
  <2>2. ~oBroken => \A k \in Requests : P!At(k, "thread") => oReq[k].before \subseteq P!PopulateReplies(oReq[k].post)
    BY DEF PostsInv, ThreadsRead
  <2>3. \A k \in Requests : P!PopulateReplies(oReq[k].post)' = P!PopulateReplies(oReq[k].post)
    BY DEF P!PopulateReplies, P!TopLevel, P!Threaded
  <2> QED BY <2>2, <2>3 DEF ThreadsRead, P!At
<1> QED BY <1>2, <1>3, <1>4, <1>5 DEF PostsInv

LEMMA OwedSame ==
  ASSUME UNCHANGED oReq, NEW u
  PROVE  Creating(u)' = Creating(u) /\ Deleting(u)' = Deleting(u)
  BY DEF Creating, Deleting, P!At

LEMMA StatusStep ==
  ASSUME P!PostsAssumption, PostsInv, NEW p \in PostIds, NEW active \in BOOLEAN, P!UpdatePostStatus(p, active)
  PROVE  PostsInv'
<1>1. PostsStored
  BY DEF PostsInv
<1>2. /\ oCalls < MaxPostCalls /\ oCalls' = oCalls + 1 /\ P!Exists(p) /\ oPosts[p].active # active
      /\ oPosts' = [oPosts EXCEPT ![p].active = active] /\ P!Watch
      /\ oHidden' = [oHidden EXCEPT ![oPosts[p].author] = IF active THEN @ - 1 ELSE @ + 1]
      /\ UNCHANGED <<oCount, oComments, oShown, oViews, oTold, oFollows, oReq, oMoved, oAnswer, oBroken>>
  BY DEF P!UpdatePostStatus
<1>3. oPosts[p] \in P!Post
  BY <1>1, <1>2, Nothing
<1>4. PICK d : d = [oPosts[p] EXCEPT !.active = active]
  OBVIOUS
<1>5. PICK u \in People : u = oPosts[p].author
  BY <1>3, PostFields
<1>6. d \in P!Post /\ d.active = active /\ d.author = u /\ d.anonymous = oPosts[p].anonymous
  BY <1>3, <1>4, <1>5 DEF P!Post
<1>7. oPosts' = [oPosts EXCEPT ![p] = d]
  BY <1>1, <1>2, <1>4 DEF PostsStored
<1>8. PostsGrow /\ oPosts' \in [PostIds -> P!Post \cup {P!NoPost}]
  BY <1>1, <1>5, <1>6, <1>7, PostWritten
<1>9. \A k \in Requests : Watching(k)
  BY <1>1, <1>2, WatchWatches
<1>10. /\ oHidden' \in [People -> Int]
       /\ oHidden'[u] = IF active THEN oHidden[u] - 1 ELSE oHidden[u] + 1
       /\ \A v \in People \ {u} : oHidden'[v] = oHidden[v]
  BY <1>1, <1>2, <1>5 DEF PostsStored
<1>11. oWas' \in [Requests -> SUBSET PostIds] /\ oCalls' \in 0 .. MaxPostCalls
  BY <1>1, <1>2, WatchTyped DEF PostsStored, P!PostsAssumption
<1>12. PostsStored'
  BY <1>1, <1>2, <1>8, <1>10, <1>11 DEF PostsStored
<1>13. AuthorsCounted'
  <2>1. ASSUME NEW v \in People
        PROVE  /\ ActiveOf(v)' + oHidden'[v] = ActiveOf(v) + oHidden[v]
               /\ Creating(v)' = Creating(v) /\ Deleting(v)' = Deleting(v)
    <3>1. /\ ActiveOf(v) \in Nat /\ ActiveOf(v)' \in Nat
          /\ u # v => ActiveOf(v)' = ActiveOf(v)
          /\ u = v /\ active => ActiveOf(v)' = ActiveOf(v) + 1
          /\ u = v /\ ~active => ActiveOf(v)' = ActiveOf(v) - 1
      <4>1. oPosts[p].active \in BOOLEAN
        BY <1>3, PostFields
      <4>2. oPosts[p].active <=> ~active
        BY <1>2, <4>1
      <4>3. d.active <=> active
        BY <1>6
      <4> QED BY <1>1, <1>5, <1>6, <1>7, <4>2, <4>3, ActiveMoves
    <3>2. oHidden[v] \in Int
      BY <1>1 DEF PostsStored
    <3>3. Creating(v)' = Creating(v) /\ Deleting(v)' = Deleting(v)
      BY <1>2, OwedSame
    <3> QED BY <1>10, <3>1, <3>2, <3>3
  <2> QED BY <1>2, <2>1 DEF PostsInv, AuthorsCounted
<1>14. P!AnswersVisible' /\ (oAnswer.named \subseteq {k \in PostIds : P!Exists(k)})'
  BY <1>2, <1>8, AnswersStay
<1>15. ~oBroken => oAnswer'.must \subseteq oAnswer'.thread
  BY <1>2 DEF PostsInv, ThreadsRead
<1> QED BY <1>2, <1>8, <1>9, <1>12, <1>13, <1>14, <1>15, Elsewhere

LEMMA FollowStep ==
  ASSUME P!PostsAssumption, PostsInv, NEW u \in People, NEW v \in People, P!FollowMoves(u, v)
  PROVE  PostsInv'
<1>1. PostsStored
  BY DEF PostsInv
<1>2. /\ oCalls < MaxPostCalls /\ oCalls' = oCalls + 1 /\ oMoved' = Requests /\ P!Watch
      /\ oFollows' = IF <<u, v>> \in oFollows THEN oFollows \ {<<u, v>>} ELSE oFollows \cup {<<u, v>>}
      /\ UNCHANGED <<oPosts, oCount, oComments, oShown, oViews, oTold, oReq, oAnswer, oHidden, oBroken>>
  BY DEF P!FollowMoves, P!collections
<1>3. oFollows' \subseteq People \X People
  BY <1>1, <1>2 DEF PostsStored
<1>4. PostsGrow
  BY <1>2, SameGrows
<1>5. \A k \in Requests : Watching(k)
  BY <1>1, <1>2 DEF Watching, P!Watch, P!At, PostsStored
<1>6. oWas' \in [Requests -> SUBSET PostIds] /\ oCalls' \in 0 .. MaxPostCalls
  BY <1>1, <1>2, WatchTyped DEF PostsStored, P!PostsAssumption
<1>7. PostsStored'
  BY <1>1, <1>2, <1>3, <1>6 DEF PostsStored
<1>8. AuthorsCounted'
  <2>1. \A k : ActiveOf(k)' = ActiveOf(k)
    BY <1>2 DEF ActiveOf
  <2> QED BY <1>2, <2>1, OwedSame DEF PostsInv, AuthorsCounted
<1>9. P!AnswersVisible' /\ (oAnswer.named \subseteq {k \in PostIds : P!Exists(k)})'
  BY <1>2, <1>4, AnswersStay
<1>10. ~oBroken => oAnswer'.must \subseteq oAnswer'.thread
  BY <1>2 DEF PostsInv, ThreadsRead
<1> QED BY <1>2, <1>4, <1>5, <1>7, <1>8, <1>9, <1>10, Elsewhere

LEMMA OnceStep ==
  ASSUME P!PostsAssumption, PostsInv, NEW r \in Requests, NEW v \in People, NEW found \in SUBSET PostIds,
         P!ReadOnce(r, v, found), found \subseteq P!Visible(v, oPosts, oFollows),
         \A p \in found : oPosts[p].anonymous => oPosts[p].author = v
  PROVE  PostsInv'
<1>1. PostsStored
  BY DEF PostsInv
<1>2. /\ oCalls < MaxPostCalls /\ oCalls' = oCalls + 1
      /\ oAnswer' = [to |-> v, posts |-> found, named |-> found, may |-> P!Visible(v, oPosts, oFollows),
                     moved |-> FALSE, thread |-> {}, must |-> {}]
      /\ UNCHANGED <<oPosts, oCount, oComments, oShown, oViews, oTold, oFollows, oReq, oWas, oMoved,
                     oHidden, oBroken>>
  BY DEF P!ReadOnce, P!collections
<1>3. PICK seen : seen = P!Visible(v, oPosts, oFollows)
  OBVIOUS
<1>4. /\ oAnswer'.to = v /\ oAnswer'.posts = found /\ oAnswer'.named = found /\ oAnswer'.may = seen
      /\ oAnswer'.moved = FALSE /\ oAnswer'.thread = {} /\ oAnswer'.must = {}
  BY <1>2, <1>3
<1>5. seen \subseteq PostIds /\ found \subseteq seen
  BY <1>3 DEF P!Visible
<1>6. oAnswer' \in PostAnswer
  BY <1>2, <1>3, <1>5 DEF PostAnswer
<1>7. oCalls' \in 0 .. MaxPostCalls
  BY <1>1, <1>2 DEF PostsStored, P!PostsAssumption
<1>8. PostsStored'
  BY <1>1, <1>2, <1>6, <1>7 DEF PostsStored
<1>9. P!AnswersVisible'
  BY <1>2, <1>4, <1>5 DEF P!AnswersVisible
<1>10. (oAnswer.named \subseteq {k \in PostIds : P!Exists(k)})'
  <2>1. \A k \in found : oPosts[k].active
    BY <1>3, <1>5 DEF P!Visible, P!CanView
  <2>2. \A k \in found : P!Exists(k)
    BY <1>1, <2>1, Nothing
  <2> QED BY <1>2, <1>4, <2>2 DEF P!Exists
<1>11. AuthorsCounted'
  <2>1. \A k : ActiveOf(k)' = ActiveOf(k)
    BY <1>2 DEF ActiveOf
  <2> QED BY <1>2, <2>1, OwedSame DEF PostsInv, AuthorsCounted
<1>12. PostsGrow /\ \A k \in Requests : Watching(k)
  BY <1>2, SameGrows, SameWatches
<1> QED BY <1>2, <1>4, <1>8, <1>9, <1>10, <1>11, <1>12, Elsewhere

LEMMA OncesStep ==
  ASSUME P!PostsAssumption, PostsInv, NEW r \in Requests, NEW u \in People,
         P!GetMyPosts(r, u) \/ P!SearchPosts(r, u)
  PROVE  PostsInv'
<1>1. CASE P!GetMyPosts(r, u)
  <2> DEFINE found == {p \in PostIds : oPosts[p].author = u /\ oPosts[p].active}
  <2>1. found \subseteq P!Visible(u, oPosts, oFollows) /\ \A p \in found : oPosts[p].author = u
    BY DEF P!Visible, P!CanView
  <2>2. P!ReadOnce(r, u, found)
    BY <1>1 DEF P!GetMyPosts
  <2> QED BY <2>1, <2>2, OnceStep
<1>2. CASE P!SearchPosts(r, u)
  <2> DEFINE found == {p \in PostIds : /\ oPosts[p].active /\ ~oPosts[p].anonymous
                                       /\ oPosts[p].visibility = "public"}
  <2>1. found \subseteq P!Visible(u, oPosts, oFollows) /\ \A p \in found : ~oPosts[p].anonymous
    BY DEF P!Visible, P!CanView
  <2>2. P!ReadOnce(r, u, found)
    BY <1>2 DEF P!SearchPosts
  <2> QED BY <2>1, <2>2, OnceStep
<1> QED BY <1>1, <1>2

\* A handler that comments.
LEMMA CommentsStep ==
  ASSUME P!PostsAssumption, PostsInv, NEW r \in Requests, NEW q \in PostCall,
         oReq' = [oReq EXCEPT ![r] = q], q.pc \in {"idle", "count", "push", "tell"},
         oReq[r].pc \in {"comment", "count", "push", "tell"},
         oComments' \in [CommentIds -> P!Comment \cup {P!NoComment}], oShown' \in [PostIds -> Nat],
         oTold' \subseteq CommentIds,
         UNCHANGED <<oPosts, oCount, oViews, oFollows, oCalls, oWas, oMoved, oAnswer, oHidden, oBroken>>,
         CommentsGrow,
         q.pc # "idle" => q.user = oReq[r].user /\ q.post = oReq[r].post /\ q.doc = oReq[r].doc,
         CommenterKnows(r)', CommentsCounted', Answering'
  PROVE  PostsInv'
<1>1. PostsStored
  BY DEF PostsInv
<1>2. oReq' \in [Requests -> PostCall] /\ oReq'[r] = q
  BY <1>1, HandlerMoves
<1>3. PostsStored'
  BY <1>1, <1>2 DEF PostsStored
<1>4. PostsGrow /\ \A k \in Requests \ {r} : Watching(k)
  BY SameGrows, SameWatches
<1>5. PosterKnows(r)
  BY DEF PostsInv
<1>6. PosterKnows(r)'
  BY <1>2, <1>5 DEF PosterKnows, OnPost, P!Exists
<1>7. ReaderKnows(r)'
  BY <1>2 DEF ReaderKnows
<1>8. P!AnswersVisible' /\ (oAnswer.named \subseteq {k \in PostIds : P!Exists(k)})'
  BY <1>4, AnswersStay
<1>9. AuthorsCounted'
  BY AuthorsStay
<1>10. ThreadsRead'
  BY ThreadsStay
<1> QED BY <1>3, <1>4, <1>6, <1>7, <1>8, <1>9, <1>10, Stepping

LEMMA CommentWritten ==
  ASSUME P!PostsAssumption, PostsStored, NEW c \in CommentIds, NEW d \in P!Comment,
         oComments' = [oComments EXCEPT ![c] = d],
         P!Taken(c) => /\ d.post = oComments[c].post /\ d.parent = oComments[c].parent
                       /\ oComments[c].replies \subseteq d.replies
  PROVE  /\ CommentsGrow /\ oComments' \in [CommentIds -> P!Comment \cup {P!NoComment}]
         /\ oComments'[c] = d /\ d # P!NoComment
         /\ \A k \in CommentIds \ {c} : oComments'[k] = oComments[k]
<1>1. d # P!NoComment
  BY Nothing
<1>2. /\ oComments'[c] = d /\ \A k \in CommentIds \ {c} : oComments'[k] = oComments[k]
      /\ oComments' \in [CommentIds -> P!Comment \cup {P!NoComment}]
  BY DEF PostsStored
<1>3. CommentsGrow
  <2> SUFFICES ASSUME NEW k \in CommentIds, P!Taken(k)
               PROVE  oComments'[k] # P!NoComment /\ oComments'[k].post = oComments[k].post
                      /\ oComments'[k].parent = oComments[k].parent
                      /\ oComments[k].replies \subseteq oComments'[k].replies
    BY DEF CommentsGrow, P!Taken
  <2>1. CASE k = c
    BY <1>1, <1>2, <2>1
  <2>2. CASE k # c
    BY <1>2, <2>2 DEF P!Taken
  <2> QED BY <2>1, <2>2
<1> QED BY <1>1, <1>2, <1>3

LEMMA InsertStep ==
  ASSUME P!PostsAssumption, PostsInv, NEW r \in Requests, NEW c \in CommentIds,
         NEW parent \in CommentIds \cup {None}, P!InsertComment(r, c, parent)
  PROVE  PostsInv'
<1>1. PostsStored /\ PosterKnows(r)
  BY DEF PostsInv
<1>2. /\ oReq[r].pc = "comment"
      /\ UNCHANGED <<oPosts, oCount, oShown, oViews, oTold, oFollows, oCalls, oWas, oMoved, oAnswer,
                     oHidden, oBroken>>
  BY DEF P!InsertComment, P!At, P!Stepped, P!history
<1>3. oShown' \in [PostIds -> Nat] /\ oTold' \subseteq CommentIds
  BY <1>1, <1>2 DEF PostsStored
<1>4. CASE ~(P!CanView(oReq[r].user, oReq[r].doc, oFollows) /\ oReq[r].doc.allow)
  <2>1. oReq' = [oReq EXCEPT ![r] = P!Idle] /\ oComments' = oComments
    BY <1>4 DEF P!InsertComment, P!Return
  <2>2. P!Idle \in PostCall /\ P!Idle.pc = "idle"
    BY IdleCall DEF P!Idle
  <2>3. CommentsGrow /\ oComments' \in [CommentIds -> P!Comment \cup {P!NoComment}]
    BY <1>1, <2>1, SameGrows DEF PostsStored
  <2>4. CommentsCounted'
    BY <1>2, <2>1, <2>2, CommentsStay
  <2>5. Answering'
    BY <1>2, <2>1, <2>2, AnsweringStays
  <2>6. CommenterKnows(r)'
    BY <1>1, <2>1, <2>2, HandlerMoves DEF CommenterKnows
  <2> QED BY <1>2, <1>3, <2>1, <2>2, <2>3, <2>4, <2>5, <2>6, CommentsStep
<1>5. CASE P!CanView(oReq[r].user, oReq[r].doc, oFollows) /\ oReq[r].doc.allow
  <2>1. PICK p \in PostIds, u \in People : p = oReq[r].post /\ u = oReq[r].user
    BY <1>1, <1>2 DEF PosterKnows, OnPost
  <2>2. PICK d : d = [post |-> p, author |-> u, parent |-> parent, replies |-> {}]
    OBVIOUS
  <2>3. d \in P!Comment /\ d.post = p /\ d.parent = parent /\ d.replies = {}
    BY <2>2 DEF P!Comment
  <2>4. /\ ~P!Taken(c) /\ oComments' = [oComments EXCEPT ![c] = d] /\ P!Goto(r, "count", c)
        /\ parent # None => oComments[parent].post = p
    BY <1>5, <2>1, <2>2 DEF P!InsertComment
  <2>5. "count" \in PostPCs /\ c \in PostArgs
    BY DEF PostPCs, PostArgs
  <2>6. PICK q \in PostCall : /\ oReq' = [oReq EXCEPT ![r] = q] /\ q.pc = "count" /\ q.arg = c
                              /\ q.user = oReq[r].user /\ q.post = oReq[r].post /\ q.doc = oReq[r].doc
    BY <1>1, <2>4, <2>5, Goes
  <2>7. /\ CommentsGrow /\ oComments' \in [CommentIds -> P!Comment \cup {P!NoComment}]
        /\ oComments'[c] = d /\ d # P!NoComment /\ \A k \in CommentIds \ {c} : oComments'[k] = oComments[k]
    BY <1>1, <2>3, <2>4, CommentWritten
  <2>8. oReq'[r] = q /\ oReq' \in [Requests -> PostCall] /\ \A k \in Requests \ {r} : oReq'[k] = oReq[k]
    BY <1>1, <2>6, HandlerMoves
  <2>9. CommentsCounted'
    <3>1. ASSUME NEW k \in PostIds
          PROVE  /\ Uncounted(k) \in Nat /\ CommentsOf(k) \in Nat
                 /\ \/ Uncounted(k)' = Uncounted(k) /\ CommentsOf(k)' = CommentsOf(k)
                    \/ Uncounted(k)' = Uncounted(k) + 1 /\ CommentsOf(k)' = CommentsOf(k) + 1
      <4>1. /\ Uncounted(k) \in Nat
            /\ k = p => Uncounted(k)' = Uncounted(k) + 1
            /\ k # p => Uncounted(k)' = Uncounted(k)
        BY <1>1, <1>2, <2>1, <2>6, UncountedMoves
      <4>2. oComments[c].post # k
        BY <1>1, <2>4, Nothing
      <4>3. /\ CommentsOf(k) \in Nat
            /\ k = p => CommentsOf(k)' = CommentsOf(k) + 1
            /\ k # p => CommentsOf(k)' = CommentsOf(k)
        BY <1>1, <2>3, <2>4, <4>2, CommentsMove
      <4> QED BY <4>1, <4>3
    <3>2. \A k \in PostIds : oShown[k] \in Nat /\ oShown'[k] = oShown[k]
      BY <1>1, <1>2 DEF PostsStored
    <3> QED BY <1>2, <3>1, <3>2 DEF PostsInv, CommentsCounted
  <2>10. Answering'
    <3> SUFFICES ASSUME NEW k \in CommentIds, oComments'[k].parent # None
                 PROVE  /\ oComments'[oComments'[k].parent] # P!NoComment
                        /\ ~oBroken' => k \in oComments'[oComments'[k].parent].replies
                                        \/ \E x \in Requests : oReq'[x].pc \in {"count", "push"} /\ oReq'[x].arg = k
      BY DEF Answering, P!Taken, Entering
    <3>1. CASE k = c
      <4>1. parent \in CommentIds /\ oComments[parent].post \in PostIds
        BY <2>1, <2>3, <2>4, <2>7, <3>1
      <4>2. P!Taken(parent)
        BY <1>1, <4>1, Nothing
      <4>3. oComments'[parent] # P!NoComment
        BY <2>7, <4>1, <4>2 DEF CommentsGrow, P!Taken
      <4>4. oReq'[r].pc = "count" /\ oReq'[r].arg = c
        BY <2>6, <2>8
      <4> QED BY <2>3, <2>7, <3>1, <4>3, <4>4
    <3>2. CASE k # c
      <4>1. oComments'[k] = oComments[k]
        BY <2>7, <3>2
      <4>2. /\ P!Taken(oComments[k].parent)
            /\ ~oBroken => k \in oComments[oComments[k].parent].replies \/ Entering(k)
        BY <4>1 DEF PostsInv, Answering
      <4>3. oComments[k].parent \in CommentIds
        <5>1. P!Taken(k)
          BY <1>1, <4>1, Nothing
        <5>2. oComments[k] \in P!Comment
          BY <1>1, <5>1, Nothing
        <5> QED BY <4>1, <5>2, CommentFields
      <4>4. /\ oComments'[oComments[k].parent] # P!NoComment
            /\ oComments[oComments[k].parent].replies \subseteq oComments'[oComments[k].parent].replies
        BY <2>7, <4>2, <4>3 DEF CommentsGrow, P!Taken
      <4>5. Entering(k) => \E x \in Requests : oReq'[x].pc \in {"count", "push"} /\ oReq'[x].arg = k
        BY <1>2, <2>8 DEF Entering
      <4> QED BY <1>2, <4>1, <4>2, <4>4, <4>5
    <3> QED BY <3>1, <3>2
  <2>11. CommenterKnows(r)'
    BY <2>1, <2>3, <2>6, <2>7, <2>8 DEF CommenterKnows, P!Taken
  <2> QED BY <1>2, <1>3, <2>6, <2>7, <2>9, <2>10, <2>11, CommentsStep
<1> QED BY <1>4, <1>5

LEMMA CountStep ==
  ASSUME P!PostsAssumption, PostsInv, NEW r \in Requests, P!CountComment(r)
  PROVE  PostsInv'
<1>1. PostsStored /\ PosterKnows(r) /\ CommenterKnows(r)
  BY DEF PostsInv
<1>2. /\ oReq[r].pc = "count" /\ oShown' = [oShown EXCEPT ![oReq[r].post] = @ + 1]
      /\ UNCHANGED <<oPosts, oCount, oComments, oViews, oTold, oFollows, oCalls, oWas, oMoved, oAnswer,
                     oHidden, oBroken>>
      /\ P!Goto(r, IF oComments[oReq[r].arg].parent = None THEN "tell" ELSE "push", oReq[r].arg)
  BY DEF P!CountComment, P!At, P!Stepped, P!history
<1>3. PICK p \in PostIds : p = oReq[r].post
  BY <1>1, <1>2 DEF PosterKnows, OnPost
<1>4. PICK c \in CommentIds : c = oReq[r].arg /\ P!Taken(c) /\ oComments[c].post = p
  BY <1>1, <1>2, <1>3 DEF CommenterKnows
<1>5. PICK pc \in {"tell", "push"} : pc = IF oComments[c].parent = None THEN "tell" ELSE "push"
  OBVIOUS
<1>6. pc \in PostPCs /\ c \in PostArgs /\ P!Goto(r, pc, c)
  BY <1>2, <1>4, <1>5 DEF PostPCs, PostArgs
<1>7. PICK q \in PostCall : /\ oReq' = [oReq EXCEPT ![r] = q] /\ q.pc = pc /\ q.arg = c
                            /\ q.user = oReq[r].user /\ q.post = oReq[r].post /\ q.doc = oReq[r].doc
  BY <1>1, <1>6, Goes
<1>8. oReq'[r] = q /\ \A k \in Requests \ {r} : oReq'[k] = oReq[k]
  BY <1>1, <1>7, HandlerMoves
<1>9. /\ oShown' \in [PostIds -> Nat] /\ oShown'[p] = oShown[p] + 1
      /\ \A k \in PostIds \ {p} : oShown'[k] = oShown[k]
  BY <1>1, <1>2, <1>3 DEF PostsStored
<1>10. CommentsCounted'
  <2>1. ASSUME NEW k \in PostIds
        PROVE  oShown'[k] + Uncounted(k)' = oShown[k] + Uncounted(k)
    <3>1. /\ Uncounted(k) \in Nat /\ Uncounted(k)' \in Nat
          /\ k = p => Uncounted(k)' = Uncounted(k) - 1
          /\ k # p => Uncounted(k)' = Uncounted(k)
      BY <1>1, <1>2, <1>3, <1>7, UncountedMoves
    <3>2. oShown[k] \in Nat
      BY <1>1 DEF PostsStored
    <3> QED BY <1>9, <3>1, <3>2
  <2>2. \A k : CommentsOf(k)' = CommentsOf(k)
    BY <1>2 DEF CommentsOf
  <2> QED BY <1>2, <2>1, <2>2 DEF PostsInv, CommentsCounted
<1>11. Answering'
  <2>1. ASSUME NEW k \in CommentIds, oComments[k].parent # None, Entering(k)
        PROVE  \E x \in Requests : oReq'[x].pc \in {"count", "push"} /\ oReq'[x].arg = k
    <3>1. PICK x \in Requests : oReq[x].pc \in {"count", "push"} /\ oReq[x].arg = k
      BY <2>1 DEF Entering
    <3>2. oReq'[x].pc \in {"count", "push"} /\ oReq'[x].arg = k
      BY <1>4, <1>5, <1>7, <1>8, <2>1, <3>1
    <3> QED BY <3>2
  <2> QED BY <1>2, <2>1 DEF PostsInv, Answering, Entering, P!Taken
<1>12. CommenterKnows(r)'
  BY <1>2, <1>3, <1>4, <1>5, <1>7, <1>8 DEF CommenterKnows, P!Taken
<1>13. /\ oComments' \in [CommentIds -> P!Comment \cup {P!NoComment}] /\ oTold' \subseteq CommentIds
       /\ CommentsGrow
  BY <1>1, <1>2, SameGrows DEF PostsStored
<1> QED BY <1>2, <1>7, <1>9, <1>10, <1>11, <1>12, <1>13, CommentsStep

LEMMA PushStep ==
  ASSUME P!PostsAssumption, PostsInv, NEW r \in Requests, P!PushReply(r)
  PROVE  PostsInv'
<1>1. PostsStored /\ PosterKnows(r) /\ CommenterKnows(r)
  BY DEF PostsInv
<1>2. /\ oReq[r].pc = "push"
      /\ oComments' = [oComments EXCEPT ![oComments[oReq[r].arg].parent].replies = @ \cup {oReq[r].arg}]
      /\ UNCHANGED <<oPosts, oCount, oShown, oViews, oTold, oFollows, oCalls, oWas, oMoved, oAnswer,
                     oHidden, oBroken>>
      /\ P!Goto(r, "tell", oReq[r].arg)
  BY DEF P!PushReply, P!At, P!Stepped, P!history
<1>3. PICK c \in CommentIds : /\ c = oReq[r].arg /\ P!Taken(c) /\ oComments[c].post = oReq[r].post
                              /\ oComments[c].parent # None
  BY <1>1, <1>2 DEF CommenterKnows
<1>4. oComments[c] \in P!Comment
  BY <1>1, <1>3, Nothing
<1>5. PICK x \in CommentIds : x = oComments[c].parent
  BY <1>3, <1>4, CommentFields
<1>6. P!Taken(x)
  BY <1>3, <1>5 DEF PostsInv, Answering
<1>7. oComments[x] \in P!Comment
  BY <1>1, <1>6, Nothing
<1>8. PICK d : d = [oComments[x] EXCEPT !.replies = @ \cup {c}]
  OBVIOUS
<1>9. /\ d \in P!Comment /\ d.post = oComments[x].post /\ d.parent = oComments[x].parent
      /\ oComments[x].replies \subseteq d.replies /\ c \in d.replies
  BY <1>7, <1>8 DEF P!Comment
<1>10. oComments' = [oComments EXCEPT ![x] = d]
  BY <1>1, <1>2, <1>3, <1>5, <1>8 DEF PostsStored
<1>11. /\ CommentsGrow /\ oComments' \in [CommentIds -> P!Comment \cup {P!NoComment}]
       /\ oComments'[x] = d /\ d # P!NoComment /\ \A k \in CommentIds \ {x} : oComments'[k] = oComments[k]
  BY <1>1, <1>9, <1>10, CommentWritten
<1>12. "tell" \in PostPCs /\ c \in PostArgs
  BY DEF PostPCs, PostArgs
<1>13. PICK q \in PostCall : /\ oReq' = [oReq EXCEPT ![r] = q] /\ q.pc = "tell" /\ q.arg = c
                             /\ q.user = oReq[r].user /\ q.post = oReq[r].post /\ q.doc = oReq[r].doc
  BY SMTT(30), <1>1, <1>2, <1>3, <1>12, Goes
<1>14. oReq'[r] = q /\ \A k \in Requests \ {r} : oReq'[k] = oReq[k]
  BY <1>1, <1>13, HandlerMoves
<1>15. \A k \in CommentIds : oComments'[k].post = oComments[k].post /\ oComments'[k].parent = oComments[k].parent
  BY <1>9, <1>11
<1>16. CommentsCounted'
  <2>1. \A p \in PostIds : Uncounted(p)' = Uncounted(p)
    BY <1>1, <1>2, <1>13, UncountedMoves
  <2>2. \A p \in PostIds : CommentsOf(p)' = CommentsOf(p)
    BY <1>1, <1>9, <1>10, CommentsMove
  <2> QED BY <1>2, <2>1, <2>2 DEF PostsInv, CommentsCounted
<1>17. Answering'
  <2> SUFFICES ASSUME NEW k \in CommentIds, oComments'[k].parent # None
               PROVE  /\ oComments'[oComments'[k].parent] # P!NoComment
                      /\ ~oBroken' => k \in oComments'[oComments'[k].parent].replies
                                      \/ \E y \in Requests : oReq'[y].pc \in {"count", "push"} /\ oReq'[y].arg = k
    BY DEF Answering, P!Taken, Entering
  <2>1. oComments'[k].parent = oComments[k].parent
    BY <1>15
  <2>2. /\ P!Taken(oComments[k].parent)
        /\ ~oBroken => k \in oComments[oComments[k].parent].replies \/ Entering(k)
    BY <2>1 DEF PostsInv, Answering
  <2>3. oComments[k].parent \in CommentIds
    <3>1. P!Taken(k)
      BY <1>1, <2>1, Nothing
    <3>2. oComments[k] \in P!Comment
      BY <1>1, <3>1, Nothing
    <3> QED BY <2>1, <3>2, CommentFields
  <2>4. /\ oComments'[oComments[k].parent] # P!NoComment
        /\ oComments[oComments[k].parent].replies \subseteq oComments'[oComments[k].parent].replies
    BY <1>11, <2>2, <2>3 DEF CommentsGrow, P!Taken
  <2>5. k = c => k \in oComments'[oComments[k].parent].replies
    BY <1>5, <1>9, <1>11
  <2>6. k # c /\ Entering(k) => \E y \in Requests : oReq'[y].pc \in {"count", "push"} /\ oReq'[y].arg = k
    BY <1>3, <1>14 DEF Entering
  <2> QED BY <1>2, <2>1, <2>2, <2>4, <2>5, <2>6
<1>18. CommenterKnows(r)'
  <2>1. oComments'[c] # P!NoComment /\ oComments'[c].post = oReq[r].post
    BY <1>3, <1>11 DEF CommentsGrow, P!Taken
  <2> QED BY <1>13, <1>14, <2>1 DEF CommenterKnows, P!Taken
<1>19. oShown' \in [PostIds -> Nat] /\ oTold' \subseteq CommentIds
  BY <1>1, <1>2 DEF PostsStored
<1> QED BY <1>2, <1>11, <1>13, <1>16, <1>17, <1>18, <1>19, CommentsStep

LEMMA TellStep ==
  ASSUME P!PostsAssumption, PostsInv, NEW r \in Requests, P!TellAuthor(r)
  PROVE  PostsInv'
<1>1. PostsStored /\ CommenterKnows(r) /\ P!Idle \in PostCall /\ P!Idle.pc = "idle"
  BY IdleCall DEF PostsInv, P!Idle
<1>2. /\ oReq[r].pc = "tell" /\ oReq' = [oReq EXCEPT ![r] = P!Idle]
      /\ UNCHANGED <<oPosts, oCount, oComments, oShown, oViews, oFollows, oCalls, oWas, oMoved, oAnswer,
                     oHidden, oBroken>>
      /\ oTold' \in {oTold, oTold \cup {oReq[r].arg}}
  BY DEF P!TellAuthor, P!At, P!Stepped, P!history, P!Return
<1>3. oTold' \subseteq CommentIds
  BY <1>1, <1>2 DEF CommenterKnows, PostsStored
<1>4. /\ oComments' \in [CommentIds -> P!Comment \cup {P!NoComment}] /\ oShown' \in [PostIds -> Nat]
      /\ CommentsGrow
  BY <1>1, <1>2, SameGrows DEF PostsStored
<1>5. CommentsCounted'
  BY <1>1, <1>2, CommentsStay
<1>6. Answering'
  BY <1>1, <1>2, AnsweringStays
<1>7. CommenterKnows(r)'
  BY <1>1, <1>2, HandlerMoves DEF CommenterKnows
<1> QED BY <1>1, <1>2, <1>3, <1>4, <1>5, <1>6, <1>7, CommentsStep

LEMMA AnswerStep ==
  ASSUME P!PostsAssumption, PostsInv, NEW r \in Requests, NEW v \in People, NEW posts \in SUBSET PostIds,
         NEW named \in SUBSET PostIds, NEW thread \in SUBSET CommentIds, NEW must \in SUBSET CommentIds,
         P!Answer(r, v, posts, named, thread, must), oViews' \in [PostIds -> Nat],
         oReq[r].pc \in {"thread", "get", "list"}, r \notin oMoved => posts \subseteq oWas[r],
         \A p \in named : P!Exists(p) /\ (oPosts[p].anonymous => oPosts[p].author = v),
         ~oBroken => must \subseteq thread
  PROVE  PostsInv'
<1>1. PostsStored /\ P!Idle \in PostCall /\ P!Idle.pc = "idle"
  BY IdleCall DEF PostsInv, P!Idle
<1>2. /\ oReq' = [oReq EXCEPT ![r] = P!Idle]
      /\ oAnswer' = [to |-> v, posts |-> posts, named |-> named, may |-> oWas[r],
                     moved |-> r \in oMoved, thread |-> thread, must |-> must]
      /\ UNCHANGED <<oPosts, oCount, oComments, oShown, oTold, oFollows, oCalls, oWas, oMoved,
                     oHidden, oBroken>>
  BY DEF P!Answer, P!Return
<1>3. /\ oAnswer'.to = v /\ oAnswer'.posts = posts /\ oAnswer'.named = named /\ oAnswer'.may = oWas[r]
      /\ oAnswer'.moved <=> r \in oMoved
      /\ oAnswer'.thread = thread /\ oAnswer'.must = must
  BY <1>2
<1>4. oReq' \in [Requests -> PostCall] /\ oReq'[r] = P!Idle /\ \A k \in Requests \ {r} : oReq'[k] = oReq[k]
  BY <1>1, <1>2, HandlerMoves
<1>5. PostsStored'
  <2>1. oAnswer' \in PostAnswer
    BY <1>1, <1>2 DEF PostAnswer, PostsStored
  <2> QED BY <1>1, <1>2, <1>4, <2>1 DEF PostsStored
<1>6. PostsGrow /\ CommentsGrow /\ \A k \in Requests \ {r} : Watching(k)
  BY <1>2, SameGrows, SameWatches
<1>7. PosterKnows(r)' /\ ReaderKnows(r)' /\ CommenterKnows(r)'
  BY <1>4, IdleKnows
<1>8. P!AnswersVisible'
  BY <1>2, <1>3 DEF P!AnswersVisible
<1>9. (oAnswer.named \subseteq {k \in PostIds : P!Exists(k)})'
  BY <1>2, <1>3 DEF P!Exists
<1>10. AuthorsCounted'
  BY <1>1, <1>2, AuthorsStay
<1>11. CommentsCounted'
  BY <1>1, <1>2, CommentsStay
<1>12. Answering'
  BY <1>1, <1>2, AnsweringStays
<1>13. ThreadsRead'
  <2>1. ASSUME NEW k \in Requests, oReq'[k].pc = "thread", ~oBroken'
        PROVE  oReq'[k].before \subseteq P!PopulateReplies(oReq[k].post)'
    <3>1. oReq'[k] = oReq[k]
      BY <1>1, <1>4, <2>1
    <3>2. P!PopulateReplies(oReq[k].post)' = P!PopulateReplies(oReq[k].post)
      BY <1>2, <3>1 DEF P!PopulateReplies, P!TopLevel, P!Threaded
    <3> QED BY <1>2, <2>1, <3>1, <3>2 DEF PostsInv, ThreadsRead, P!At
  <2> QED BY <1>2, <1>3, <2>1 DEF ThreadsRead, P!At
<1> QED BY <1>1, <1>2, <1>5, <1>6, <1>7, <1>8, <1>9, <1>10, <1>11, <1>12, <1>13, Stepping

\* A handler that returns with nothing written.
LEMMA BackStep ==
  ASSUME P!PostsAssumption, PostsInv, NEW r \in Requests, P!Return(r), oReq[r].pc \in {"thread", "get"},
         UNCHANGED <<oPosts, oCount, oComments, oShown, oViews, oTold, oFollows, oCalls, oWas, oMoved,
                     oAnswer, oHidden, oBroken>>
  PROVE  PostsInv'
<1>1. PostsStored /\ P!Idle \in PostCall /\ P!Idle.pc = "idle"
  BY IdleCall DEF PostsInv, P!Idle
<1>2. oReq' = [oReq EXCEPT ![r] = P!Idle]
  BY DEF P!Return
<1>3. AuthorsCounted'
  BY <1>1, <1>2, AuthorsStay
<1>4. PostsGrow /\ \A k \in Requests : Watching(k)
  BY SameGrows, SameWatches
<1>5. /\ oPosts' \in [PostIds -> P!Post \cup {P!NoPost}] /\ oCount' \in [People -> Int]
      /\ oCalls' \in 0 .. MaxPostCalls /\ oWas' \in [Requests -> SUBSET PostIds]
  BY <1>1 DEF PostsStored
<1> QED BY <1>1, <1>2, <1>3, <1>4, <1>5, WritesStep

LEMMA ThreadStep ==
  ASSUME P!PostsAssumption, PostsInv, NEW r \in Requests, P!GetComments(r)
  PROVE  PostsInv'
<1>1. PostsStored /\ PosterKnows(r) /\ ReaderKnows(r) /\ oReq[r].pc = "thread"
  BY DEF PostsInv, P!GetComments, P!At
<1>2. PICK p \in PostIds, u \in People : p = oReq[r].post /\ u = oReq[r].user
  BY <1>1 DEF PosterKnows, OnPost
<1>3. CASE ~P!CanView(oReq[r].user, oReq[r].doc, oFollows)
  <2>1. P!Return(r) /\ P!Stepped /\ UNCHANGED P!collections
    BY <1>3 DEF P!GetComments
  <2> QED BY <1>1, <2>1, BackStep DEF P!Stepped, P!history, P!collections
<1>4. CASE P!CanView(oReq[r].user, oReq[r].doc, oFollows)
  <2>1. PICK thread, must : thread = P!PopulateReplies(oReq[r].post) /\ must = oReq[r].before
    OBVIOUS
  <2>2. P!Answer(r, u, {p}, {}, thread, must) /\ UNCHANGED oViews
    BY <1>2, <1>4, <2>1 DEF P!GetComments
  <2>3. thread \subseteq CommentIds /\ must \subseteq CommentIds
    <3>1. must \subseteq CommentIds
      BY <1>1, <2>1, CallFields DEF PostsStored
    <3>2. thread \subseteq CommentIds
      BY <2>1 DEF P!PopulateReplies, P!Threaded
    <3> QED BY <3>1, <3>2
  <2>4. ~oBroken => must \subseteq thread
    BY <1>1, <2>1 DEF PostsInv, ThreadsRead, P!At
  <2>5. r \notin oMoved => {p} \subseteq oWas[r]
    BY <1>1, <1>2, <1>4 DEF ReaderKnows
  <2>6. oViews' \in [PostIds -> Nat] /\ {p} \in SUBSET PostIds /\ {} \in SUBSET PostIds
    BY <1>1, <2>2 DEF PostsStored
  <2> QED BY <1>1, <2>2, <2>3, <2>4, <2>5, <2>6, AnswerStep
<1> QED BY <1>3, <1>4

LEMMA GetStep ==
  ASSUME P!PostsAssumption, PostsInv, NEW r \in Requests, P!GetPost(r)
  PROVE  PostsInv'
<1>1. PostsStored /\ PosterKnows(r) /\ ReaderKnows(r) /\ oReq[r].pc = "get"
  BY DEF PostsInv, P!GetPost, P!At
<1>2. PICK p \in PostIds, u \in People :
        /\ p = oReq[r].post /\ u = oReq[r].user /\ P!Exists(p)
        /\ oReq[r].doc.anonymous = oPosts[p].anonymous
  BY <1>1 DEF PosterKnows, OnPost
<1>3. CASE ~P!CanView(oReq[r].user, oReq[r].doc, oFollows)
  <2>1. P!Return(r) /\ P!Stepped /\ UNCHANGED P!collections
    BY <1>3 DEF P!GetPost
  <2> QED BY <1>1, <2>1, BackStep DEF P!Stepped, P!history, P!collections
<1>4. CASE P!CanView(oReq[r].user, oReq[r].doc, oFollows)
  <2>1. PICK named : named = IF oReq[r].doc.anonymous THEN {} ELSE {p}
    OBVIOUS
  <2>2. P!Answer(r, u, {p}, named, {}, {}) /\ oViews' = [oViews EXCEPT ![p] = @ + 1]
    BY <1>2, <1>4, <2>1 DEF P!GetPost
  <2>3. \A k \in named : P!Exists(k) /\ ~oPosts[k].anonymous
    BY <1>2, <2>1
  <2>4. r \notin oMoved => {p} \subseteq oWas[r]
    BY <1>1, <1>2, <1>4 DEF ReaderKnows
  <2>5. oViews' \in [PostIds -> Nat] /\ {p} \in SUBSET PostIds /\ named \in SUBSET PostIds
    BY <1>1, <2>1, <2>2 DEF PostsStored
  <2>6. {} \in SUBSET CommentIds
    OBVIOUS
  <2> QED BY <1>1, <2>2, <2>3, <2>4, <2>5, <2>6, AnswerStep
<1> QED BY <1>3, <1>4

LEMMA ListStep ==
  ASSUME P!PostsAssumption, PostsInv, NEW r \in Requests, P!GetUserPosts(r)
  PROVE  PostsInv'
<1>1. PostsStored /\ PosterKnows(r) /\ ReaderKnows(r) /\ oReq[r].pc = "list"
  BY DEF PostsInv, P!GetUserPosts, P!At
<1>2. PICK u \in People, v \in People : u = oReq[r].user /\ v = oReq[r].doc.author
  BY <1>1 DEF PosterKnows, ReaderKnows
<1>3. PICK found : found = P!Listed(u, v, oReq[r].arg = "follows")
  OBVIOUS
<1>4. P!Answer(r, u, found, found, {}, {}) /\ UNCHANGED oViews
  BY <1>2, <1>3 DEF P!GetUserPosts
<1>5. \A k \in found : /\ k \in PostIds /\ oPosts[k].author = v /\ oPosts[k].active
                       /\ u # v => /\ ~oPosts[k].anonymous
                                   /\ \/ oPosts[k].visibility = "public"
                                      \/ oReq[r].arg = "follows" /\ oPosts[k].visibility = "followers"
  BY <1>3 DEF P!Listed
<1>6. \A k \in found : P!Exists(k) /\ (oPosts[k].anonymous => oPosts[k].author = u)
  BY <1>1, <1>5, Nothing
<1>7. r \notin oMoved => found \subseteq oWas[r]
  <2>1. P!Visible(u, oPosts, oFollows) \subseteq oWas[r]
    BY <1>1, <1>2 DEF ReaderKnows
  <2>2. ASSUME r \notin oMoved, NEW k \in found PROVE k \in P!Visible(u, oPosts, oFollows)
    <3>1. oReq[r].arg = "follows" <=> <<u, v>> \in oFollows
      BY <1>1, <1>2, <2>2 DEF ReaderKnows
    <3> QED BY <1>5, <3>1 DEF P!Visible, P!CanView
  <2> QED BY <2>1, <2>2
<1>8. oViews' \in [PostIds -> Nat] /\ found \in SUBSET PostIds /\ {} \in SUBSET CommentIds
  BY <1>1, <1>4, <1>5 DEF PostsStored
<1> QED BY <1>1, <1>4, <1>6, <1>7, <1>8, AnswerStep

LEMMA BreakStep ==
  ASSUME P!PostsAssumption, PostsInv, NEW r \in Requests, P!BreakOff(r)
  PROVE  PostsInv'
<1>1. PostsStored /\ P!Idle \in PostCall
  BY IdleCall DEF PostsInv
<1>2. /\ oReq' = [oReq EXCEPT ![r] = P!Idle] /\ oBroken' = TRUE
      /\ UNCHANGED <<oPosts, oCount, oComments, oShown, oViews, oTold, oFollows, oCalls, oWas, oMoved,
                     oAnswer, oHidden>>
  BY DEF P!BreakOff, P!Return, P!collections
<1>3. oReq' \in [Requests -> PostCall] /\ oReq'[r] = P!Idle
  BY <1>1, <1>2, HandlerMoves
<1>4. PostsStored'
  BY <1>1, <1>2, <1>3 DEF PostsStored
<1>5. PostsGrow /\ CommentsGrow /\ \A k \in Requests \ {r} : Watching(k)
  BY <1>2, SameGrows, SameWatches
<1>6. PosterKnows(r)' /\ ReaderKnows(r)' /\ CommenterKnows(r)'
  BY <1>3, IdleKnows
<1>7. P!AnswersVisible' /\ (oAnswer.named \subseteq {k \in PostIds : P!Exists(k)})'
  BY <1>2, <1>5, AnswersStay
<1>8. AuthorsCounted' /\ CommentsCounted' /\ ThreadsRead'
  BY <1>2 DEF AuthorsCounted, CommentsCounted, ThreadsRead
<1>9. Answering'
  BY <1>2 DEF PostsInv, Answering, P!Taken
<1> QED BY <1>1, <1>2, <1>4, <1>5, <1>6, <1>7, <1>8, <1>9, Stepping

\* Every step keeps all of it.
LEMMA PostsStep ==
  ASSUME P!PostsAssumption, PostsInv, [P!Next]_ofPosts
  PROVE  PostsInv'
<1>1. CASE UNCHANGED ofPosts
  <2>1. /\ UNCHANGED <<oPosts, oCount, oComments, oShown, oViews, oTold, oFollows, oReq>>
        /\ UNCHANGED <<oCalls, oWas, oMoved, oAnswer, oHidden, oBroken>>
    BY <1>1 DEF ofPosts
  <2>2. PostsStored'
    BY <2>1 DEF PostsInv, PostsStored
  <2>3. PostsGrow /\ \A k \in Requests : Watching(k)
    BY <2>1, SameGrows, SameWatches
  <2>4. AuthorsCounted'
    <3>1. \A k : ActiveOf(k)' = ActiveOf(k)
      BY <2>1 DEF ActiveOf
    <3> QED BY <2>1, <3>1, OwedSame DEF PostsInv, AuthorsCounted
  <2>5. P!AnswersVisible' /\ (oAnswer.named \subseteq {k \in PostIds : P!Exists(k)})'
    BY <2>1, <2>3, AnswersStay
  <2>6. ~oBroken => oAnswer'.must \subseteq oAnswer'.thread
    BY <2>1 DEF PostsInv, ThreadsRead
  <2> QED BY <2>1, <2>2, <2>3, <2>4, <2>5, <2>6, Elsewhere
<1>2. ASSUME NEW r \in Requests, NEW u \in People, NEW p \in PostIds,
             \/ \E visibility \in P!Visibilities, allow, anonymous \in BOOLEAN :
                  P!CreatePost(r, u, p, visibility, allow, anonymous)
             \/ \E change \in P!Visibilities \cup {"open", "closed", "text"} : P!UpdateFind(r, u, p, change)
             \/ P!DeleteFind(r, u, p) \/ P!CommentFind(r, u, p)
             \/ P!GetPostFind(r, u, p) \/ P!GetCommentsFind(r, u, p)
      PROVE  PostsInv'
  BY <1>2, CreateStep, FindsStep
<1>3. ASSUME NEW r \in Requests, NEW u \in People,
             \/ \E v \in People : P!GetUserPostsFind(r, u, v)
             \/ P!GetMyPosts(r, u) \/ P!SearchPosts(r, u)
      PROVE  PostsInv'
  BY <1>3, ListFindStep, OncesStep
<1>4. ASSUME NEW r \in Requests,
             \/ P!IncrementPosts(r) \/ P!Deactivate(r) \/ P!DecrementPosts(r) \/ P!UpdateSave(r)
             \/ \E c \in CommentIds, parent \in CommentIds \cup {None} : P!InsertComment(r, c, parent)
             \/ P!CountComment(r) \/ P!PushReply(r) \/ P!TellAuthor(r)
             \/ P!GetPost(r) \/ P!GetComments(r) \/ P!GetUserPosts(r) \/ P!BreakOff(r)
      PROVE  PostsInv'
  BY <1>4, IncrementStep, DeactivateStep, DecrementStep, SaveStep, InsertStep, CountStep, PushStep,
     TellStep, GetStep, ThreadStep, ListStep, BreakStep
<1>5. ASSUME NEW p \in PostIds, NEW active \in BOOLEAN, P!UpdatePostStatus(p, active) PROVE PostsInv'
  BY <1>5, StatusStep
<1>6. ASSUME NEW u \in People, NEW v \in People, P!FollowMoves(u, v) PROVE PostsInv'
  BY <1>6, FollowStep
<1> QED BY <1>1, <1>2, <1>3, <1>4, <1>5, <1>6 DEF P!Next

LEMMA PostsHonestly ==
  ASSUME PostsInv
  PROVE  P!TypeOK /\ P!AnswersVisible /\ P!PostsCounted /\ P!ThreadWhole
<1>1. P!TypeOK
  BY CallFields DEF PostsInv, PostsStored, P!TypeOK
<1>2. P!PostsCounted
  BY SameSize DEF PostsInv, AuthorsCounted, P!PostsCounted, Creating, Deleting, ActiveOf
<1>3. P!ThreadWhole
  BY SameSize DEF PostsInv, CommentsCounted, ThreadsRead, P!ThreadWhole, Uncounted, CommentsOf
<1> QED BY <1>1, <1>2, <1>3 DEF PostsInv

LEMMA Began ==
  ASSUME P!PostsAssumption, P!Unread, oCalls \in 0 .. MaxPostCalls,
         oPosts \in [PostIds -> P!Post \cup {P!NoPost}], oCount \in [People -> Int],
         oComments \in [CommentIds -> P!Comment \cup {P!NoComment}], oShown \in [PostIds -> Nat],
         \A u \in People : oCount[u] = ActiveOf(u), \A p \in PostIds : oShown[p] = CommentsOf(p),
         \A c \in CommentIds : oComments[c].parent = None
  PROVE  PostsInv
<1>1. \A r \in Requests : oReq[r] = P!Idle /\ oReq[r].pc = "idle"
  BY DEF P!Unread, P!Idle
<1>2. PostsStored
  <2>1. oAnswer \in PostAnswer
    BY DEF P!Unread, P!NoAnswer, PostAnswer
  <2>2. oReq \in [Requests -> PostCall] /\ oWas \in [Requests -> SUBSET PostIds]
    BY IdleCall DEF P!Unread
  <2>3. oViews \in [PostIds -> Nat] /\ oHidden \in [People -> Int]
    BY DEF P!Unread
  <2>5. oBroken \in BOOLEAN
    BY Zenon DEF P!Unread
  <2>4. oTold \subseteq CommentIds /\ oFollows \subseteq People \X People /\ oMoved \subseteq Requests
    BY DEF P!Unread
  <2> QED BY <2>1, <2>2, <2>3, <2>4, <2>5 DEF PostsStored
<1>3. \A r \in Requests : PosterKnows(r) /\ ReaderKnows(r) /\ CommenterKnows(r)
  BY <1>1 DEF PosterKnows, ReaderKnows, CommenterKnows, OnPost
<1>4. P!AnswersVisible /\ oAnswer.named \subseteq {p \in PostIds : P!Exists(p)}
  BY DEF P!Unread, P!NoAnswer, P!AnswersVisible
<1>5. \A u : Creating(u) = 0 /\ Deleting(u) = 0
  <2>1. \A u : {r \in Requests : P!At(r, "increment") /\ oReq[r].user = u} = {}
    BY <1>1 DEF P!At
  <2>2. \A u : {r \in Requests : P!At(r, "decrement") /\ oReq[r].user = u} = {}
    BY <1>1 DEF P!At
  <2> QED BY <2>1, <2>2, FS_EmptySet DEF Creating, Deleting
<1>6. \A p : Uncounted(p) = 0
  <2>1. \A p : {r \in Requests : P!At(r, "count") /\ oReq[r].post = p} = {}
    BY <1>1 DEF P!At
  <2> QED BY <2>1, FS_EmptySet DEF Uncounted
<1>7. AuthorsCounted
  <2>1. \A u \in People : oHidden[u] = 0
    BY DEF P!Unread
  <2>2. \A u \in People : oCount[u] \in Int
    OBVIOUS
  <2> QED BY <1>5, <2>1, <2>2 DEF AuthorsCounted
<1>8. CommentsCounted
  <2>1. \A p \in PostIds : oShown[p] \in Nat
    OBVIOUS
  <2> QED BY <1>6, <2>1 DEF CommentsCounted
<1>9. Answering
  BY DEF Answering
<1>10. ThreadsRead
  <2>1. oAnswer.must = {}
    BY DEF P!Unread, P!NoAnswer
  <2> QED BY <1>1, <2>1 DEF ThreadsRead, P!At
<1> QED BY <1>2, <1>3, <1>4, <1>7, <1>8, <1>9, <1>10 DEF PostsInv

LEMMA NoneYet ==
  ASSUME P!PostsAssumption, P!Empty
  PROVE  /\ oPosts \in [PostIds -> P!Post \cup {P!NoPost}] /\ oCount \in [People -> Int]
         /\ \A u \in People : oCount[u] = ActiveOf(u)
<1>1. oPosts \in [PostIds -> P!Post \cup {P!NoPost}] /\ oCount \in [People -> Int]
  BY DEF P!Empty, P!NoPosts
<1>2. \A p \in PostIds : oPosts[p].active = FALSE
  BY DEF P!Empty, P!NoPosts, P!NoPost
<1>3. \A u : {p \in PostIds : oPosts[p].author = u /\ oPosts[p].active} = {}
  BY <1>2
<1>4. \A u : ActiveOf(u) = 0
  BY <1>3, FS_EmptySet DEF ActiveOf
<1> QED BY <1>1, <1>4 DEF P!Empty

LEMMA OnePost ==
  ASSUME P!PostsAssumption, NEW p \in PostIds, NEW d \in P!Post, d.active = TRUE,
         oPosts = [P!NoPosts EXCEPT ![p] = d], oCount = [u \in People |-> IF u = d.author THEN 1 ELSE 0]
  PROVE  /\ oPosts \in [PostIds -> P!Post \cup {P!NoPost}] /\ oCount \in [People -> Int]
         /\ \A u \in People : oCount[u] = ActiveOf(u)
<1>1. /\ oPosts \in [PostIds -> P!Post \cup {P!NoPost}] /\ oPosts[p] = d
      /\ \A k \in PostIds \ {p} : oPosts[k] = P!NoPost
  BY DEF P!NoPosts
<1>2. oCount \in [People -> Int]
  OBVIOUS
<1>3. \A k \in PostIds \ {p} : oPosts[k].active = FALSE
  BY <1>1 DEF P!NoPost
<1>4. ASSUME NEW u \in People PROVE ActiveOf(u) = IF u = d.author THEN 1 ELSE 0
  <2>1. {k \in PostIds : oPosts[k].author = u /\ oPosts[k].active} = IF u = d.author THEN {p} ELSE {}
    BY <1>1, <1>3
  <2> QED BY <2>1, FS_EmptySet, FS_Singleton DEF ActiveOf
<1> QED BY <1>1, <1>2, <1>4

LEMMA NoneSaid ==
  ASSUME P!PostsAssumption, P!Uncommented
  PROVE  /\ oComments \in [CommentIds -> P!Comment \cup {P!NoComment}] /\ oShown \in [PostIds -> Nat]
         /\ \A p \in PostIds : oShown[p] = CommentsOf(p)
         /\ \A c \in CommentIds : oComments[c].parent = None
<1>1. \A c \in CommentIds : oComments[c].post = None /\ oComments[c].parent = None
  BY DEF P!Uncommented, P!NoComment
<1>2. \A p \in PostIds : {c \in CommentIds : oComments[c].post = p} = {}
  BY <1>1 DEF P!PostsAssumption
<1>3. \A p \in PostIds : CommentsOf(p) = 0
  BY <1>2, FS_EmptySet DEF CommentsOf
<1> QED BY <1>1, <1>3 DEF P!Uncommented

LEMMA OneSaid ==
  ASSUME P!PostsAssumption, NEW p \in PostIds, NEW c \in CommentIds, NEW a \in People,
         oComments = [k \in CommentIds |->
           IF k = c THEN [post |-> p, author |-> a, parent |-> None, replies |-> {}] ELSE P!NoComment],
         oShown = [k \in PostIds |-> IF k = p THEN 1 ELSE 0]
  PROVE  /\ oComments \in [CommentIds -> P!Comment \cup {P!NoComment}] /\ oShown \in [PostIds -> Nat]
         /\ \A k \in PostIds : oShown[k] = CommentsOf(k)
         /\ \A k \in CommentIds : oComments[k].parent = None
<1>1. PICK d : d = [post |-> p, author |-> a, parent |-> None, replies |-> {}]
  OBVIOUS
<1>2. d \in P!Comment /\ d.post = p /\ d.parent = None
  BY <1>1 DEF P!Comment
<1>3. P!NoComment.post = None /\ P!NoComment.parent = None
  BY DEF P!NoComment
<1>4. \A k \in CommentIds : oComments[k] = IF k = c THEN d ELSE P!NoComment
  BY <1>1
<1>5. oComments \in [CommentIds -> P!Comment \cup {P!NoComment}]
  BY <1>1, <1>2
<1>6. ASSUME NEW q \in PostIds PROVE oShown[q] = CommentsOf(q)
  <2>1. {k \in CommentIds : oComments[k].post = q} = IF q = p THEN {c} ELSE {}
    BY <1>2, <1>3, <1>4 DEF P!PostsAssumption
  <2> QED BY <2>1, FS_EmptySet, FS_Singleton DEF CommentsOf
<1>7. \A k \in CommentIds : oComments[k].parent = None
  BY <1>2, <1>3, <1>4
<1> QED BY <1>5, <1>6, <1>7

-----------------------------------------------------------------------------
(* Posts among the other components.                                            *)

\* Every start of a part is one of the module's.
LEMMA PostsStarts == MCInit => PostsInv
<1> SUFFICES ASSUME MCInit PROVE PostsInv
  OBVIOUS
<1>1. P!PostsAssumption /\ 3 <= MaxPostCalls /\ Author \in People /\ MaxPostCalls \in Nat
  BY PostBounds, StartBounds DEF P!PostsAssumption
<1>3. ASSUME NEW p \in PostIds, NEW visibility \in P!Visibilities, NEW anonymous \in BOOLEAN,
             oPosts = [P!NoPosts EXCEPT ![p] =
                         [author |-> Author, visibility |-> visibility, allow |-> TRUE,
                          anonymous |-> anonymous, active |-> TRUE]],
             oCount = [u \in People |-> IF u = Author THEN 1 ELSE 0]
      PROVE  /\ oPosts \in [PostIds -> P!Post \cup {P!NoPost}] /\ oCount \in [People -> Int]
             /\ \A u \in People : oCount[u] = ActiveOf(u)
  <2>1. PICK d : d = [author |-> Author, visibility |-> visibility, allow |-> TRUE,
                      anonymous |-> anonymous, active |-> TRUE]
    OBVIOUS
  <2>2. d \in P!Post /\ d.author = Author /\ d.active = TRUE
    BY <1>1, <2>1 DEF P!Post
  <2>3. oPosts = [P!NoPosts EXCEPT ![p] = d] /\ oCount = [u \in People |-> IF u = d.author THEN 1 ELSE 0]
    BY <1>3, <2>1, <2>2
  <2> QED BY <1>1, <2>2, <2>3, OnePost
<1>4. CASE PostsStart
  <2>1. P!Uncommented /\ P!Unread
    BY <1>4 DEF PostsStart
  <2>2. oCalls \in 0 .. MaxPostCalls
    BY <1>1, <1>4 DEF PostsStart
  <2>3. CASE P!Empty
    BY <1>1, <2>1, <2>2, <2>3, NoneYet, NoneSaid, Began
  <2>4. CASE Published
    <3>1. /\ oPosts \in [PostIds -> P!Post \cup {P!NoPost}] /\ oCount \in [People -> Int]
          /\ \A u \in People : oCount[u] = ActiveOf(u)
      BY <1>3, <2>4 DEF Published
    <3> QED BY <1>1, <2>1, <2>2, <3>1, NoneSaid, Began
  <2> QED BY <1>4, <2>3, <2>4 DEF PostsStart
<1>5. CASE Discussed
  <2>1. PICK p \in PostIds, c \in CommentIds \ Twins :
          /\ oPosts = [P!NoPosts EXCEPT ![p] = [author |-> Author, visibility |-> "public",
                         allow |-> TRUE, anonymous |-> FALSE, active |-> TRUE]]
          /\ oCount = [u \in People |-> IF u = Author THEN 1 ELSE 0]
          /\ oComments = [d \in CommentIds |-> IF d = c
                            THEN [post |-> p, author |-> Author, parent |-> None, replies |-> {}]
                            ELSE P!NoComment]
          /\ oShown = [q \in PostIds |-> IF q = p THEN 1 ELSE 0]
          /\ oCalls = 1
          /\ P!Unread
    BY <1>5 DEF Discussed
  <2>2. "public" \in P!Visibilities /\ FALSE \in BOOLEAN
    BY DEF P!Visibilities
  <2>3. /\ oPosts \in [PostIds -> P!Post \cup {P!NoPost}] /\ oCount \in [People -> Int]
        /\ \A u \in People : oCount[u] = ActiveOf(u)
    BY <1>3, <2>1, <2>2
  <2>4. /\ oComments \in [CommentIds -> P!Comment \cup {P!NoComment}] /\ oShown \in [PostIds -> Nat]
        /\ \A k \in PostIds : oShown[k] = CommentsOf(k)
        /\ \A k \in CommentIds : oComments[k].parent = None
    BY <1>1, <2>1, OneSaid
  <2>5. oCalls \in 0 .. MaxPostCalls /\ P!Unread
    BY <1>1, <2>1
  <2> QED BY <1>1, <2>3, <2>4, <2>5, Began
<1>6. CASE P!Init
  <2>1. P!Empty /\ P!Uncommented /\ P!Unread /\ oCalls \in 0 .. MaxPostCalls
    BY <1>1, <1>6 DEF P!Init
  <2> QED BY <1>1, <2>1, NoneYet, NoneSaid, Began
<1> QED BY <1>4, <1>5, <1>6 DEF MCInit

LEMMA PostsAlways == MCSpec => []PostsInv
  <1>1. MCInit => PostsInv
    BY PostsStarts
  <1>2. PostsInv /\ [MCNext]_<<part, ofToggles, ofPosts, ofReels, ofChains, ofScores, ofDna,
                               ofRoulette, ofEgo, ofTaste, ofFeeds>> => PostsInv'
    BY PostsStep, PostBounds DEF MCNext, Rest
  <1> QED BY <1>1, <1>2, PTL DEF MCSpec

\* A handler that decided by what it read of a post answers only with what the reader might
\* see at some moment of the request, unless the follow graph moved under it, and gives
\* nobody but the author the author of an anonymous post; unless a handler broke off the
\* posts of an author and the comments of a post are counted, whatever overlaps, and a
\* thread has every comment that was settled when it was asked for (PostController,
\* populateReplies, deletePost).
THEOREM PostsHeld == MCSpec => []PostsHonest
  <1>1. PostsInv => PostsHonest
    BY PostsHonestly DEF PostsHonest
  <1> QED BY <1>1, PostsAlways, PTL
=============================================================================
