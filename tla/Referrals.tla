-------------------------------- MODULE Referrals -------------------------------
(* Referral codes: allocating one (getMyCode) and using one (applyCode), the   *)
(* only transaction of the program.                                            *)
(*                                                                             *)
(* MongoDB's part: a transaction reads the snapshot it began with; writing a   *)
(* document that changed since, or that another transaction has written, makes *)
(* it start again (with_transaction repeats the callback); what it wrote       *)
(* appears at once when it commits, and other writers wait for it.             *)
EXTENDS Community

CONSTANTS
  Codes,
  MaxTries     \* candidates a request draws before it gives up (8 in the code)

ReferralsAssumption == MaxTries \in Nat /\ None \notin Requests \cup Codes

VARIABLES
  fUsers,      \* collection users: code, by (referredBy), count, badges, active
  fWriter,     \* the transaction that has written a document and not committed
  fReq,        \* handlers
  fShown       \* history: the codes a user was shown as his own

fVars == <<fUsers, fWriter, fReq, fShown>>

Account == [code : Codes \cup {None}, by : Users \cup {None}, count : Nat,
            badges : Nat, active : BOOLEAN]
NewAccount == [code |-> None, by |-> None, count |-> 0, badges |-> 0, active |-> TRUE]

\* `view` is what the handler has read: its transaction's snapshot with its own
\* writes in it; `stale` the documents that changed behind it.
Idle == [pc |-> "idle", user |-> None, code |-> None, other |-> None, tries |-> 0,
         view |-> [u \in Users |-> NewAccount], stale |-> {}]
Call == [pc : {"idle", "readCode", "assign", "reread", "begin", "claim", "reward", "commit"},
         user : Users \cup {None}, code : Codes \cup {None}, other : Users \cup {None},
         tries : 0 .. MaxTries, view : [Users -> Account], stale : SUBSET Users]

Init ==
  /\ fUsers = [u \in Users |-> NewAccount]
  /\ fWriter = [u \in Users |-> None]
  /\ fReq = [r \in Requests |-> Idle]
  /\ fShown = [u \in Users |-> {}]

At(r, pc) == fReq[r].pc = pc
End(r) == fReq' = [fReq EXCEPT ![r] = Idle]
InTransaction(r) == fReq[r].pc \in {"claim", "reward", "commit"}

\* The records of all handlers after the documents of a set have changed.
Behind(changed) ==
  [r \in Requests |->
     IF InTransaction(r) THEN [fReq[r] EXCEPT !.stale = @ \cup changed] ELSE fReq[r]]

-----------------------------------------------------------------------------
(* getMyCode                                                                   *)
BeginMyCode(r, u) ==
  /\ At(r, "idle")
  /\ fReq' = [fReq EXCEPT ![r] = [Idle EXCEPT !.pc = "readCode", !.user = u]]
  /\ UNCHANGED <<fUsers, fWriter, fShown>>

Show(u, code) == fShown' = [fShown EXCEPT ![u] = @ \cup ({code} \ {None})]

ReadCode(r) ==
  LET u == fReq[r].user IN
  /\ At(r, "readCode")
  /\ IF fUsers[u].code # None
     THEN Show(u, fUsers[u].code) /\ End(r)
     ELSE fReq' = [fReq EXCEPT ![r].pc = "assign"] /\ UNCHANGED fShown
  /\ UNCHANGED <<fUsers, fWriter>>

\* Mutant: whatever code the account has is replaced.
AssignableAlways(u) == TRUE

Assignable(u) == fUsers[u].code = None

\* One candidate: a duplicate of somebody else's breaks the unique index.
Assign(r) ==
  LET q == fReq[r]  u == q.user IN
  /\ At(r, "assign")
  /\ fWriter[u] = None
  /\ IF ~Assignable(u)
     THEN /\ fReq' = [fReq EXCEPT ![r].pc = "reread"]
          /\ UNCHANGED <<fUsers, fShown>>
     ELSE \E code \in Codes :
       IF \E other \in Users \ {u} : fUsers[other].code = code
       THEN /\ fReq' = [fReq EXCEPT ![r] =
                 IF q.tries + 1 < MaxTries THEN [q EXCEPT !.tries = @ + 1] ELSE Idle]
            /\ UNCHANGED <<fUsers, fShown>>
       ELSE /\ fUsers' = [fUsers EXCEPT ![u].code = code]
            /\ fReq' = [Behind({u}) EXCEPT ![r] = Idle]
            /\ Show(u, code)
  /\ UNCHANGED fWriter

\* Another request of the user was faster: its code is the one to show.
Reread(r) ==
  LET u == fReq[r].user IN
  /\ At(r, "reread")
  /\ Show(u, fUsers[u].code)
  /\ End(r)
  /\ UNCHANGED <<fUsers, fWriter>>

-----------------------------------------------------------------------------
(* applyCode                                                                   *)
BeginApply(r, u, code) ==
  /\ At(r, "idle")
  /\ fReq' = [fReq EXCEPT ![r] = [Idle EXCEPT !.pc = "begin", !.user = u, !.code = code]]
  /\ UNCHANGED <<fUsers, fWriter, fShown>>

\* The transaction's reads: the caller must not have used a code yet, the code
\* must be somebody else's, and that account active.
Usable(u, v) == fUsers[u].by = None /\ v # u /\ fUsers[v].active

ReadAccounts(r) ==
  LET q == fReq[r] IN
  /\ At(r, "begin")
  /\ \/ \E v \in Users :
          /\ fUsers[v].code = q.code /\ Usable(q.user, v)
          /\ fReq' = [fReq EXCEPT ![r] = [@ EXCEPT !.pc = "claim",
               !.other = v, !.view = fUsers, !.stale = {}]]
     \/ /\ ~\E v \in Users : fUsers[v].code = q.code /\ Usable(q.user, v)
        /\ End(r)
  /\ UNCHANGED <<fUsers, fWriter, fShown>>

\* May this transaction write the document?  If not it starts again.
Writes(r, u) == u \notin fReq[r].stale /\ fWriter[u] \in {None, r}
Released(r) == [u \in Users |-> IF fWriter[u] = r THEN None ELSE fWriter[u]]

StartAgain(r) ==
  /\ \/ At(r, "claim") /\ ~Writes(r, fReq[r].user)
     \/ At(r, "reward") /\ ~Writes(r, fReq[r].other)
  /\ fReq' = [fReq EXCEPT ![r] = [@ EXCEPT !.pc = "begin"]]
  /\ fWriter' = Released(r)
  /\ UNCHANGED <<fUsers, fShown>>

Badged(account) == [account EXCEPT !.badges = IF @ = 0 THEN 1 ELSE @]
ReferredBy(account, v) == Badged([account EXCEPT !.by = v])
Rewarded(account) == Badged([account EXCEPT !.count = @ + 1])

\* The one-time claim and the caller's badge.
Claim(r) ==
  LET q == fReq[r]
      view == [q.view EXCEPT ![q.user] = ReferredBy(@, q.other)] IN
  /\ At(r, "claim") /\ Writes(r, q.user)
  /\ fWriter' = [fWriter EXCEPT ![q.user] = r]
  /\ fReq' = [fReq EXCEPT ![r] = [q EXCEPT !.pc = "reward", !.view = view]]
  /\ UNCHANGED <<fUsers, fShown>>

\* Mutant: the referrer's update is not made with the transaction's session.
RewardOutside(r) ==
  LET q == fReq[r] IN
  /\ At(r, "reward") /\ fWriter[q.other] = None
  /\ fUsers' = [fUsers EXCEPT ![q.other] = Rewarded(@)]
  /\ fReq' = [Behind({q.other}) EXCEPT ![r] = [q EXCEPT !.pc = "commit"]]
  /\ UNCHANGED <<fWriter, fShown>>

\* The referrer's count and badge.
Reward(r) ==
  LET q == fReq[r]
      view == [q.view EXCEPT ![q.other] = Rewarded(@)] IN
  /\ At(r, "reward") /\ Writes(r, q.other)
  /\ fWriter' = [fWriter EXCEPT ![q.other] = r]
  /\ fReq' = [fReq EXCEPT ![r] = [q EXCEPT !.pc = "commit", !.view = view]]
  /\ UNCHANGED <<fUsers, fShown>>

Commit(r) ==
  LET written == {u \in Users : fWriter[u] = r} IN
  /\ At(r, "commit")
  /\ fUsers' = [u \in Users |-> IF u \in written THEN fReq[r].view[u] ELSE fUsers[u]]
  /\ fWriter' = Released(r)
  /\ fReq' = [Behind(written) EXCEPT ![r] = Idle]
  /\ UNCHANGED fShown

-----------------------------------------------------------------------------
\* An account is deleted or banned.
Deactivate(u) ==
  /\ fUsers[u].active
  /\ fWriter[u] = None
  /\ fUsers' = [fUsers EXCEPT ![u].active = FALSE]
  /\ fReq' = Behind({u})
  /\ UNCHANGED <<fWriter, fShown>>

\* A handler that throws or whose process dies; an open transaction is undone.
Abort(r) ==
  /\ ~At(r, "idle")
  /\ End(r)
  /\ fWriter' = Released(r)
  /\ UNCHANGED <<fUsers, fShown>>

Step(r) ==
  \/ ReadCode(r) \/ Assign(r) \/ Reread(r)
  \/ ReadAccounts(r) \/ StartAgain(r) \/ Claim(r) \/ Reward(r) \/ Commit(r)

Next ==
  \/ \E r \in Requests, u \in Users :
       \/ BeginMyCode(r, u)
       \/ \E code \in Codes : BeginApply(r, u, code)
  \/ \E r \in Requests : Step(r) \/ Abort(r)
  \/ \E u \in Users : Deactivate(u)

Spec == Init /\ [][Next]_fVars

-----------------------------------------------------------------------------
(* Properties                                                                  *)

TypeOK ==
  /\ fUsers \in [Users -> Account]
  /\ fWriter \in [Users -> Requests \cup {None}]
  /\ fReq \in [Requests -> Call]
  /\ fShown \in [Users -> SUBSET Codes]

\* Every referral is counted exactly once, nobody is his own referrer, and who
\* was referred or has referred has one badge, however many requests use codes
\* at once and wherever they stop (the transaction of applyCode).
RewardsMatch ==
  \A u \in Users :
    /\ fUsers[u].by # u
    /\ fUsers[u].count = Cardinality({v \in Users : fUsers[v].by = u})
    /\ fUsers[u].badges = IF fUsers[u].by # None \/ fUsers[u].count > 0 THEN 1 ELSE 0

\* A code shown to a user is his for ever and nobody else's (getMyCode: shared
\* links keep working).
CodesLast ==
  \A u \in Users : \A code \in fShown[u] :
    /\ fUsers[u].code = code
    /\ \A v \in Users \ {u} : fUsers[v].code # code
=============================================================================
