-------------------------------- MODULE Signup --------------------------------
(* How an account comes to be: AuthService::initiateAuth, verifyOTPAndAuth,     *)
(* loginWithFirebase, createNewUser, updateUserAuthMethod and                   *)
(* createUsernameAndPassword with their handlers, against bans and deletions of *)
(* the same accounts.                                                           *)
(*                                                                              *)
(* One action per access to MongoDB that reads or writes what others write; a   *)
(* handler may die between any two.  A code is its identifier and its purpose   *)
(* (how codes are sent and compared is the module Otp), an identifier is what   *)
(* validateEmail and buildE164Phone make of what the client wrote, and names,   *)
(* pictures and times of an account are left out.                               *)
EXTENDS Naturals, FiniteSets

CONSTANTS
  Idents,        \* e-mail addresses and telephone numbers
  Names,         \* usernames
  Requests, None,
  MaxAccounts,   \* bound: accounts ever inserted
  MaxSignCalls   \* bound: handlers started

\* An identifier, a username and what a deletion leaves in its place all differ.
SignupAssumption ==
  /\ MaxAccounts \in Nat /\ MaxSignCalls \in Nat
  /\ None \notin Idents /\ None \notin Names
  /\ \A a \in 1 .. MaxAccounts : <<"deleted", a>> \notin Names \cup {None}

VARIABLES
  sUsers,   \* collection users
  sCodes,   \* the codes that would let somebody in
  sTemps,   \* accounts a temporary token was handed out for
  sReq,     \* handlers
  sCalls,   \* what MaxSignCalls bounds
  sIn,      \* accounts a session was handed out for
  sGone,    \* history: deleted accounts
  sRaced,   \* history: those deleted while a sign-in had found them
  sWon      \* history: the usernames each account was told it has

sVars == <<sUsers, sCodes, sTemps, sReq, sCalls, sIn, sGone, sRaced, sWon>>

Accounts == 1 .. MaxAccounts
Purposes == {"login", "signup"}
NoUser == [there |-> FALSE, active |-> FALSE, ident |-> None, methods |-> {}, name |-> None]
Idle == [pc |-> "idle", ident |-> None, purpose |-> "login", acc |-> 0, name |-> None]
PCs == {"idle", "send", "code", "provider", "find", "insert", "match", "push", "shortcut", "reload",
        "available", "setName", "session"}

Spend == sCalls < MaxSignCalls /\ sCalls' = sCalls + 1
At(r, pc) == sReq[r].pc = pc
Goto(r, pc) == sReq' = [sReq EXCEPT ![r].pc = pc]
End(r) == sReq' = [sReq EXCEPT ![r] = Idle]
OnlyReq == UNCHANGED <<sUsers, sCodes, sTemps, sIn, sGone, sRaced, sWon>>

\* findByAuthMethod: an active account with the identifier, in either place.
FindByAuthMethod(i) ==
  {a \in Accounts : sUsers[a].active /\ i \in sUsers[a].methods \cup {sUsers[a].ident}}
\* The unique indexes cover inactive accounts too.
HeldBy(i) == {a \in Accounts : sUsers[a].there /\ sUsers[a].ident = i}
NameHeldBy(n) == {a \in Accounts : sUsers[a].name = n}
Purpose(i) == IF FindByAuthMethod(i) = {} THEN "signup" ELSE "login"

-----------------------------------------------------------------------------
(* The first step: a code.                                                      *)
Initiate(r, i) ==
  /\ Spend /\ At(r, "idle")
  /\ sReq' = [sReq EXCEPT ![r] = [Idle EXCEPT !.pc = "send", !.ident = i, !.purpose = Purpose(i)]]
  /\ OnlyReq
\* It may not be delivered.
SendCode(r) ==
  /\ At(r, "send")
  /\ sCodes' \in {sCodes, sCodes \cup {<<sReq[r].ident, sReq[r].purpose>>}}
  /\ End(r)
  /\ UNCHANGED <<sUsers, sTemps, sCalls, sIn, sGone, sRaced, sWon>>

-----------------------------------------------------------------------------
(* The second: the code, or a provider's word.                                  *)
Verify(r, i) ==
  /\ Spend /\ At(r, "idle")
  /\ sReq' = [sReq EXCEPT ![r] = [Idle EXCEPT !.pc = "code", !.ident = i, !.purpose = Purpose(i)]]
  /\ OnlyReq
\* verifyOTP: a code lets one in.
VerifyCode(r) ==
  LET code == <<sReq[r].ident, sReq[r].purpose>> IN
  /\ At(r, "code")
  /\ \/ code \in sCodes /\ sCodes' = sCodes \ {code} /\ Goto(r, "find")
     \/ UNCHANGED sCodes /\ End(r)
  /\ UNCHANGED <<sUsers, sTemps, sCalls, sIn, sGone, sRaced, sWon>>
FederatedLogin(r, i) ==
  /\ Spend /\ At(r, "idle")
  /\ sReq' = [sReq EXCEPT ![r] = [Idle EXCEPT !.pc = "provider", !.ident = i]]
  /\ OnlyReq
\* The token is Firebase's or Google's, was made for this application and its address
\* is verified; or the login ends.
ProviderAnswers(r) ==
  /\ At(r, "provider")
  /\ Goto(r, "find") \/ End(r)
  /\ UNCHANGED sCalls /\ OnlyReq

FindAgain(r) ==
  LET found == FindByAuthMethod(sReq[r].ident) IN
  /\ At(r, "find")
  /\ IF found = {} THEN Goto(r, "insert")
     ELSE \E a \in found : sReq' = [sReq EXCEPT ![r].pc = "match", ![r].acc = a]
  /\ UNCHANGED sCalls /\ OnlyReq

NewUser(i) == [there |-> TRUE, active |-> TRUE, ident |-> i, methods |-> {i}, name |-> None]
\* createNewUser, or the duplicate is refused.
Insert(r) ==
  LET i == sReq[r].ident IN
  /\ At(r, "insert")
  /\ IF HeldBy(i) # {}
     THEN End(r) /\ UNCHANGED sUsers
     ELSE \E a \in Accounts :
            /\ ~sUsers[a].there /\ \A b \in 1 .. a - 1 : sUsers[b].there
            /\ sUsers' = [sUsers EXCEPT ![a] = NewUser(i)]
            /\ sReq' = [sReq EXCEPT ![r].pc = "reload", ![r].acc = a]
  /\ UNCHANGED <<sCodes, sTemps, sCalls, sIn, sGone, sRaced, sWon>>

\* updateUserAuthMethod marks the method as verified, or adds it where it is still
\* absent, and then fills the shortcut where there is none.
Match(r) ==
  LET q == sReq[r] IN
  /\ At(r, "match")
  /\ Goto(r, IF q.ident \in sUsers[q.acc].methods THEN "shortcut" ELSE "push")
  /\ UNCHANGED sCalls /\ OnlyReq
Push(r) ==
  /\ At(r, "push")
  /\ sUsers' = [sUsers EXCEPT ![sReq[r].acc].methods = @ \cup {sReq[r].ident}]
  /\ Goto(r, "shortcut")
  /\ UNCHANGED <<sCodes, sTemps, sCalls, sIn, sGone, sRaced, sWon>>
FillShortcut(r) ==
  LET q == sReq[r] IN
  /\ At(r, "shortcut")
  /\ \/ /\ sUsers[q.acc].ident # None
        /\ Goto(r, "reload") /\ UNCHANGED sUsers
     \/ /\ sUsers[q.acc].ident = None /\ HeldBy(q.ident) = {}
        /\ sUsers' = [sUsers EXCEPT ![q.acc].ident = q.ident]
        /\ Goto(r, "reload")
     \/ /\ sUsers[q.acc].ident = None /\ HeldBy(q.ident) # {}
        /\ End(r) /\ UNCHANGED sUsers
  /\ UNCHANGED <<sCodes, sTemps, sCalls, sIn, sGone, sRaced, sWon>>

\* The account as it is now: without a name it gets a temporary token.
Reload(r) ==
  LET a == sReq[r].acc IN
  /\ At(r, "reload")
  /\ IF sUsers[a].name = None THEN sTemps' = sTemps \cup {a} /\ End(r)
     ELSE UNCHANGED sTemps /\ Goto(r, "session")
  /\ UNCHANGED <<sUsers, sCodes, sCalls, sIn, sGone, sRaced, sWon>>
\* createUserSession.
Session(r) ==
  /\ At(r, "session")
  /\ sIn' = sIn \cup {sReq[r].acc}
  /\ End(r)
  /\ UNCHANGED <<sUsers, sCodes, sTemps, sCalls, sGone, sRaced, sWon>>

-----------------------------------------------------------------------------
(* The third: a username and a password.                                        *)
CreateUsername(r, a, n) ==
  /\ Spend /\ At(r, "idle") /\ a \in sTemps
  /\ sReq' = IF sUsers[a].name # None THEN sReq
             ELSE [sReq EXCEPT ![r] = [Idle EXCEPT !.pc = "available", !.acc = a, !.name = n]]
  /\ OnlyReq
\* checkUsernameAvailability asks the same: only active accounts are looked at.
Taken(n) == \E a \in NameHeldBy(n) : sUsers[a].active
Available(r) ==
  /\ At(r, "available")
  /\ IF Taken(sReq[r].name) THEN End(r) ELSE Goto(r, "setName")
  /\ UNCHANGED sCalls /\ OnlyReq
\* Mutant: the update trusts what was read.
NameableTrusting(u) == u.active
\* The predicate of the update.
Nameable(u) == u.active /\ u.name = None
SetName(r) ==
  LET q == sReq[r] IN
  /\ At(r, "setName")
  /\ IF Nameable(sUsers[q.acc]) /\ NameHeldBy(q.name) = {}
     THEN /\ sUsers' = [sUsers EXCEPT ![q.acc].name = q.name]
          /\ sWon' = [sWon EXCEPT ![q.acc] = @ \cup {q.name}]
          /\ Goto(r, "session")
     ELSE UNCHANGED <<sUsers, sWon>> /\ End(r)
  /\ UNCHANGED <<sCodes, sTemps, sCalls, sIn, sGone, sRaced>>

-----------------------------------------------------------------------------
(* What happens to an account.                                                  *)
SetStatus(a, active) ==
  /\ Spend
  /\ sUsers[a].there /\ sUsers[a].active # active
  /\ sUsers' = [sUsers EXCEPT ![a].active = active]
  /\ UNCHANGED <<sCodes, sTemps, sReq, sIn, sGone, sRaced, sWon>>

\* "deleted_" and the end of the id.
Tombstone(a) == <<"deleted", a>>
\* deleteAccount, by a user the access-token check lets in.
DeleteAccount(a) ==
  /\ Spend
  /\ a \in sIn /\ sUsers[a].active
  /\ sUsers' = [sUsers EXCEPT ![a] = [there |-> TRUE, active |-> FALSE, ident |-> None,
                                      methods |-> {}, name |-> Tombstone(a)]]
  /\ sGone' = sGone \cup {a}
  /\ sRaced' = IF \E r \in Requests : sReq[r].acc = a /\ sReq[r].pc \in {"match", "push", "shortcut"}
               THEN sRaced \cup {a} ELSE sRaced
  /\ UNCHANGED <<sCodes, sTemps, sReq, sIn, sWon>>

\* A handler dies.
Die(r) == ~At(r, "idle") /\ End(r) /\ UNCHANGED sCalls /\ OnlyReq

-----------------------------------------------------------------------------
Init ==
  /\ sUsers = [a \in Accounts |-> NoUser]
  /\ sCodes = {} /\ sTemps = {} /\ sIn = {}
  /\ sReq = [r \in Requests |-> Idle]
  /\ sCalls = 0
  /\ sGone = {} /\ sRaced = {} /\ sWon = [a \in Accounts |-> {}]

Next ==
  \/ \E r \in Requests :
       \/ \E i \in Idents : Initiate(r, i) \/ Verify(r, i) \/ FederatedLogin(r, i)
       \/ SendCode(r) \/ VerifyCode(r) \/ ProviderAnswers(r) \/ FindAgain(r) \/ Insert(r)
       \/ Match(r) \/ Push(r) \/ FillShortcut(r) \/ Reload(r) \/ Session(r)
       \/ \E a \in Accounts, n \in Names : CreateUsername(r, a, n)
       \/ Available(r) \/ SetName(r) \/ Die(r)
  \/ \E a \in Accounts :
       \/ \E active \in BOOLEAN : SetStatus(a, active)
       \/ DeleteAccount(a)

Spec == Init /\ [][Next]_sVars

-----------------------------------------------------------------------------
(* Properties                                                                   *)
TypeOK ==
  /\ \A a \in Accounts :
       /\ sUsers[a].ident \in Idents \cup {None} /\ sUsers[a].methods \subseteq Idents
       /\ sUsers[a].name \in Names \cup {None, Tombstone(a)}
       /\ ~sUsers[a].there => sUsers[a] = NoUser
  /\ sCodes \subseteq Idents \X Purposes
  /\ sTemps \cup sIn \cup sGone \subseteq Accounts
  /\ \A r \in Requests : sReq[r].pc \in PCs /\ sReq[r].acc \in Accounts \cup {0}
  /\ sCalls \in 0 .. MaxSignCalls

Holds(a) == (sUsers[a].methods \cup {sUsers[a].ident}) \ {None}

\* Whoever signs in with an identifier, by a code or by a provider, at once or after a
\* ban, reaches one account: no two accounts hold the same identifier unless one of
\* them was deleted.
OneOwner ==
  \A a, b \in Accounts \ sGone : Holds(a) \cap Holds(b) # {} => a = b
\* A deletion sets the identifiers free, unless a sign-in had found the account before
\* and gives them back to it; then nobody can sign up with them.
FreedAtDeletion == \A a \in sGone \ sRaced : Holds(a) = {}
\* Of several requests that name one account one succeeds, and the name it was told
\* stays the account's, and its alone, until it is deleted.
NamedOnce ==
  \A a \in Accounts :
    /\ Cardinality(sWon[a]) <= 1
    /\ a \notin sGone => sWon[a] = {sUsers[a].name} \ {None}
    /\ \A b \in Accounts \ {a} : sUsers[a].name = sUsers[b].name => sUsers[a].name = None
\* No session without a username.
SignedInNamed == \A a \in sIn : sUsers[a].name # None

SignupsHold == OneOwner /\ FreedAtDeletion /\ NamedOnce /\ SignedInNamed
=============================================================================
