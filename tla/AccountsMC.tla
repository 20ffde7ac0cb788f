------------------------------- MODULE AccountsMC -------------------------------
(* How accounts are made and entered, for TLC: the sessions of AuthSessionMC, the *)
(* one-time codes and the signup.  They share nothing here, so a behaviour is one *)
(* of a single component, chosen at its start: the state spaces add up and do not *)
(* multiply.                                                                      *)
EXTENDS AuthSessionMC

LOCAL INSTANCE Functions

CONSTANTS Idents, Phones, Workers, MaxAttempts, SendLimit, Budget, Lifetime, MaxCodeTime,
          MaxCodes,
          MaxGuesses,   \* bound: guesses compared, of all codes, once there are MaxCodes
          Names, MaxAccounts, MaxSignCalls

VARIABLES part, codeNow, codes, created, sent, budget, inbox, work, compared, logins,
          obsolete, unseen,
          sUsers, sCodes, sTemps, sReq, sCalls, sIn, sGone, sRaced, sWon

O == INSTANCE Otp WITH now <- codeNow, MaxTime <- MaxCodeTime

N == INSTANCE Signup WITH Requests <- Workers

ASSUME CodeBounds == O!OtpAssumption
ASSUME SignupBounds == N!SignupAssumption

ofSessions == <<vars, profile>>
ofCodes == <<codeNow, codes, created, sent, budget, inbox, work, compared, logins, obsolete,
             unseen>>
ofSignup == <<sUsers, sCodes, sTemps, sReq, sCalls, sIn, sGone, sRaced, sWon>>

\* Where all the codes are there, they have MaxGuesses between them; and the clock goes
\* with the first code, since what comes before has no time.
RestrictedCodes ==
  /\ O!Next
  /\ created' = MaxCodes => SumFunction(compared') <= MaxGuesses
  /\ created' = 0 => codeNow' = 1

MCInit ==
  /\ part \in {"sessions", "codes", "signup"}
  /\ Init /\ O!Init /\ N!Init
  /\ IF part = "sessions" THEN profile \in {Tokens, Rotations, Logouts, Passwords} ELSE profile = Tokens

MCNext ==
  /\ \/ part = "sessions" /\ Restricted /\ UNCHANGED <<ofCodes, ofSignup>>
     \/ part = "codes" /\ RestrictedCodes /\ UNCHANGED <<ofSessions, ofSignup>>
     \/ part = "signup" /\ N!Next /\ UNCHANGED <<ofSessions, ofCodes>>
  /\ UNCHANGED part

MCSpec == MCInit /\ [][MCNext]_<<part, ofSessions, ofCodes, ofSignup>>

\* The handlers of each component are alike.
Alike == Permutations(Requests) \cup Permutations(Workers)

-----------------------------------------------------------------------------
(* The properties of the codes and of the signup, stated in their modules.      *)

\* The codes stay in their ranges; no more guesses are compared with a code than it
\* has attempts, however many run at the same time; a code lets one verification in;
\* and the code delivered last is not retired, but in a tie of two or by an update
\* whose reply was lost (Otp).
CodesHold == O!TypeOK /\ O!GuessesBounded /\ O!OneLoginPerCode /\ O!NewestUsable

\* One account of an identifier and one name of an account, however many sign up at
\* once; and a deletion frees both unless a sign-in was on its way (Signup).
SignupsHold == N!TypeOK /\ N!SignupsHold

\* A code sent before a later, completed send lets nobody in (Otp).
ObsoleteStaysDead == O!ObsoleteStaysDead
=============================================================================
