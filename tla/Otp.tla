---------------------------------- MODULE Otp ----------------------------------
(* One-time codes of the Pulse backend: CustomOTPService::sendEmailOTP,        *)
(* sendSMSOTP, verifyOTP and resendOTP, with the statics of models/otp.cc.     *)
(* A request is a worker that makes one access to Redis, MongoDB or the        *)
(* provider per action.                                                        *)
EXTENDS Naturals, FiniteSets

CONSTANTS
  Idents,        \* identifiers (one purpose each)
  Phones,        \* those reached by SMS; the others are e-mail addresses
  Workers,
  MaxAttempts,   \* guesses per code (maxAttempts)
  SendLimit,     \* sends per identifier and window (checkRateLimit)
  Budget,        \* text messages per day (SMS_GLOBAL_DAILY_MAX)
  Lifetime,      \* of a code
  MaxTime,       \* bound: the clock, in the milliseconds MongoDB dates carry
  MaxCodes       \* bound: codes ever created

OtpAssumption ==
  /\ Phones \subseteq Idents
  /\ MaxAttempts \in Nat /\ SendLimit \in Nat /\ Budget \in Nat
  /\ Lifetime \in Nat /\ MaxTime \in Nat \ {0} /\ MaxCodes \in Nat
  /\ IsFiniteSet(Workers)
  /\ 0 \notin Idents

VARIABLES
  now,
  codes,      \* collection otps
  created,    \* codes created so far; a code's number
  sent,       \* Redis otp_rate_limit:<type>:<identifier>
  budget,     \* Redis sms_budget:<day>
  inbox,      \* codes the user has received
  work,       \* what each worker is doing
  compared,   \* history: guesses compared with each code
  logins,     \* history: verifications each code brought to success
  obsolete,   \* history: codes completely sent before a later, completed send
  unseen      \* history: codes whose update retired others, with its reply lost

vars == <<now, codes, created, sent, budget, inbox, work,
          compared, logins, obsolete, unseen>>
hist == <<compared, logins, obsolete, unseen>>

CodeId == 1 .. MaxCodes
Time == 1 .. MaxTime
Never == 0                        \* deliveredAt: null
Code == [stored : BOOLEAN, of : Idents \cup {0}, attempts : 0 .. MaxAttempts,
         verified : BOOLEAN, deliveredAt : Time \cup {Never},
         superseded : BOOLEAN, expiresAt : 0 .. MaxTime + Lifetime]
NoCode == [stored |-> FALSE, of |-> 0, attempts |-> 0, verified |-> FALSE,
           deliveredAt |-> Never, superseded |-> FALSE, expiresAt |-> 0]

PCs == {"idle", "budget", "limit", "create", "provider", "activate", "supersede",
        "rollback", "reserve", "compare", "mark", "clear"}
\* of: the identifier; code: the code sent or reserved; guess: the code whose
\* digits the user typed (0: none of them); at: the provider's answer; before:
\* the codes completely sent when this send began.
Work == [pc : PCs, of : Idents \cup {0}, code : CodeId \cup {0},
         guess : CodeId \cup {0}, at : Time \cup {Never}, before : SUBSET CodeId]
Idle == [pc |-> "idle", of |-> 0, code |-> 0, guess |-> 0, at |-> Never, before |-> {}]

Init ==
  /\ now = 1
  /\ codes = [c \in CodeId |-> NoCode]
  /\ created = 0
  /\ sent = [i \in Idents |-> 0]
  /\ budget = 0
  /\ inbox = {}
  /\ work = [w \in Workers |-> Idle]
  /\ compared = [c \in CodeId |-> 0]
  /\ logins = [c \in CodeId |-> 0]
  /\ obsolete = {}
  /\ unseen = {}

At(w, pc) == work[w].pc = pc
Goto(w, pc) == work' = [work EXCEPT ![w].pc = pc]
End(w) == work' = [work EXCEPT ![w] = Idle]
\* A send that failed has its code left to delete.
Fail(w) == work' = [work EXCEPT ![w] = [Idle EXCEPT !.pc = "rollback", !.code = work[w].code]]

\* What the queries on codes of identifier i ask for.
Delivered(c) == codes[c].stored /\ codes[c].deliveredAt # Never
\* Mutant: the query does not ask for superseded.
EligibleOrSuperseded(c, i) ==
  /\ Delivered(c)
  /\ codes[c].of = i
  /\ ~codes[c].verified
  /\ codes[c].expiresAt > now
Eligible(c, i) ==
  /\ Delivered(c)
  /\ codes[c].of = i
  /\ ~codes[c].verified
  /\ ~codes[c].superseded
  /\ codes[c].expiresAt > now

\* Codes of i whose sends have come to their end: delivered, and no worker is
\* still activating them.
Complete(i) ==
  {c \in CodeId : /\ Delivered(c) /\ codes[c].of = i
                  /\ \A w \in Workers : work[w].code = c =>
                       work[w].pc \notin {"supersede", "rollback"}}

-----------------------------------------------------------------------------
(* Sending.                                                                    *)
\* A resend is one more send to an e-mail address; to a phone it is refused, for
\* AuthService::resendOTP passes on "phone" where "sms" is asked for.
BeginSend(w, i) ==
  /\ At(w, "idle")
  /\ created < MaxCodes
  /\ work' = [work EXCEPT ![w] = [Idle EXCEPT !.of = i, !.before = Complete(i),
       !.pc = IF i \in Phones THEN "budget" ELSE "limit"]]
  /\ UNCHANGED <<now, codes, created, sent, budget, inbox, hist>>

\* checkGlobalSmsBudget, then checkRateLimit: a counter is incremented first
\* and compared then; an unreachable Redis refuses the send.
CheckBudget(w) ==
  /\ At(w, "budget")
  /\ \/ /\ budget' = IF budget > Budget THEN budget ELSE budget + 1   \* bound
        /\ IF budget + 1 > Budget THEN End(w) ELSE Goto(w, "limit")
     \/ End(w) /\ UNCHANGED budget
  /\ UNCHANGED <<now, codes, created, sent, inbox, hist>>

CheckRateLimit(w) ==
  LET i == work[w].of IN
  /\ At(w, "limit")
  /\ \/ /\ sent' = [sent EXCEPT ![i] = IF @ > SendLimit THEN @ ELSE @ + 1]   \* bound
        /\ IF sent[i] + 1 > SendLimit THEN End(w) ELSE Goto(w, "create")
     \/ End(w) /\ UNCHANGED sent
  /\ UNCHANGED <<now, codes, created, budget, inbox, hist>>

\* Mutant: the code is stored with another message's lifetime.
CreateOtpLongLived(w) ==
  /\ At(w, "create")
  /\ created < MaxCodes
  /\ created' = created + 1
  /\ codes' = [codes EXCEPT ![created'] =
       [NoCode EXCEPT !.stored = TRUE, !.of = work[w].of,
                      !.expiresAt = now + MaxTime + Lifetime]]
  /\ work' = [work EXCEPT ![w] = [@ EXCEPT !.pc = "provider", !.code = created']]
  /\ UNCHANGED <<now, sent, budget, inbox, hist>>

\* createOtpDoc; a failing insert ends the send with nothing stored.
CreateOtp(w) ==
  /\ At(w, "create")
  /\ \/ /\ created < MaxCodes
        /\ created' = created + 1
        /\ codes' = [codes EXCEPT ![created'] =
             [NoCode EXCEPT !.stored = TRUE, !.of = work[w].of,
                            !.expiresAt = now + Lifetime]]
        /\ work' = [work EXCEPT ![w] = [@ EXCEPT !.pc = "provider", !.code = created']]
     \/ End(w) /\ UNCHANGED <<codes, created>>
  /\ UNCHANGED <<now, sent, budget, inbox, hist>>

\* sendBrevoEmail, sendTwilioSms: accepted; or refused; or accepted, with the
\* answer lost.  activateDeliveredOtp begins by reading the clock.
ProviderAnswers(w) ==
  /\ At(w, "provider")
  /\ \/ /\ inbox' = inbox \cup {work[w].code}
        /\ work' = [work EXCEPT ![w] = [@ EXCEPT !.pc = "activate", !.at = now]]
     \/ /\ inbox' \in {inbox, inbox \cup {work[w].code}}
        /\ Fail(w)
  /\ UNCHANGED <<now, codes, created, sent, budget, hist>>

\* The update of the code itself; it fails when the code is gone.  One that takes
\* effect with its reply lost ends like one whose Supersede does not take effect.
Activate(w) ==
  LET c == work[w].code
      found == codes[c].stored /\ ~codes[c].verified
      activated == [codes EXCEPT ![c] = [@ EXCEPT !.deliveredAt = work[w].at, !.superseded = FALSE]] IN
  /\ At(w, "activate")
  /\ \/ /\ found /\ codes' = activated
        /\ work' = [work EXCEPT ![w] = [@ EXCEPT !.pc = "supersede", !.at = Never]]
     \/ UNCHANGED codes /\ Fail(w)
  /\ UNCHANGED <<now, created, sent, budget, inbox, hist>>

\* Mutant: the code being activated is not excluded.
RetiresAll(c, d) ==
  /\ codes[d].of = codes[c].of
  /\ ~codes[d].verified
  /\ Delivered(d)
  /\ codes[d].deliveredAt <= codes[c].deliveredAt

\* The update_many that retires the identifier's other codes.
Retires(c, d) ==
  /\ d # c
  /\ codes[d].of = codes[c].of
  /\ ~codes[d].verified
  /\ Delivered(d)
  /\ codes[d].deliveredAt <= codes[c].deliveredAt

Superseding(c) ==
  [d \in CodeId |-> IF Retires(c, d) THEN [codes[d] EXCEPT !.superseded = TRUE] ELSE codes[d]]

\* It too may take effect with the reply lost: the send then deletes its own code.
Supersede(w) ==
  LET c == work[w].code IN
  /\ At(w, "supersede")
  /\ \/ /\ codes' = Superseding(c)
        /\ obsolete' = obsolete \cup work[w].before
        /\ End(w)
        /\ UNCHANGED unseen
     \/ /\ codes' = Superseding(c)
        /\ unseen' = IF codes' = codes THEN unseen ELSE unseen \cup {c}
        /\ Fail(w)
        /\ UNCHANGED obsolete
     \/ Fail(w) /\ UNCHANGED <<codes, obsolete, unseen>>
  /\ UNCHANGED <<now, created, sent, budget, inbox, compared, logins>>

\* deleteOtpBestEffort
Rollback(w) ==
  /\ At(w, "rollback")
  /\ \/ codes' = [codes EXCEPT ![work[w].code].stored = FALSE]
     \/ UNCHANGED codes
  /\ End(w)
  /\ UNCHANGED <<now, created, sent, budget, inbox, hist>>

-----------------------------------------------------------------------------
(* Verifying: the user types a code received, or something else.               *)
BeginVerify(w, i, guess) ==
  /\ At(w, "idle")
  /\ work' = [work EXCEPT ![w] = [Idle EXCEPT !.pc = "reserve", !.of = i, !.guess = guess]]
  /\ UNCHANGED <<now, codes, created, sent, budget, inbox, hist>>

\* reserveVerificationAttempt: one find_one_and_update takes the newest
\* eligible code with attempts left and counts the attempt.
\* Mutant: the limit is compared after the attempt was counted.
ReservableOneMore(i) == {c \in CodeId : Eligible(c, i) /\ codes[c].attempts <= MaxAttempts}
Reservable(i) == {c \in CodeId : Eligible(c, i) /\ codes[c].attempts < MaxAttempts}
Newest(S) == {c \in S : \A d \in S : codes[d].deliveredAt <= codes[c].deliveredAt}

Reserve(w) ==
  LET S == Reservable(work[w].of) IN
  /\ At(w, "reserve")
  /\ \/ \E c \in Newest(S) :
          /\ codes' = [codes EXCEPT ![c].attempts = @ + 1]
          /\ work' = [work EXCEPT ![w] = [@ EXCEPT !.pc = "compare", !.code = c]]
     \/ S = {} /\ End(w) /\ UNCHANGED codes
  /\ UNCHANGED <<now, created, sent, budget, inbox, hist>>

\* The expiry test and the bcrypt comparison, on the record reserved.
Compare(w) ==
  LET c == work[w].code IN
  /\ At(w, "compare")
  /\ compared' = [compared EXCEPT ![c] = @ + 1]
  /\ IF codes[c].expiresAt >= now /\ work[w].guess = c
     THEN Goto(w, "mark") ELSE End(w)
  /\ UNCHANGED <<now, codes, created, sent, budget, inbox, logins, obsolete, unseen>>

\* Mutant: the result of the update is not looked at.
MarkAsVerifiedAnyway(w) ==
  LET c == work[w].code IN
  /\ At(w, "mark")
  /\ codes' = [codes EXCEPT ![c].verified = TRUE]
  /\ logins' = [logins EXCEPT ![c] = @ + 1]
  /\ Goto(w, "clear")
  /\ UNCHANGED <<now, created, sent, budget, inbox, compared, obsolete, unseen>>

\* markAsVerified: only the update that changes the record counts.
MarkAsVerified(w) ==
  LET c == work[w].code IN
  /\ At(w, "mark")
  /\ IF Eligible(c, work[w].of)
     THEN /\ codes' = [codes EXCEPT ![c].verified = TRUE]
          /\ logins' = [logins EXCEPT ![c] = @ + 1]
          /\ Goto(w, "clear")
     ELSE End(w) /\ UNCHANGED <<codes, logins>>
  /\ UNCHANGED <<now, created, sent, budget, inbox, compared, obsolete, unseen>>

\* The send limit starts afresh (best effort).
ClearLimit(w) ==
  /\ At(w, "clear")
  /\ sent' \in {[sent EXCEPT ![work[w].of] = 0], sent}
  /\ End(w)
  /\ UNCHANGED <<now, codes, created, budget, inbox, hist>>

-----------------------------------------------------------------------------
Tick ==
  /\ now < MaxTime
  /\ now' = now + 1
  /\ UNCHANGED <<codes, created, sent, budget, inbox, work, hist>>

\* The TTL index on expiresAt.
Purge(c) ==
  /\ codes[c].stored
  /\ codes[c].expiresAt <= now
  /\ codes' = [codes EXCEPT ![c].stored = FALSE]
  /\ UNCHANGED <<now, created, sent, budget, inbox, work, hist>>

WindowEnds(i) ==
  /\ sent[i] > 0
  /\ sent' = [sent EXCEPT ![i] = 0]
  /\ UNCHANGED <<now, codes, created, budget, inbox, work, hist>>

Next ==
  \/ \E w \in Workers, i \in Idents : BeginSend(w, i)
  \/ \E w \in Workers, i \in Idents, g \in inbox \cup {0} : BeginVerify(w, i, g)
  \/ \E w \in Workers :
       \/ CheckBudget(w) \/ CheckRateLimit(w) \/ CreateOtp(w) \/ ProviderAnswers(w)
       \/ Activate(w) \/ Supersede(w) \/ Rollback(w)
       \/ Reserve(w) \/ Compare(w) \/ MarkAsVerified(w) \/ ClearLimit(w)
  \/ Tick
  \/ \E c \in CodeId : Purge(c)
  \/ \E i \in Idents : WindowEnds(i)

Spec == Init /\ [][Next]_vars

-----------------------------------------------------------------------------
(* Properties                                                                  *)

\* Every variable stays in its range; in particular no code lives longer than
\* otpExpiry after it was stored (createOtpDoc), nor counts more attempts than
\* it has.
TypeOK ==
  /\ now \in Time
  /\ codes \in [CodeId -> Code]
  /\ created \in 0 .. MaxCodes
  /\ sent \in [Idents -> 0 .. SendLimit + 1]
  /\ budget \in 0 .. Budget + 1
  /\ inbox \subseteq CodeId
  /\ work \in [Workers -> Work]
  /\ compared \in [CodeId -> Nat]
  /\ logins \in [CodeId -> Nat]
  /\ obsolete \subseteq CodeId
  /\ unseen \subseteq CodeId

\* However many guesses run at the same time, no more than maxAttempts of them
\* are ever compared with one code (verifyOTP: "concurrent guesses ... exceed
\* the per-code attempt limit").
GuessesBounded == \A c \in CodeId : compared[c] <= MaxAttempts

\* Concurrent verifications with the same code let one of them in.
OneLoginPerCode == \A c \in CodeId : logins[c] <= 1

\* Two codes of an identifier whose provider answered in one millisecond.
Tied(c, d) ==
  /\ c # d
  /\ codes[c].of = codes[d].of
  /\ codes[c].deliveredAt = codes[d].deliveredAt

\* A code is retired by one that was delivered no earlier and stays usable itself, so
\* that no failed or concurrent send leaves the user without a code, in two cases
\* excepted: two sends whose answers came in one millisecond retire each other, and
\* a send that retired the others and did not hear of it deletes its own code
\* (custom_otp_service.cc:127 says "This lets a failed or concurrent send leave the
\* previous code usable").
NewestUsable ==
  \A c \in CodeId :
    Delivered(c) /\ codes[c].superseded =>
      \E d \in CodeId : /\ codes[d].of = codes[c].of
                        /\ codes[d].deliveredAt >= codes[c].deliveredAt
                        /\ \/ ~codes[d].superseded /\ (Delivered(d) \/ codes[d].expiresAt <= now)
                           \/ d \in unseen
                           \/ \E e \in CodeId : Tied(d, e)

\* Once a send has completed, no code that was completely sent before it began
\* lets anybody in.
ObsoleteStaysDead ==
  [][\A c \in obsolete : logins'[c] = logins[c]]_vars

\* Of two codes delivered in one millisecond one stays usable until a later one
\* retires it (custom_otp_service.cc:165, "`$lte` also gives a deterministic winner
\* when two provider responses land in one millisecond").
TieHasWinner ==
  \A c, d \in CodeId :
    Tied(c, d) /\ Delivered(c) /\ Delivered(d) /\ codes[c].superseded /\ codes[d].superseded =>
      \E e \in CodeId : /\ codes[e].of = codes[c].of
                        /\ codes[e].deliveredAt > codes[c].deliveredAt
=============================================================================
