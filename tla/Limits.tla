--------------------------------- MODULE Limits ---------------------------------
(* How often a client may ask: the fixed windows of filters/rate_limit_filters.cc,  *)
(* counted in Redis under the client's address, and the token buckets of             *)
(* sockets/socket_rate_limit.cc, one per socket and category, filled by the wall     *)
(* clock, which may be set.  Redis may be out of reach: a request passes then.       *)
EXTENDS Integers, Sequences, FiniteSets, FiniteSetsExt

CONSTANTS
  Clients,       \* addresses of clients
  Proxy,         \* the address of the proxy in front of the server
  Unsafe,        \* what is no address (isSafeIpText)
  Hops,          \* TRUST_PROXY_HOPS; the proxy appends the address it was asked from
  Window,        \* ticks of a window
  WindowMax,     \* requests a window lets in
  Rate, Burst,   \* of a bucket, tokens per tick and tokens
  WarnEvery,     \* refusals to a rate_limited notice
  MaxAsked,      \* bound: requests and events
  MaxClock       \* bound: the wall clock

LimitsAssumption ==
  /\ Window \in Nat \ {0} /\ WindowMax \in Nat \ {0} /\ Hops \in Nat \ {0}
  /\ Rate \in Nat /\ Burst \in Nat \ {0} /\ WarnEvery \in Nat \ {0}
  /\ MaxAsked \in Nat /\ MaxClock \in Nat

VARIABLES
  lWin,       \* Redis: the counter of each address and the ticks it has left
  lBucket,    \* a socket's bucket of one category
  lClock,     \* the wall clock
  lAsked,     \* requests and events
  lPassed,    \* history: requests let in by a count, with their ages
  lTook,      \* history: events let through, with the bucket's time then
  lOdd        \* history: addresses counted for another, and refusals without cause

lVars == <<lWin, lBucket, lClock, lAsked, lPassed, lTook, lOdd>>

Addresses == Clients \cup {Proxy}
NoWindow == [n |-> 0, left |-> 0]

\* clientIp: the address Hops from the end of the header, which the proxies wrote;
\* the peer, when something in it is no address.
ClientIp(chain) ==
  IF \E i \in DOMAIN chain : chain[i] = Unsafe THEN Proxy
  ELSE IF Len(chain) < Hops THEN Proxy ELSE chain[Len(chain) - Hops + 1]

\* incrementRateLimit: one script counts, and the first sets the expiry.
Counted(win) == [n |-> win.n + 1, left |-> IF win.n = 0 THEN Window ELSE win.left]

\* rateLimited, for a client who writes a header of his own.
Request(c, forged) ==
  LET ip == ClientIp(forged \o <<c>> \o [i \in 1 .. Hops - 1 |-> Proxy])
      win == Counted(lWin[ip]) IN
  /\ lAsked < MaxAsked /\ lAsked' = lAsked + 1
  /\ lWin' = [lWin EXCEPT ![ip] = win]
  /\ IF win.n > WindowMax
     THEN /\ UNCHANGED lPassed
          /\ lOdd' = IF Cardinality({p \in lPassed : p.ip = ip /\ p.age < Window}) < WindowMax
                     THEN lOdd \cup {"refused"} ELSE lOdd
     ELSE /\ lPassed' = lPassed \cup {[ip |-> ip, nr |-> lAsked, age |-> 0]}
          /\ lOdd' = IF ip \notin {c, Proxy} THEN lOdd \cup {"counted"} ELSE lOdd
  /\ UNCHANGED <<lBucket, lClock, lTook>>
\* passOnStoreError.
PassesUncounted ==
  /\ lAsked < MaxAsked /\ lAsked' = lAsked + 1
  /\ UNCHANGED <<lWin, lBucket, lClock, lPassed, lTook, lOdd>>

\* Mutant: the bucket's time is always the clock.
RefilledByAnyClock(b) ==
  [b EXCEPT !.tokens = Min({Burst, @ + Max({0, lClock - b.at}) * Rate}), !.at = lClock]
\* tryRemove: a clock that was set back fills nothing until it has caught up.
Refilled(b) ==
  IF lClock > b.at
  THEN [b EXCEPT !.tokens = Min({Burst, @ + (lClock - b.at) * Rate}), !.at = lClock]
  ELSE b
\* RealtimeLimiter::allow, and SocketLimiter::guard alike: the first event of a category
\* makes its bucket.
Event ==
  LET made == IF lBucket.made THEN lBucket
              ELSE [lBucket EXCEPT !.made = TRUE, !.tokens = Burst, !.at = lClock]
      b == Refilled(made) IN
  /\ lAsked < MaxAsked /\ lAsked' = lAsked + 1
  /\ IF b.tokens >= 1
     THEN /\ lBucket' = [b EXCEPT !.tokens = @ - 1]
          /\ lTook' = lTook \cup {[nr |-> lAsked, at |-> b.at]}
     ELSE /\ lBucket' = [b EXCEPT !.refused = @ + 1,
                                  !.told = IF b.refused % WarnEvery = 0 THEN @ + 1 ELSE @]
          /\ UNCHANGED lTook
  /\ UNCHANGED <<lWin, lClock, lPassed, lOdd>>

\* A tick of the clock by which Redis lets keys expire; the wall clock goes with it.
Tick ==
  /\ lClock < MaxClock /\ lClock' = lClock + 1
  /\ lWin' = [a \in Addresses |-> IF lWin[a].left <= 1 THEN NoWindow
                                  ELSE [lWin[a] EXCEPT !.left = @ - 1]]
  /\ lPassed' = {[p EXCEPT !.age = Min({Window, @ + 1})] : p \in lPassed}
  /\ UNCHANGED <<lBucket, lAsked, lTook, lOdd>>
\* The wall clock is set back.
SetClock ==
  /\ lClock > 0 /\ lClock' = lClock - 1
  /\ UNCHANGED <<lWin, lBucket, lAsked, lPassed, lTook, lOdd>>

Init ==
  /\ lWin = [a \in Addresses |-> NoWindow]
  /\ lBucket = [made |-> FALSE, tokens |-> 0, at |-> 0, refused |-> 0, told |-> 0]
  /\ lClock = 0 /\ lAsked = 0 /\ lPassed = {} /\ lTook = {} /\ lOdd = {}

\* The windows and the buckets share nothing.
Limited ==
  \/ \E c \in Clients, forged \in {<<>>, <<Unsafe>>} \cup {<<a>> : a \in Clients} : Request(c, forged)
  \/ PassesUncounted
  \/ Tick
Events == Event \/ Tick \/ SetClock
Next == Limited \/ Events

Spec == Init /\ [][Next]_lVars

-----------------------------------------------------------------------------
(* Properties                                                                       *)
TypeOK ==
  /\ \A a \in Addresses : lWin[a].left \in 0 .. Window /\ lWin[a].n \in 0 .. MaxAsked
  /\ lBucket.tokens \in 0 .. Burst /\ lBucket.at \in 0 .. MaxClock
  /\ lClock \in 0 .. MaxClock /\ lAsked \in 0 .. MaxAsked
  /\ lOdd \subseteq {"refused", "counted"}

\* No stretch as long as a window lets in more than two windows' worth; a client is
\* refused only after a window's worth was let in, and nobody's requests count for
\* another client, whatever header they carry; and since any event a bucket let
\* through no more than Burst and what its time since then was worth, however the
\* clock was set; one notice tells of WarnEvery refusals.
LimitsHold ==
  /\ \A a \in Addresses : Cardinality({p \in lPassed : p.ip = a /\ p.age < Window}) <= 2 * WindowMax
  /\ lOdd = {}
  /\ \A e \in lTook : Cardinality({f \in lTook : f.nr >= e.nr}) <= Burst + Rate * (lBucket.at - e.at)
  /\ (lBucket.told - 1) * WarnEvery < lBucket.refused
=============================================================================
