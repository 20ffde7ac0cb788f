----------------------------- MODULE SessionLedger -----------------------------
(* What the session store promises about refresh tokens, without handlers,     *)
(* clocks or caches.  A login opens a chain; the chain's last token, and only  *)
(* that one, can be redeemed, once, for the next; a chain that is closed is    *)
(* never open again.                                                           *)
CONSTANT Tokens

VARIABLES
  open,     \* the open chains: the token each began with and its last one
  issued,   \* tokens handed to clients
  spent     \* tokens redeemed

ledger == <<open, issued, spent>>

Init == open = {} /\ issued = {} /\ spent = {}

Open(x) ==
  /\ x \notin issued
  /\ open' = open \cup {[first |-> x, last |-> x]}
  /\ issued' = issued \cup {x}
  /\ UNCHANGED spent

Redeem(c, x) ==
  /\ c \in open
  /\ c.last \in issued \ spent
  /\ x \notin issued
  /\ open' = (open \ {c}) \cup {[c EXCEPT !.last = x]}
  /\ issued' = issued \cup {x}
  /\ spent' = spent \cup {c.last}

Close ==
  /\ open' \subseteq open
  /\ UNCHANGED <<issued, spent>>

Next ==
  \/ \E x \in Tokens : Open(x)
  \/ \E c \in open, x \in Tokens : Redeem(c, x)
  \/ Close

Spec == Init /\ [][Next]_ledger
=============================================================================
