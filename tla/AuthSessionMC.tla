----------------------------- MODULE AuthSessionMC -----------------------------
(* Instances of AuthSession for TLC.  A run that asks two questions explores   *)
(* two parts of the system, a profile each: the operations it starts and the   *)
(* number of refresh tokens it may mint.                                       *)
EXTENDS AuthSession, TLC

VARIABLE profile

\* How sessions and refresh tokens live and die.
Tokens == [ops |-> {"login", "refresh", "ban"}, refreshes |-> 2]

\* A token that is rotated again.
Rotations == [ops |-> {"login", "refresh"}, refreshes |-> 3]

\* Who the access-token check lets in after a logout.
Logouts == [ops |-> {"login", "logout"}, refreshes |-> 2]

\* A password change against what else the user's devices do.
Passwords == [ops |-> {"login", "refresh", "password"}, refreshes |-> 2]

\* Bans and deletions against the requests of the user they end.
Bans == [ops |-> {"login", "adminLogin", "serve", "delete", "ban", "unban"}, refreshes |-> 2]

\* What the race of a ban with a login and a cache fill takes.
Race == [ops |-> {"login", "serve", "ban"}, refreshes |-> 2]

AllOps == UNION {p.ops : p \in {Tokens, Rotations, Logouts, Passwords, Bans, Race}}

Restricted ==
  /\ Next
  /\ \A r \in Requests : req'[r].op \in profile.ops \cup {"idle"}
  /\ minted' <= profile.refreshes
  /\ UNCHANGED profile

BanInit == Init /\ profile = Bans
BanSpec == BanInit /\ [][Restricted]_<<vars, profile>> /\ Fairness

RaceInit == Init /\ profile = Race
RaceSpec == RaceInit /\ [][Restricted]_<<vars, profile>>

\* The handlers are alike.
SameRequests == Permutations(Requests)
=============================================================================
