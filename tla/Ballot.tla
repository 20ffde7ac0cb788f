--------------------------------- MODULE Ballot ---------------------------------
(* What voting on a whisper promises.  Every vote takes effect at once and as  *)
(* a whole: the first one counts, the same one again takes it back, the other  *)
(* one replaces it; the tallies are those of the votes; a closed ballot is     *)
(* never voted on again.                                                       *)
EXTENDS Naturals, FiniteSets

CONSTANTS Users, Choices, None
VARIABLES votes, tally, open

ballot == <<votes, tally, open>>

Cast(v, u, choice) == [v EXCEPT ![u] = IF @ = choice THEN None ELSE choice]
Tally(v) == [choice \in Choices |-> Cardinality({u \in Users : v[u] = choice})]

Init ==
  /\ votes = [u \in Users |-> None]
  /\ tally = Tally(votes)
  /\ open = TRUE

Vote(u, choice) ==
  /\ open
  /\ votes' = Cast(votes, u, choice)
  /\ tally' = Tally(votes')
  /\ UNCHANGED open

Close ==
  /\ open
  /\ open' = FALSE
  /\ UNCHANGED <<votes, tally>>

Next ==
  \/ \E u \in Users, choice \in Choices : Vote(u, choice)
  \/ Close

Spec == Init /\ [][Next]_ballot
=============================================================================
