------------------------------- MODULE Community -------------------------------
(* What the small components of the community share: whispers, pulse drops,    *)
(* referrals and the follow graph.  Each of their modules has variables of its *)
(* own; CommunityMC chooses one of them at the start of a behaviour.           *)
EXTENDS Naturals, FiniteSets

CONSTANTS
  Users,      \* accounts
  Requests,   \* the workers of all processes that run a handler
  None

ASSUME CommunityAssumption == None \notin Users \cup {"up", "down"}
ASSUME AccountsFinite == IsFiniteSet(Users)
=============================================================================
