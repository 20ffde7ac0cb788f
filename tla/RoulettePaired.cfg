SPECIFICATION FairSpec
CONSTANTS
  Users = {u1, u2}
  Requests = {r1, r2}
  None = None
  MaxSessions = 2
  MaxDecisions = 2
PROPERTY
  WaitingPaired
