SPECIFICATION MCSpec
CONSTANTS
  Users = {u1, u2}
  Requests = {r1, r2}
  None = None
  MaxTries = 2
  HideAt = 2
  MaxVotes = 2
  MaxPosts = 2
  MaxCalls = 3
  Codes = {c1, c2}
  PostIds = {p1}
  MaxChanges = 2
  Clients = {a, b}
  Proxy = q
  Unsafe = u
  Hops = 1
  Window = 2
  WindowMax = 1
  Rate = 1
  Burst = 1
  WarnEvery = 2
  MaxAsked = 4
  MaxClock = 3
INVARIANTS
  AllTypesOK
  HiddenWhenReported
  DropsSettle
  ReferralsSettle
  LimitsHold
PROPERTIES
  BallotSpec
  DriftHeals
CHECK_DEADLOCK FALSE
