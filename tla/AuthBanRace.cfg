SPECIFICATION RaceSpec
CONSTANTS
  Users = {u1}
  Devices = {d1, d2}
  Requests = {r1, r2, r3}
  None = None
  AccessTTL = 1
  SessionTTL = 1
  MaxTime = 0
  MaxRefresh = 2
  Ops <- AllOps
  CrossDevice = FALSE
  RedisFaults = FALSE
INVARIANT
  BanTakesEffect
SYMMETRY SameRequests
CHECK_DEADLOCK FALSE
