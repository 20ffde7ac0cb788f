SPECIFICATION BanSpec
CONSTANTS
  Users = {u1}
  Devices = {d1}
  Requests = {r1, r2}
  None = None
  AccessTTL = 1
  SessionTTL = 1
  MaxTime = 0
  MaxRefresh = 2
  Ops <- AllOps
  CrossDevice = FALSE
  RedisFaults = TRUE
PROPERTY
  BanEventuallyHolds
