SPECIFICATION MCSpec
CONSTANTS
  Users = {u1}
  Devices = {d1}
  Requests = {r1, r2}
  None = None
  AccessTTL = 1
  SessionTTL = 2
  MaxTime = 1
  MaxRefresh = 3
  Ops <- AllOps
  CrossDevice = TRUE
  RedisFaults = TRUE
  Idents = {i1}
  Phones = {i1}
  Workers = {w1, w2}
  MaxAttempts = 2
  SendLimit = 1
  Budget = 2
  Lifetime = 2
  MaxCodeTime = 3
  MaxCodes = 2
  MaxGuesses = 2
  Names = {n1, n2}
  MaxAccounts = 2
  MaxSignCalls = 7
INVARIANTS
  TypeOK
  RefreshOnce
  KilledStayDead
  LogoutRevokes
  CodesHold
  SignupsHold
PROPERTIES
  LedgerSpec
  ObsoleteStaysDead
SYMMETRY Alike
CHECK_DEADLOCK FALSE
