SPECIFICATION MCSpec
CONSTANTS
  Users = {c, u, v}
  Creator = c
  Other = u
  Requests = {r1, r2}
  Messages = {m1}
  MaxMembers = 3
  MaxCalls = 3
  None = None
  Sockets <- SocketsMC
  Processes <- ProcessesMC
  Owner <- OwnerMC
  Host <- HostMC
  MaxEvents = 3
  CallIds = {k1}
  Events = {"incoming", "ended"}
  MaxChanges = 2
  MaxSignals = 3
  Recipient = u
  Senders = {u, v}
  Kinds = {"like", "follow"}
  Makers = {w1, w2}
  MaxNotices = 3
  Owners = {u, v}
  Tokens = {t1, t2}
  Devices = {d1, d2}
  Workers = {w1, w2}
  MaxDevices = 1
  MaxPushes = 3
  Maker = c
  Fans = {u, v}
  MaxViewers = 1
  MaxSnaps = 4
  Talks = {k1, k2, k3}
  TalkOne = k1
  TalkTwo = k2
  Groups = {m2}
  Texts = {m1, m2, m3}
  TextOne = m1
  TextTwo = m2
  PageSize = 1
  MaxTalk = 2
INVARIANTS
  AllTypesOK
  RolesHold
  ExactlyOnce
  RecipientsHonest
  DirectHolds
PROPERTIES
  RightsNow
  OnlyPartiesJoin
CHECK_DEADLOCK FALSE
