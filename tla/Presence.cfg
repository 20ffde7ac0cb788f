SPECIFICATION FairSpec
CONSTANTS
  Conns = {c1, c2}
  Procs = {p1}
  Hubs <- AllHubs
  Cap = 1
  PresenceTTL = 2
  CountTTL = 2
  MaxMishaps = 1
INVARIANTS
  CountsBounded
  SerialExact
PROPERTIES
  GhostsFade
  ShownAgain
