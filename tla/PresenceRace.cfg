SPECIFICATION Spec
CONSTANTS
  Conns = {c1, c2}
  Procs = {p1}
  Hubs <- AllHubs
  Cap = 2
  PresenceTTL = 2
  CountTTL = 2
  MaxMishaps = 0
INVARIANT
  ShownOnline
