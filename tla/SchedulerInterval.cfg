SPECIFICATION Spec
CONSTANTS
  p1 = p1
  p2 = p2
  w1 = w1
  w2 = w2
  w3 = w3
  Procs = {p1, p2}
  Workers = {w1, w2, w3}
  Owner <- ThreeWorkers
  Jobs = {j1}
  None = None
  Interval = 3
  MinLock = 1
  Jitter = 1
  MaxMishaps = 0
PROPERTY
  OncePerInterval
