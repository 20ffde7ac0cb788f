SPECIFICATION Spec
CONSTANTS
  Idents = {i1}
  Phones = {i1}
  Workers = {w1, w2}
  MaxAttempts = 1
  SendLimit = 2
  Budget = 2
  Lifetime = 2
  MaxTime = 2
  MaxCodes = 2
INVARIANTS
  TieHasWinner
SYMMETRY WorkerSymmetry
