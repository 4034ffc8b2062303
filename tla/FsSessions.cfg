CONSTANTS
  None = None  Warmer = Warmer  Refresher = Refresher
  r1 = r1 r2 = r2
  Request = {r1, r2}
  PoolSize = 2
  Refreshing = TRUE
  FsFaults = TRUE
  Disconnects = TRUE
SPECIFICATION StrandingSpec
INVARIANTS TypeOK OneSolvePerLapse StrandedForCause
SYMMETRY Symmetry
