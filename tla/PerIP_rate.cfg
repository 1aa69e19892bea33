SPECIFICATION Spec
CONSTANTS
  Keys = {k1, k2, k3}
  Watched = k1
  Callers = {c1, c2}
  NoCall = NoCall
  Rate = 1
  Burst = 4
  Cost = 2
  MaxKeys = 2
  Idle = 1
  Horizon = 4
  MaxTime = 4
INVARIANTS RateBound
PROPERTIES ActiveKept
