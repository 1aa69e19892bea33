SPECIFICATION ChallengeFairSpec
CONSTANTS
  Callers = {c1, c2}
  Browsers = {c1}
  Admins = {k1}
  Idle = Idle
  Rate = 1
  Burst = 1
  Cost = 1
  Horizon = 3
  MaxTime = 4
  Configs <- HardAndMild
  Pressure = 1
  NonBrowser = FALSE
  FixedSecret = FALSE
  Second = 2
  MaxChanges = 1
INVARIANTS CeilingHolds
PROPERTIES HardnessCatchesUp ClearanceHonoured SolverGetsThrough
