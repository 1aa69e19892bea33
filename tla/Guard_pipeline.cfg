SPECIFICATION FairSpec
CONSTANTS
  a = a
  IPs = {a}
  Reqs = {q1, q2}
  Policies <- Mixed
  FirstPolicy <- Strict
  LicenseEnforced = TRUE
  TarpitMax = 1
  MaxReloads = 1
INVARIANTS ServedRightly RefusedRightly SlotsMatch CountedOnce
PROPERTIES AllAnswered
CHECK_DEADLOCK FALSE
