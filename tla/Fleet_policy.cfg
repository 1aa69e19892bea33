SPECIFICATION FairSpec
CONSTANTS
  Agents = {a}
  IPs = {x}
  Docs = {"d1", "bad"}
  Uncompilable = {"bad"}
  FleetMax = 0
  SaveMayFail = TRUE
  MaxBans = 0
  MaxPushes = 2
  MaxCrashes = 1
  MaxRestarts = 1
  MaxFails = 1
  MaxLate = 1
INVARIANTS PolicyVersionNames FailClosed
PROPERTIES RevokedStops PolicyArrives
