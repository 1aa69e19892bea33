SPECIFICATION Spec
CONSTANTS
  Agents = {a, b}
  IPs = {x, y}
  Docs = {}
  Uncompilable = {}
  FleetMax = 1
  SaveMayFail = TRUE
  MaxBans = 2
  MaxPushes = 0
  MaxCrashes = 1
  MaxRestarts = 0
  MaxFails = 0
  MaxLate = 0
SYMMETRY Symmetry
VIEW BlocklistView
INVARIANTS BlocklistSound NoEchoLoop
