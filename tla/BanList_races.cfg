SPECIFICATION Spec
CONSTANTS
  a = a
  NoCall = NoCall
  IPs = {a, b, c}
  Workers = {w1, w2}
  Params <- BothParams
  AllowSets <- NoAllow
  FixedDurations = {}
  FleetTTL = 2
  RecentCap = 2
  PersistPath = FALSE
  BanHorizon = 3
  MaxTime = 4
  MaxOffenses = 1
SYMMETRY Symmetry
PROPERTIES EvictsSoonest HistoryKept EarlyRelease ImplementsTable
VIEW WithoutHigh
