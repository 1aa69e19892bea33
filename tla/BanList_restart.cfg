SPECIFICATION FairSpec
CONSTANTS
  a = a
  NoCall = NoCall
  IPs = {a, b}
  Workers = {w1}
  Params <- BriefParams
  AllowSets <- AllowA
  FixedDurations = {1}
  FleetTTL = 1
  RecentCap = 2
  PersistPath = TRUE
  BanHorizon = 2
  MaxTime = 4
  MaxOffenses = 1
INVARIANTS NoPhantomBan
PROPERTIES GrowthUnderCap AutoUnban
