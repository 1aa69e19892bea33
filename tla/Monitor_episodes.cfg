SPECIFICATION MonitorSpec
CONSTANTS
  CapN = 2
  EventCap = 1
  AttackBlocked = 2
  CloseTicks = 2
  Quota <- SmallQuota
  MaxTicks = 7
INVARIANTS EventsAreEpisodes NothingLost
CHECK_DEADLOCK FALSE
