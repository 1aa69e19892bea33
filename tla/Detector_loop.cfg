SPECIFICATION FairSpec
CONSTANTS
  ExitTicks = 3
  MaxFaults = 4
INVARIANTS BeliefHolds GaugeTrue
PROPERTIES HysteresisKept FloodRaised
