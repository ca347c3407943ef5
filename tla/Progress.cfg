SPECIFICATION FairSpec
CONSTANTS
  Updates = 3
  Interval = 2
  Minute = 3
  MaxClock = 5
INVARIANTS
  TypeOK
  PrintsWholeUpdates
  RateIsRecent
PROPERTIES
  ThreePerInterval
  ExecutorFinishes
