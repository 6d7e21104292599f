SPECIFICATION Spec
CONSTANTS
  JobCount = 2
  KindOf <- MCKindOf
  AtTime = 0
  StuckAfter = 0
  MaxMissed = 1
  MaxAttempts = 1
  None = None
  MaxTime = 1
  RunCount = 2
  MaxServices = 2
  MaxTroubles = 1
INVARIANTS TypeOK RunsAllowed TimerStays
PROPERTY OneShotOnce
CHECK_DEADLOCK FALSE
