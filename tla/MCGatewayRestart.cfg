SPECIFICATION FairSpec
CONSTANTS
  session = session
  a1 = a1
  a2 = a2
  NoCmd = NoCmd
  Lanes = {session}
  Cmds = {a1, a2}
  LaneOf <- MCLaneOf
  Nested <- MCNested
  MaxLimit = 1
  MaxReset = 2
INVARIANTS TypeOK LoopSound
PROPERTIES StartsAlone GivesUpOnlyAfterWait ShutdownEnds QueuedWorkSurvives
CHECK_DEADLOCK FALSE
