SPECIFICATION Spec
CONSTANTS
  session = session
  a1 = a1
  a2 = a2
  NoCmd = NoCmd
  Lanes = {session}
  Cmds = {a1, a2}
  LaneOf <- MCLaneOf
  Nested <- MCNested
  MaxLimit = 1
  MaxReset = 2
INVARIANT OneRunPerSession
CHECK_DEADLOCK FALSE
