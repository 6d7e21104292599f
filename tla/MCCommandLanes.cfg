SPECIFICATION Spec
CONSTANTS
  main = main
  session = session
  a1 = a1
  a2 = a2
  am1 = am1
  m1 = m1
  m2 = m2
  NoCmd = NoCmd
  Lanes = {main, session}
  Cmds = {a1, am1, m1, m2}
  LaneOf <- MCLaneOf
  Nested <- MCNested
  MaxLimit = 2
  MaxReset = 1
INVARIANTS Bookkeeping NoStall DrainedMeansFinished FifoOrder
