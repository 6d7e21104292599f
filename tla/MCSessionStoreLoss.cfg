SPECIFICATION Spec
CONSTANTS
  gw = gw
  cli = cli
  u1 = u1
  u2 = u2
  r1 = r1
  b1 = b1
  Base = Base
  None = None
  Dead = Dead
  Procs = {gw, cli}
  Calls = {u1, u2}
  Home <- HomeMC
  Kind <- KindMC
  RotateAbove = 1
  StartTimes = TRUE
  MaxTries = 3
  MaxAges = 0
  MaxEnds = 0
  Handlers = {gw}
INVARIANTS NoDataLoss
