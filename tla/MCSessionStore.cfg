SPECIFICATION Spec
CONSTANTS
  gw = gw
  cli = cli
  u1 = u1
  u2 = u2
  r1 = r1
  b1 = b1
  Base = Base
  None = None
  Dead = Dead
  Procs = {gw, cli}
  Calls = {u2, r1, b1}
  Home <- HomeMC
  Kind <- KindMC
  RotateAbove = 1
  StartTimes = TRUE
  MaxTries = 3
  MaxAges = 1
  MaxEnds = 1
  Handlers = {gw}
INVARIANTS StoreSound
PROPERTIES DropsHaveCause
