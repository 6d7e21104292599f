SPECIFICATION FairSpec
CONSTANTS
  Count = 4
  IdOf <- MCIdOf
  RouteOf <- MCRouteOf
  Plans <- MCPlans
  Queues = {k1, k2, k3}
  None = None
  MaxTurns = 2
  MaxFails = 1
  MaxClears = 1
INVARIANTS TypeOK OnceInOrder TroubleHasCause
PROPERTY Settles
CHECK_DEADLOCK FALSE
