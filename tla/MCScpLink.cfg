SPECIFICATION FairSpec
CONSTANTS
  a = a
  b = b
  AgentCalls = {a}
  ServiceCalls = {b}
  None = None
  MaxRetries = 1
  SocketCount = 3
  MaxDrops = 1
  MaxOrders = 2
  MaxCalls = 1
INVARIANTS TypeOK OneLink
PROPERTIES LinkReturns ImplementsCalls
CHECK_DEADLOCK FALSE
