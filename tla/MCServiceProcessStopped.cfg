SPECIFICATION Spec
CONSTANTS
  r1 = r1
  r2 = r2
  s1 = s1
  None = None
  Runs = {r1, r2}
  Services = {s1}
  ServiceOf <- MCServiceOf
  MaxExited = 3
PROPERTY StoppedStaysStopped
CHECK_DEADLOCK FALSE
