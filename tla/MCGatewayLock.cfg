SPECIFICATION FairLockSpec
CONSTANTS
  p1 = p1
  p2 = p2
  p3 = p3
  Nobody = Nobody
  Procs = {p1, p2, p3}
  ProbePort = TRUE
  ReadsProc = TRUE
INVARIANTS FileSound
PROPERTIES StealNeedsCause CrashedOwnerIsRemoved
CHECK_DEADLOCK FALSE
