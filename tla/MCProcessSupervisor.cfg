SPECIFICATION FairSpec
CONSTANTS
  r1 = r1
  r2 = r2
  s1 = s1
  None = None
  Runs = {r1, r2}
  Scopes = {s1}
  Replaces = {r1, r2}
  Pty = {r2}
  ScopeOf <- MCScopeOf
  Limits <- MCLimits
  MaxExited = 1
INVARIANTS RecordsBounded ActiveSound
PROPERTIES ExitedStays TimedRunEnds ImplementsRuns
CHECK_DEADLOCK FALSE
