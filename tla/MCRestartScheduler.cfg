CONSTANTS
  Delays <- MCDelays
  Cooldown = 2
  MaxWait = 2
  MaxPolls = 3
  None = None
SPECIFICATION FairSchedulerSpec
INVARIANTS RequestsSound
PROPERTIES StepsSound AskedIsEmitted
