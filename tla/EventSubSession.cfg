SPECIFICATION FairSpec
CONSTANTS
  Types = {t1, t2}
  MaxSockets = 5
  MaxQueue = 3
  MaxReloads = 1
  MaxAttempts = 2
  MaxEvents = 3
  None = None
INVARIANT TypeOK
INVARIANT OneLink
PROPERTY SelfStopIsJustified
PROPERTY EventuallySubscribed
CHECK_DEADLOCK FALSE
