SPECIFICATION Spec
CONSTANTS
  Types = {t1, t2}
  MaxSockets = 5
  MaxQueue = 3
  MaxReloads = 1
  MaxAttempts = 2
  MaxEvents = 3
  None = None
CHECK_DEADLOCK FALSE
PROPERTY ReloadIsNotLost
