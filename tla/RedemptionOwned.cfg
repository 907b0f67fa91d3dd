SPECIFICATION Spec
CONSTANTS
  Redemptions = {r1}
  Procs = {p1, p2}
  None = None
  FulfilAttempts = 2
  MaxFailures = 1
  MaxCrashes = 0
  MaxToggles = 0
  Toggles = {}
CHECK_DEADLOCK FALSE
INVARIANT PendingRowIsOwned
