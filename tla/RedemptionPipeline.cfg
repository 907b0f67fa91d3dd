SPECIFICATION FairSpec
CONSTANTS
  Redemptions = {r1}
  Procs = {p1, p2}
  None = None
  FulfilAttempts = 2
  MaxFailures = 2
  MaxCrashes = 1
  MaxToggles = 1
  Toggles = {"confirm", "pricing"}
INVARIANT TypeOK EffectsOnce OneResolver
PROPERTY ImplementsOutcome PendingIsResolved EventuallyHandled
CHECK_DEADLOCK FALSE
