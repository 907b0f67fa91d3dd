SPECIFICATION FairSpec
CONSTANTS
  Full = 2
  Curve <- MCCurve
  Redemptions = {r1, r2}
  Refunded = {r1}
  Increment = 1
  HalfLives = {0, 1}
  PanelConfigs <- MCConfigs
  None = None
  Gone = Gone
  FirstConfig <- MCFirst
  MaxQueue = 2
  MaxEvents = 2
INVARIANT TypeOK
INVARIANT PricedOnce
INVARIANT SchedulerAlive
PROPERTY NoEarlyRaise
PROPERTY EventuallyPriced
