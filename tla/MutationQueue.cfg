SPECIFICATION FairSpec
CONSTANTS
  Calls = {c1, c2, c3}
  Keys = {k1, k2}
  None = None
INVARIANT TypeOK
INVARIANT MutualExclusion
INVARIANT SizeIsExact
PROPERTY ImplementsKeyLock
PROPERTY NotHeldHostage
CHECK_DEADLOCK FALSE
