SPECIFICATION FairSpec
CONSTANTS
  Readers = {a, b}
  Loads = {f1, f2}
  None = None
  MaxWrites = 1
  MaxFailures = 1
PROPERTY CallsSettle
PROPERTY EventuallyFresh
