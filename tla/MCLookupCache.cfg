SPECIFICATION Spec
SYMMETRY ReaderSymmetry
CONSTANTS
  Readers = {a, b}
  Loads = {f1, f2}
  None = None
  MaxWrites = 2
  MaxFailures = 2
INVARIANT TypeOK
INVARIANT ReadIsFresh
INVARIANT SingleFlight
INVARIANT RejectsAfterTwoInvalidations
PROPERTY NeverGoesBack
