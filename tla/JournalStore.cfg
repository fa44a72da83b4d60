\* Three calls, two under one name, two power losses, fsync reaches the parents.
SPECIFICATION Spec
CONSTANTS
  w1 = w1
  w2 = w2
  w3 = w3
  n1 = n1
  n2 = n2
  Writers <- ThreeCalls
  Names <- TwoNames
  NameOf <- Contended
  FsyncParents = TRUE
  MaxLosses = 2
SYMMETRY Rivals
CHECK_DEADLOCK FALSE
INVARIANTS
  NoTornRecord
  SuccessIsDurable
  FailureLeavesNothing
PROPERTIES
  StoreSpec
