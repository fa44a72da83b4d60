\* Two executions; endpoints change roles; two faults, one rename.
SPECIFICATION Spec
CONSTANTS
  p1 = p1  p2 = p2
  x = x  y = y  z = z
  main = main  dev = dev
  Procs <- TwoProcs
  Endpoints <- ThreeEndpoints
  Branches <- TwoBranches
  Configs <- Entries
  MaxFaults = 2
  MaxRenames = 1
SYMMETRY Interchangeable
CHECK_DEADLOCK FALSE
INVARIANTS
  TypeOK TargetsAreNotMixedUp LoneExecutionSucceeds
