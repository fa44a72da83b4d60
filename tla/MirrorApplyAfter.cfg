\* The object ID recorded after a push, when executions overlap.
SPECIFICATION Spec
CONSTANTS
  p1 = p1  p2 = p2
  base = base  c1 = c1  fork = fork
  main = main  dev = dev
  Procs <- TwoProcs
  Commits <- Line
  Anc <- LineAncestry
  Branches <- OneBranch
  Modes <- OnlyApply
  NumMirrors = 1
  PathBound <- TwoProcs
  Exclusive = FALSE
  MaxEnvMoves = 1
SYMMETRY Interchangeable
CHECK_DEADLOCK FALSE
INVARIANT AfterIsResultingOID
