\* Two executions one after the other, two branches, others move a ref or a default branch.
SPECIFICATION ReviewSpec
CONSTANTS
  p1 = p1  p2 = p2
  base = base  c1 = c1  fork = fork
  main = main  dev = dev
  Procs <- TwoProcs
  Commits <- History
  Anc <- Ancestry
  Branches <- TwoBranches
  Modes <- PlanAndApply
  NumMirrors = 1
  PathBound <- TwoProcs
  Exclusive = TRUE
  MaxEnvMoves = 1
SYMMETRY Interchangeable
CHECK_DEADLOCK FALSE
INVARIANTS
  ForceIntentHonest AfterIsResultingOID DefaultBranchOnly
