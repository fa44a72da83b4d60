\* A path-bound and a single-mirror execution of every mode overlap in one cache.
SPECIFICATION Spec
CONSTANTS
  p1 = p1  p2 = p2
  base = base  c1 = c1  fork = fork
  main = main  dev = dev
  Procs <- TwoProcs
  Commits <- History
  Anc <- Ancestry
  Branches <- OneBranch
  Modes <- EveryMode
  NumMirrors = 1
  PathBound <- FirstPathBound
  Exclusive = FALSE
  MaxEnvMoves = 1
CHECK_DEADLOCK FALSE
INVARIANTS
  NoUnreviewedLoss IntentPrecedesMutation
PROPERTY AuditedSpec
