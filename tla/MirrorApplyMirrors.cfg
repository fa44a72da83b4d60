\* One execution of every mode over two mirrors, others move two refs.
SPECIFICATION FairSpec
CONSTANTS
  p1 = p1  p2 = p2
  base = base  c1 = c1  fork = fork
  main = main  dev = dev
  Procs <- OneProc
  Commits <- History
  Anc <- Ancestry
  Branches <- OneBranch
  Modes <- EveryMode
  NumMirrors = 2
  PathBound <- OneProc
  Exclusive = FALSE
  MaxEnvMoves = 2
CHECK_DEADLOCK FALSE
INVARIANTS
  TypeOK MutationIsReported SuccessIsComplete RefusalChangesNothing
  OnlyCanonicalContent
PROPERTY Terminates
