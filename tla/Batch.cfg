\* Three repositories, two at a time, both kinds of selection.  Deadlock is left
\* to Terminates: a process that blocks never exits.
SPECIFICATION FairSpec
CONSTANTS
  NumRepos = 3
  Parallel = 2
  Selections = {TRUE, FALSE}
CHECK_DEADLOCK FALSE
INVARIANTS
  TypeOK PathBoundPreparedBeforeIntent OtherwiseSuccessIsComplete RefusedAsAWhole
  ResultsKeepTheirPlace ExportIsComplete
PROPERTY Terminates
