\* The exit status of the single-mirror commands.
SPECIFICATION Spec
CONSTANTS
  NumRepos = 2
  Parallel = 2
  Selections = {FALSE}
CHECK_DEADLOCK FALSE
INVARIANT SuccessIsComplete
