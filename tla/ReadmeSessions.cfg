\* Two sessions on one repository with two branches, one change by others.
SPECIFICATION Spec
CONSTANTS
  s1 = s1  s2 = s2
  main = main  dev = dev
  wanted = wanted  other = other
  t1 = t1  t2 = t2
  Sessions <- TwoSessions
  NumRepos = 1
  Branches <- TwoBranches
  Texts <- SomeTexts
  Rendered <- WantedEverywhere
  Stamps <- TwoSeconds
  MaxEnvMoves = 1
SYMMETRY Interchangeable
CHECK_DEADLOCK FALSE
INVARIANTS
  ReviewedBaseOnly ReviewedTextOnly
