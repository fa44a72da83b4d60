\* One session, two repositories, two changes by others.
SPECIFICATION Spec
CONSTANTS
  s1 = s1  s2 = s2
  main = main  dev = dev
  wanted = wanted  other = other
  t1 = t1  t2 = t2
  Sessions <- OneSession
  NumRepos = 2
  Branches <- OneBranch
  Texts <- SomeTexts
  Rendered <- WantedEverywhere
  Stamps <- OneSecond
  MaxEnvMoves = 2
CHECK_DEADLOCK FALSE
INVARIANTS
  TypeOK EvidenceIsHonest ResultIsRecordable StaleChangesNothing SuccessIsComplete
PROPERTY AuditedSpec
