SPECIFICATION Spec
CONSTANTS
  p1 = p1
  p2 = p2
  p3 = p3
  Processes <- ProcessesMC
  Commands <- CommandsMC
  Others <- OthersMC
  Workflows <- WorkflowsMC
  Texts <- TextsMC
  Initial <- InitialMC
  MaxEdits = 1
CHECK_DEADLOCK FALSE
INVARIANTS TypeOK OutcomeIsTrue StaleTouchesNothing
PROPERTY CreateOnly
