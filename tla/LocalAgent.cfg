SPECIFICATION FairSpec
CONSTANTS
  t1 = t1
  Turns = {t1}
  PlanTurns = {t1}
  MaxCalls = 3
  None = None
  MaxToolCalls = 2
  MaxActiveRuns = 1
  MaxNoise = 1
  Patient = TRUE
CHECK_DEADLOCK FALSE
INVARIANTS
  TypeOK
  TurnBudget
  ContinuationIsApproved
  TurnsLeaveNothing
  StopReachesHost
PROPERTIES
  StoppedTurnsAreSilent
  
