SPECIFICATION FairSpec
CONSTANTS
  r1 = r1
  r2 = r2
  cA = cA
  cB = cB
  k1 = k1
  Runs = {r1, r2}
  Conversations = {cA, cB}
  Configs = {k1}
  None = None
  MaxIterations = 2
  MaxInterventions = 3
  AllowOverlap = FALSE
CHECK_DEADLOCK FALSE
INVARIANTS
  IdleIsClean
  QaPromptIsolation
PROPERTIES
  PlanBarrier
  StoppedRunsEnd
  RunsEnd
