SPECIFICATION Spec
CONSTANTS
  r1 = r1
  r2 = r2
  cA = cA
  cB = cB
  k1 = k1
  k2 = k2
  Runs = {r1, r2}
  Conversations = {cA, cB}
  Configs = {k1, k2}
  None = None
  MaxIterations = 2
  MaxInterventions = 2
  AllowOverlap = TRUE
SYMMETRY Symmetry
CHECK_DEADLOCK FALSE
INVARIANTS
  TypeOK
  ConversationIsolation
  GeneratorsAreLocal
  DialogsAreLive
