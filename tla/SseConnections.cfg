SPECIFICATION FairSpec
CONSTANTS
  c1 = c1
  c2 = c2
  c3 = c3
  i1 = i1
  i2 = i2
  Calls = {c1, c2, c3}
  Ids = {i1, i2}
  IdOf <- MCIdOf
  None = None
  MaxActive = 1
  MaxInFlight = 1
  MaxChunks = 2
CHECK_DEADLOCK FALSE
INVARIANTS
  TypeOK
  TasksAreReachable
  LimitsHold
PROPERTIES
  OnlyOwnRemoval
  StreamsEnd
