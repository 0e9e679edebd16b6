SPECIFICATION FairSpec
CONSTANTS
  r1 = r1
  Requests = {r1}
  None = None
  MaxActive = 1
  MaxInFlight = 1
  MaxChunks = 3
  HighWater = 1
  MaxClears = 2
  OrderedCommands = TRUE
CHECK_DEADLOCK FALSE
INVARIANTS
  TypeOK
  CleanEndIsComplete
  
PROPERTIES
  RevocationSparesNewStreams
  RequestsSettle
  
