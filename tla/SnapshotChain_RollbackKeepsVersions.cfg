SPECIFICATION Spec
CONSTANTS
  p = p
  Paths = {p}
  Contents = {1, 2}
  Absent = Absent
  None = None
  MaxMessages = 3
  CheckpointInterval = 1
  KeepLimit = 1
  Budget = 3
CHECK_DEADLOCK FALSE
PROPERTIES
  RollbackKeepsVersions
