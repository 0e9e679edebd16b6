SPECIFICATION Spec
CONSTANTS
  A = A
  B = B
  x = x
  y = y
  Ids = {A, B}
  Attachments = {x}
  None = None
  MaxMessages = 3
  MaxRuns = 3
  Careful = TRUE
SYMMETRY Symmetry
CHECK_DEADLOCK FALSE
INVARIANTS
  TypeOK
  BlobsOutliveReferences
  
