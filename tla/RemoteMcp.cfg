SPECIFICATION Spec
CONSTANTS
  t1 = t1
  t2 = t2
  r1 = r1
  r2 = r2
  plain = plain
  secret = secret
  here = here
  there = there
  Tests = {t1, t2}
  Requests = {r1}
  Origins = {here, there}
  Configs = {plain, secret}
  OriginOf <- MCOriginOf
  Secret = {secret}
  Insecure = {here}
  None = None
  Panel = Panel
  Clear = Clear
  MaxEdits = 1
  MaxClears = 1
CHECK_DEADLOCK FALSE
SYMMETRY Symmetry
INVARIANTS
  TypeOK
  ActiveAreAuthorized
  ClearRevokesRemote
  AbortedAreDisconnected
