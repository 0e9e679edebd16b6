SPECIFICATION Spec
CONSTANTS
  s1 = s1
  t1 = t1
  t2 = t2
  c1 = c1
  k1 = k1
  k2 = k2
  d1 = d1
  d2 = d2
  Servers = {s1}
  Tests = {t1, t2}
  Calls = {c1}
  Configs = {k1}
  Definitions = {d1}
  Offers <- MCOneServer
  Persisted <- MCPersisted
  None = None
  Panel = Panel
  Run = Run
  Clear = Clear
  MaxConnections = 1
  MaxEdits = 1
  MaxClears = 1
SYMMETRY Symmetry
CHECK_DEADLOCK FALSE
INVARIANTS
  TypeOK
  ClearRevokesProcesses
  NoOrphans
