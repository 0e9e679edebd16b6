SPECIFICATION Spec
CONSTANTS
  s1 = s1
  t1 = t1
  t2 = t2
  c1 = c1
  k1 = k1
  k2 = k2
  d1 = d1
  d2 = d2
  Servers = {s1}
  Tests = {t1, t2}
  Calls = {c1}
  Configs = {k1, k2}
  Definitions = {d1, d2}
  Offers <- MCOffers
  Persisted = {}
  None = None
  Panel = Panel
  Run = Run
  Clear = Clear
  MaxConnections = 1
  MaxEdits = 2
  MaxClears = 0
SYMMETRY Symmetry
CHECK_DEADLOCK FALSE
INVARIANTS
  ReviewedToolsRun
