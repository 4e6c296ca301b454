SPECIFICATION Spec
CONSTANTS
  v1 = v1 v2 = v2 k1 = k1 k2 = k2 k3 = k3 c1 = c1 c2 = c2 c3 = c3
  Views = {v1, v2}
  Contexts = {k1, k2, k3}
  Calls = {c1, c2, c3}
  MaxFaults = 2
  MaxRestarts = 1
  None = None
SYMMETRY Symmetry
INVARIANTS
  ImagesShowTheirView
  ContextsAccounted
CHECK_DEADLOCK FALSE
