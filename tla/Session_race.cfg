SPECIFICATION Spec
CONSTANTS
  Callers = {c1, c2}
  Closer = closer
  Inst = {g1, g2}
  Handles = {h1}
  MaxGroupID = 2
  ReuseHandles = TRUE
  NoInst = NoInst
  NoHandle = NoHandle
  NoOne = NoOne
  Retired = Retired
SYMMETRY Symmetry
INVARIANTS
  CloseNilMeansClean
