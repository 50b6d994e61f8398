SPECIFICATION Spec
CONSTANTS
  Callers = {c1}
  Closer = closer
  Inst = {g1, g2, g3}
  Handles = {h1, h2}
  MaxGroupID = 2
  ReuseHandles = TRUE
  NoInst = NoInst
  NoHandle = NoHandle
  NoOne = NoOne
  Retired = Retired
SYMMETRY Symmetry
INVARIANTS
  CloseNilMeansClean
