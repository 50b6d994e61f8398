SPECIFICATION Spec
CONSTANTS
  Callers = {c1, c2}
  Closer = closer
  Inst = {g1, g2}
  Handles = {h1, h2}
  MaxGroupID = 2
  ReuseHandles = FALSE
  NoInst = NoInst
  NoHandle = NoHandle
  NoOne = NoOne
  Retired = Retired
SYMMETRY Symmetry
INVARIANTS
  NoCallOnDisposedGroup
  DrainedBeforeDisconnect
  ReferenceReleasedLast
  CloseNilMeansClean
  NoCircularWait
