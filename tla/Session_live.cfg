SPECIFICATION FairSpec
CONSTANTS
  Callers = {c1, c2}
  Closer = closer
  Inst = {g1}
  Handles = {h1}
  MaxGroupID = 1
  ReuseHandles = TRUE
  NoInst = NoInst
  NoHandle = NoHandle
  NoOne = NoOne
  Retired = Retired
PROPERTIES
  CloseReturns
  OperationsReturn
  TransportClosedEventually
