SPECIFICATION Spec
CONSTANTS
  c1 = c1
  c2 = c2
  c3 = c3
  Closers <- Callers
  NoOne = NoOne
INVARIANTS
  ConnectCleansUp
  ServerAlive
  CloseAgreement
PROPERTIES
  CloseReturns
  ImplementsService
