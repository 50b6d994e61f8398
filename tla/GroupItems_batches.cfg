SPECIFICATION Spec
CONSTANTS
  Callers = {c1}
  NoOne = NoOne
  ItemIDs = {a, b, c}
  ValidIDs = {a, b, c}
  NoItem = NoItem
  Handles = {h1, h2, h3}
  NoHandle = NoHandle
  MaxClient = 3
  BatchSize = 2
  MaxList = 3
  MaxLate = 0
SYMMETRY Symmetry
INVARIANTS
  RegistrationOrder
  AddOutcomesTrue
  RemoveOutcomesTrue
  WriteOutcomesTrue
