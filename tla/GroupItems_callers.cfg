SPECIFICATION Spec
CONSTANTS
  Callers = {c1, c2}
  NoOne = NoOne
  ItemIDs = {a, b, x}
  ValidIDs = {a, b}
  NoItem = NoItem
  Handles = {h1, h2}
  NoHandle = NoHandle
  MaxClient = 3
  BatchSize = 1
  MaxList = 2
  MaxLate = 1
SYMMETRY Symmetry
INVARIANTS
  RegistrationsValid
  ClientHandlesUnique
  ReadOutcomesTrue
