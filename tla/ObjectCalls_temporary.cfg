SPECIFICATION Spec
CONSTANTS
  Ticks = 3
  Fine = 2
  MinDay <- FirstDay
  MaxDay = 2
  MaxInt = 2
  MaxDims = 2
  MaxCount = 8
  MaxElements = 4
  Word = 64
  MaxNesting = 3
  i1 = i1
  i2 = i2
  i3 = i3
  p1 = p1
  p2 = p2
  Kinds <- AllKinds
  Inputs <- AllInputs
  StoredData <- AllStored
  Items <- AllItems
  Batch = 2
  None = None
  Properties <- AllProperties
INVARIANTS
  CleanupTransportLives
  GivenBack
  WriteErrorTruthful
  BrowseWhole
  ValuesKept
PROPERTIES
  CanceledReturns
