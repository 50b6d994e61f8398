SPECIFICATION Spec
CONSTANTS
  Groups = {g1, g2, g3}
  Owner = owner
  Loop = loop
  NoOne = NoOne
  Oids = {server, o1}
  ServerOid = server
  NoOid = NoOid
  SetIDs = {1, 2}
  SequenceWidth = 3
  MaxUsers = 2
SYMMETRY Symmetry
INVARIANTS
  RetainedIsPinged
  HealthySetIsExact
  SequenceInStep
  UncertainIsFailure
  StopLeavesNothing
