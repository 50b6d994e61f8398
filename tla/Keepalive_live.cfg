SPECIFICATION FairSpec
CONSTANTS
  Groups = {g1, g2}
  Owner = owner
  Loop = loop
  NoOne = NoOne
  Oids = {server, o1}
  ServerOid = server
  NoOid = NoOid
  SetIDs = {1, 2}
  SequenceWidth = 2
  MaxUsers = 1
PROPERTIES
  StopReturns
  CanceledReturns
  ImplementsLeases
