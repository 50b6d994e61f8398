SPECIFICATION FairSpec
CONSTANTS
  Groups = {g1}
  Owner = owner
  Loop = loop
  NoOne = NoOne
  Oids = {server, o1}
  ServerOid = server
  NoOid = NoOid
  SetIDs = {1}
  SequenceWidth = 2
  MaxUsers = 0
PROPERTY
  CloseReleasesPingSets
