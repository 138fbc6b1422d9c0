SPECIFICATION ServerSpec
CONSTANTS
  c1 = c1
  c2 = c2
  Clients <- MCClients
  lowCID = 3
  highCID = 5
  lowPort = 1
  highPort = 3
  lastIP = 4
  LowID = 0
  HighID = 2
CONSTRAINT Bounds
INVARIANTS
  AllocatorsTypeOK
  NoSharedCID
  IdentifiersConserved
  OwnedDeviceWorks
PROPERTIES
  StraysStay
  PoolSpec
  OtherPools
