SPECIFICATION LaterFairSpec
CONSTANTS
  r1 = r1
  r2 = r2
  r3 = r3
  n1 = n1
  n2 = n2
  None = None
  Requests <- ThreeRequests
  Names = {n1}
  Target <- ThreeSame
  TapIDs = {t1, t2, t3}
  IPs = {i1, i2}
  CIDs = {c1}
  Ports = {p1, p2}
  NumForwards = 1
INVARIANTS
  NothingShared
  NothingLost
PROPERTIES
  RequestsEnd
CHECK_DEADLOCK FALSE
