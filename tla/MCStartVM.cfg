SPECIFICATION Spec
CONSTANTS
  r1 = r1
  r2 = r2
  r3 = r3
  n1 = n1
  n2 = n2
  None = None
  Requests <- TwoRequests
  Names = {n1, n2}
  Target <- Distinct
  TapIDs = {t1, t2}
  IPs = {i1, i2}
  CIDs = {c1, c2}
  Ports = {p1, p2, p3, p4}
  NumForwards = 2
SYMMETRY Identifiers
INVARIANTS
  TypeOK
  RegisteredOwnsResources
  RunningGuestOwnsResources
PROPERTIES
  HostPortsNeverReused
  UsesPools
CHECK_DEADLOCK FALSE
