SPECIFICATION RestoreSpec
CONSTANTS
  q = q
  r1 = r1
  r2 = r2
  n1 = n1
  n2 = n2
  t1 = t1
  t2 = t2
  i1 = i1
  c1 = c1
  None = None
  Requests = {q, r1, r2}
  Restores = {r1, r2}
  Names = {n1, n2}
  Target <- TwoNames
  TapIDs = {t1, t2}
  IPs = {i1, i2}
  CIDs = {c1, c2}
  Ports = {p1}
  NumForwards = 1
  SnapTap <- Taps
  SnapIP <- OneIP
  SnapCID <- OneCID
INVARIANTS
  RestoreTypeOK
  ClaimsExclusive
  StartsKeepTheirAddress
  CIDsReturned
  FailedLeavesNoVM
CHECK_DEADLOCK FALSE
