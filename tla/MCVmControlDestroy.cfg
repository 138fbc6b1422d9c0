SPECIFICATION FairSpec
CONSTANTS
  o1 = o1
  o2 = o2
  o3 = o3
  v1 = v1
  s1 = s1
  s2 = s2
  None = None
  Ops = {o1, o2}
  VMs = {v1}
  SnapshotIds = {s1, s2}
  Assignments <- OneDestroy
PROPERTY DestroyReturns
CHECK_DEADLOCK FALSE
