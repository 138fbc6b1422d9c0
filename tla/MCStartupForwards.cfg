SPECIFICATION StartupSpec
CONSTANTS
  r1 = r1
  r2 = r2
  r3 = r3
  r4 = r4
  Server = server
  None = None
  Requests <- TwoPerLife
  Failing = {}
  NumForwards = 2
  Address <- MCAddress
  HostPort <- MCHostPort
  Subnet <- MCSubnet
  Mask = 24
  Lives = 2
  LifeOf <- MCLifeOf
  Tap <- MCTap
  Lookalike = FALSE
  NamedBr0 = TRUE
INVARIANT
  ForwardsReach
CHECK_DEADLOCK FALSE
