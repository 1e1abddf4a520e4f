CONSTANTS
  c1 = c1
  c2 = c2
  c3 = c3
  p1 = p1
  p2 = p2
  Connections = {c1, c2, c3}
  Plans = {p1, p2}
  PlanOf <- TwoAndOne
  FaultKinds = {"restart", "consumer", "break", "invalid"}
  MaxFaults = 1
  MaxEvents = 3
SPECIFICATION FairSpec
INVARIANTS
  TypeOK
  FollowersSeeARun
  NobodyIsToldTwice
PROPERTIES
  FollowersAreTold
CHECK_DEADLOCK FALSE
