SPECIFICATION LinkSpec
CONSTANTS
  Hubs = {h1, h2}
  Slots = {s1, s2}
  NoConn = NoConn
  MaxUpsets = 1
  MaxBounces = 1
INVARIANTS
  PortFollowsHubs
  CurrentIsOpen
PROPERTIES
  SelfHeals
CHECK_DEADLOCK FALSE
