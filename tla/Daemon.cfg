SPECIFICATION FairSpec
CONSTANTS
  Instances = {p1, p2}
  Clients = {c1, c2}
  None = None
INVARIANTS TypeOK AloneServes
PROPERTIES ShutdownEnds ClientsReturn
CHECK_DEADLOCK FALSE
