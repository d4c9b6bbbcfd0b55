SPECIFICATION FairSpec
CONSTANTS
  Instances = {p1, p2}
  Clients = {c}
  None = None
PROPERTIES StatusAnswered
CHECK_DEADLOCK FALSE
