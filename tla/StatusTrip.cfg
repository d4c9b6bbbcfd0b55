SPECIFICATION Spec
CONSTANTS
  w1 = w1
  w2 = w2
  p1 = p1
  p2 = p2
  Workers = {w1}
  Main = main
  Procs = {p1}
  Paths = {active}
  ActivePath = active
  HttpOps = {"start", "stop", "activate", "apply"}
  MAX_FAILURES = 1
  COOLDOWN = 1
  MaxTime = 1
  NoThread = NoThread
  NoProc = NoProc
  NoPath = NoPath
INVARIANTS StatusReportsTrip
