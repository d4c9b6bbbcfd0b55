SPECIFICATION Spec
CONSTANTS
  w1 = w1
  w2 = w2
  p1 = p1
  p2 = p2
  Workers = {w1, w2}
  Main = main
  Procs = {p1, p2}
  Paths = {active}
  ActivePath = active
  HttpOps = {"start", "stop", "activate"}
  MAX_FAILURES = 2
  COOLDOWN = 1
  MaxTime = 2
  NoThread = NoThread
  NoProc = NoProc
  NoPath = NoPath
SYMMETRY WorkerSymmetry
INVARIANTS TypeOK LockInv OneMihomo HealthyWhenRunning StatusCoherent ConfigApplied
PROPERTIES ForegroundExitStops SpawnRespectsCooldown ImplementsSupervisor
