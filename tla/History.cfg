SPECIFICATION Spec
CONSTANTS
  t1 = t1
  t2 = t2
  c = c
  d = d
  Ids = {c, d}
  Tasks = {t1, t2}
  Idle = Idle
  Free = Free
  Torn = Torn
  MaxCount = 1
  MaxRequests = 3
  MaxCrashes = 1
INVARIANTS TypeOK NewestKept NoneForgotten OnlyClosed OnceEach
SYMMETRY ThreadSymmetry
CHECK_DEADLOCK FALSE
