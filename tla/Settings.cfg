SPECIFICATION Spec
CONSTANTS
  std = std
  on = on
  none = none
  t1 = t1
  t2 = t2
  Values = {std, on}
  Default = std
  None = none
  NoFile = NoFile
  Empty = Empty
  Down = Down
  Idle = Idle
  Tasks = {t1, t2}
  Requests <- AllRequests
  Profile <- AProfile
  Configs <- FirstConfigs
  MaxRequests = 2
  MaxFaults = 1
INVARIANTS TypeOK SettingsKept ConfigAgrees MemoryFollowsFile 
CONSTRAINT Calm
SYMMETRY TaskSymmetry
CHECK_DEADLOCK FALSE
