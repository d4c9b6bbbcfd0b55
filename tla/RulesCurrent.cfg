SPECIFICATION Spec
CONSTANTS
  u1 = u1
  u2 = u2
  a = a
  Profiles = {u1, u2}
  Generated = {}
  Contents <- TwoContents
  Broken = Broken
  UserRules = {a}
  Providers = {"n"}
  RuleSet <- Set
  Ops = {"refresh"}
  MaxRules = 3
  MaxCustom = 2
  MaxJobs = 1
  NoProfile = NoProfile
  NoFile = NoFile
  NoRules = NoRules
PROPERTIES RefreshesCurrentOnly
