SPECIFICATION Spec
CONSTANTS
  u1 = u1
  u2 = u2
  a = a
  Profiles = {u1, u2}
  Generated = {u2}
  Contents <- TwoContents
  Broken = Broken
  UserRules = {a}
  Providers = {"n"}
  RuleSet <- Set
  Ops = {"refresh", "update", "cron", "io_error"}
  MaxRules = 3
  MaxCustom = 2
  MaxJobs = 1
  NoProfile = NoProfile
  NoFile = NoFile
  NoRules = NoRules
INVARIANTS TypeOK Layout ShownIsDeleted CurrentListed
CONSTRAINT FewDuringDownload
