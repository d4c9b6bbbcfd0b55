SPECIFICATION FairSpec
CONSTANTS
  Profiles = {u1, u2}
  Crons = {2, 4}
  MAX_CRON_INTERVAL_MINS = 3
  MAX_BACKOFF = 3
  MAX_EXPONENT = 1
  NoCron = NoCron
INVARIANTS TypeOK
PROPERTIES SpacedAttempts DueIsServed
