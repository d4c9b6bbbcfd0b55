SPECIFICATION Spec
CONSTANTS
  Profiles = {u1, u2}
  Crons = {1, 2, 4}
  MAX_CRON_INTERVAL_MINS = 3
  MAX_BACKOFF = 2
  MAX_EXPONENT = 2
  NoCron = NoCron
PROPERTIES FailuresAreOwn
