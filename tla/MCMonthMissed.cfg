SPECIFICATION Spec
CONSTANTS
  f1 = f1
  f2 = f2
  cron = cron
  manual = manual
  Followers = {f1}
  Days = 1
  Values <- MCValues
  Rates = {1}
  MaxSnapshots = 1
  MaxPolls = 2
  MaxChanges = 0
  MaxFailures = 0
  Runs = {cron}
  MaxRetries = 1
  MaxMails = 1
CHECK_DEADLOCK FALSE
INVARIANTS RolledUpOnFirst
