SPECIFICATION Spec
CONSTANTS
  f1 = f1
  f2 = f2
  cron = cron
  manual = manual
  Followers = {f1, f2}
  Days = 2
  Values <- MCValues
  Rates = {1, 2}
  MaxSnapshots = 2
  MaxPolls = 2
  MaxChanges = 1
  MaxFailures = 2
  Runs = {cron, manual}
  MaxRetries = 2
  MaxMails = 2
CHECK_DEADLOCK FALSE
INVARIANTS RollupInv CommissionInv MailInv
PROPERTIES BilledStands
SYMMETRY Symmetric
