SPECIFICATION FairSpec
CONSTANTS
  Followers = {f1}
  Ports = {1, 2}
  ClientIds = {c1}
  Boot = boot
  Reloads = {r1}
  Stops = {s1}
  Callers = {t1}
  None = none
  MaxStarts = 1
  VaultTries = 2
  ConnectTries = 2
  CallsDuringStart = TRUE
  MongoWrites = FALSE
PROPERTIES JobsEnd LostClientNoticed
CHECK_DEADLOCK FALSE
