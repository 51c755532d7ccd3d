SPECIFICATION HistorySpec
CONSTANTS
  Followers = {f1}
  Ports = {1, 2}
  ClientIds = {c1, c2}
  Boot = boot
  Reloads = {r1}
  Stops = {s1}
  Callers = {}
  None = none
  MaxStarts = 2
  VaultTries = 1
  ConnectTries = 1
  CallsDuringStart = TRUE
  MongoWrites = TRUE
INVARIANTS MappingFollowsGateways
SYMMETRY Symmetry
CHECK_DEADLOCK FALSE
