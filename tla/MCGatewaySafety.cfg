SPECIFICATION Spec
CONSTANTS
  Followers = {f1, f2}
  Ports = {1, 2}
  ClientIds = {c1, c2}
  Boot = boot
  Reloads = {r1}
  Stops = {}
  Callers = {}
  None = none
  MaxStarts = 2
  VaultTries = 2
  ConnectTries = 1
  CallsDuringStart = FALSE
  MongoWrites = TRUE
INVARIANTS ExclusiveLeases ClientReachesOwnContainer NothingLeaked
PROPERTIES NoRevival
SYMMETRY Symmetry
CHECK_DEADLOCK FALSE
