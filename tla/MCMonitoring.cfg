SPECIFICATION MCSpec
CONSTANTS
  Containers = {c1, c2}
  MaxFailures = 3
  Cycles = {1, 2}
  MaxCount = 4
  Absent = absent
  MaxAlerts = 3
  MaxStops = 1
  MaxCrashes = 1
  Count = 2
  MaxRetries = 2
  Chats = {t1, t2}
  Recipients = {e1}
INVARIANTS CountCoversStreak AckedWasSent SentAtMostMaxRetries
PROPERTIES FailingIsRestarted AlertsSettled RoutingIsAtomic
