SPECIFICATION MCSpec
CONSTANTS
  core1 = core1
  api1 = api1
  r1 = r1
  StringIds = {core1}
  ObjectIds = {api1, api2}
  Emails = {e1, e2}
  Requests = {r1, r2}
  Sockets = {s1, s2}
  Absent = Absent
  Removed = Removed
  Keep = Keep
  MaxFailures = 1
  Days = 14
  DayLength = 32
  OpenTime = 12
  CloseTime = 24
  Holidays = {4, 7}
  CheckInterval = 6
  HealthLimit = 6
  MaxLag = 2
  MaxRestarts = 1
  qqq = qqq
  spy = spy
  Symbols = {qqq, spy}
  Prices = {100, 200}
  Quantities = {1}
  Points = 3
  Strategies <- MCStrategies
  Capital = 150
  Commission = 1
  Percent = 1
  MaxManual = 1
  MaxRuns = 2
  Tasks = {t1, t2}
  MaxDepth = 2
  MaxCalls = 3
INVARIANTS OperationsInv LoopInv CalendarInv ReplayInv FlagRestored
PROPERTIES OverlapIsExplained UpdatedUnlessBlocked StatusMovesOn SignalEndsLoop NoGainFromTrading ContextSimulates
