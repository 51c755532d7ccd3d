SPECIFICATION FairSpec
CONSTANTS
  MaxAlerts = 1
  MaxStops = 0
  MaxCrashes = 0
  Count = 1
  MaxRetries = 1
PROPERTIES PassedOverIsRetried
CHECK_DEADLOCK FALSE
