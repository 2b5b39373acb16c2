SPECIFICATION Spec
CONSTANTS
  NULL = NULL
  Strip <- MCStrip
  StreetKey <- MCStreetKey
  NoKey = NoKey
  DataOf <- Datasets
  Requests <- CommandLines
  MinPavement = 30
  MinHumps = 30
  MaxAttempts = 3
  MaxRunning = 2
  s1 = s1 s1blank = s1blank blank = blank s2 = s2 s3 = s3 s4 = s4 s5 = s5
  mainst = mainst mainstdot = mainstdot elmst = elmst dashes = dashes
  main = main elm = elm
  first = first second = second broken = broken
INVARIANTS PublishedIsWhole EnvironmentSound
PROPERTIES PastMonthsKeepTheirRoads
CHECK_DEADLOCK FALSE
