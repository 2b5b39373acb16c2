SPECIFICATION Spec
CONSTANTS
  HourLength = 4
  DayHours = 2
  WeekDays = 2
  HourlyTarget = 4
  GroupSize = 2
  DrawScale = 6
  Draw <- MCDraw
  Shard <- MCShard
  Seed <- MCSeed
  Workers <- MCWorkers
  Sources <- MCSources
  Networks <- MCNetworks
  Walls <- MCWalls
  Modes <- MCModes
  QueueLimit = 2
  Candidates = 2
  Months <- MCMonths
  Starts <- MCStarts
  Solo = "w1"
  MaxMishaps = 1
INVARIANTS
  ManifestMeansWhole
  RoutesFitTheRoads
  SuccessIsComplete
  SampledAsPlanned
PROPERTIES
  ReplayedInOrder
  RunEnds
CHECK_DEADLOCK FALSE
