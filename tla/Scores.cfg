SPECIFICATION Spec
CONSTANTS
  NULL = NULL
  WEATHER_RULE_VERSION = "1.0.0"
  Master <- MCMaster
  Touching <- MCTouching
  Area <- MCArea
  Far <- MCFar
  RegionCount = 3
  Limited = Limited Unusable = Unusable Broken = Broken
  BatchSize = 2
  MasterTables <- MCMasterTables
  Sky <- MCSky
  Readings <- MCReadings
  Standard <- MCStandard
  ActiveProfiles <- MCActive
  AverageWeight = 7
  WorstQuartileWeight = 3
  WorstRatio = 25
  MaxRouteSegments = 300
  MaxRoutes = 10
  Requests <- MCRequests
  Histories <- MCHistories
  Drives <- MCDrives
  r1 = r1 r2 = r2 r3 = r3 z1 = z1 z2 = z2
  Zones = {z1, z2}
  Rows = {r1, r2, r3}
  ZoneOf <- TwoZones
  Signatures = {clear, rain}
  NoSignature = NoSignature
  Attempts = {a1, a2}
  NoAttempt = NoAttempt
  MaxRate = 50
  StandardOverruns = FALSE
  MaxTick = 2
  MaxHour = 2
  MaxMishaps = 1
SYMMETRY Interchangeable
INVARIANTS NoSilentSkip ZonesGetTheirWeather WeatherOnlyLowers RoutesComparedFairly
PROPERTIES WeatherNeverGoesBack CurrentNeverGoesBack

