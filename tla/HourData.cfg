SPECIFICATION HourSpec
CONSTANTS
  NULL = NULL
  Unreadable = Unreadable
  HourLength = 20
  Required <- MCRequired
  Ranges <- MCRanges
  TimeBounds <- MCTimeBounds
  Places = {1, 2, 3, 4}
  SteerGap = 2
  Deadband = 1
  EventGap = 2
  HardAccel = 3
  HardBrake <- MCHardBrake
  SharpSteer = 15
  MinEvent = 2
  MinSharp = 1
  Distance <- MCDistance
  Radius = 10
  DistanceWeight = 60
  HeadingWeight = 40
  SpeedBands <- MCSpeedBands
  Anchors <- MCAnchors
  FeatureWeights <- MCFeatureWeights
  MinimumWeight = 60
  DirectionWeights <- MCDirectionWeights
  Saturation = 2
  ShrinkageK = 1
  WindowHours = 2
  Universe = {1, 2, 9}
  Profiles = {1, 2, 3}
  Inputs <- MCInputs
  Snapshot = 7
  Hours = 3
  MaxRuns = 2
  RejectLimit = 50
INVARIANTS
  HourTypeOK
  RowsAccountedFor
  EventsAreEpisodes
  MatchUndominated
PROPERTIES
  StandardComplete
CHECK_DEADLOCK FALSE
