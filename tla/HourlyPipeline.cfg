SPECIFICATION FairSpec
CONSTANTS
  LastHour = 2
  Retries = 1
  Backfilled = {1}
  MaxAbandoned = 1
INVARIANTS GoldIsSource RejectedFeaturesNotScored
PROPERTIES AnnouncesWhatWasLoaded OnlyStragglersGoBack EveryRunEnds
CHECK_DEADLOCK FALSE
