SPECIFICATION FairSpec
CONSTANTS
  down = down
  replica = replica
  container = container
  NoAlert = NoAlert
  Workers = {w1, w2}
  Alerts <- BothAlerts
  Known <- BothAlerts
  OptedIn <- BothAlerts
  Containers <- OneContainer
  Target <- TheContainer
  Cooldown = 2
  MaxPolls = 1
  MaxMishaps = 1
INVARIANTS OutcomeHasRestart
PROPERTIES ImplementsRestartLimit DownIsRepaired
