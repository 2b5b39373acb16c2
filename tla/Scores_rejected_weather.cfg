SPECIFICATION Spec
CONSTANTS
  r1 = r1 r2 = r2 r3 = r3 z1 = z1 z2 = z2
  Zones = {z1, z2}
  Rows = {r1, r2, r3}
  ZoneOf <- TwoZones
  Signatures = {clear, rain}
  NoSignature = NoSignature
  Attempts = {a1, a2}
  NoAttempt = NoAttempt
  MaxRate = 50
  StandardOverruns = FALSE
  MaxTick = 2
  MaxHour = 2
  MaxMishaps = 2
PROPERTIES RejectedWeatherIsNotNews
