SPECIFICATION Spec
CONSTANTS
  Groups <- OneHour
  Sources = {s1, s2, s3}
  Chunks = {c1, c2}
  Mixed <- NoHour
  MaxGroups = 0
  PartialDeletes = TRUE
  MaxMishaps = 1
INVARIANTS NoRowLost
