SPECIFICATION FairSpec
CONSTANTS
  Groups <- Backlogged
  Sources = {s1, s2, s3}
  Chunks = {c1, c2}
  Mixed <- LastHour
  MaxGroups = 1
  PartialDeletes = FALSE
  MaxMishaps = 2
INVARIANTS NoRowLost StoredOnceWithoutMishap
PROPERTIES EventuallyCompacted
