SPECIFICATION FairSpec
CONSTANTS
  Versions = {v1, v2, v3, v4}
  NoVersion = NoVersion
  Parts = {p1, p2}
  AtomicFs = TRUE
  Writers <- AllWriters
INVARIANTS SuccessMeansPublished ReaderSeesWholeHour
PROPERTIES HiddenHourReturns ImplementsHourPartition
