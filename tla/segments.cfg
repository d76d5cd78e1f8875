SPECIFICATION FairSpec

CONSTANTS
  MaxSeq = 3
  MaxBatch = 2
  SnapshotKinds = {"snapshot", "unusable"}
  Queries = {"after", "before"}
  Limit = 1
  MaxFaults = 1

INVARIANTS
  LogWhole
  QueriesExact

PROPERTIES
  DurableLogHolds
  SealedPacked

CHECK_DEADLOCK FALSE
