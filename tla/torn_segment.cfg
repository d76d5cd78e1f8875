SPECIFICATION Spec

CONSTANTS
  MaxSeq = 4
  MaxBatch = 2
  SnapshotKinds = {"snapshot", "unusable"}
  Queries = {}
  Limit = 1
  MaxFaults = 1

INVARIANTS
  Appendable

CHECK_DEADLOCK FALSE
