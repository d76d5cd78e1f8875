SPECIFICATION HSpec

CONSTANTS
  MaxInputs = 1
  MaxCalls = 2
  RetryLimit = 3
  AttemptLimit = 1
  Strategies = {"compaction"}
  Kinds = {"work", "unknown"}
  MaxBatch = 2
  Errors = {"transient", "permanent"}
  Usages = {FALSE}
  Commands = {"input", "cancel"}
  ResultCapacity = 1
  MaxCrashes = 1
  MaxFailures = 0

INVARIANTS
  RetriesBounded

PROPERTIES
  CancelStands
  CancelledResultsWait

CHECK_DEADLOCK FALSE
