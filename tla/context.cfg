SPECIFICATION HSpec

CONSTANTS
  MaxInputs = 1
  MaxCalls = 2
  RetryLimit = 1
  AttemptLimit = 1
  Strategies = {"compaction", "handoff"}
  Kinds = {"work", "ack"}
  MaxBatch = 1
  Errors = {"overflow", "transient"}
  Usages = {TRUE}
  Commands = {"input"}
  ResultCapacity = 1
  MaxCrashes = 0
  MaxFailures = 0

INVARIANTS
  NothingForgotten

PROPERTIES
  ContractHolds

CHECK_DEADLOCK FALSE
