SPECIFICATION Spec

CONSTANTS
  MaxInputs = 1
  MaxCalls = 1
  RetryLimit = 2
  AttemptLimit = 1
  Strategies = {"compaction", "handoff"}
  Kinds = {"work", "unknown", "end"}
  MaxBatch = 1
  Errors = {"document", "transient"}
  Usages = {TRUE}
  Commands = {"input", "context", "stop", "cancel"}
  ResultCapacity = 1
  MaxCrashes = 1
  MaxFailures = 1

INVARIANTS
  NoInvariantFailure
  RequestsPaired

CHECK_DEADLOCK FALSE
