SPECIFICATION Spec

CONSTANTS
  MaxInputs = 1
  MaxCalls = 2
  RetryLimit = 2
  AttemptLimit = 1
  Strategies = {"compaction"}
  Kinds = {"work", "unknown", "end", "cancel", "rejected", "wait"}
  MaxBatch = 2
  Errors = {}
  Usages = {FALSE}
  Commands = {"input", "cancel", "selection"}
  ResultCapacity = 1
  MaxCrashes = 1
  MaxFailures = 0

INVARIANTS
  TypeOK
  NoAnomaly
  RestOwesNothing

PROPERTIES
  NoFalseInterrupt

CHECK_DEADLOCK FALSE
