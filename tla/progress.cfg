SPECIFICATION FairSpec

CONSTANTS
  MaxInputs = 1
  MaxCalls = 2
  RetryLimit = 2
  AttemptLimit = 1
  Strategies = {"compaction"}
  Kinds = {"work"}
  MaxBatch = 2
  Errors = {}
  Usages = {FALSE}
  Commands = {"input", "cancel", "stop"}
  ResultCapacity = 1
  MaxCrashes = 1
  MaxFailures = 0

PROPERTIES
  InputsReachProvider
  CallsSettle
  CommandsComplete

CHECK_DEADLOCK FALSE
