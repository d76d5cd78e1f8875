SPECIFICATION FairSpec

CONSTANTS
  Clients = {c1}
  Kinds = {"create", "input", "cancel", "inspect", "delete", "wake"}
  Stages = {"loop"}
  QueueCap = 1
  GlobalCap = 2
  FaultLimit = 1
  MaxRunners = 3
  MaxFailures = 2
  MaxGone = 1

INVARIANTS
  LimitsHold

PROPERTIES
  EverythingEnds
  WorkHasRunner

CHECK_DEADLOCK FALSE
