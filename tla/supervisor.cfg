SPECIFICATION Spec

CONSTANTS
  Clients = {c1, c2}
  Kinds = {"create", "input", "cancel", "inspect", "delete", "wake"}
  Stages = {"append"}
  QueueCap = 1
  GlobalCap = 1
  FaultLimit = 2
  MaxRunners = 3
  MaxFailures = 1
  MaxGone = 0

SYMMETRY Symmetry

INVARIANTS
  Ownership
  TruthTold

CHECK_DEADLOCK FALSE
