SPECIFICATION Spec

CONSTANTS
  NoMessage = NoMessage
  Messages = {m1}
  Sources = {"mention", "reply", "stop"}
  Modes = {"thread", "proactive"}
  Tasks = {"socket", "reset", "delete", "job"}
  MaxAgents = 5
  MaxRequests = 1
  MaxFaults = 2
  m1 = m1
  MaxEvents = 3
  LiveCapacity = 1
  MaxBreaks = 1
  MaxJobRequests = 3
  MaxJobFaults = 2
  Settings = {"old", "new"}
  MaxEdits = 2
  MaxDrops = 1
  Runs = {"r1", "r2"}
  Letters = {"a"}
  MaxText = 1
  MaxPermits = 2
  MaxOutput = 1
  PageSize = 1
  Askers = {"cli", "admin"}
  AdminAskers = {"admin"}
  MaxExits = 2
  Sleepers = {"s1", "s2"}
  CommandCapacity = 1
  WakeCapacity = 1
  RunnerCapacity = 1
  MaxOrders = 2
  MaxEnds = 1

INVARIANTS
  DeliverySafe
  JobStatusHonest
  LauncherHonest

PROPERTIES
  ComesThrough
  StatusFollows
  JobEndTold
  ConnectionsFollow
  ServicesRest

CHECK_DEADLOCK FALSE
