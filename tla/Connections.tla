---------------------------- MODULE Connections ----------------------------
(***************************************************************************)
(* One messenger connection of the gateway: what the configuration file    *)
(* says of it, the runtime that requests use, its health, and the task     *)
(* that runs it.  The file is written by the administrator's requests,     *)
(* which may be dropped between their writes, and by hand; a loop compares *)
(* what runs with the runtimes, when it is told to and every second, and   *)
(* the runtimes with the file.                                             *)
(***************************************************************************)
EXTENDS Integers

CONSTANTS Settings,       \* enabled configurations of the connection
          MaxEdits,       \* changes of the file
          MaxDrops        \* requests dropped half way

ASSUME ConnectionsAssumption == MaxEdits \in Nat /\ MaxDrops \in Nat

NoEntry == "removed"
Disabled == "disabled"
Configs == Settings \cup {NoEntry, Disabled}
NoTask == [config |-> NoEntry, runtime |-> NoEntry]
NoWriter == [pc |-> "rest", config |-> NoEntry, changed |-> FALSE, who |-> "none"]

VARIABLES
  disk,      \* the connection in the configuration file
  runtime,   \* the connection in the manager's runtimes
  health,    \* what is shown of it
  revised,   \* the loop has been told and has not looked
  writer,    \* who holds the lock of the file, at what
  loop,      \* select, reconcile, start (with what it read), reload
  running,   \* the task: the configuration it was started for and its runtime
  edits, drops,
  past,      \* configurations the file had
  returned,  \* the file went back to one of them
  stale      \* health was written by a task that was to stop, or not written

linkVars == <<disk, runtime, health, revised, writer, loop, running, edits, drops,
              past, returned, stale>>

ConnectionsInit ==
  /\ disk \in Configs /\ runtime = disk
  /\ health = IF disk \in {NoEntry, Disabled} THEN disk ELSE "connecting"
  /\ revised = FALSE /\ writer = NoWriter /\ loop = [pc |-> "reconcile", desired |-> NoEntry]
  /\ running = NoTask /\ edits = 0 /\ drops = 0
  /\ past = {disk} /\ returned = FALSE /\ stale = FALSE
-----------------------------------------------------------------------------
Edits(config) ==
  /\ edits < MaxEdits /\ edits' = edits + 1 /\ config # disk /\ disk' = config
  /\ past' = past \cup {config} /\ returned' = (returned \/ config \in past)

EditByHand(config) ==
  /\ Edits(config)
  /\ UNCHANGED <<runtime, health, revised, writer, loop, running, drops, stale>>

(* A request loads, changes and saves the file under the lock. *)
Save(config) ==
  /\ writer.pc = "rest" /\ Edits(config)
  /\ writer' = [pc |-> "runtimes", config |-> config, changed |-> FALSE, who |-> "request"]
  /\ UNCHANGED <<runtime, health, revised, loop, running, drops, stale>>

(* The loop's look at the file; the same connections change nothing. *)
Reload ==
  /\ loop.pc = "select" /\ writer.pc = "rest"
  /\ IF disk = runtime THEN loop' = [loop EXCEPT !.pc = "reconcile"] /\ UNCHANGED writer
     ELSE /\ loop' = [loop EXCEPT !.pc = "reload"]
          /\ writer' = [pc |-> "runtimes", config |-> disk, changed |-> FALSE, who |-> "loop"]
  /\ UNCHANGED <<disk, runtime, health, revised, running, edits, drops, past, returned, stale>>

ReplaceRuntime ==
  /\ writer.pc = "runtimes" /\ runtime' = writer.config
  /\ writer' = [writer EXCEPT !.pc = "health", !.changed = (runtime # writer.config)]
  /\ UNCHANGED <<disk, health, revised, loop, running, edits, drops, past, returned, stale>>

(* The health of what stays is kept, then the loop is told. *)
ReplaceHealth ==
  /\ writer.pc = "health"
  /\ health' = IF writer.config \in {NoEntry, Disabled} THEN writer.config
               ELSE IF writer.changed \/ health = NoEntry THEN "connecting" ELSE health
  /\ stale' = FALSE
  /\ revised' = TRUE /\ writer' = NoWriter
  /\ loop' = IF writer.who = "loop" THEN [loop EXCEPT !.pc = "reconcile"] ELSE loop
  /\ UNCHANGED <<disk, runtime, running, edits, drops, past, returned>>

(* The request's client goes away where it waits for the runtimes or for   *)
(* the health.                                                             *)
RequestDropped ==
  /\ writer.who = "request" /\ drops < MaxDrops /\ drops' = drops + 1
  /\ writer' = NoWriter /\ stale' = (stale \/ writer.pc = "health")
  /\ UNCHANGED <<disk, runtime, health, revised, loop, running, edits, past, returned>>
-----------------------------------------------------------------------------
Told ==
  /\ loop.pc = "select" /\ revised /\ revised' = FALSE
  /\ loop' = [loop EXCEPT !.pc = "reconcile"]
  /\ UNCHANGED <<disk, runtime, health, writer, running, edits, drops, past, returned, stale>>

\* Mutant: a running task is kept while its connection exists.
KeepsAny(desired) == desired # NoEntry

(* The task stays that runs for the same configuration, still enabled. *)
Keeps(desired) == desired \in Settings /\ desired = running.config

Reconcile ==
  /\ loop.pc = "reconcile" /\ loop' = [pc |-> "start", desired |-> runtime]
  /\ running' = IF Keeps(runtime) THEN running ELSE NoTask
  /\ UNCHANGED <<disk, runtime, health, revised, writer, edits, drops, past, returned, stale>>

(* The task is started for what was read, with the runtime of now. *)
StartTask ==
  /\ loop.pc = "start" /\ loop' = [pc |-> "select", desired |-> NoEntry]
  /\ running' = IF running = NoTask /\ loop.desired \in Settings /\ runtime # NoEntry
                THEN [config |-> loop.desired, runtime |-> runtime] ELSE running
  /\ UNCHANGED <<disk, runtime, health, revised, writer, edits, drops, past, returned, stale>>

(* The task says how it fares, also between the change of its connection   *)
(* and the loop that stops it.                                             *)
TaskReports ==
  /\ running # NoTask /\ \E state \in {"connecting", "connected", "error"} :
       state # health /\ health' = state
  /\ stale' = (stale \/ runtime \notin Settings)
  /\ UNCHANGED <<disk, runtime, revised, writer, loop, running, edits, drops, past, returned>>

ConnectionsNext ==
  \/ \E config \in Configs : EditByHand(config) \/ Save(config)
  \/ Reload \/ ReplaceRuntime \/ ReplaceHealth \/ RequestDropped
  \/ Told \/ Reconcile \/ StartTask \/ TaskReports

ConnectionsFairness ==
  /\ WF_linkVars(Reload) /\ WF_linkVars(Told)
  /\ WF_linkVars(ReplaceRuntime \/ ReplaceHealth) /\ WF_linkVars(Reconcile \/ StartTask)

ConnectionsSpec == ConnectionsInit /\ [][ConnectionsNext]_linkVars /\ ConnectionsFairness
-----------------------------------------------------------------------------
(* What runs is what the file says, with the runtime of that               *)
(* configuration, however the file changed and whichever request was       *)
(* dropped, unless the file went back to a configuration it had: a task    *)
(* started between the two changes has the runtime of the other.  And the  *)
(* health of a connection that does not run says so, unless its last task  *)
(* or a dropped request left it.                                           *)
ConnectionsFollow ==
  <>[](/\ runtime = disk
       /\ IF disk \in Settings
          THEN running.config = disk /\ (running.runtime = disk \/ returned)
          ELSE running = NoTask /\ (health = disk \/ stale))
=============================================================================
