------------------------------ MODULE Services ------------------------------
(***************************************************************************)
(* Four services of the gateway, the agent's workspace tools and its       *)
(* deadlines, and the process that starts both, which share no state, in   *)
(* one specification: a behaviour is a behaviour of one of them, with the  *)
(* others in one of their initial states.                                  *)
(***************************************************************************)
EXTENDS DeliveryPromises, StatusFeed, Jobs, Connections, Workspace, Launcher, Deadlines

VARIABLE service   \* whose behaviour it is

services == <<service, deliveryVars, feedVars, jobVars, linkVars, workspaceVars, launcherVars, deadlineVars>>
EveryService == {"delivery", "feed", "jobs", "connections", "workspace", "launcher", "deadlines"}

(* What the others start with does not matter: one of their initial states *)
(* stands for all.                                                         *)
Init ==
  /\ service \in EveryService
  /\ DeliveryInit
  /\ service # "delivery" => mode = "thread" /\ row = Absent /\ \A m \in Messages : source[m] = "reply"
  /\ FeedInit
  /\ JobsInit /\ (service # "jobs" => job.restart)
  /\ ConnectionsInit /\ (service # "connections" => disk = NoEntry)
  /\ WorkspaceInit
  /\ service # "workspace" => file = <<>> /\ \A c \in Runs : call[c] = Requested("write", <<>>, <<>>, FALSE)
  /\ LauncherInit /\ DeadlinesInit

Messaging == service = "delivery" /\ DeliveryNext /\ UNCHANGED <<service, feedVars, jobVars, linkVars, workspaceVars, launcherVars, deadlineVars>>
Feed == service = "feed" /\ FeedNext /\ UNCHANGED <<service, deliveryVars, jobVars, linkVars, workspaceVars, launcherVars, deadlineVars>>
JobService == service = "jobs" /\ JobsNext /\ UNCHANGED <<service, deliveryVars, feedVars, linkVars, workspaceVars, launcherVars, deadlineVars>>
Links == service = "connections" /\ ConnectionsNext /\ UNCHANGED <<service, deliveryVars, feedVars, jobVars, workspaceVars, launcherVars, deadlineVars>>
Tools == service = "workspace" /\ WorkspaceNext /\ UNCHANGED <<service, deliveryVars, feedVars, jobVars, linkVars, launcherVars, deadlineVars>>
Processes == service = "launcher" /\ LauncherNext /\ UNCHANGED <<service, deliveryVars, feedVars, jobVars, linkVars, workspaceVars, deadlineVars>>
Waits == service = "deadlines" /\ DeadlinesNext /\ UNCHANGED <<service, deliveryVars, feedVars, jobVars, linkVars, workspaceVars, launcherVars>>

Next == Messaging \/ Feed \/ JobService \/ Links \/ Tools \/ Processes \/ Waits

(* The fairness of each service. *)
Fairness ==
  /\ \A t \in Tasks : WF_deliveryVars(service = "delivery" /\ (Step(t) \/ (t = "socket" /\ SocketWorks)))
  /\ \A m \in Messages : WF_deliveryVars(service = "delivery" /\ (Receive(m) \/ Observe(m)))
  /\ WF_feedVars(service = "feed" /\ FeedSystem) /\ WF_jobVars(service = "jobs" /\ JobsSystem)
  /\ WF_linkVars(service = "connections" /\ Reload) /\ WF_linkVars(service = "connections" /\ Told)
  /\ WF_linkVars(service = "connections" /\ (ReplaceRuntime \/ ReplaceHealth))
  /\ WF_linkVars(service = "connections" /\ (Reconcile \/ StartTask))
  /\ \A c \in Runs : WF_workspaceVars(service = "workspace" /\ CallWorks(c))
  /\ \A c \in Runs : WF_workspaceVars(service = "workspace" /\ ExecutorTimeout(c))
  /\ WF_launcherVars(service = "launcher" /\ LauncherSystem)
  /\ \A s \in Sleepers : WF_deadlineVars(service = "deadlines" /\ SessionWorks(s))
  /\ WF_deadlineVars(service = "deadlines" /\ SchedulerWorks) /\ WF_deadlineVars(service = "deadlines" /\ CourierWorks)
  /\ SF_deadlineVars(service = "deadlines" /\ Delivers)

Spec == Init /\ [][Next]_services /\ Fairness
-----------------------------------------------------------------------------
(* The process comes to rest again and again: a SIGTERM it has heard ends  *)
(* it, a child that exited runs again, no restart goes on for ever, and    *)
(* who asked for a reload is answered, however restarts failed.            *)
LauncherRests ==
  \/ main.pc = "gone"
  \/ main.pc = "select" /\ signals = {} /\ (\A n \in Names : current[n].run # "exited") /\ \A c \in Askers : asker[c].phase # "connected"

(* Every call of a tool returns, also when a child holds the pipe of a     *)
(* shell that has ended, for which the command's own limit does not count. *)
CallsReturned == service = "workspace" => \A c \in Runs : call[c].phase = "done"

(* And so do the sessions' waits: none whose deadline has passed goes on   *)
(* for ever, whatever became of the wake, of the runner and of the agent.  *)
ServicesRest == []<>(LauncherRests /\ CallsReturned /\ DeadlinesMet)
=============================================================================
