-------------------------------- MODULE Jobs --------------------------------
(***************************************************************************)
(* A background job of a conversation: its row in the gateway's database,  *)
(* the process the gateway holds for it, and the tasks that read the row   *)
(* or the process and write the row: the request that registers it, the    *)
(* task that watches its end, a cancellation, a notification of the job    *)
(* itself and the timer that gives up on it.  A request may be dropped by  *)
(* its client where it waits, and the gateway be killed and started again. *)
(***************************************************************************)
EXTENDS Integers

CONSTANTS MaxJobRequests,   \* cancellations and notifications
          MaxJobFaults      \* dropped requests, refused events, failed starts, kills

ASSUME JobsAssumption == MaxJobRequests \in Nat /\ MaxJobFaults \in Nat

VARIABLES
  up,           \* the gateway runs
  job,          \* status and restart_on_boot of the row
  process,      \* the held process: none, alive, exited
  registering,  \* rest, or spawn: the row is inserted
  watcher,      \* rest, poll, reaped, tell
  canceller,    \* rest, stop, write
  notifier,     \* rest, or the status read before the event was sent
  timer,        \* rest, armed
  told,         \* the end of the held process was told to the agent
  cancelled,    \* a cancellation was answered
  jobRequests, jobFaults,
  excuses       \* what made the row say what is not so

jobVars == <<up, job, process, registering, watcher, canceller, notifier, timer, told,
             cancelled, jobRequests, jobFaults, excuses>>

Active == {"registered", "running"}
Ends == {"succeeded", "failed"}

JobsInit ==
  /\ up = TRUE /\ job \in [status : {"none"}, restart : BOOLEAN] /\ process = "none"
  /\ registering = "rest" /\ watcher = "rest" /\ canceller = "rest" /\ notifier = "rest"
  /\ timer = "rest" /\ told = FALSE /\ cancelled = FALSE
  /\ jobRequests = 0 /\ jobFaults = 0 /\ excuses = {}

JobFault == jobFaults < MaxJobFaults /\ jobFaults' = jobFaults + 1
Asks == jobRequests < MaxJobRequests /\ jobRequests' = jobRequests + 1
Excuse(name, holds) == excuses' = IF holds THEN excuses \cup {name} ELSE excuses
-----------------------------------------------------------------------------
Register ==
  /\ up /\ job.status = "none" /\ job' = [job EXCEPT !.status = "registered"]
  /\ registering' = "spawn"
  /\ UNCHANGED <<up, process, watcher, canceller, notifier, timer, told, cancelled, jobRequests,
                 jobFaults, excuses>>

\* Mutant: nobody watches the process.
SpawnedUnwatched ==
  /\ process' = "alive" /\ told' = FALSE /\ job' = [job EXCEPT !.status = "running"]
  /\ timer' = "armed" /\ UNCHANGED watcher

(* The process is held, the row says so, and its end and the timer are     *)
(* awaited.                                                                *)
Spawned ==
  /\ process' = "alive" /\ told' = FALSE /\ job' = [job EXCEPT !.status = "running"]
  /\ timer' = "armed" /\ watcher' = "poll"

RegisterSpawns ==
  /\ registering = "spawn" /\ registering' = "rest" /\ Spawned
  /\ Excuse("cancelled first", job.status = "cancelled" \/ canceller = "write")
  /\ UNCHANGED <<up, canceller, notifier, cancelled, jobRequests, jobFaults>>

(* The process does not start, or the client goes away while the request   *)
(* waits: the row stays.                                                   *)
RegisterFails ==
  /\ registering = "spawn" /\ JobFault /\ registering' = "rest"
  /\ UNCHANGED <<up, job, process, watcher, canceller, notifier, timer, told, cancelled,
                 jobRequests, excuses>>

ProcessExits ==
  /\ process = "alive" /\ process' = "exited"
  /\ UNCHANGED <<up, job, registering, watcher, canceller, notifier, timer, told, cancelled,
                 jobRequests, jobFaults, excuses>>
-----------------------------------------------------------------------------
(* The watcher looks every quarter of a second, and leaves when somebody   *)
(* else took the process.                                                  *)
WatcherLooks ==
  /\ watcher = "poll" /\ process # "alive"
  /\ watcher' = (IF process = "exited" THEN "reaped" ELSE "rest") /\ process' = "none"
  /\ UNCHANGED <<up, job, registering, canceller, notifier, timer, told, cancelled, jobRequests,
                 jobFaults, excuses>>

WatcherWrites ==
  /\ watcher = "reaped" /\ watcher' = "tell"
  /\ \E end \in Ends : job' = [job EXCEPT !.status = end]
  /\ UNCHANGED <<up, process, registering, canceller, notifier, timer, told, cancelled,
                 jobRequests, jobFaults, excuses>>

WatcherTells ==
  /\ watcher = "tell" /\ watcher' = "rest"
  /\ \/ told' = TRUE /\ UNCHANGED <<jobFaults, excuses>>
     \/ JobFault /\ Excuse("refused", TRUE) /\ UNCHANGED told
  /\ UNCHANGED <<up, job, process, registering, canceller, notifier, timer, cancelled, jobRequests>>
-----------------------------------------------------------------------------
CancelReads ==
  /\ up /\ canceller = "rest" /\ job.status \in Active /\ Asks
  /\ canceller' = "stop"
  /\ UNCHANGED <<up, job, process, registering, watcher, notifier, timer, told, cancelled,
                 jobFaults, excuses>>

\* Mutant: the row says cancelled, the process goes on.
CancelStopsNot ==
  /\ canceller = "stop" /\ canceller' = "write"
  /\ UNCHANGED <<up, job, process, registering, watcher, notifier, timer, told, cancelled,
                 jobRequests, jobFaults, excuses>>

(* The held process is killed, if there is one. *)
CancelStops ==
  /\ canceller = "stop" /\ canceller' = "write" /\ process' = "none"
  /\ UNCHANGED <<up, job, registering, watcher, notifier, timer, told, cancelled, jobRequests,
                 jobFaults, excuses>>

CancelWrites ==
  /\ canceller = "write" /\ canceller' = "rest"
  /\ job' = [job EXCEPT !.status = "cancelled"] /\ cancelled' = TRUE
  /\ UNCHANGED <<up, process, registering, watcher, notifier, timer, told, jobRequests, jobFaults,
                 excuses>>

(* The client goes away during the kill: the process dies with its handle, *)
(* the row is not written.                                                 *)
CancelDropped ==
  /\ canceller = "stop" /\ JobFault /\ canceller' = "rest" /\ process' = "none"
  /\ Excuse("dropped", TRUE)
  /\ UNCHANGED <<up, job, registering, watcher, notifier, timer, told, cancelled, jobRequests>>
-----------------------------------------------------------------------------
(* A notification reads the row, sends its event, and writes the status    *)
(* back that it read.                                                      *)
NotifyReads ==
  /\ up /\ notifier = "rest" /\ job.status # "none" /\ Asks /\ notifier' = job.status
  /\ UNCHANGED <<up, job, process, registering, watcher, canceller, timer, told, cancelled,
                 jobFaults, excuses>>

NotifyWrites ==
  /\ notifier # "rest" /\ notifier' = "rest" /\ job' = [job EXCEPT !.status = notifier]
  /\ Excuse("written back", job.status # notifier)
  /\ UNCHANGED <<up, process, registering, watcher, canceller, timer, told, cancelled, jobRequests,
                 jobFaults>>

NotifyFails ==
  /\ notifier # "rest" /\ JobFault /\ notifier' = "rest"
  /\ UNCHANGED <<up, job, process, registering, watcher, canceller, timer, told, cancelled,
                 jobRequests, excuses>>

(* After twelve hours an active job is given up; its process goes on.      *)
TimedOut ==
  /\ timer = "armed" /\ timer' = "rest"
  /\ IF job.status \in Active
     THEN job' = [job EXCEPT !.status = "failed"] /\ Excuse("timed out", process # "none")
     ELSE UNCHANGED <<job, excuses>>
  /\ UNCHANGED <<up, process, registering, watcher, canceller, notifier, told, cancelled,
                 jobRequests, jobFaults>>
-----------------------------------------------------------------------------
(* The gateway is killed; a process it held goes on without it. *)
GatewayKilled ==
  /\ up /\ JobFault /\ up' = FALSE /\ process' = "none"
  /\ registering' = "rest" /\ watcher' = "rest" /\ canceller' = "rest" /\ notifier' = "rest"
  /\ timer' = "rest" /\ UNCHANGED <<job, told, cancelled, jobRequests, excuses>>

(* Before it listens the gateway starts again what was to be restarted.    *)
Restores == job.restart /\ job.status \in Active

Boot ==
  /\ ~up /\ up' = TRUE
  /\ IF Restores
     THEN \/ Spawned /\ UNCHANGED jobFaults
          \/ /\ JobFault /\ job' = [job EXCEPT !.status = "failed"]
             /\ UNCHANGED <<process, told, timer, watcher>>
     ELSE UNCHANGED <<job, process, told, timer, watcher, jobFaults>>
  /\ Excuse("not restored", ~Restores /\ job.status \in Active)
  /\ UNCHANGED <<registering, canceller, notifier, cancelled, jobRequests>>

JobsNext ==
  \/ Register \/ RegisterSpawns \/ RegisterFails \/ ProcessExits
  \/ WatcherLooks \/ WatcherWrites \/ WatcherTells
  \/ CancelReads \/ CancelStops \/ CancelWrites \/ CancelDropped
  \/ NotifyReads \/ NotifyWrites \/ NotifyFails \/ TimedOut
  \/ GatewayKilled \/ Boot

JobsSystem ==
  RegisterSpawns \/ WatcherLooks \/ WatcherWrites \/ WatcherTells \/ CancelStops \/ CancelWrites

JobsSpec == JobsInit /\ [][JobsNext]_jobVars /\ WF_jobVars(JobsSystem)
-----------------------------------------------------------------------------
JobAtRest ==
  up /\ registering = "rest" /\ canceller = "rest" /\ watcher \in {"rest", "poll"}

(* Unless one of the ways it is known not to, the row of a job that nobody *)
(* is changing says whether the gateway holds a process for it, and after  *)
(* an answered cancellation there is none.                                 *)
JobStatusHonest ==
  excuses \ {"refused"} = {} /\ JobAtRest =>
    /\ process # "none" => job.status = "running"
    /\ job.status = "running" => watcher = "poll"
    /\ cancelled => process = "none"

(* The end of a process the gateway held is told to the agent, unless the  *)
(* event was refused, the job cancelled or the gateway killed.             *)
JobEndTold ==
  process = "exited" ~> told \/ canceller # "rest" \/ cancelled \/ "refused" \in excuses
                        \/ "dropped" \in excuses \/ ~up
=============================================================================
