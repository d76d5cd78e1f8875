------------------------- MODULE SupervisorPromises -------------------------
(***************************************************************************)
(* What the supervisor promises clients, the log and the file system.      *)
(***************************************************************************)
EXTENDS Supervisor

\* Clients are alike.
Symmetry == Permutations(Clients)

Holding(x) == actors[x].pc \in {"recover", "activate", "glance"}
Alive == {id \in DOMAIN runners : runners[id].pc \in {"run", "idle"}}

\* However requests, wakes, the scan, rebuilds and deletions meet, one runner at
\* most owns the session, and a log is read for a recovery by one task, while
\* none does ([STARTUP-02]: never two checks of one session).
OneOwner ==
  /\ Cardinality(Alive) + Cardinality({x \in Actors : Holding(x)}) <= 1
  /\ \A x \in Actors : Holding(x) => Slot(x).status = "recovering"

Times(c) == Cardinality({i \in DOMAIN log.applied : log.applied[i] = c})

\* A command takes effect at most once; it has when it was confirmed, and it has
\* not when it was refused ([SUPERVISOR-02], [SUPERVISOR-03]).
Definite ==
  \A c \in Clients :
    /\ Times(c) <= 1
    /\ actors[c].kind \in External /\ actors[c].answer = "ok" => Times(c) = 1
    /\ actors[c].answer \in {"full", "overloaded", "circuit", "unavailable", "deleting", "notfound"}
         => Times(c) = 0

\* Once the directory has been moved away, nobody works on the session
\* ([DELETE-01]).
DeletedQuiet ==
  log.dir = "detached" =>
    /\ Alive = {}
    /\ \A s \in DOMAIN slots : slots[s].status \in {"unchecked", "recovering", "unavailable", "deleting"}

\* A session that is listed as finished is: its last turn ended so, and no
\* runner works on it.
FinishedHonest ==
  \A s \in DOMAIN slots : slots[s].finished /\ log.dir = "live" => log.finished /\ Alive = {}

\* Places in the global queue come back, whichever way a request ended.
PlacesReturn ==
  (\A c \in Clients : actors[c].pc \in {"off", "done", "left"})
    /\ (\A ch \in DOMAIN chans : chans[ch].queue = <<>>) => Permits = 0

\* FaultLimit equal failures in a row, without two completed steps, and no
\* further runner works ([SUPERVISOR-04]: the fifth opens the circuit).  During a
\* shutdown failures are not counted, and a request may activate the session again.
CircuitHolds == stopping \/ row.count <= FaultLimit

\* What a client abandoned while it held the slot for everybody.
Abandoned == \E c \in Clients :
  actors[c].answer \in {"recover", "activate", "stop", "join", "detach", "forget"}
Bounded == Len(runners) = MaxRunners

\* Every request is answered and every wake delivered, unless a client left
\* while it was recovering or deleting the session.
RequestsAnswered ==
  \A c \in Clients :
    actors[c].pc \notin {"off", "done", "left"}
      ~> actors[c].pc \in {"done", "left"} \/ Abandoned \/ Bounded

\* A shutdown ends, with no runner left but one that a wake has started since, and
\* so does a recovery: a slot does not stay in recovering.
Recovering(s) == s \in DOMAIN slots /\ slots[s].status = "recovering"
TasksEnd ==
  /\ stopping ~> \/ Abandoned \/ Bounded
                 \/ actors["down"].answer = "drained" /\ actors["down"].pc = "next"
  /\ \A s \in 1..2 : Recovering(s) ~> (~Recovering(s) \/ Abandoned \/ Bounded)

\* Work in the log gets a runner again after every failure, race and idle exit,
\* unless the session is closed to it, or the scan at the start failed and nobody
\* has looked at the session since.  (A log that ends with a finished turn is not
\* looked at again at the start, by design.)
Undiscovered == /\ actors["scan"].answer = "failed"
                /\ \A s \in DOMAIN slots : slots[s].status = "unchecked"
WorkHasRunner ==
  (log.work /\ ~log.finished)
    ~> \/ ~log.work \/ stopping \/ Abandoned \/ Bounded \/ Undiscovered
       \/ \E id \in DOMAIN runners : runners[id].pc = "run"
       \/ \E s \in DOMAIN slots : slots[s].status \in {"circuit", "unavailable", "deleting"}

\* One owner at a time, and none of a session whose directory is gone
\* (recover_slot, delete_session).
Ownership == OneOwner /\ DeletedQuiet

\* What a client is told is so: of its command, and of the session in the list
\* (send_command, list_sessions).
TruthTold == Definite /\ FinishedHonest

\* What is limited stays so, and limits are given back: the places of the global
\* queue and the failures before the circuit opens (enqueue, runner_exited).
LimitsHold == PlacesReturn /\ CircuitHolds

\* Nothing the supervisor began stays open: a request, a recovery, a shutdown.
EverythingEnds == RequestsAnswered /\ TasksEnd
=============================================================================
