------------------------------ MODULE Delivery ------------------------------
(***************************************************************************)
(* The gateway between one conversation of a messenger and the agent: the  *)
(* messages that arrive on a connection, background job events, and the    *)
(* operators who reset or delete the conversation's session, all of which  *)
(* read the conversation's row, talk to the agent over HTTP and write the  *)
(* row.  A request may be refused, its answer may be lost, the task that   *)
(* made it may be dropped (its connection was reconfigured, its client     *)
(* went away), and the gateway may be killed between any two steps.        *)
(*                                                                         *)
(* The messenger keeps a message until it is acknowledged and sends it     *)
(* again on a new connection.                                              *)
(***************************************************************************)
EXTENDS Integers, FiniteSets

CONSTANTS Messages,     \* messages of the conversation
          NoMessage,    \* what a task without a message is about
          Sources,      \* mention, reply (thread replies), stop
          Modes,        \* thread, proactive: the connection's mode
          Tasks,        \* socket, and some of reset, delete, job
          MaxAgents,    \* agent sessions ever created
          MaxRequests,  \* resets, deletions and job events together
          MaxFaults     \* refusals, lost answers, dropped tasks, kills

ASSUME DeliveryAssumption ==
  /\ IsFiniteSet(Messages) /\ NoMessage \notin Messages
  /\ Sources \subseteq {"mention", "reply", "stop"} /\ Modes \subseteq {"thread", "proactive"}
  /\ "socket" \in Tasks /\ Tasks \subseteq {"socket", "reset", "delete", "job"}
  /\ MaxAgents \in Nat /\ MaxRequests \in Nat /\ MaxFaults \in Nat

Absent == -1   \* there is no row
Unbound == 0   \* the row names no agent session
Agents == 1..MaxAgents

VARIABLES
  mode,       \* the mode of the connection
  source,     \* what kind of message each message is
  box,        \* the messenger's view of a message: new, sent, acked
  row,        \* Absent, Unbound or the agent session the row names
  inbound,    \* what the row's inbound table says of a message
  agent,      \* each agent session: unborn, live, deleted
  projected,  \* the agent session whose status is followed, or 0
  task,       \* what each task is at, on which message, with which session
  seen,       \* what each task last read the row as
  requests,   \* resets, deletions and job events so far
  faults,     \* faults so far
  heard,      \* how often a message was accepted by an agent session
  passed,     \* replies to a conversation that was not known
  unrecorded, \* acceptances whose answer did not come to be recorded
  wiped,      \* how often the row, and with it the inbound table, was deleted
  cut,        \* an agent session was deleted and nobody was told
  raced       \* a task overwrote what it had not read

store == <<row, inbound>>
history == <<heard, passed, unrecorded, wiped, cut, raced>>
deliveryVars == <<mode, source, box, row, inbound, agent, projected, task, seen, requests,
          faults, heard, passed, unrecorded, wiped, cut, raced>>

Idle == [pc |-> "rest", m |-> NoMessage, id |-> Unbound]
Down == [Idle EXCEPT !.pc = "down"]

DeliveryInit ==
  /\ mode \in Modes
  /\ source \in [Messages -> Sources]
  /\ box = [m \in Messages |-> "new"]
  /\ row \in {Absent, Unbound} /\ inbound = [m \in Messages |-> "none"]
  /\ agent = [a \in Agents |-> "unborn"] /\ projected = 0
  /\ task = [t \in Tasks |-> IF t = "socket" THEN Down ELSE Idle]
  /\ seen = [t \in Tasks |-> Absent]
  /\ requests = 0 /\ faults = 0
  /\ heard = [m \in Messages |-> 0] /\ passed = {} /\ unrecorded = 0 /\ wiped = 0 /\ cut = FALSE /\ raced = FALSE

At(t, pc) == task[t].pc = pc
Goto(t, pc) == task' = [task EXCEPT ![t].pc = pc]
Holding(t, pc, id) == task' = [task EXCEPT ![t].pc = pc, ![t].id = id]
Reads(t) == seen' = [seen EXCEPT ![t] = row]
Stored(m, status) ==
  inbound' = IF row = Absent THEN inbound ELSE [inbound EXCEPT ![m] = status]

\* Where a task goes on once it has read a row that names session id.
Bound(id) == IF id = Unbound THEN "create" ELSE "follow"

-----------------------------------------------------------------------------
(* A connection and its messages.                                          *)

Send(m) ==
  /\ box[m] = "new" /\ box' = [box EXCEPT ![m] = "sent"]
  /\ UNCHANGED <<mode, source, store, agent, projected, task, seen, requests, faults, history>>

Connect ==
  /\ At("socket", "down") /\ task' = [task EXCEPT !["socket"] = Idle]
  /\ UNCHANGED <<mode, source, box, store, agent, projected, seen, requests, faults, history>>

\* The first part of handle_inbound, until the conversation is asked about: a
\* reply to a conversation without a row is none of our business.
Ignored(m) == row = Absent /\ source[m] = "reply"
Receive(m) ==
  /\ mode = "thread" /\ At("socket", "rest") /\ box[m] = "sent"
  /\ row' = IF row = Absent /\ ~Ignored(m) THEN Unbound ELSE row
  /\ task' = [task EXCEPT !["socket"] =
                [pc |-> IF Ignored(m) THEN "ack" ELSE "info", m |-> m, id |-> Unbound]]
  /\ passed' = IF Ignored(m) THEN passed \union {m} ELSE passed
  /\ UNCHANGED <<mode, source, box, inbound, agent, projected, seen, requests, faults,
                 heard, unrecorded, wiped, cut, raced>>

\* On a proactive connection every message is observed, with the row as it is.
Observe(m) ==
  LET found == IF row = Absent THEN Unbound ELSE row
      known == inbound[m] = "delivered"
  IN /\ mode = "proactive" /\ At("socket", "rest") /\ box[m] = "sent"
     /\ row' = IF known THEN row ELSE found
     /\ seen' = [seen EXCEPT !["socket"] = row']
     /\ task' = [task EXCEPT !["socket"] =
                   [pc |-> IF known THEN "ack" ELSE Bound(found), m |-> m, id |-> found]]
     /\ UNCHANGED <<mode, source, box, inbound, agent, projected, requests, faults, history>>

\* Mutant: the dedup row is not consulted.
LookAnew ==
  /\ At("socket", "info") /\ Reads("socket")
  /\ CASE row = Absent -> task' = [task EXCEPT !["socket"] = Down]
       [] row # Absent /\ source[task["socket"].m] = "stop" ->
            Holding("socket", IF row = Unbound THEN "ack" ELSE "cancel", row)
       [] row # Absent /\ source[task["socket"].m] # "stop" ->
            Holding("socket", Bound(row), row)
  /\ UNCHANGED <<mode, source, box, store, agent, projected, requests, faults, history>>

\* The row is read again; it may have been deleted.
Look ==
  LET m == task["socket"].m IN
  /\ At("socket", "info") /\ Reads("socket")
  /\ CASE row = Absent -> task' = [task EXCEPT !["socket"] = Down]
       [] row # Absent /\ source[m] = "stop" ->
            Holding("socket", IF row = Unbound THEN "ack" ELSE "cancel", row)
       [] row # Absent /\ source[m] # "stop" ->
            Holding("socket", IF inbound[m] = "delivered" THEN "ack" ELSE Bound(row), row)
  /\ UNCHANGED <<mode, source, box, store, agent, projected, requests, faults, history>>
\* An agent that does not know the session has nothing to stop.
CancelAnswered ==
  /\ At("socket", "cancel") /\ Goto("socket", "ack")
  /\ UNCHANGED <<mode, source, box, store, agent, projected, seen, requests, faults, history>>

Acknowledge ==
  /\ At("socket", "ack")
  /\ box' = [box EXCEPT ![task["socket"].m] = "acked"]
  /\ task' = [task EXCEPT !["socket"] = Idle]
  /\ UNCHANGED <<mode, source, store, agent, projected, seen, requests, faults, history>>

-----------------------------------------------------------------------------
(* Job events, resets and deletions read the row first.                    *)

Unbinding(t) == IF t = "reset" THEN "unfollow" ELSE "clear"
Begin(t) ==
  /\ t # "socket" /\ At(t, "rest") /\ row # Absent /\ requests < MaxRequests
  /\ requests' = requests + 1 /\ Reads(t)
  /\ Holding(t, CASE t = "job" -> Bound(row)
                  [] t # "job" /\ row # Unbound -> "remove"
                  [] t # "job" /\ row = Unbound -> Unbinding(t), row)
  /\ UNCHANGED <<mode, source, box, store, agent, projected, faults, history>>

\* DELETE on the agent: unknown there is as good as deleted.
AgentDeletes(t) ==
  /\ At(t, "remove") /\ Goto(t, "removed")
  /\ agent' = [agent EXCEPT ![task[t].id] = "deleted"]
  /\ UNCHANGED <<mode, source, box, store, projected, seen, requests, faults, history>>
Removed(t) ==
  /\ At(t, "removed") /\ Goto(t, Unbinding(t))
  /\ UNCHANGED <<mode, source, box, store, agent, projected, seen, requests, faults, history>>

\* The subscription goes before a reset clears the row, after a deletion has.
Unfollow(t) ==
  /\ At(t, "unfollow") /\ projected' = 0
  /\ task' = [task EXCEPT ![t] = IF t = "reset" THEN [@ EXCEPT !.pc = "clear"] ELSE Idle]
  /\ UNCHANGED <<mode, source, box, store, agent, seen, requests, faults, history>>

\* A reset goes on with the row as it is then; a deletion takes the table along.
Clear(t) ==
  /\ At(t, "clear") /\ raced' = (raced \/ row # seen[t])
  /\ \/ /\ t = "reset"
        /\ row' = IF row = Absent THEN Absent ELSE Unbound
        /\ seen' = [seen EXCEPT ![t] = row']
        /\ task' = [task EXCEPT ![t] = IF row = Absent THEN Idle
                                       ELSE [Idle EXCEPT !.pc = "create"]]
        /\ UNCHANGED <<inbound, wiped>>
     \/ /\ t = "delete"
        /\ row' = Absent /\ inbound' = [m \in Messages |-> "none"]
        /\ wiped' = IF row = Absent THEN wiped ELSE wiped + 1
        /\ task' = [task EXCEPT ![t] = IF row = Absent THEN Idle
                                       ELSE [Idle EXCEPT !.pc = "unfollow"]]
        /\ UNCHANGED seen
  /\ UNCHANGED <<mode, source, box, agent, projected, requests, faults, heard, passed, unrecorded, cut>>
-----------------------------------------------------------------------------
(* ensure_binding_session and append_mailbox, for whoever calls them.      *)

\* The agent creates a session for a task that found none in the row.
AgentCreates(t) ==
  \E a \in Agents :
    /\ At(t, "create") /\ agent[a] = "unborn"
    /\ \A b \in 1..(a - 1) : agent[b] # "unborn"
    /\ agent' = [agent EXCEPT ![a] = "live"] /\ Holding(t, "created", a)
    /\ UNCHANGED <<mode, source, box, store, projected, seen, requests, faults, history>>

\* The row is overwritten whatever it names by now; it may be gone.
Persist(t) ==
  /\ At(t, "created") /\ Goto(t, "follow")
  /\ row' = IF row = Absent THEN Absent ELSE task[t].id
  /\ raced' = (raced \/ row # seen[t])
  /\ UNCHANGED <<mode, source, box, inbound, agent, projected, seen, requests, faults,
                 heard, passed, unrecorded, wiped, cut>>
\* Mutant: only the start of the gateway subscribes.
FollowNot(t) ==
  /\ At(t, "follow") /\ Goto(t, "append")
  /\ UNCHANGED <<mode, source, box, store, agent, projected, seen, requests, faults, history>>

\* The status subscription follows the session before it hears of the message.
Follow(t) ==
  /\ At(t, "follow") /\ Goto(t, "append")
  /\ projected' = IF t = "job" \/ mode = "proactive" THEN projected ELSE task[t].id
  /\ UNCHANGED <<mode, source, box, store, agent, seen, requests, faults, history>>

\* The agent takes the message if it knows the session.
AgentAccepts(t) ==
  /\ At(t, "append") /\ agent[task[t].id] = "live" /\ Goto(t, "accepted")
  /\ heard' = IF t = "socket" THEN [heard EXCEPT ![task[t].m] = @ + 1] ELSE heard
  /\ UNCHANGED <<mode, source, box, store, agent, projected, seen, requests, faults,
                 passed, unrecorded, wiped, cut, raced>>

\* Its answer is recorded with the row; without one that is an error.
Record(t) ==
  /\ At(t, "accepted")
  /\ IF t # "socket"
     THEN task' = [task EXCEPT ![t] = Idle] /\ UNCHANGED inbound
     ELSE /\ Stored(task[t].m, "delivered")
          /\ IF row = Absent THEN task' = [task EXCEPT ![t] = Down] ELSE Goto(t, "ack")
  /\ UNCHANGED <<mode, source, box, row, agent, projected, seen, requests, faults, history>>

\* Mutant: a message that cannot be delivered is acknowledged all the same.
FailedQuietly(t) ==
  IF t # "socket"
  THEN task' = [task EXCEPT ![t] = Idle] /\ UNCHANGED inbound
  ELSE Goto(t, "ack") /\ Stored(task[t].m, "blocked")

\* An error: a message is recorded as blocked and its connection is opened anew.
Failed(t) ==
  IF t # "socket"
  THEN task' = [task EXCEPT ![t] = Idle] /\ UNCHANGED inbound
  ELSE task' = [task EXCEPT ![t] = Down] /\ Stored(task[t].m, "blocked")
AgentUnaware(t) ==
  /\ At(t, "append") /\ agent[task[t].id] # "live" /\ Failed(t)
  /\ UNCHANGED <<mode, source, box, row, agent, projected, seen, requests, faults, history>>

-----------------------------------------------------------------------------
(* Faults.                                                                 *)

Asking == {"create", "remove", "append"}
Answered == {"created", "removed", "accepted"}

\* The agent session is deleted and the row still names it.
Halfway(t) ==
  task[t].pc = "removed" \/ (task[t].pc \in {"unfollow", "clear"} /\ task[t].id # Unbound)

Unrecorded(t) ==
  unrecorded' = IF t = "socket" /\ At(t, "accepted") THEN unrecorded + 1 ELSE unrecorded

\* A request fails before it had its effect, or its answer is lost.
RequestFails(t) ==
  /\ task[t].pc \in Asking \union Answered /\ faults < MaxFaults
  /\ faults' = faults + 1 /\ Failed(t)
  /\ Unrecorded(t)
  /\ cut' = (cut \/ Halfway(t))
  /\ UNCHANGED <<mode, source, box, row, agent, projected, seen, requests, heard, passed, wiped, raced>>
CancelFails ==
  /\ At("socket", "cancel") /\ faults < MaxFaults
  /\ faults' = faults + 1 /\ task' = [task EXCEPT !["socket"] = Down]
  /\ UNCHANGED <<mode, source, box, store, agent, projected, seen, requests, history>>

\* The task is dropped where it waits: its connection was reconfigured or is
\* lost, or its client went away.  A job's events are sent by tasks of their own.
Drop(t) ==
  /\ t # "job" /\ task[t].pc \notin {"rest", "down"} /\ faults < MaxFaults
  /\ faults' = faults + 1 /\ cut' = (cut \/ Halfway(t))
  /\ Unrecorded(t)
  /\ task' = [task EXCEPT ![t] = IF t = "socket" THEN Down ELSE Idle]
  /\ UNCHANGED <<mode, source, box, store, agent, projected, seen, requests, heard, passed, wiped, raced>>
\* At the start every row of a thread that names a session is followed.
Kill ==
  /\ faults < MaxFaults /\ faults' = faults + 1
  /\ cut' = (cut \/ \E t \in Tasks : Halfway(t))
  /\ Unrecorded("socket")
  /\ task' = [t \in Tasks |-> IF t = "socket" THEN Down ELSE Idle]
  /\ projected' = IF mode = "thread" /\ row \in Agents THEN row ELSE 0
  /\ UNCHANGED <<mode, source, box, store, agent, seen, requests, heard, passed, wiped, raced>>

-----------------------------------------------------------------------------
Step(t) ==
  \/ AgentDeletes(t) \/ Removed(t) \/ Unfollow(t) \/ Clear(t) \/ AgentCreates(t) \/ Persist(t)
  \/ Follow(t) \/ AgentAccepts(t) \/ AgentUnaware(t) \/ Record(t)

SocketWorks == Connect \/ Look \/ CancelAnswered \/ Acknowledge

DeliveryNext ==
  \/ \E m \in Messages : Send(m) \/ Receive(m) \/ Observe(m)
  \/ SocketWorks
  \/ \E t \in Tasks : Begin(t) \/ Step(t) \/ RequestFails(t) \/ Drop(t)
  \/ CancelFails \/ Kill

DeliverySpec == DeliveryInit /\ [][DeliveryNext]_deliveryVars

\* The runtime runs every task, the agent answers, a lost connection is opened
\* again and brings what was not acknowledged.
DeliveryFairSpec ==
  /\ DeliverySpec
  /\ \A t \in Tasks : WF_deliveryVars(Step(t) \/ (t = "socket" /\ SocketWorks))
  /\ \A m \in Messages : WF_deliveryVars(Receive(m) \/ Observe(m))
=============================================================================
