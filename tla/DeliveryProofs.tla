--------------------------- MODULE DeliveryProofs ---------------------------
(***************************************************************************)
(* Proofs about the messages of a conversation, for any messages, tasks,   *)
(* sessions, requests and faults: what was acknowledged was heard, no      *)
(* oftener than faults repeated it; a row names no session that should be  *)
(* forgotten; and the session that hears is the one whose status is        *)
(* followed.                                                               *)
(***************************************************************************)
EXTENDS DeliveryPromises, TLAPS

TaskSet == [pc : Pcs, m : Messages \cup {NoMessage}, id : 0..MaxAgents]
Carrying == {"created", "follow", "append", "accepted", "remove", "removed"}
Removing == {"remove", "removed", "unfollow", "clear"}

DeliveryTypes ==
  /\ mode \in Modes /\ source \in [Messages -> Sources]
  /\ box \in [Messages -> {"new", "sent", "acked"}]
  /\ inbound \in [Messages -> {"none", "delivered", "blocked"}]
  /\ row \in {Absent, Unbound} \cup Agents /\ projected \in {0} \cup Agents
  /\ agent \in [Agents -> {"unborn", "live", "deleted"}]
  /\ task \in [Tasks -> TaskSet]
  /\ heard \in [Messages -> Nat] /\ unrecorded \in Nat /\ wiped \in Nat

\* Only resets and deletions remove a session, what a task works on it holds, and
\* the connection has its message.
Placed(t) ==
  /\ task[t].pc \in Carrying => task[t].id \in Agents
  /\ task[t].pc \in Removing => t \in {"reset", "delete"}
  /\ t = "delete" /\ task[t].pc = "unfollow" => task[t].id = Unbound
  /\ t = "socket" /\ task[t].pc \notin {"rest", "down"} => task[t].m \in Messages

\* Nobody knows of a session that was not created, and one just created is known to
\* its creator alone.
Known(a) == row = a \/ projected = a \/ \E t \in Tasks : task[t].id = a
Fresh(t) ==
  LET a == task[t].id IN
  agent[a] = "live" /\ row # a /\ \A u \in Tasks \ {t} : task[u].id # a
SessionsInv ==
  /\ \A a \in Agents : agent[a] = "unborn" => ~Known(a)
  /\ \A t \in Tasks : At(t, "created") => Fresh(t)

\* How often a message can have been heard, given where it is: while the connection
\* is about to hand it over it is not on record, and if the row went meanwhile
\* the deletion allows one more.
Toward == {"create", "created", "follow", "append"}
On(m, pcs) == task["socket"].m = m /\ task["socket"].pc \in pcs
HeardInv ==
  \A m \in Messages :
    /\ heard[m] > 0 => box[m] # "new"
    /\ heard[m] <= 1 + unrecorded + wiped
    /\ inbound[m] # "delivered" /\ ~On(m, {"accepted"}) => heard[m] <= unrecorded + wiped
    /\ row = Absent => inbound[m] # "delivered"
    /\ On(m, {"info"}) => box[m] = "sent"
    /\ On(m, Toward \cup {"accepted"}) => inbound[m] # "delivered" /\ box[m] = "sent"
    /\ On(m, Toward) /\ row = Absent => heard[m] + 1 <= unrecorded + wiped
    /\ On(m, {"accepted"}) /\ row = Absent => heard[m] <= unrecorded + wiped

\* What will be acknowledged was heard, or need not be.
Settled(m) == heard[m] > 0 \/ m \in passed \/ Stops(m)
AckInv ==
  /\ AckedHeard
  /\ \A m \in Messages :
       /\ On(m, {"ack"}) => Settled(m)
       /\ On(m, {"accepted"}) => heard[m] > 0
       /\ On(m, {"cancel"}) => Stops(m)
  /\ At("socket", "info") => mode = "thread"

DeliveryInv ==
  /\ DeliveryTypes /\ (\A t \in Tasks : Placed(t)) /\ SessionsInv /\ BoundLive /\ HeardInv /\ AckInv

-----------------------------------------------------------------------------
USE DeliveryAssumption DEF Absent, Unbound, Agents

Sets(t, v) == v \in TaskSet /\ task' = [task EXCEPT ![t] = v]

LEMMA TasksTyped ==
  ASSUME DeliveryInv
  PROVE  /\ DeliveryTypes /\ "socket" \in Tasks
         /\ \A t \in Tasks : /\ task[t] \in TaskSet /\ task[t].pc \in Pcs
                             /\ task[t].m \in Messages \cup {NoMessage} /\ task[t].id \in 0..MaxAgents
                             /\ Placed(t)
<1>1. DeliveryTypes
  BY DEF DeliveryInv
<1>2. \A t \in Tasks : task[t] \in TaskSet
  BY <1>1 DEF DeliveryTypes
<1> QED BY <1>1, <1>2 DEF DeliveryInv, TaskSet

LEMMA IdleTyped == Idle \in TaskSet /\ Down \in TaskSet
  /\ Idle.pc = "rest" /\ Down.pc = "down" /\ Idle.id = 0 /\ Down.id = 0
  BY DEF Idle, Down, TaskSet, Pcs

LEMMA Made ==
  ASSUME NEW pc \in Pcs, NEW m \in Messages \cup {NoMessage}, NEW id \in 0..MaxAgents
  PROVE  LET v == [pc |-> pc, m |-> m, id |-> id] IN
         v \in TaskSet /\ v.pc = pc /\ v.m = m /\ v.id = id
  BY DEF TaskSet

LEMMA Rewritten ==
  ASSUME DeliveryInv, NEW t \in Tasks, NEW pc \in Pcs, NEW id \in 0..MaxAgents
  PROVE  /\ Holding(t, pc, id) => task' = [task EXCEPT ![t] = [pc |-> pc, m |-> task[t].m, id |-> id]]
         /\ Goto(t, pc) => task' = [task EXCEPT ![t] = [pc |-> pc, m |-> task[t].m, id |-> task[t].id]]
  BY TasksTyped DEF Holding, Goto, DeliveryTypes, TaskSet

LEMMA Moved ==
  ASSUME DeliveryInv, NEW t \in Tasks, NEW pc \in Pcs, NEW id \in 0..MaxAgents, Holding(t, pc, id)
  PROVE  \E v : Sets(t, v) /\ v.pc = pc /\ v.m = task[t].m /\ v.id = id
<1> DEFINE v == [pc |-> pc, m |-> task[t].m, id |-> id]
<1>1. v \in TaskSet /\ v.pc = pc /\ v.m = task[t].m /\ v.id = id
  BY TasksTyped, Made
<1>2. task' = [task EXCEPT ![t] = v]
  BY Rewritten
<1> QED BY <1>1, <1>2 DEF Sets

LEMMA Gone ==
  ASSUME DeliveryInv, NEW t \in Tasks, NEW pc \in Pcs, Goto(t, pc)
  PROVE  \E v : Sets(t, v) /\ v.pc = pc /\ v.m = task[t].m /\ v.id = task[t].id
<1> DEFINE v == [pc |-> pc, m |-> task[t].m, id |-> task[t].id]
<1>1. v \in TaskSet /\ v.pc = pc /\ v.m = task[t].m /\ v.id = task[t].id
  BY TasksTyped, Made
<1>2. task' = [task EXCEPT ![t] = v]
  BY TasksTyped, Rewritten
<1> QED BY <1>1, <1>2 DEF Sets

LEMMA Settling ==
  ASSUME DeliveryInv, NEW t \in Tasks, NEW v, Sets(t, v)
  PROVE  /\ task' \in [Tasks -> TaskSet] /\ task'[t] = v
         /\ \A u \in Tasks : u # t => task'[u] = task[u]
  BY TasksTyped DEF Sets, DeliveryTypes

-----------------------------------------------------------------------------
\* What a step of one task leaves as it is.

\* Its place.
LEMMA PlacedOn ==
  ASSUME DeliveryInv, NEW t \in Tasks, NEW v, Sets(t, v),
         v.pc \in Carrying => v.id \in Agents,
         v.pc \in Removing => t \in {"reset", "delete"},
         t = "delete" /\ v.pc = "unfollow" => v.id = Unbound,
         t = "socket" /\ v.pc \notin {"rest", "down"} => v.m \in Messages
  PROVE  \A u \in Tasks : Placed(u)'
<1> SUFFICES ASSUME NEW u \in Tasks PROVE Placed(u)'
  OBVIOUS
<1>1. CASE u = t
  BY <1>1, Settling DEF Placed
<1>2. CASE u # t
  <2>1. Placed(u) /\ task'[u] = task[u]
    BY <1>2, Settling, TasksTyped
  <2> QED BY <2>1 DEF Placed
<1> QED BY <1>1, <1>2

\* The sessions, when it learns of none but the row's.
LEMMA SessionsOn ==
  ASSUME DeliveryInv, NEW t \in Tasks, NEW v, Sets(t, v), UNCHANGED agent,
         row' \in {row, Absent, Unbound}, v.pc # "created", v.id \in {Unbound, row, task[t].id},
         projected' \in {0, projected, task[t].id, row}
  PROVE  SessionsInv'
<1>0. SessionsInv /\ DeliveryTypes /\ row \in {Absent, Unbound} \cup Agents
  BY DEF DeliveryInv, DeliveryTypes
<1>1. \A a \in Agents : Known(a)' => Known(a)
  BY Settling DEF Known
<1>2. ASSUME NEW u \in Tasks, At(u, "created")' PROVE Fresh(u)'
  <2>1. u # t /\ task'[u] = task[u] /\ task'[t] = v
    BY <1>2, Settling DEF At
  <2>2. Fresh(u) /\ task[u].id \in Agents
    BY <1>0, <1>2, <2>1, TasksTyped DEF SessionsInv, At, Placed, Carrying
  <2>3. task[t].id # task[u].id /\ row # task[u].id /\ task[u].id \in 1..MaxAgents
    BY <2>1, <2>2 DEF Fresh
  <2>4. v.id # task[u].id /\ row' # task[u].id
    BY <2>3
  <2>5. ASSUME NEW w \in Tasks \ {u} PROVE task'[w].id # task[u].id
    <3>1. CASE w = t
      BY <2>1, <2>4, <3>1
    <3>2. CASE w # t
      BY <2>2, <3>2, Settling DEF Fresh
    <3> QED BY <3>1, <3>2
  <2> QED BY <2>1, <2>2, <2>4, <2>5 DEF Fresh
<1> QED BY <1>0, <1>1, <1>2 DEF SessionsInv

\* The row, unless the task was to clear it and does not.
LEMMA BoundOn ==
  ASSUME DeliveryInv, NEW t \in Tasks, NEW v, Sets(t, v), UNCHANGED agent, cut => cut',
         row' \in {row, Absent, Unbound},
         \/ cut' \/ t \notin {"reset", "delete"} \/ task[t].pc \notin Removing \/ task[t].id = Unbound
         \/ task[t].pc = "remove"
         \/ v.pc \in {"removed", "unfollow", "clear"} /\ v.id # Unbound
  PROVE  BoundLive'
<1>1. ASSUME NEW u \in Tasks, Halfway(u) PROVE cut' \/ Halfway(u)'
  <2>1. CASE u # t
    BY <1>1, <2>1, Settling DEF Halfway
  <2>2. CASE u = t
    <3>1. task[t].pc \in Removing /\ task[t].pc # "remove" /\ t \in {"reset", "delete"} /\ task[t].id # Unbound
      BY <1>1, <2>2, TasksTyped DEF Halfway, Placed, Removing, Carrying
    <3> QED BY <2>2, <3>1, Settling DEF Halfway
  <2> QED BY <2>1, <2>2
<1> QED BY <1>1 DEF DeliveryInv, BoundLive

\* The messages, when the connection does nothing.
LEMMA OthersHear ==
  ASSUME DeliveryInv, UNCHANGED <<heard, box, inbound, mode, source, passed, unrecorded, wiped>>,
         task'["socket"] = task["socket"], row' = Absent => row = Absent
  PROVE  HeardInv' /\ AckInv'
<1>1. HeardInv'
  BY DEF DeliveryInv, HeardInv, On
<1>2. AckInv'
  BY DEF DeliveryInv, AckInv, AckedHeard, On, Settled, Stops, At
<1> QED BY <1>1, <1>2

\* The messages, when the connection stops handing one over or goes on to the next step.
LEMMA SocketHears ==
  ASSUME DeliveryInv, NEW v, Sets("socket", v), UNCHANGED <<heard, box, mode, source, passed, wiped>>,
         row' = Absent => row = Absent,
         unrecorded' = IF task["socket"].pc = "accepted" THEN unrecorded + 1 ELSE unrecorded,
         v.pc \notin {"accepted", "ack", "cancel", "info"},
         v.pc \in Toward => task["socket"].pc \in Toward /\ v.m = task["socket"].m /\ UNCHANGED inbound,
         \/ UNCHANGED inbound
         \/ /\ task["socket"].pc \in Toward \cup {"accepted"}
            /\ inbound' = [inbound EXCEPT ![task["socket"].m] = "blocked"]
  PROVE  HeardInv' /\ AckInv'
<1>0. DeliveryTypes /\ HeardInv /\ AckInv /\ task'["socket"] = v
  BY TasksTyped, Settling DEF DeliveryInv
<1>1. /\ unrecorded \in Nat /\ wiped \in Nat /\ heard \in [Messages -> Nat]
      /\ inbound \in [Messages -> {"none", "delivered", "blocked"}]
  BY <1>0 DEF DeliveryTypes
<1>2. ASSUME NEW m \in Messages
      PROVE  /\ inbound'[m] = "delivered" => inbound[m] = "delivered"
             /\ inbound[m] = "delivered" => inbound'[m] = "delivered"
             /\ ~On(m, {"accepted"})' /\ (On(m, Toward)' => On(m, Toward))
  BY <1>0, <1>1 DEF HeardInv, On
<1>3. HeardInv'
  <2> SUFFICES ASSUME NEW m \in Messages
               PROVE  /\ heard[m] > 0 => box[m] # "new"
                      /\ heard[m] <= 1 + unrecorded' + wiped
                      /\ inbound'[m] # "delivered" => heard[m] <= unrecorded' + wiped
                      /\ row' = Absent => inbound'[m] # "delivered"
                      /\ ~On(m, {"info"})'
                      /\ On(m, Toward)' => inbound'[m] # "delivered" /\ box[m] = "sent"
                      /\ On(m, Toward)' /\ row' = Absent => heard[m] + 1 <= unrecorded' + wiped
    BY <1>2 DEF HeardInv, On
  <2>1. On(m, {"accepted"}) => unrecorded' = unrecorded + 1
    BY DEF On
  <2>2. unrecorded' \in Nat /\ unrecorded' >= unrecorded /\ heard[m] \in Nat
    BY <1>1
  <2>3. On(m, Toward)' => On(m, Toward \cup {"accepted"})
    BY <1>2 DEF On
  <2>4. ~On(m, {"info"})'
    BY <1>0 DEF On
  <2> QED BY <1>0, <1>1, <1>2, <2>1, <2>2, <2>3, <2>4 DEF HeardInv
<1>4. AckInv'
  BY <1>0, <1>2 DEF AckInv, AckedHeard, On, Settled, Stops, At
<1> QED BY <1>3, <1>4

\* The messages, when the connection goes on with one.
LEMMA SocketTurns ==
  ASSUME DeliveryInv, NEW v, Sets("socket", v), v.m \in Messages \cup {NoMessage},
         UNCHANGED <<heard, box, inbound, mode, source, unrecorded, wiped>>, passed \subseteq passed',
         row' = Absent => row = Absent, task["socket"].pc # "accepted", v.pc # "accepted",
         v.pc \in Toward => \/ task["socket"].pc \in Toward /\ v.m = task["socket"].m
                            \/ inbound[v.m] # "delivered" /\ box[v.m] = "sent" /\ row' # Absent,
         v.pc = "ack" => Settled(v.m)', v.pc = "cancel" => Stops(v.m),
         v.pc = "info" => mode = "thread" /\ box[v.m] = "sent"
  PROVE  HeardInv' /\ AckInv'
<1>0. DeliveryTypes /\ HeardInv /\ AckInv /\ task'["socket"] = v
  BY TasksTyped, Settling DEF DeliveryInv
<1>1. ASSUME NEW m \in Messages, On(m, Toward)'
      PROVE  \/ On(m, Toward)
             \/ inbound[m] # "delivered" /\ box[m] = "sent" /\ row' # Absent
  BY <1>0, <1>1 DEF On
<1>2. \A m \in Messages : ~On(m, {"accepted"})' /\ ~On(m, {"accepted"})
  BY <1>0 DEF On
<1>3. HeardInv'
  <2> SUFFICES ASSUME NEW m \in Messages
               PROVE  /\ heard[m] > 0 => box[m] # "new"
                      /\ heard[m] <= 1 + unrecorded + wiped
                      /\ inbound[m] # "delivered" => heard[m] <= unrecorded + wiped
                      /\ row' = Absent => inbound[m] # "delivered"
                      /\ On(m, {"info"})' => box[m] = "sent"
                      /\ On(m, Toward)' => inbound[m] # "delivered" /\ box[m] = "sent"
                      /\ On(m, Toward)' /\ row' = Absent => heard[m] + 1 <= unrecorded + wiped
    BY <1>2 DEF HeardInv, On
  <2>1. On(m, Toward) => On(m, Toward \cup {"accepted"})
    BY DEF On
  <2>2. On(m, {"info"})' => box[m] = "sent"
    BY <1>0 DEF On
  <2> QED BY <1>0, <1>1, <1>2, <2>1, <2>2 DEF HeardInv
<1>4. AckInv'
  <2>1. \A m \in Messages : Settled(m) => Settled(m)'
    BY DEF Settled, Stops
  <2>2. AckedHeard'
    BY <1>0, <2>1 DEF AckInv, AckedHeard, Stops, Settled
  <2>3. \A m \in Messages : (On(m, {"ack"})' => Settled(m)') /\ (On(m, {"cancel"})' => Stops(m)')
    BY <1>0 DEF On, Stops
  <2>4. At("socket", "info")' => mode' = "thread"
    BY <1>0 DEF At
  <2> QED BY <1>2, <2>2, <2>3, <2>4 DEF AckInv
<1> QED BY <1>3, <1>4

Kept == /\ DeliveryTypes' /\ (\A t \in Tasks : Placed(t)') /\ SessionsInv' /\ BoundLive'
        /\ HeardInv' /\ AckInv'

-----------------------------------------------------------------------------
\* One lemma per action.

LEMMA SendKeeps ==
  ASSUME DeliveryInv, NEW m \in Messages, Send(m)
  PROVE  Kept
<1>0. DeliveryTypes /\ UNCHANGED <<task, row, agent, projected, cut, heard, inbound, unrecorded, wiped, passed, mode, source>>
      /\ box[m] = "new" /\ box' = [box EXCEPT ![m] = "sent"]
  BY TasksTyped DEF Send, store, history
<1>1. DeliveryTypes' /\ \A t \in Tasks : Placed(t)'
  BY <1>0, TasksTyped DEF DeliveryTypes, Placed
<1>2. SessionsInv' /\ BoundLive'
  BY <1>0 DEF DeliveryInv, SessionsInv, BoundLive, Known, Fresh, At, Halfway
<1>3. \A n \in Messages : (n # m => box'[n] = box[n]) /\ box'[m] = "sent"
  BY <1>0 DEF DeliveryTypes
<1>4. HeardInv'
  BY <1>0, <1>3 DEF DeliveryInv, HeardInv, On
<1>5. AckInv'
  BY <1>0, <1>3 DEF DeliveryInv, AckInv, AckedHeard, On, Settled, Stops, At
<1> QED BY <1>1, <1>2, <1>4, <1>5 DEF Kept

LEMMA ConnectKeeps == ASSUME DeliveryInv, Connect PROVE Kept
<1>0. /\ DeliveryTypes /\ Sets("socket", Idle) /\ task["socket"].pc = "down"
      /\ UNCHANGED <<mode, source, box, row, inbound, agent, projected, heard, passed, unrecorded, wiped, cut>>
  BY TasksTyped, IdleTyped DEF Connect, Sets, store, history, At
<1>1. DeliveryTypes'
  BY <1>0, Settling, TasksTyped DEF DeliveryTypes
<1>2. (\A t \in Tasks : Placed(t)') /\ SessionsInv' /\ BoundLive'
  BY <1>0, IdleTyped, TasksTyped, PlacedOn, SessionsOn, BoundOn DEF Carrying, Removing
<1>3. HeardInv' /\ AckInv'
  BY <1>0, IdleTyped, SocketHears DEF Toward
<1> QED BY <1>1, <1>2, <1>3 DEF Kept

LEMMA ReceiveKeeps ==
  ASSUME DeliveryInv, NEW m \in Messages, Receive(m)
  PROVE  Kept
<1> PICK pc \in {"ack", "info"} : pc = IF Ignored(m) THEN "ack" ELSE "info"
  OBVIOUS
<1> PICK v : v = [pc |-> pc, m |-> m, id |-> Unbound]
  OBVIOUS
<1>1. v \in TaskSet /\ v.m = m /\ v.id = Unbound /\ v.pc = pc
  <2>1. pc \in Pcs
    BY DEF Pcs
  <2> QED BY <2>1 DEF TaskSet
<1>2. /\ DeliveryTypes /\ Sets("socket", v) /\ mode = "thread" /\ box[m] = "sent" /\ task["socket"].pc = "rest"
      /\ passed' = (IF Ignored(m) THEN passed \union {m} ELSE passed)
      /\ row' = (IF row = Absent /\ ~Ignored(m) THEN Unbound ELSE row)
      /\ UNCHANGED <<mode, source, box, inbound, agent, projected, heard, unrecorded, wiped, cut>>
  BY <1>1, TasksTyped DEF Receive, Sets, At
<1>3. DeliveryTypes'
  BY <1>2, Settling, TasksTyped DEF DeliveryTypes
<1>4. \A t \in Tasks : Placed(t)'
  BY <1>1, <1>2, TasksTyped, PlacedOn DEF Carrying, Removing
<1>5. HeardInv' /\ AckInv'
  <2>1. v.pc = "ack" => Settled(v.m)'
    BY <1>1, <1>2 DEF Settled
  <2>2. v.pc \notin Toward /\ passed \subseteq passed' /\ (row' = Absent => row = Absent)
    BY <1>1, <1>2 DEF Toward
  <2> QED BY <1>1, <1>2, <2>1, <2>2, SocketTurns
<1>6. BoundLive' /\ SessionsInv'
  BY <1>1, <1>2, TasksTyped, BoundOn, SessionsOn
<1> QED BY <1>3, <1>4, <1>5, <1>6 DEF Kept

LEMMA ObserveKeeps ==
  ASSUME DeliveryInv, NEW m \in Messages, Observe(m)
  PROVE  Kept
<1> PICK found : found = IF row = Absent THEN Unbound ELSE row
  OBVIOUS
<1> PICK known \in BOOLEAN : known <=> inbound[m] = "delivered"
  OBVIOUS
<1>0. DeliveryTypes /\ found \in 0..MaxAgents
  BY TasksTyped DEF DeliveryTypes
<1> PICK pc \in {"ack", "create", "follow"} : pc = IF known THEN "ack" ELSE Bound(found)
  BY DEF Bound
<1> PICK v : v = [pc |-> pc, m |-> m, id |-> found]
  OBVIOUS
<1>1. v \in TaskSet /\ v.m = m /\ v.id = found /\ v.pc = pc
  <2>1. pc \in Pcs
    BY DEF Pcs
  <2> QED BY <1>0, <2>1 DEF TaskSet
<1>2. /\ Sets("socket", v) /\ mode = "proactive" /\ task["socket"].pc = "rest" /\ box[m] = "sent"
      /\ row' = (IF known THEN row ELSE found)
      /\ UNCHANGED <<mode, source, box, inbound, agent, projected, heard, passed, unrecorded, wiped, cut>>
  BY <1>1, TasksTyped DEF Observe, Sets, At, history
<1>3. DeliveryTypes' /\ row' \in {row, Unbound} /\ v.id \in {row, Unbound}
  BY <1>0, <1>1, <1>2, Settling, TasksTyped DEF DeliveryTypes
<1>4. \A t \in Tasks : Placed(t)'
  BY <1>0, <1>1, <1>2, TasksTyped, PlacedOn DEF Carrying, Removing, Bound
<1>5. HeardInv' /\ AckInv'
  <2>1. known => Settled(v.m)'
    <3>1. known => heard[m] > 0
      BY DEF DeliveryInv, AckInv, AckedHeard
    <3> QED BY <1>1, <1>2, <3>1 DEF Settled
  <2>2. (v.pc = "ack" => known) /\ (known => v.pc \notin Toward)
    BY <1>1 DEF Bound, Toward
  <2>3. v.pc \notin {"accepted", "cancel", "info"} /\ (row' = Absent => row = Absent)
        /\ (~known => row' # Absent) /\ (~known => inbound[m] # "delivered")
    BY <1>0, <1>1, <1>2 DEF Bound
  <2> QED BY <1>1, <1>2, <2>1, <2>2, <2>3, SocketTurns, TasksTyped
<1>6. BoundLive' /\ SessionsInv'
  BY <1>1, <1>2, <1>3, TasksTyped, BoundOn, SessionsOn DEF Bound
<1> QED BY <1>3, <1>4, <1>5, <1>6 DEF Kept

LEMMA LookKeeps == ASSUME DeliveryInv, Look PROVE Kept
<1> PICK m : m = task["socket"].m
  OBVIOUS
<1>0. /\ DeliveryTypes /\ task["socket"].pc = "info" /\ m \in Messages /\ mode = "thread"
      /\ UNCHANGED <<mode, source, box, row, inbound, agent, projected, heard, passed, unrecorded, wiped, cut>>
  BY TasksTyped DEF Look, At, store, history, DeliveryInv, AckInv, Placed
<1>1. PICK v : /\ Sets("socket", v)
               /\ \/ v.pc = "down" /\ v.id = Unbound
                  \/ /\ v.m = m /\ v.id = row /\ row # Absent
                     /\ \/ v.pc \in {"ack", "cancel"} /\ source[m] = "stop"
                        \/ v.pc = "ack" /\ inbound[m] = "delivered"
                        \/ v.pc = Bound(row) /\ inbound[m] # "delivered"
  <2>1. CASE row = Absent
    <3>1. Sets("socket", Down)
      BY <2>1, IdleTyped DEF Look, Sets
    <3> QED BY <3>1, IdleTyped
  <2>2. CASE row # Absent
    <3>0. row \in 0..MaxAgents
      BY <1>0, <2>2 DEF DeliveryTypes
    <3>1. PICK pc \in {"ack", "cancel", "create", "follow"} :
            /\ Holding("socket", pc, row)
            /\ \/ pc \in {"ack", "cancel"} /\ source[m] = "stop"
               \/ pc = "ack" /\ inbound[m] = "delivered"
               \/ pc = Bound(row) /\ inbound[m] # "delivered"
      BY <2>2 DEF Look, Bound
    <3>2. pc \in Pcs
      BY DEF Pcs
    <3> QED BY <2>2, <3>0, <3>1, <3>2, Moved, TasksTyped
  <2> QED BY <2>1, <2>2
<1>2. v \in TaskSet /\ v.m \in Messages \cup {NoMessage}
  BY <1>1 DEF Sets, TaskSet
<1>3. DeliveryTypes' /\ v.id \in {row, Unbound} /\ v.pc \notin {"created", "accepted", "info"}
  BY <1>0, <1>1, Settling, TasksTyped DEF DeliveryTypes, Bound
<1>4. \A t \in Tasks : Placed(t)'
  BY <1>0, <1>1, TasksTyped, PlacedOn DEF Carrying, Removing, Bound, DeliveryTypes
<1>5. BoundLive' /\ SessionsInv'
  BY <1>0, <1>1, <1>3, TasksTyped, BoundOn, SessionsOn
<1>6. box[m] = "sent"
  BY <1>0 DEF DeliveryInv, HeardInv, On
<1>7. HeardInv' /\ AckInv'
  <2>1. v.pc = "ack" => Settled(v.m)'
    <3>1. inbound[m] = "delivered" => heard[m] > 0
      BY <1>0 DEF DeliveryInv, AckInv, AckedHeard
    <3>2. source[m] = "stop" => Stops(m)
      BY <1>0 DEF Stops
    <3> QED BY <1>0, <1>1, <3>1, <3>2 DEF Settled, Stops, Bound
  <2>2. v.pc = "cancel" => Stops(v.m)
    BY <1>0, <1>1 DEF Stops, Bound
  <2>3. v.pc \in Toward => inbound[v.m] # "delivered" /\ box[v.m] = "sent" /\ row # Absent
    BY <1>1, <1>6 DEF Toward, Bound
  <2> QED BY <1>0, <1>1, <1>2, <1>3, <2>1, <2>2, <2>3, SocketTurns
<1> QED BY <1>3, <1>4, <1>5, <1>7 DEF Kept

LEMMA CancelAnsweredKeeps == ASSUME DeliveryInv, CancelAnswered PROVE Kept
<1> PICK m : m = task["socket"].m
  OBVIOUS
<1>0. /\ DeliveryTypes /\ task["socket"].pc = "cancel" /\ m \in Messages /\ Goto("socket", "ack")
      /\ UNCHANGED <<mode, source, box, row, inbound, agent, projected, heard, passed, unrecorded, wiped, cut>>
  BY TasksTyped DEF CancelAnswered, At, store, history, Placed
<1>1. PICK v : Sets("socket", v) /\ v.pc = "ack" /\ v.m = m /\ v.id = task["socket"].id
  BY <1>0, Gone, TasksTyped DEF Pcs
<1>2. DeliveryTypes'
  BY <1>0, <1>1, Settling, TasksTyped DEF DeliveryTypes
<1>3. (\A t \in Tasks : Placed(t)') /\ BoundLive' /\ SessionsInv'
  BY <1>0, <1>1, TasksTyped, PlacedOn, BoundOn, SessionsOn DEF Carrying, Removing
<1>4. HeardInv' /\ AckInv'
  <2>1. Stops(m)
    BY <1>0 DEF DeliveryInv, AckInv, On
  <2>2. Settled(v.m)'
    BY <1>0, <1>1, <2>1 DEF Settled, Stops
  <2> QED BY <1>0, <1>1, <2>2, SocketTurns DEF Toward
<1> QED BY <1>2, <1>3, <1>4 DEF Kept

LEMMA AcknowledgeKeeps == ASSUME DeliveryInv, Acknowledge PROVE Kept
<1> PICK m : m = task["socket"].m
  OBVIOUS
<1>0. /\ DeliveryTypes /\ task["socket"].pc = "ack" /\ m \in Messages /\ Sets("socket", Idle)
      /\ box' = [box EXCEPT ![m] = "acked"]
      /\ UNCHANGED <<mode, source, row, inbound, agent, projected, heard, passed, unrecorded, wiped, cut>>
  BY TasksTyped, IdleTyped DEF Acknowledge, At, store, history, Placed, Sets
<1>1. DeliveryTypes'
  BY <1>0, Settling, TasksTyped DEF DeliveryTypes
<1>2. (\A t \in Tasks : Placed(t)') /\ BoundLive' /\ SessionsInv'
  BY <1>0, IdleTyped, TasksTyped, PlacedOn, BoundOn, SessionsOn DEF Carrying, Removing
<1>3. /\ task'["socket"].pc = "rest" /\ Settled(m) /\ HeardInv /\ AckInv
      /\ \A n \in Messages : box'[n] = IF n = m THEN "acked" ELSE box[n]
  BY <1>0, IdleTyped, Settling, TasksTyped DEF DeliveryInv, AckInv, On, DeliveryTypes
<1>4. HeardInv'
  BY <1>0, <1>3 DEF HeardInv, On, Toward
<1>5. AckInv'
  BY <1>0, <1>3 DEF AckInv, AckedHeard, On, Settled, Stops, At
<1> QED BY <1>1, <1>2, <1>4, <1>5 DEF Kept

LEMMA BeginKeeps == ASSUME DeliveryInv, NEW t \in Tasks, Begin(t) PROVE Kept
<1>0. /\ DeliveryTypes /\ t # "socket" /\ task[t].pc = "rest" /\ row \in {Unbound} \cup Agents
      /\ UNCHANGED <<mode, source, box, row, inbound, agent, projected, heard, passed, unrecorded, wiped, cut>>
  BY TasksTyped DEF Begin, At, store, history, DeliveryTypes
<1> PICK pc \in {"create", "follow", "remove", "unfollow", "clear"} :
      pc = CASE t = "job" -> Bound(row)
             [] t # "job" /\ row # Unbound -> "remove"
             [] t # "job" /\ row = Unbound -> Unbinding(t)
  BY DEF Bound, Unbinding
<1>1. PICK v : Sets(t, v) /\ v.pc = pc /\ v.id = row
  <2>1. pc \in Pcs
    BY DEF Pcs
  <2>2. Holding(t, pc, row)
    BY DEF Begin
  <2> QED BY <1>0, <2>1, <2>2, Moved
<1>2. DeliveryTypes'
  BY <1>0, <1>1, Settling, TasksTyped DEF DeliveryTypes
<1>3. \A u \in Tasks : Placed(u)'
  <2>1. v.pc \in Removing => t \in {"reset", "delete"}
    BY <1>0, <1>1 DEF Removing, Bound
  <2>2. v.pc \in Carrying => v.id \in Agents
    BY <1>0, <1>1 DEF Carrying, Bound, Unbinding
  <2>3. t = "delete" /\ v.pc = "unfollow" => v.id = Unbound
    BY <1>0, <1>1 DEF Unbinding
  <2> QED BY <1>0, <1>1, <2>1, <2>2, <2>3, PlacedOn
<1>4. BoundLive' /\ SessionsInv'
  BY <1>0, <1>1, TasksTyped, BoundOn, SessionsOn DEF Removing
<1>5. HeardInv' /\ AckInv'
  BY <1>0, <1>1, Settling, TasksTyped, OthersHear
<1> QED BY <1>2, <1>3, <1>4, <1>5 DEF Kept

LEMMA RemovedKeeps == ASSUME DeliveryInv, NEW t \in Tasks, Removed(t) PROVE Kept
<1>0. /\ DeliveryTypes /\ task[t].pc = "removed" /\ t \in {"reset", "delete"} /\ task[t].id \in Agents
      /\ Goto(t, Unbinding(t))
      /\ UNCHANGED <<mode, source, box, row, inbound, agent, projected, heard, passed, unrecorded, wiped, cut>>
  BY TasksTyped DEF Removed, At, store, history, Placed, Removing, Carrying
<1>1. PICK v : Sets(t, v) /\ v.pc = Unbinding(t) /\ v.id = task[t].id
  <2>1. Unbinding(t) \in Pcs
    BY DEF Pcs, Unbinding
  <2> QED BY <1>0, <2>1, Gone
<1>2. DeliveryTypes'
  BY <1>0, <1>1, Settling, TasksTyped DEF DeliveryTypes
<1>3. (\A u \in Tasks : Placed(u)') /\ BoundLive' /\ SessionsInv'
  <2>1. v.pc \in {"unfollow", "clear"} /\ v.pc \notin Carrying /\ ~(t = "delete" /\ v.pc = "unfollow")
    BY <1>0, <1>1 DEF Unbinding, Carrying
  <2> QED BY <1>0, <1>1, <2>1, TasksTyped, PlacedOn, BoundOn, SessionsOn
<1>4. HeardInv' /\ AckInv'
  BY <1>0, <1>1, Settling, TasksTyped, OthersHear
<1> QED BY <1>2, <1>3, <1>4 DEF Kept

LEMMA UnfollowKeeps == ASSUME DeliveryInv, NEW t \in Tasks, Unfollow(t) PROVE Kept
<1>0. /\ DeliveryTypes /\ task[t].pc = "unfollow" /\ t \in {"reset", "delete"} /\ projected' = 0
      /\ t = "delete" => task[t].id = Unbound
      /\ task' = [task EXCEPT ![t] = IF t = "reset" THEN [@ EXCEPT !.pc = "clear"] ELSE Idle]
      /\ UNCHANGED <<mode, source, box, row, inbound, agent, heard, passed, unrecorded, wiped, cut>>
  BY TasksTyped DEF Unfollow, At, store, history, Placed, Removing
<1>1. PICK v : /\ Sets(t, v) /\ v.id \in {Unbound, task[t].id} /\ v.pc \in {"rest", "clear"}
               /\ t = "reset" => v.pc = "clear" /\ v.id = task[t].id
  <2>1. CASE t = "reset"
    <3>1. Goto(t, "clear")
      BY <1>0, <2>1, TasksTyped DEF Goto, DeliveryTypes
    <3> QED BY <2>1, <3>1, Gone DEF Pcs
  <2>2. CASE t = "delete"
    <3>1. Sets(t, Idle)
      BY <1>0, <2>2, IdleTyped DEF Sets
    <3> QED BY <2>2, <3>1, IdleTyped
  <2> QED BY <1>0, <2>1, <2>2
<1>2. DeliveryTypes'
  BY <1>0, <1>1, Settling, TasksTyped DEF DeliveryTypes
<1>3. (\A u \in Tasks : Placed(u)') /\ BoundLive' /\ SessionsInv'
  BY <1>0, <1>1, TasksTyped, PlacedOn, BoundOn, SessionsOn DEF Carrying
<1>4. HeardInv' /\ AckInv'
  BY <1>0, <1>1, Settling, TasksTyped, OthersHear
<1> QED BY <1>2, <1>3, <1>4 DEF Kept

LEMMA FollowKeeps == ASSUME DeliveryInv, NEW t \in Tasks, Follow(t) PROVE Kept
<1>0. /\ DeliveryTypes /\ task[t].pc = "follow" /\ task[t].id \in Agents /\ Goto(t, "append")
      /\ projected' \in {projected, task[t].id}
      /\ UNCHANGED <<mode, source, box, row, inbound, agent, heard, passed, unrecorded, wiped, cut>>
  BY TasksTyped DEF Follow, At, store, history, Placed, Carrying
<1>1. PICK v : Sets(t, v) /\ v.pc = "append" /\ v.m = task[t].m /\ v.id = task[t].id
  BY <1>0, Gone DEF Pcs
<1>2. DeliveryTypes'
  BY <1>0, <1>1, Settling, TasksTyped DEF DeliveryTypes
<1>3. (\A u \in Tasks : Placed(u)') /\ BoundLive' /\ SessionsInv'
  <2>1. t = "socket" => v.m \in Messages
    BY <1>0, <1>1, TasksTyped DEF Placed
  <2> QED BY <1>0, <1>1, <2>1, TasksTyped, PlacedOn, BoundOn, SessionsOn DEF Removing
<1>4. HeardInv' /\ AckInv'
  <2>1. CASE t # "socket"
    BY <1>0, <1>1, <2>1, Settling, TasksTyped, OthersHear
  <2>2. CASE t = "socket"
    BY <1>0, <1>1, <2>2, TasksTyped, SocketTurns DEF Toward
  <2> QED BY <2>1, <2>2
<1> QED BY <1>2, <1>3, <1>4 DEF Kept

LEMMA AgentDeletesKeeps == ASSUME DeliveryInv, NEW t \in Tasks, AgentDeletes(t) PROVE Kept
<1> PICK a : a = task[t].id
  OBVIOUS
<1>0. /\ DeliveryTypes /\ task[t].pc = "remove" /\ t \in {"reset", "delete"} /\ a \in Agents
      /\ Goto(t, "removed") /\ agent' = [agent EXCEPT ![a] = "deleted"]
      /\ UNCHANGED <<mode, source, box, row, inbound, projected, heard, passed, unrecorded, wiped, cut>>
  BY TasksTyped DEF AgentDeletes, At, store, history, Placed, Removing, Carrying
<1>1. PICK v : Sets(t, v) /\ v.pc = "removed" /\ v.id = a
  BY <1>0, Gone DEF Pcs
<1>2. DeliveryTypes' /\ \A b \in Agents : agent'[b] = IF b = a THEN "deleted" ELSE agent[b]
  BY <1>0, <1>1, Settling, TasksTyped DEF DeliveryTypes
<1>3. \A u \in Tasks : Placed(u)'
  BY <1>0, <1>1, TasksTyped, PlacedOn
<1>4. BoundLive'
  <2>1. Halfway(t)'
    BY <1>1, Settling DEF Halfway
  <2> QED BY <2>1 DEF BoundLive
<1>5. SessionsInv'
  <2>1. \A b \in Agents : Known(b)' => Known(b)
    BY <1>0, <1>1, Settling DEF Known
  <2>2. ASSUME NEW u \in Tasks, At(u, "created")' PROVE Fresh(u)'
    <3>1. u # t /\ task'[u] = task[u] /\ task'[t] = v
      BY <1>1, <2>2, Settling DEF At
    <3>2. Fresh(u) /\ task[u].id \in Agents
      BY <2>2, <3>1, TasksTyped DEF DeliveryInv, SessionsInv, At, Placed, Carrying
    <3>3. a # task[u].id
      BY <3>1, <3>2 DEF Fresh
    <3>4. \A w \in Tasks \ {u} : task'[w].id # task[u].id
      BY <1>1, <3>1, <3>2, <3>3, Settling DEF Fresh
    <3> QED BY <1>0, <1>2, <3>1, <3>2, <3>3, <3>4 DEF Fresh
  <2> QED BY <1>2, <2>1, <2>2 DEF DeliveryInv, SessionsInv
<1>6. HeardInv' /\ AckInv'
  BY <1>0, <1>1, Settling, TasksTyped, OthersHear
<1> QED BY <1>2, <1>3, <1>4, <1>5, <1>6 DEF Kept

LEMMA ClearKeeps == ASSUME DeliveryInv, NEW t \in Tasks, Clear(t) PROVE Kept
<1>0. /\ DeliveryTypes /\ task[t].pc = "clear" /\ t \in {"reset", "delete"}
      /\ UNCHANGED <<mode, source, box, agent, projected, heard, passed, unrecorded, cut>>
  BY TasksTyped DEF Clear, At, Placed, Removing
<1>1. PICK v : /\ Sets(t, v) /\ v.id = Unbound /\ v.pc \in {"rest", "create", "unfollow"}
               /\ v.pc = "unfollow" => t = "delete"
  <2> DEFINE w == [Idle EXCEPT !.pc = IF t = "reset" THEN "create" ELSE "unfollow"]
  <2>1. w \in TaskSet /\ w.id = Unbound /\ w.pc = IF t = "reset" THEN "create" ELSE "unfollow"
    BY DEF Idle, TaskSet, Pcs
  <2>2. task' = [task EXCEPT ![t] = Idle] \/ task' = [task EXCEPT ![t] = w]
    BY <1>0 DEF Clear
  <2> HIDE DEF w
  <2>3. CASE task' = [task EXCEPT ![t] = Idle]
    BY <2>3, IdleTyped DEF Sets
  <2>4. CASE task' = [task EXCEPT ![t] = w]
    <3>1. Sets(t, w) /\ w.id = Unbound
      BY <2>1, <2>4 DEF Sets
    <3>2. w.pc \in {"rest", "create", "unfollow"} /\ (w.pc = "unfollow" => t = "delete")
      BY <1>0, <2>1
    <3> QED BY <3>1, <3>2
  <2> QED BY <2>2, <2>3, <2>4
<1>2. \/ row = Absent /\ UNCHANGED <<row, inbound, wiped>>
      \/ row # Absent /\ row' = Unbound /\ UNCHANGED <<inbound, wiped>>
      \/ row # Absent /\ row' = Absent /\ inbound' = [m \in Messages |-> "none"] /\ wiped' = wiped + 1
      \/ row = Absent /\ row' = Absent /\ inbound' = [m \in Messages |-> "none"] /\ UNCHANGED wiped
  BY DEF Clear
<1>3. DeliveryTypes'
  BY <1>0, <1>1, <1>2, Settling, TasksTyped DEF DeliveryTypes
<1>4. \A u \in Tasks : Placed(u)'
  BY <1>0, <1>1, TasksTyped, PlacedOn DEF Carrying, Removing
<1>5. SessionsInv'
  BY <1>0, <1>1, <1>2, SessionsOn
<1>6. BoundLive'
  <2>1. row' \notin Agents
    BY <1>2
  <2> QED BY <2>1 DEF BoundLive
<1>7. task'["socket"] = task["socket"]
  BY <1>0, <1>1, Settling, TasksTyped
<1>8. ASSUME UNCHANGED <<inbound, wiped>> PROVE HeardInv' /\ AckInv'
  <2>1. wiped + 1 # wiped
    BY <1>0 DEF DeliveryTypes
  <2>2. row' = Absent => row = Absent
    BY <1>2, <1>8, <2>1
  <2> QED BY <1>0, <1>7, <1>8, <2>2, OthersHear
<1>9. ASSUME row' = Absent, inbound' = [m \in Messages |-> "none"], wiped' \in {wiped, wiped + 1},
             wiped' = wiped => row = Absent
      PROVE  HeardInv' /\ AckInv'
  <2>0. HeardInv /\ AckInv /\ unrecorded \in Nat /\ wiped \in Nat /\ heard \in [Messages -> Nat]
    BY <1>0 DEF DeliveryInv, DeliveryTypes
  <2>1. HeardInv'
    <3> SUFFICES ASSUME NEW m \in Messages
                 PROVE  /\ heard[m] > 0 => box[m] # "new"
                        /\ heard[m] <= unrecorded + wiped'
                        /\ On(m, {"info"}) => box[m] = "sent"
                        /\ On(m, Toward \cup {"accepted"}) => box[m] = "sent"
                        /\ On(m, Toward) => heard[m] + 1 <= unrecorded + wiped'
      <4>1. \A m \in Messages : heard[m] <= unrecorded + wiped' => heard[m] <= 1 + unrecorded + wiped'
        BY <1>9, <2>0
      <4> QED BY <1>0, <1>7, <1>9, <4>1 DEF HeardInv, On
    <3>1. On(m, Toward) => ~On(m, {"accepted"}) /\ On(m, Toward \cup {"accepted"})
      BY DEF On, Toward
    <3>2. CASE wiped' = wiped + 1
      BY <2>0, <3>1, <3>2 DEF HeardInv
    <3>3. CASE wiped' = wiped /\ row = Absent
      BY <2>0, <3>1, <3>3 DEF HeardInv
    <3> QED BY <1>9, <3>2, <3>3
  <2>2. AckInv'
    BY <1>0, <1>7, <1>9, <2>0 DEF AckInv, AckedHeard, On, Settled, Stops, At
  <2> QED BY <2>1, <2>2
<1>10. HeardInv' /\ AckInv'
  <2>1. DeliveryTypes /\ wiped \in Nat
    BY <1>0 DEF DeliveryTypes
  <2> QED BY <1>2, <1>8, <1>9, <2>1
<1> QED BY <1>3, <1>4, <1>5, <1>6, <1>10 DEF Kept

LEMMA AgentCreatesKeeps == ASSUME DeliveryInv, NEW t \in Tasks, AgentCreates(t) PROVE Kept
<1> PICK a \in Agents : /\ At(t, "create") /\ agent[a] = "unborn"
                        /\ agent' = [agent EXCEPT ![a] = "live"] /\ Holding(t, "created", a)
                        /\ UNCHANGED <<mode, source, box, store, projected, history>>
  BY DEF AgentCreates
<1>0. /\ DeliveryTypes /\ task[t].pc = "create" /\ ~Known(a) /\ a \in 0..MaxAgents
      /\ UNCHANGED <<mode, source, box, row, inbound, projected, heard, passed, unrecorded, wiped, cut>>
  BY TasksTyped DEF At, store, history, DeliveryInv, SessionsInv
<1>1. PICK v : Sets(t, v) /\ v.pc = "created" /\ v.m = task[t].m /\ v.id = a
  BY <1>0, Moved DEF Pcs
<1>2. DeliveryTypes' /\ \A b \in Agents : agent'[b] = IF b = a THEN "live" ELSE agent[b]
  BY <1>0, <1>1, Settling, TasksTyped DEF DeliveryTypes
<1>3. \A u \in Tasks : Placed(u)'
  <2>1. t = "socket" => v.m \in Messages
    BY <1>0, <1>1, TasksTyped DEF Placed
  <2> QED BY <1>1, <2>1, PlacedOn DEF Removing
<1>4. BoundLive'
  <2>1. \A u \in Tasks : Halfway(u) => Halfway(u)'
    BY <1>0, <1>1, Settling DEF Halfway
  <2> QED BY <1>0, <1>2, <2>1 DEF DeliveryInv, BoundLive
<1>5. SessionsInv'
  <2>1. ASSUME NEW b \in Agents, agent'[b] = "unborn" PROVE ~Known(b)'
    <3>1. b # a /\ ~Known(b)
      BY <1>2, <2>1 DEF DeliveryInv, SessionsInv
    <3> QED BY <1>0, <1>1, <3>1, Settling DEF Known
  <2>2. Fresh(t)'
    <3>1. task'[t] = v /\ \A w \in Tasks \ {t} : task'[w].id # a
      BY <1>0, <1>1, Settling DEF Known
    <3> QED BY <1>0, <1>1, <1>2, <3>1 DEF Fresh, Known
  <2>3. ASSUME NEW u \in Tasks, u # t, At(u, "created")' PROVE Fresh(u)'
    <3>1. task'[u] = task[u] /\ task'[t] = v
      BY <1>1, <2>3, Settling
    <3>2. Fresh(u) /\ task[u].id \in Agents
      BY <2>3, <3>1, TasksTyped DEF DeliveryInv, SessionsInv, At, Placed, Carrying
    <3>3. a # task[u].id
      BY <1>0 DEF Known
    <3>4. \A w \in Tasks \ {u} : task'[w].id # task[u].id
      BY <1>1, <3>1, <3>2, <3>3, Settling DEF Fresh
    <3> QED BY <1>0, <1>2, <3>1, <3>2, <3>3, <3>4 DEF Fresh
  <2> QED BY <2>1, <2>2, <2>3 DEF SessionsInv
<1>6. HeardInv' /\ AckInv'
  <2>1. CASE t # "socket"
    BY <1>0, <1>1, <2>1, Settling, TasksTyped, OthersHear
  <2>2. CASE t = "socket"
    BY <1>0, <1>1, <2>2, TasksTyped, SocketTurns DEF Toward
  <2> QED BY <2>1, <2>2
<1> QED BY <1>2, <1>3, <1>4, <1>5, <1>6 DEF Kept

LEMMA PersistKeeps == ASSUME DeliveryInv, NEW t \in Tasks, Persist(t) PROVE Kept
<1> PICK a : a = task[t].id
  OBVIOUS
<1>0. /\ DeliveryTypes /\ task[t].pc = "created" /\ a \in Agents /\ Fresh(t) /\ Goto(t, "follow")
      /\ row' = (IF row = Absent THEN Absent ELSE a)
      /\ UNCHANGED <<mode, source, box, inbound, agent, projected, heard, passed, unrecorded, wiped, cut>>
  BY TasksTyped DEF Persist, At, DeliveryInv, SessionsInv, Placed, Carrying
<1>1. PICK v : Sets(t, v) /\ v.pc = "follow" /\ v.m = task[t].m /\ v.id = a
  BY <1>0, Gone DEF Pcs
<1>2. DeliveryTypes'
  BY <1>0, <1>1, Settling, TasksTyped DEF DeliveryTypes
<1>3. \A u \in Tasks : Placed(u)'
  <2>1. t = "socket" => v.m \in Messages
    BY <1>0, <1>1, TasksTyped DEF Placed
  <2> QED BY <1>0, <1>1, <2>1, PlacedOn DEF Removing
<1>4. BoundLive'
  BY <1>0 DEF BoundLive, Fresh
<1>5. SessionsInv'
  <2>1. \A b \in Agents : Known(b)' => Known(b)
    BY <1>0, <1>1, Settling DEF Known
  <2>2. ASSUME NEW u \in Tasks, At(u, "created")' PROVE Fresh(u)'
    <3>1. u # t /\ task'[u] = task[u] /\ task'[t] = v
      BY <1>1, <2>2, Settling DEF At
    <3>2. Fresh(u) /\ task[u].id \in Agents
      BY <2>2, <3>1, TasksTyped DEF DeliveryInv, SessionsInv, At, Placed, Carrying
    <3>3. a # task[u].id
      BY <3>1, <3>2 DEF Fresh
    <3>4. \A w \in Tasks \ {u} : task'[w].id # task[u].id
      BY <1>1, <3>1, <3>2, <3>3, Settling DEF Fresh
    <3> QED BY <1>0, <3>1, <3>2, <3>3, <3>4 DEF Fresh
  <2> QED BY <1>0, <2>1, <2>2 DEF DeliveryInv, SessionsInv
<1>6. HeardInv' /\ AckInv'
  <2>0. row' = Absent => row = Absent
    BY <1>0
  <2>1. CASE t # "socket"
    BY <1>0, <1>1, <2>0, <2>1, Settling, TasksTyped, OthersHear
  <2>2. CASE t = "socket"
    BY <1>0, <1>1, <2>0, <2>2, TasksTyped, SocketTurns DEF Toward
  <2> QED BY <2>1, <2>2
<1> QED BY <1>2, <1>3, <1>4, <1>5, <1>6 DEF Kept

LEMMA AgentAcceptsKeeps == ASSUME DeliveryInv, NEW t \in Tasks, AgentAccepts(t) PROVE Kept
<1> PICK m : m = task[t].m
  OBVIOUS
<1>0. /\ DeliveryTypes /\ task[t].pc = "append" /\ Goto(t, "accepted") /\ task[t].id \in Agents
      /\ heard' = IF t = "socket" THEN [heard EXCEPT ![m] = @ + 1] ELSE heard
      /\ UNCHANGED <<mode, source, box, row, inbound, agent, projected, passed, unrecorded, wiped, cut>>
      /\ t = "socket" => m \in Messages
  BY TasksTyped DEF AgentAccepts, At, store, Placed, Carrying
<1>1. PICK v : Sets(t, v) /\ v.pc = "accepted" /\ v.m = m /\ v.id = task[t].id
  BY <1>0, Gone DEF Pcs
<1>2. DeliveryTypes'
  BY <1>0, <1>1, Settling, TasksTyped DEF DeliveryTypes
<1>3. (\A u \in Tasks : Placed(u)') /\ BoundLive' /\ SessionsInv'
  BY <1>0, <1>1, TasksTyped, PlacedOn, BoundOn, SessionsOn DEF Removing
<1>4. ASSUME t # "socket" PROVE HeardInv' /\ AckInv'
  BY <1>0, <1>1, <1>4, Settling, TasksTyped, OthersHear
<1>5. ASSUME t = "socket" PROVE HeardInv' /\ AckInv'
  <2>0. /\ HeardInv /\ AckInv /\ unrecorded \in Nat /\ wiped \in Nat /\ heard \in [Messages -> Nat]
        /\ task'["socket"] = v /\ task["socket"].m = m /\ m \in Messages /\ On(m, Toward)
        /\ \A n \in Messages : heard'[n] = IF n = m THEN heard[m] + 1 ELSE heard[n]
    BY <1>0, <1>1, <1>5, Settling DEF DeliveryInv, DeliveryTypes, On, Toward
  <2>1. HeardInv'
    <3>1. On(m, Toward \cup {"accepted"}) /\ ~On(m, {"accepted"})
      BY <1>0, <1>5, <2>0 DEF On
    <3>2. /\ inbound[m] # "delivered" /\ box[m] = "sent" /\ heard[m] <= unrecorded + wiped
          /\ row = Absent => heard[m] + 1 <= unrecorded + wiped
      BY <2>0, <3>1 DEF HeardInv
    <3>3. \A n \in Messages : /\ On(n, {"accepted"})' <=> n = m
                              /\ ~On(n, {"info"})' /\ ~On(n, Toward)'
                              /\ On(n, Toward \cup {"accepted"})' => n = m
                              /\ n # m => ~On(n, {"accepted"})
      BY <1>1, <2>0 DEF On, Toward
    <3> SUFFICES ASSUME NEW n \in Messages
                 PROVE  /\ heard'[n] > 0 => box[n] # "new"
                        /\ heard'[n] <= 1 + unrecorded + wiped
                        /\ inbound[n] # "delivered" /\ n # m => heard'[n] <= unrecorded + wiped
                        /\ row = Absent => inbound[n] # "delivered"
                        /\ n = m => inbound[n] # "delivered" /\ box[n] = "sent"
                        /\ n = m /\ row = Absent => heard'[n] <= unrecorded + wiped
      BY <1>0, <3>3 DEF HeardInv
    <3>4. CASE n = m
      BY <2>0, <3>2, <3>4
    <3>5. CASE n # m
      BY <2>0, <3>3, <3>5 DEF HeardInv
    <3> QED BY <3>4, <3>5
  <2>2. AckInv'
    <3>1. \A n \in Messages : heard[n] > 0 => heard'[n] > 0
      BY <2>0
    <3>2. heard'[m] > 0
      BY <2>0
    <3>3. AckedHeard'
      BY <1>0, <2>0, <3>1 DEF AckInv, AckedHeard, Stops
    <3>4. \A n \in Messages : /\ On(n, {"accepted"})' => n = m
                              /\ ~On(n, {"ack"})' /\ ~On(n, {"cancel"})' /\ ~At("socket", "info")'
      BY <1>1, <2>0 DEF On, At
    <3> QED BY <2>0, <3>2, <3>3, <3>4 DEF AckInv, At
  <2> QED BY <2>1, <2>2
<1> QED BY <1>2, <1>3, <1>4, <1>5 DEF Kept

\* What a task does when it fails: the connection is opened anew, the others end.
LEMMA FailedTask ==
  ASSUME DeliveryInv, NEW t \in Tasks,
         Failed(t) \/ task' = [task EXCEPT ![t] = IF t = "socket" THEN Down ELSE Idle]
  PROVE  \E v : Sets(t, v) /\ v.id = Unbound /\ v.pc \in {"rest", "down"} /\ (t # "socket" => v.pc = "rest")
<1>1. CASE t = "socket"
  <2>1. Sets(t, Down)
    BY <1>1, IdleTyped DEF Failed, Sets
  <2> QED BY <1>1, <2>1, IdleTyped
<1>2. CASE t # "socket"
  <2>1. Sets(t, Idle)
    BY <1>2, IdleTyped DEF Failed, Sets
  <2> QED BY <2>1, IdleTyped
<1> QED BY <1>1, <1>2

\* A task ends, and what it was about to do is not done.
LEMMA Stopping ==
  ASSUME DeliveryInv, NEW t \in Tasks, NEW v, Sets(t, v), v.id = Unbound, v.pc \in {"rest", "down"},
         UNCHANGED <<mode, source, box, row, agent, projected, heard, passed, wiped>>,
         cut' = (cut \/ Halfway(t)) \/ (UNCHANGED cut /\ t \notin {"reset", "delete"})
                                   \/ (UNCHANGED cut /\ task[t].pc \notin Removing),
         unrecorded' = IF t = "socket" /\ At(t, "accepted") THEN unrecorded + 1 ELSE unrecorded,
         \/ UNCHANGED inbound
         \/ t = "socket" /\ task[t].pc \in Toward \cup {"accepted"} /\ Stored(task[t].m, "blocked")
  PROVE  Kept
<1>0. /\ DeliveryTypes /\ unrecorded' \in Nat
      /\ t = "socket" /\ task[t].pc \in Toward \cup {"accepted"} => task[t].m \in Messages
  <2>1. unrecorded \in Nat /\ unrecorded' \in {unrecorded, unrecorded + 1}
    BY TasksTyped DEF DeliveryTypes
  <2>2. unrecorded' \in Nat
    BY <2>1
  <2> QED BY <2>2, TasksTyped DEF Placed, Toward
<1>1. inbound' \in [Messages -> {"none", "delivered", "blocked"}]
  BY <1>0 DEF DeliveryTypes, Stored
<1>2. DeliveryTypes'
  BY <1>0, <1>1, Settling, TasksTyped DEF DeliveryTypes
<1>3. (\A u \in Tasks : Placed(u)') /\ SessionsInv'
  BY TasksTyped, PlacedOn, SessionsOn DEF Carrying, Removing
<1>4. BoundLive'
  <2>1. CASE cut' = (cut \/ Halfway(t))
    <3>1. \/ cut' \/ t \notin {"reset", "delete"} \/ task[t].pc \notin Removing \/ task[t].id = Unbound
          \/ task[t].pc = "remove"
      BY <2>1, TasksTyped DEF Halfway, Removing
    <3>2. cut => cut'
      BY <2>1
    <3> QED BY <3>1, <3>2, BoundOn
  <2>2. CASE UNCHANGED cut /\ (t \notin {"reset", "delete"} \/ task[t].pc \notin Removing)
    BY <2>2, BoundOn
  <2> QED BY <2>1, <2>2
<1>5. HeardInv' /\ AckInv'
  <2>1. CASE t # "socket"
    BY <1>0, <2>1, Settling, TasksTyped, OthersHear
  <2>2. CASE t = "socket"
    <3>1. \/ UNCHANGED inbound
          \/ /\ task["socket"].pc \in Toward \cup {"accepted"}
             /\ inbound' = [inbound EXCEPT ![task["socket"].m] = "blocked"]
      BY <2>2 DEF Stored
    <3>2. unrecorded' = IF task["socket"].pc = "accepted" THEN unrecorded + 1 ELSE unrecorded
      BY <2>2 DEF At
    <3> QED BY <2>2, <3>1, <3>2, SocketHears DEF Toward
  <2> QED BY <2>1, <2>2
<1> QED BY <1>2, <1>3, <1>4, <1>5 DEF Kept

LEMMA AgentUnawareKeeps == ASSUME DeliveryInv, NEW t \in Tasks, AgentUnaware(t) PROVE Kept
<1>0. /\ task[t].pc = "append" /\ Failed(t) /\ ~At(t, "accepted")
      /\ UNCHANGED <<mode, source, box, row, agent, projected, heard, passed, unrecorded, wiped, cut>>
  BY DEF AgentUnaware, At, history
<1>1. PICK v : Sets(t, v) /\ v.id = Unbound /\ v.pc \in {"rest", "down"}
  BY <1>0, FailedTask
<1>2. UNCHANGED inbound \/ (t = "socket" /\ Stored(task[t].m, "blocked"))
  BY <1>0 DEF Failed
<1> QED BY <1>0, <1>1, <1>2, Stopping DEF Toward, Removing

LEMMA RequestFailsKeeps == ASSUME DeliveryInv, NEW t \in Tasks, RequestFails(t) PROVE Kept
<1>0. /\ Failed(t) /\ cut' = (cut \/ Halfway(t)) /\ task[t].pc \in Asking \union Answered
      /\ UNCHANGED <<mode, source, box, row, agent, projected, heard, passed, wiped>>
      /\ unrecorded' = IF t = "socket" /\ At(t, "accepted") THEN unrecorded + 1 ELSE unrecorded
  BY DEF RequestFails, Unrecorded
<1>1. PICK v : Sets(t, v) /\ v.id = Unbound /\ v.pc \in {"rest", "down"}
  BY <1>0, FailedTask
<1>2. \/ UNCHANGED inbound
      \/ t = "socket" /\ Stored(task[t].m, "blocked") /\ task[t].pc \in Toward \cup {"accepted"}
  BY <1>0, TasksTyped DEF Failed, Asking, Answered, Toward, Placed, Removing
<1> QED BY <1>0, <1>1, <1>2, Stopping

LEMMA DropKeeps == ASSUME DeliveryInv, NEW t \in Tasks, Drop(t) PROVE Kept
<1>0. /\ task' = [task EXCEPT ![t] = IF t = "socket" THEN Down ELSE Idle] /\ cut' = (cut \/ Halfway(t))
      /\ UNCHANGED <<mode, source, box, row, inbound, agent, projected, heard, passed, wiped>>
      /\ unrecorded' = IF t = "socket" /\ At(t, "accepted") THEN unrecorded + 1 ELSE unrecorded
  BY DEF Drop, Unrecorded, store
<1>1. PICK v : Sets(t, v) /\ v.id = Unbound /\ v.pc \in {"rest", "down"}
  BY <1>0, FailedTask
<1> QED BY <1>0, <1>1, Stopping

LEMMA CancelFailsKeeps == ASSUME DeliveryInv, CancelFails PROVE Kept
<1>0. /\ Sets("socket", Down) /\ task["socket"].pc = "cancel" /\ ~At("socket", "accepted")
      /\ UNCHANGED <<mode, source, box, row, inbound, agent, projected, heard, passed, unrecorded, wiped, cut>>
  BY IdleTyped DEF CancelFails, Sets, At, store, history
<1> QED BY <1>0, IdleTyped, TasksTyped, Stopping DEF Removing

\* The record of what was accepted, unless the row is gone.
LEMMA RecordKeeps == ASSUME DeliveryInv, NEW t \in Tasks, Record(t) PROVE Kept
<1> PICK m : m = task[t].m
  OBVIOUS
<1>0. /\ DeliveryTypes /\ task[t].pc = "accepted" /\ task[t].id \in Agents
      /\ UNCHANGED <<mode, source, box, row, agent, projected, heard, passed, unrecorded, wiped, cut>>
      /\ t = "socket" => m \in Messages
  BY TasksTyped DEF Record, At, history, Placed, Carrying
<1>1. CASE t # "socket"
  <2>1. Sets(t, Idle) /\ UNCHANGED inbound /\ ~(t = "socket" /\ At(t, "accepted"))
    BY <1>1, IdleTyped DEF Record, Sets
  <2> QED BY <1>0, <1>1, <2>1, IdleTyped, Stopping DEF Removing
<1>2. CASE t = "socket"
  <2>1. PICK v : /\ Sets(t, v) /\ v.id \in {Unbound, task[t].id}
                 /\ \/ v.pc = "down" /\ row = Absent
                    \/ v.pc = "ack" /\ row # Absent /\ v.m = m
    <3>1. CASE row = Absent
      <4>1. Sets(t, Down)
        BY <1>2, <3>1, IdleTyped DEF Record, Sets
      <4> QED BY <3>1, <4>1, IdleTyped
    <3>2. CASE row # Absent
      <4>1. Goto(t, "ack")
        BY <1>2, <3>2 DEF Record
      <4> QED BY <3>2, <4>1, Gone DEF Pcs
    <3> QED BY <3>1, <3>2
  <2>2. inbound' = IF row = Absent THEN inbound ELSE [inbound EXCEPT ![m] = "delivered"]
    BY <1>2 DEF Record, Stored
  <2>3. DeliveryTypes'
    BY <1>0, <1>2, <2>1, <2>2, Settling, TasksTyped DEF DeliveryTypes
  <2>4. (\A u \in Tasks : Placed(u)') /\ BoundLive' /\ SessionsInv'
    BY <1>0, <1>2, <2>1, TasksTyped, PlacedOn, BoundOn, SessionsOn DEF Carrying, Removing
  <2>5. /\ HeardInv /\ AckInv /\ unrecorded \in Nat /\ wiped \in Nat /\ heard \in [Messages -> Nat]
        /\ inbound \in [Messages -> {"none", "delivered", "blocked"}]
        /\ task'["socket"] = v /\ task["socket"].m = m /\ m \in Messages /\ On(m, {"accepted"})
        /\ \A n \in Messages : n # m => ~On(n, {"accepted"})
    BY <1>0, <1>2, <2>1, Settling DEF DeliveryInv, DeliveryTypes, On
  <2>6. \A n \in Messages : /\ ~On(n, {"accepted"})' /\ ~On(n, Toward)' /\ ~On(n, {"info"})'
                            /\ ~On(n, Toward \cup {"accepted"})' /\ ~On(n, {"cancel"})' /\ ~At("socket", "info")'
                            /\ On(n, {"ack"})' => n = m
    BY <2>1, <2>5 DEF On, Toward, At
  <2>7. HeardInv'
    <3> SUFFICES ASSUME NEW n \in Messages
                 PROVE  /\ heard[n] > 0 => box[n] # "new"
                        /\ heard[n] <= 1 + unrecorded + wiped
                        /\ inbound'[n] # "delivered" => heard[n] <= unrecorded + wiped
                        /\ row = Absent => inbound'[n] # "delivered"
      BY <1>0, <2>6 DEF HeardInv
    <3>1. CASE n # m
      BY <2>2, <2>5, <3>1 DEF HeardInv
    <3>2. CASE n = m
      BY <2>2, <2>5, <3>2 DEF HeardInv
    <3> QED BY <3>1, <3>2
  <2>8. AckInv'
    <3>1. heard[m] > 0
      BY <2>5 DEF AckInv
    <3>2. AckedHeard'
      BY <1>0, <2>2, <2>5, <3>1 DEF AckInv, AckedHeard, Stops
    <3>3. \A n \in Messages : On(n, {"ack"})' => Settled(n)'
      BY <1>0, <2>6, <3>1 DEF Settled
    <3> QED BY <2>5, <2>6, <3>2, <3>3 DEF AckInv, At
  <2> QED BY <2>3, <2>4, <2>7, <2>8 DEF Kept
<1> QED BY <1>1, <1>2

LEMMA KillKeeps == ASSUME DeliveryInv, Kill PROVE Kept
<1>0. /\ DeliveryTypes /\ task' = [t \in Tasks |-> IF t = "socket" THEN Down ELSE Idle]
      /\ cut' = (cut \/ \E t \in Tasks : Halfway(t))
      /\ projected' = (IF mode = "thread" /\ row \in Agents THEN row ELSE 0)
      /\ UNCHANGED <<mode, source, box, row, inbound, agent, heard, passed, wiped>>
      /\ unrecorded' = IF At("socket", "accepted") THEN unrecorded + 1 ELSE unrecorded
  BY TasksTyped DEF Kill, Unrecorded, store
<1>1. \A t \in Tasks : /\ task'[t] \in TaskSet /\ task'[t].id = Unbound /\ task'[t].pc \in {"rest", "down"}
                       /\ t # "socket" => task'[t].pc = "rest"
  BY <1>0, IdleTyped
<1>2. unrecorded \in Nat /\ unrecorded' \in Nat
  <2>1. unrecorded \in Nat /\ unrecorded' \in {unrecorded, unrecorded + 1}
    BY <1>0 DEF DeliveryTypes
  <2> QED BY <2>1
<1>3. DeliveryTypes'
  BY <1>0, <1>1, <1>2 DEF DeliveryTypes
<1>4. \A t \in Tasks : Placed(t)'
  BY <1>1 DEF Placed, Carrying, Removing
<1>5. SessionsInv'
  <2>1. \A a \in Agents : Known(a)' => Known(a)
    BY <1>0, <1>1 DEF Known
  <2>2. \A t \in Tasks : ~At(t, "created")'
    BY <1>1 DEF At
  <2> QED BY <1>0, <2>1, <2>2 DEF DeliveryInv, SessionsInv
<1>6. BoundLive'
  BY <1>0 DEF DeliveryInv, BoundLive
<1>7. \A m \in Messages : /\ ~On(m, {"accepted"})' /\ ~On(m, Toward)' /\ ~On(m, {"info"})' /\ ~On(m, {"ack"})'
                          /\ ~On(m, Toward \cup {"accepted"})' /\ ~On(m, {"cancel"})' /\ ~At("socket", "info")'
  BY <1>1, TasksTyped DEF On, Toward, At
<1>8. HeardInv'
  <2> SUFFICES ASSUME NEW m \in Messages
               PROVE  /\ heard[m] > 0 => box[m] # "new"
                      /\ heard[m] <= 1 + unrecorded' + wiped
                      /\ inbound[m] # "delivered" => heard[m] <= unrecorded' + wiped
                      /\ row = Absent => inbound[m] # "delivered"
    BY <1>0, <1>7 DEF HeardInv
  <2>1. HeardInv /\ heard[m] \in Nat /\ wiped \in Nat
    BY <1>0 DEF DeliveryInv, DeliveryTypes
  <2>2. CASE On(m, {"accepted"})
    <3>1. unrecorded' = unrecorded + 1
      BY <1>0, <2>2 DEF On, At
    <3> QED BY <1>2, <2>1, <3>1 DEF HeardInv
  <2>3. CASE ~On(m, {"accepted"})
    <3>1. unrecorded' \in {unrecorded, unrecorded + 1}
      BY <1>0
    <3> QED BY <1>2, <2>1, <2>3, <3>1 DEF HeardInv
  <2> QED BY <2>2, <2>3
<1>9. AckInv'
  <2>1. AckedHeard'
    BY <1>0 DEF DeliveryInv, AckInv, AckedHeard, Stops
  <2>2. ~At("socket", "info")'
    BY <1>1, TasksTyped DEF At
  <2> QED BY <1>7, <2>1, <2>2 DEF AckInv, At
<1> QED BY <1>3, <1>4, <1>5, <1>6, <1>8, <1>9 DEF Kept

-----------------------------------------------------------------------------
LEMMA DeliveryStarts == DeliveryInit => DeliveryInv
<1> SUFFICES ASSUME DeliveryInit PROVE DeliveryInv
  OBVIOUS
<1>0. \A t \in Tasks : /\ task[t] \in TaskSet /\ task[t].id = Unbound /\ task[t].pc \in {"rest", "down"}
                       /\ t # "socket" => task[t].pc = "rest"
  BY IdleTyped DEF DeliveryInit
<1>1. DeliveryTypes
  BY <1>0 DEF DeliveryInit, DeliveryTypes
<1>2. \A t \in Tasks : Placed(t)
  BY <1>0 DEF Placed, Carrying, Removing
<1>3. SessionsInv /\ BoundLive
  BY <1>0 DEF DeliveryInit, SessionsInv, Known, At, BoundLive
<1>4. \A m \in Messages : /\ ~On(m, {"accepted"}) /\ ~On(m, Toward) /\ ~On(m, {"info"}) /\ ~On(m, {"ack"})
                          /\ ~On(m, Toward \cup {"accepted"}) /\ ~On(m, {"cancel"})
  BY <1>0 DEF On, Toward
<1>5. HeardInv /\ AckInv
  <2>1. /\ \A m \in Messages : heard[m] = 0 /\ inbound[m] = "none" /\ box[m] = "new"
        /\ unrecorded = 0 /\ wiped = 0 /\ "socket" \in Tasks
    BY DEF DeliveryInit
  <2>2. HeardInv
    <3> SUFFICES ASSUME NEW m \in Messages
                 PROVE  /\ heard[m] > 0 => box[m] # "new"
                        /\ heard[m] <= 1 + unrecorded + wiped
                        /\ inbound[m] # "delivered" => heard[m] <= unrecorded + wiped
                        /\ row = Absent => inbound[m] # "delivered"
      BY <1>4 DEF HeardInv, On, Toward
    <3> QED BY <2>1
  <2>3. AckInv
    BY <1>0, <1>4, <2>1 DEF AckInv, AckedHeard, At
  <2> QED BY <2>2, <2>3
<1> QED BY <1>1, <1>2, <1>3, <1>5 DEF DeliveryInv

LEMMA DeliveryKept == DeliveryInv /\ [DeliveryNext]_deliveryVars => DeliveryInv'
<1> SUFFICES ASSUME DeliveryInv, [DeliveryNext]_deliveryVars PROVE DeliveryInv'
  OBVIOUS
<1>1. ASSUME NEW m \in Messages, Send(m) \/ Receive(m) \/ Observe(m) PROVE Kept
  BY <1>1, SendKeeps, ReceiveKeeps, ObserveKeeps
<1>2. ASSUME SocketWorks PROVE Kept
  BY <1>2, ConnectKeeps, LookKeeps, CancelAnsweredKeeps, AcknowledgeKeeps DEF SocketWorks
<1>3. ASSUME NEW t \in Tasks, Step(t) PROVE Kept
  BY <1>3, AgentDeletesKeeps, RemovedKeeps, UnfollowKeeps, ClearKeeps, AgentCreatesKeeps, PersistKeeps,
     FollowKeeps, AgentAcceptsKeeps, AgentUnawareKeeps, RecordKeeps DEF Step
<1>4. ASSUME NEW t \in Tasks, Begin(t) \/ RequestFails(t) \/ Drop(t) PROVE Kept
  BY <1>4, BeginKeeps, RequestFailsKeeps, DropKeeps
<1>5. ASSUME CancelFails \/ Kill PROVE Kept
  BY <1>5, CancelFailsKeeps, KillKeeps
<1>6. ASSUME UNCHANGED deliveryVars PROVE Kept
  <2>1. /\ DeliveryTypes' /\ \A t \in Tasks : Placed(t)'
    BY <1>6 DEF DeliveryInv, DeliveryTypes, Placed, deliveryVars
  <2>2. SessionsInv' /\ BoundLive'
    BY <1>6 DEF DeliveryInv, SessionsInv, Known, Fresh, At, BoundLive, Halfway, deliveryVars
  <2>3. HeardInv' /\ AckInv'
    BY <1>6, OthersHear DEF deliveryVars
  <2> QED BY <2>1, <2>2, <2>3 DEF Kept
<1>7. Kept
  BY <1>1, <1>2, <1>3, <1>4, <1>5, <1>6 DEF DeliveryNext
<1> QED BY <1>7 DEF Kept, DeliveryInv

\* What the gateway acknowledged was heard, no oftener than faults and deletions
\* explain, and a row names a deleted session only while whoever deleted it is
\* about to clear the row (handle_inbound, record_inbound, reset_session,
\* delete_session).
THEOREM MessagesAreSafe == DeliverySpec => []DeliverySafe
<1>1. DeliveryInv => DeliverySafe
  BY DEF DeliveryInv, AckInv, HeardInv, HeardOnce, DeliverySafe
<1> QED BY <1>1, DeliveryStarts, DeliveryKept, PTL DEF DeliverySpec

-----------------------------------------------------------------------------
\* The conversation's session is followed when it hears.

\* A fault, a task that overwrote what it had not read, or a deletion of the row.
Upset == raced \/ faults > 0 \/ wiped > 0
FollowTypes == seen \in [Tasks -> {Absent, Unbound} \cup Agents] /\ faults \in Nat

\* What a task had read before it creates a session or clears the row, and that who
\* has removed a session has deleted it.
Clearing(t) == task[t].pc \in Removing /\ ~(t = "delete" /\ task[t].pc = "unfollow")
Reader(t) ==
  /\ task[t].pc \in {"create", "created"} => seen[t] = Unbound
  /\ Clearing(t) => seen[t] = task[t].id
  /\ t = "delete" /\ task[t].pc = "unfollow" => wiped > 0
  /\ t = "delete" => task[t].pc \in Removing \cup {"rest"}
  /\ Halfway(t) => agent[task[t].id] = "deleted"

\* A live session is the row's or one its creator has yet to persist.
Bounded ==
  \A a \in Agents : agent[a] = "live" => row = a \/ \E t \in Tasks : At(t, "created") /\ task[t].id = a

\* A reset that is about to follow its session has put it into the row.
ResetBound == "reset" \in Tasks /\ At("reset", "follow") => row = task["reset"].id

\* The session that is about to hear is followed, unless a reset has taken the
\* subscription back and is yet to follow its own session.
Resetting == "reset" \in Tasks /\ task["reset"].pc \in {"clear", "create", "created", "follow"}
Following ==
  mode = "thread" /\ At("socket", "append") /\ agent[task["socket"].id] = "live" =>
    projected = task["socket"].id \/ Resetting

Calm == Bounded /\ ResetBound /\ Following
FollowInv == FollowTypes /\ (\A t \in Tasks : Reader(t)) /\ (Upset \/ Calm)

LEMMA ReadersOn ==
  ASSUME DeliveryInv, FollowInv, NEW t \in Tasks, NEW v, Sets(t, v), wiped > 0 => wiped' > 0,
         \A u \in Tasks : u # t => seen'[u] = seen[u],
         \A a \in Agents : agent[a] = "deleted" => agent'[a] = "deleted",
         v.pc \in {"create", "created"} => seen'[t] = Unbound,
         v.pc \in Removing /\ ~(t = "delete" /\ v.pc = "unfollow") => seen'[t] = v.id,
         t = "delete" /\ v.pc = "unfollow" => wiped' > 0,
         t = "delete" => v.pc \in Removing \cup {"rest"},
         v.pc = "removed" \/ (v.pc \in {"unfollow", "clear"} /\ v.id # Unbound) => agent'[v.id] = "deleted"
  PROVE  \A u \in Tasks : Reader(u)'
<1> SUFFICES ASSUME NEW u \in Tasks PROVE Reader(u)'
  OBVIOUS
<1>1. CASE u = t
  <2>1. task'[u] = v
    BY <1>1, Settling
  <2> QED BY <1>1, <2>1 DEF Reader, Clearing, Halfway
<1>2. CASE u # t
  <2>0. Reader(u)
    BY DEF FollowInv
  <2>1. task'[u] = task[u] /\ seen'[u] = seen[u]
    BY <1>2, Settling
  <2>2. Halfway(u) => task[u].id \in Agents
    BY TasksTyped DEF Halfway, Placed, Carrying, Agents
  <2> QED BY <2>0, <2>1, <2>2 DEF Reader, Clearing, Halfway
<1> QED BY <1>1, <1>2

\* A step that neither creates, persists nor follows a session.
LEMMA CalmOn ==
  ASSUME DeliveryInv, Calm, NEW t \in Tasks, NEW v, Sets(t, v), UNCHANGED <<mode, projected>>,
         row' = row \/ (row = Absent /\ row' = Unbound),
         \A a \in Agents : agent'[a] = "live" => agent[a] = "live",
         task[t].pc # "created", t = "reset" => v.pc # "follow" /\ task[t].pc \notin {"clear", "create", "follow"},
         t = "socket" => v.pc # "append"
  PROVE  Calm'
<1>1. Bounded'
  <2> SUFFICES ASSUME NEW a \in Agents, agent'[a] = "live"
               PROVE  row' = a \/ \E u \in Tasks : At(u, "created")' /\ task'[u].id = a
    BY DEF Bounded
  <2>1. row = a \/ \E u \in Tasks : At(u, "created") /\ task[u].id = a
    BY DEF Calm, Bounded
  <2>2. CASE row = a
    BY <2>2
  <2>3. ASSUME NEW u \in Tasks, At(u, "created"), task[u].id = a
        PROVE  At(u, "created")' /\ task'[u].id = a
    BY <2>3, Settling DEF At
  <2> QED BY <2>1, <2>2, <2>3
<1>2. ResetBound'
  <2> SUFFICES ASSUME "reset" \in Tasks, At("reset", "follow")' PROVE row' = task'["reset"].id
    BY DEF ResetBound
  <2>1. t # "reset" /\ task'["reset"] = task["reset"]
    BY Settling DEF At
  <2>2. row = task["reset"].id /\ task["reset"].id \in Agents
    BY <2>1, TasksTyped DEF Calm, ResetBound, At, Placed, Carrying
  <2> QED BY <2>1, <2>2
<1>3. Following'
  <2> SUFFICES ASSUME mode = "thread", At("socket", "append")', agent'[task'["socket"].id] = "live"
               PROVE  projected = task'["socket"].id \/ Resetting'
    BY DEF Following
  <2>1. t # "socket" /\ task'["socket"] = task["socket"] /\ task["socket"].id \in Agents
    BY Settling, TasksTyped DEF At, Placed, Carrying
  <2>2. projected = task["socket"].id \/ Resetting
    BY <2>1 DEF Calm, Following, At
  <2>3. Resetting => Resetting'
    BY Settling DEF Resetting
  <2> QED BY <2>1, <2>2, <2>3
<1> QED BY <1>1, <1>2, <1>3 DEF Calm

\* Faults and what they end.
LEMMA FaultsFollowed ==
  ASSUME DeliveryInv, FollowInv, NEW t \in Tasks, RequestFails(t) \/ Drop(t) \/ (t = "socket" /\ CancelFails)
  PROVE  FollowInv'
<1>0. FollowTypes /\ faults' = faults + 1 /\ UNCHANGED seen /\ UNCHANGED wiped /\ UNCHANGED agent
  BY DEF FollowInv, RequestFails, Drop, CancelFails, history
<1>1. PICK v : Sets(t, v) /\ v.id = Unbound /\ v.pc \in {"rest", "down"} /\ (t # "socket" => v.pc = "rest")
  BY FailedTask DEF RequestFails, Drop, CancelFails
<1>2. \A u \in Tasks : Reader(u)'
  BY <1>0, <1>1, ReadersOn DEF Removing
<1>3. FollowTypes' /\ Upset'
  BY <1>0 DEF FollowTypes, Upset
<1> QED BY <1>2, <1>3 DEF FollowInv

LEMMA KillFollowed == ASSUME DeliveryInv, FollowInv, Kill PROVE FollowInv'
<1>0. /\ FollowTypes /\ faults' = faults + 1 /\ UNCHANGED seen
      /\ task' = [t \in Tasks |-> IF t = "socket" THEN Down ELSE Idle]
  BY DEF FollowInv, Kill
<1>1. \A u \in Tasks : Reader(u)'
  <2>1. \A t \in Tasks : /\ task'[t].pc \in {"rest", "down"} /\ (t # "socket" => task'[t].pc = "rest")
    BY <1>0, IdleTyped
  <2> QED BY <2>1 DEF Reader, Clearing, Halfway, Removing
<1>2. FollowTypes' /\ Upset'
  BY <1>0 DEF FollowTypes, Upset
<1> QED BY <1>1, <1>2 DEF FollowInv

\* Steps after which the subscription and the row are as before.
LEMMA QuietFollowed ==
  ASSUME DeliveryInv, FollowInv, NEW t \in Tasks, NEW v, Sets(t, v),
         UNCHANGED <<mode, projected, raced, faults, wiped>>,
         row' = row \/ (row = Absent /\ row' = Unbound),
         \A a \in Agents : /\ agent'[a] = "live" => agent[a] = "live"
                           /\ agent[a] = "deleted" => agent'[a] = "deleted",
         seen' = seen \/ seen' = [seen EXCEPT ![t] = row'],
         v.pc \in {"create", "created"} => seen'[t] = Unbound,
         v.pc \in Removing => seen'[t] = v.id /\ ~(t = "delete" /\ v.pc = "unfollow"),
         t = "delete" => v.pc \in Removing \cup {"rest"},
         v.pc = "removed" \/ (v.pc \in {"unfollow", "clear"} /\ v.id # Unbound) => agent'[v.id] = "deleted",
         task[t].pc # "created", t = "reset" => v.pc # "follow" /\ task[t].pc \notin {"clear", "create", "follow"},
         t = "socket" => v.pc # "append"
  PROVE  FollowInv'
<1>1. FollowTypes'
  <2>1. FollowTypes /\ row' \in {Absent, Unbound} \cup Agents
    BY TasksTyped DEF FollowInv, DeliveryTypes
  <2> QED BY <2>1 DEF FollowTypes
<1>2. \A u \in Tasks : u # t => seen'[u] = seen[u]
  BY DEF FollowInv, FollowTypes
<1>3. \A u \in Tasks : Reader(u)'
  BY <1>2, ReadersOn
<1>4. Upset' \/ Calm'
  <2>1. CASE Upset
    BY <2>1 DEF Upset
  <2>2. CASE Calm
    BY <2>2, CalmOn
  <2> QED BY <2>1, <2>2 DEF FollowInv
<1> QED BY <1>1, <1>3, <1>4 DEF FollowInv

LEMMA SendFollowed == ASSUME DeliveryInv, FollowInv, NEW m \in Messages, Send(m) PROVE FollowInv'
<1>1. UNCHANGED <<mode, row, agent, projected, task, seen, raced, faults, wiped>>
  BY DEF Send, store, history
<1> QED BY <1>1 DEF FollowInv, FollowTypes, Reader, Clearing, Halfway, Upset, Calm, Bounded, ResetBound, Following, Resetting, At

\* A connection that reads no row.
LEMMA ConnectionFollowed ==
  ASSUME DeliveryInv, FollowInv, Connect \/ CancelAnswered \/ Acknowledge \/ \E m \in Messages : Receive(m)
  PROVE  FollowInv'
<1>1. /\ UNCHANGED <<mode, agent, projected, seen, raced, faults, wiped>>
      /\ row' = row \/ (row = Absent /\ row' = Unbound)
      /\ task["socket"].pc # "created"
  BY DEF Connect, CancelAnswered, Acknowledge, Receive, store, history, At
<1>2. PICK v : Sets("socket", v) /\ v.pc \in {"rest", "ack", "info"}
  <2>1. CASE Connect \/ Acknowledge
    <3>1. Sets("socket", Idle)
      BY <2>1, IdleTyped DEF Connect, Acknowledge, Sets
    <3> QED BY <3>1, IdleTyped
  <2>2. CASE CancelAnswered
    <3>1. Goto("socket", "ack")
      BY <2>2 DEF CancelAnswered
    <3> QED BY <3>1, Gone, TasksTyped DEF Pcs
  <2>3. ASSUME NEW m \in Messages, Receive(m) PROVE \E v : Sets("socket", v) /\ v.pc \in {"rest", "ack", "info"}
    <3> PICK pc \in {"ack", "info"} : pc = IF Ignored(m) THEN "ack" ELSE "info"
      OBVIOUS
    <3> PICK v : v = [pc |-> pc, m |-> m, id |-> Unbound]
      OBVIOUS
    <3>1. v \in TaskSet /\ v.pc = pc
      BY Made DEF Pcs
    <3>2. Sets("socket", v)
      BY <2>3, <3>1 DEF Receive, Sets
    <3> QED BY <3>1, <3>2
  <2> QED BY <2>1, <2>2, <2>3
<1>3. v.pc \notin Removing /\ v.pc \notin {"create", "created", "follow", "append", "removed", "unfollow", "clear"}
  BY <1>2 DEF Removing
<1> QED BY <1>1, <1>2, <1>3, QuietFollowed, TasksTyped

LEMMA ObserveFollowed == ASSUME DeliveryInv, FollowInv, NEW m \in Messages, Observe(m) PROVE FollowInv'
<1> PICK found : found = IF row = Absent THEN Unbound ELSE row
  OBVIOUS
<1> PICK known \in BOOLEAN : known <=> inbound[m] = "delivered"
  OBVIOUS
<1>0. /\ DeliveryTypes /\ found \in 0..MaxAgents /\ FollowTypes
      /\ task["socket"].pc = "rest" /\ UNCHANGED <<mode, agent, projected, raced, faults, wiped>>
  BY TasksTyped DEF DeliveryTypes, Observe, history, At, FollowInv
<1> PICK pc \in {"ack", "create", "follow"} : pc = IF known THEN "ack" ELSE Bound(found)
  BY DEF Bound
<1> PICK v : v = [pc |-> pc, m |-> m, id |-> found]
  OBVIOUS
<1>1. v \in TaskSet /\ v.pc = pc
  BY <1>0, Made DEF Pcs
<1>2. /\ Sets("socket", v) /\ row' = (IF known THEN row ELSE found)
      /\ seen' = [seen EXCEPT !["socket"] = row']
  BY <1>1, TasksTyped DEF Observe, Sets
<1>3. v.pc \notin Removing /\ v.pc \notin {"created", "append", "removed", "unfollow", "clear"}
  BY <1>1 DEF Removing
<1>4. v.pc = "create" => row' = Unbound
  BY <1>1, <1>2 DEF Bound
<1>5. seen'["socket"] = row'
  BY <1>0, <1>2, TasksTyped DEF FollowTypes
<1>6. row' = row \/ (row = Absent /\ row' = Unbound)
  BY <1>2
<1> QED BY <1>0, <1>1, <1>2, <1>3, <1>4, <1>5, <1>6, QuietFollowed, TasksTyped

LEMMA LookFollowed == ASSUME DeliveryInv, FollowInv, Look PROVE FollowInv'
<1>0. /\ DeliveryTypes /\ task["socket"].pc = "info" /\ UNCHANGED <<mode, row, agent, projected, raced, faults, wiped>>
      /\ seen' = [seen EXCEPT !["socket"] = row] /\ FollowTypes
  BY TasksTyped DEF Look, Reads, At, store, history, FollowInv
<1>1. PICK v : Sets("socket", v) /\ v.pc \in {"down", "ack", "cancel", "create", "follow"} /\ (v.pc = "create" => row = Unbound)
  <2>1. CASE row = Absent
    <3>1. Sets("socket", Down)
      BY <2>1, IdleTyped DEF Look, Sets
    <3> QED BY <3>1, IdleTyped
  <2>2. CASE row # Absent
    <3>1. PICK pc \in {"ack", "cancel", "create", "follow"} :
            Holding("socket", pc, row) /\ (pc = "create" => row = Unbound)
      BY <2>2 DEF Look, Bound
    <3>2. pc \in Pcs /\ row \in 0..MaxAgents
      BY <1>0, <2>2 DEF Pcs, DeliveryTypes
    <3> QED BY <3>1, <3>2, Moved, TasksTyped
  <2> QED BY <2>1, <2>2
<1>2. v.pc \notin Removing /\ v.pc \notin {"created", "append", "removed", "unfollow", "clear"}
  BY <1>1 DEF Removing
<1>3. v.pc = "create" => seen'["socket"] = Unbound
  BY <1>0, <1>1, TasksTyped DEF FollowTypes
<1> QED BY <1>0, <1>1, <1>2, <1>3, QuietFollowed, TasksTyped

LEMMA BeginFollowed == ASSUME DeliveryInv, FollowInv, NEW t \in Tasks, Begin(t) PROVE FollowInv'
<1>0. /\ DeliveryTypes /\ t # "socket" /\ task[t].pc = "rest" /\ row \in {Unbound} \cup Agents /\ FollowTypes
      /\ UNCHANGED <<mode, row, agent, projected, raced, faults, wiped>> /\ seen' = [seen EXCEPT ![t] = row]
  BY TasksTyped DEF Begin, Reads, At, store, history, DeliveryTypes, FollowInv
<1> PICK pc \in {"create", "follow", "remove", "unfollow", "clear"} :
      pc = CASE t = "job" -> Bound(row)
             [] t # "job" /\ row # Unbound -> "remove"
             [] t # "job" /\ row = Unbound -> Unbinding(t)
  BY DEF Bound, Unbinding
<1>1. PICK v : Sets(t, v) /\ v.pc = pc /\ v.id = row
  <2>1. pc \in Pcs
    BY DEF Pcs
  <2>2. Holding(t, pc, row)
    BY DEF Begin
  <2> QED BY <1>0, <2>1, <2>2, Moved
<1>2. t = "job" \/ t = "reset" \/ t = "delete"
  BY <1>0
<1>3. /\ v.pc \in {"create", "created"} => row = Unbound
      /\ t = "job" => v.pc \in {"create", "follow"}
      /\ t # "job" => v.pc \in {"remove", "unfollow", "clear"} /\ (v.pc \in {"unfollow", "clear"} => row = Unbound)
      /\ t = "delete" => v.pc # "unfollow"
  BY <1>0, <1>1, <1>2 DEF Bound, Unbinding
<1>4. seen'[t] = row
  BY <1>0 DEF FollowTypes
<1> QED BY <1>0, <1>1, <1>2, <1>3, <1>4, QuietFollowed DEF Removing

\* What an agent session is asked, but to be created.
LEMMA AskedFollowed ==
  ASSUME DeliveryInv, FollowInv, NEW t \in Tasks, AgentDeletes(t) \/ Removed(t) \/ AgentAccepts(t) \/ AgentUnaware(t) \/ Record(t)
  PROVE  FollowInv'
<1>0. /\ DeliveryTypes /\ FollowTypes /\ Reader(t) /\ UNCHANGED <<mode, row, projected, seen, raced, faults, wiped>>
      /\ task[t].pc \in {"remove", "removed", "append", "accepted"}
  BY TasksTyped DEF AgentDeletes, Removed, AgentAccepts, AgentUnaware, Record, At, store, history, FollowInv
<1>1. CASE AgentDeletes(t)
  <2>1. PICK v : Sets(t, v) /\ v.pc = "removed" /\ v.id = task[t].id
    BY <1>1, Gone DEF AgentDeletes, Pcs
  <2>2. task[t].pc = "remove" /\ t \in {"reset", "delete"} /\ task[t].id \in Agents /\ seen[t] = task[t].id
    BY <1>0, <1>1, TasksTyped DEF AgentDeletes, At, Placed, Removing, Carrying, Reader, Clearing
  <2>3. \A a \in Agents : agent'[a] = IF a = task[t].id THEN "deleted" ELSE agent[a]
    BY <1>0, <1>1 DEF AgentDeletes, DeliveryTypes
  <2> QED BY <1>0, <2>1, <2>2, <2>3, QuietFollowed DEF Removing
<1>2. CASE Removed(t)
  <2>1. /\ task[t].pc = "removed" /\ t \in {"reset", "delete"} /\ task[t].id \in Agents
        /\ seen[t] = task[t].id /\ agent[task[t].id] = "deleted" /\ UNCHANGED agent
    BY <1>0, <1>2, TasksTyped DEF Removed, At, Placed, Removing, Carrying, Reader, Clearing, Halfway
  <2>2. PICK v : Sets(t, v) /\ v.pc = Unbinding(t) /\ v.id = task[t].id
    <3>1. Unbinding(t) \in Pcs
      BY DEF Pcs, Unbinding
    <3> QED BY <1>2, <3>1, Gone DEF Removed
  <2>3. v.pc \in {"unfollow", "clear"} /\ (t = "delete" => v.pc = "clear")
    BY <2>1, <2>2 DEF Unbinding
  <2> QED BY <1>0, <2>1, <2>2, <2>3, QuietFollowed DEF Removing
<1>3. CASE AgentAccepts(t) \/ AgentUnaware(t) \/ Record(t)
  <2>1. t # "delete" /\ UNCHANGED agent /\ task[t].pc \in {"append", "accepted"}
    BY <1>0, <1>3 DEF AgentAccepts, AgentUnaware, Record, At, Reader, Removing
  <2>2. PICK v : Sets(t, v) /\ v.pc \in {"accepted", "rest", "down", "ack"}
    <3>1. CASE AgentAccepts(t)
      <4>1. Goto(t, "accepted") /\ "accepted" \in Pcs
        BY <3>1 DEF AgentAccepts, Pcs
      <4> QED BY <4>1, Gone
    <3>2. CASE AgentUnaware(t)
      BY <3>2, FailedTask DEF AgentUnaware
    <3>3. CASE Record(t)
      <4>1. task' = [task EXCEPT ![t] = Idle] \/ task' = [task EXCEPT ![t] = Down] \/ Goto(t, "ack")
        BY <3>3 DEF Record
      <4>2. Goto(t, "ack") => \E v : Sets(t, v) /\ v.pc = "ack"
        BY Gone DEF Pcs
      <4>3. task' = [task EXCEPT ![t] = Idle] => Sets(t, Idle) /\ Idle.pc = "rest"
        BY IdleTyped DEF Sets
      <4>4. task' = [task EXCEPT ![t] = Down] => Sets(t, Down) /\ Down.pc = "down"
        BY IdleTyped DEF Sets
      <4> QED BY <4>1, <4>2, <4>3, <4>4
    <3> QED BY <1>3, <3>1, <3>2, <3>3
  <2> QED BY <1>0, <2>1, <2>2, QuietFollowed DEF Removing
<1> QED BY <1>1, <1>2, <1>3

LEMMA UnfollowFollowed == ASSUME DeliveryInv, FollowInv, NEW t \in Tasks, Unfollow(t) PROVE FollowInv'
<1>0. /\ DeliveryTypes /\ FollowTypes /\ Reader(t) /\ task[t].pc = "unfollow" /\ t \in {"reset", "delete"}
      /\ task' = [task EXCEPT ![t] = IF t = "reset" THEN [@ EXCEPT !.pc = "clear"] ELSE Idle]
      /\ UNCHANGED <<mode, row, agent, seen, raced, faults, wiped>>
  BY TasksTyped DEF Unfollow, At, store, history, Placed, Removing, FollowInv
<1>1. FollowTypes'
  BY <1>0 DEF FollowTypes
<1>2. CASE t = "reset"
  <2>1. PICK v : Sets(t, v) /\ v.pc = "clear" /\ v.id = task[t].id
    <3>1. Goto(t, "clear")
      BY <1>0, <1>2, TasksTyped DEF Goto, DeliveryTypes
    <3> QED BY <3>1, Gone DEF Pcs
  <2>2. seen[t] = task[t].id /\ (task[t].id # Unbound => agent[task[t].id] = "deleted")
    BY <1>0, <1>2 DEF Reader, Clearing, Removing, Halfway
  <2>3. \A u \in Tasks : Reader(u)'
    BY <1>0, <1>2, <2>1, <2>2, ReadersOn DEF Removing
  <2>4. Calm => Calm'
    <3>1. task'["reset"].pc = "clear" /\ \A u \in Tasks : u # "reset" => task'[u] = task[u]
      BY <1>2, <2>1, Settling
    <3>2. Resetting' /\ ResetBound'
      BY <1>2, <3>1 DEF Resetting, ResetBound, At
    <3>3. Bounded => Bounded'
      BY <1>0, <1>2, <3>1 DEF Bounded, At
    <3> QED BY <3>2, <3>3 DEF Calm, Following
  <2> QED BY <1>0, <1>1, <2>3, <2>4 DEF FollowInv, Upset
<1>3. CASE t = "delete"
  <2>1. Sets(t, Idle)
    BY <1>0, <1>3, IdleTyped DEF Sets
  <2>2. wiped > 0
    BY <1>0, <1>3 DEF Reader
  <2>3. \A u \in Tasks : Reader(u)'
    BY <1>0, <1>3, <2>1, IdleTyped, ReadersOn DEF Removing
  <2> QED BY <1>0, <1>1, <2>2, <2>3 DEF FollowInv, Upset
<1> QED BY <1>0, <1>2, <1>3

LEMMA ClearFollowed == ASSUME DeliveryInv, FollowInv, NEW t \in Tasks, Clear(t) PROVE FollowInv'
<1>0. /\ DeliveryTypes /\ FollowTypes /\ Reader(t) /\ task[t].pc = "clear" /\ t \in {"reset", "delete"}
      /\ seen[t] = task[t].id /\ (task[t].id # Unbound => agent[task[t].id] = "deleted") /\ task[t].id \in 0..MaxAgents
      /\ UNCHANGED <<mode, agent, projected, faults>>
  BY TasksTyped DEF Clear, At, Placed, Removing, FollowInv, Reader, Clearing, Halfway, history
<1>1. (raced => raced') /\ (row # seen[t] => raced')
  BY DEF Clear
<1>2. CASE t = "reset"
  <2>1. /\ row' = (IF row = Absent THEN Absent ELSE Unbound) /\ seen' = [seen EXCEPT ![t] = row']
        /\ UNCHANGED wiped
        /\ task' = [task EXCEPT ![t] = IF row = Absent THEN Idle ELSE [Idle EXCEPT !.pc = "create"]]
    BY <1>2 DEF Clear
  <2>2. FollowTypes'
    BY <1>0, <2>1 DEF FollowTypes
  <2>3. PICK v : /\ Sets(t, v) /\ v.id = Unbound
                 /\ v.pc = IF row = Absent THEN "rest" ELSE "create"
    <3> DEFINE w == [Idle EXCEPT !.pc = "create"]
    <3>1. w \in TaskSet /\ w.id = Unbound /\ w.pc = "create"
      BY DEF Idle, TaskSet, Pcs
    <3>2. task' = [task EXCEPT ![t] = IF row = Absent THEN Idle ELSE w]
      BY <2>1
    <3> HIDE DEF w
    <3>3. CASE row = Absent
      <4>1. Sets(t, Idle)
        BY <3>2, <3>3, IdleTyped DEF Sets
      <4> QED BY <3>3, <4>1, IdleTyped
    <3>4. CASE row # Absent
      <4>1. Sets(t, w)
        BY <3>1, <3>2, <3>4 DEF Sets
      <4> QED BY <3>1, <3>4, <4>1
    <3> QED BY <3>3, <3>4
  <2>4. \A u \in Tasks : Reader(u)'
    <3>1. v.pc = "create" => seen'[t] = Unbound
      BY <1>0, <2>1, <2>3 DEF FollowTypes
    <3>2. \A u \in Tasks : u # t => seen'[u] = seen[u]
      BY <1>0, <2>1 DEF FollowTypes
    <3> QED BY <1>0, <1>2, <2>1, <2>3, <3>1, <3>2, ReadersOn DEF Removing
  <2>5. Calm /\ ~raced' => Calm'
    <3> SUFFICES ASSUME Calm, ~raced' PROVE Calm'
      OBVIOUS
    <3>1. row = task[t].id /\ row # Absent /\ row' = Unbound /\ v.pc = "create"
      BY <1>0, <1>1, <2>1, <2>3
    <3>2. task'["reset"].pc = "create" /\ \A u \in Tasks : u # "reset" => task'[u] = task[u]
      BY <1>2, <2>3, <3>1, Settling
    <3>3. Resetting' /\ ResetBound'
      BY <1>2, <3>2 DEF Resetting, ResetBound, At
    <3>4. Bounded'
      <4> SUFFICES ASSUME NEW a \in Agents, agent[a] = "live"
                   PROVE  \E u \in Tasks : At(u, "created")' /\ task'[u].id = a
        BY <1>0 DEF Bounded
      <4>1. row # a
        BY <1>0, <3>1
      <4>2. PICK u \in Tasks : At(u, "created") /\ task[u].id = a
        BY <4>1 DEF Calm, Bounded
      <4>3. u # t
        BY <1>0, <4>2 DEF At
      <4> QED BY <1>2, <3>2, <4>2, <4>3 DEF At
    <3> QED BY <3>3, <3>4 DEF Calm, Following
  <2> QED BY <1>0, <1>1, <2>1, <2>2, <2>4, <2>5 DEF FollowInv, Upset
<1>3. CASE t = "delete"
  <2>1. UNCHANGED seen /\ FollowTypes' /\ wiped \in Nat
        /\ wiped' = (IF row = Absent THEN wiped ELSE wiped + 1)
        /\ task' = [task EXCEPT ![t] = IF row = Absent THEN Idle ELSE [Idle EXCEPT !.pc = "unfollow"]]
    BY <1>0, <1>3 DEF Clear, FollowTypes, DeliveryTypes
  <2>2. PICK v : /\ Sets(t, v) /\ v.id = Unbound
                 /\ v.pc = IF row = Absent THEN "rest" ELSE "unfollow"
    <3> DEFINE w == [Idle EXCEPT !.pc = "unfollow"]
    <3>1. w \in TaskSet /\ w.id = Unbound /\ w.pc = "unfollow"
      BY DEF Idle, TaskSet, Pcs
    <3>2. task' = [task EXCEPT ![t] = IF row = Absent THEN Idle ELSE w]
      BY <2>1
    <3> HIDE DEF w
    <3>3. CASE row = Absent
      <4>1. Sets(t, Idle)
        BY <3>2, <3>3, IdleTyped DEF Sets
      <4> QED BY <3>3, <4>1, IdleTyped
    <3>4. CASE row # Absent
      <4>1. Sets(t, w)
        BY <3>1, <3>2, <3>4 DEF Sets
      <4> QED BY <3>1, <3>4, <4>1
    <3> QED BY <3>3, <3>4
  <2>3. (wiped > 0 => wiped' > 0) /\ (row # Absent => wiped' > 0)
    BY <2>1
  <2>4. \A u \in Tasks : Reader(u)'
    BY <1>0, <1>3, <2>1, <2>2, <2>3, ReadersOn DEF Removing
  <2>5. row = Absent => raced'
    BY <1>0, <1>1
  <2> QED BY <2>1, <2>3, <2>4, <2>5 DEF FollowInv, Upset
<1> QED BY <1>0, <1>2, <1>3

LEMMA CreatesFollowed == ASSUME DeliveryInv, FollowInv, NEW t \in Tasks, AgentCreates(t) PROVE FollowInv'
<1> PICK a \in Agents : /\ At(t, "create") /\ agent[a] = "unborn"
                        /\ agent' = [agent EXCEPT ![a] = "live"] /\ Holding(t, "created", a)
                        /\ UNCHANGED <<mode, row, projected, seen, faults, raced, wiped>>
  BY DEF AgentCreates, store, history
<1>0. /\ DeliveryTypes /\ FollowTypes /\ Reader(t) /\ task[t].pc = "create" /\ ~Known(a) /\ a \in 0..MaxAgents
      /\ seen[t] = Unbound /\ t # "delete"
  <2>1. DeliveryTypes /\ FollowTypes /\ Reader(t) /\ task[t].pc = "create" /\ ~Known(a)
    BY TasksTyped DEF At, DeliveryInv, SessionsInv, FollowInv
  <2> QED BY <2>1 DEF Reader, Removing
<1>1. PICK v : Sets(t, v) /\ v.pc = "created" /\ v.id = a
  BY <1>0, Moved DEF Pcs
<1>2. \A b \in Agents : agent'[b] = IF b = a THEN "live" ELSE agent[b]
  BY <1>0 DEF DeliveryTypes
<1>3. FollowTypes' /\ \A u \in Tasks : Reader(u)'
  <2>1. \A b \in Agents : agent[b] = "deleted" => agent'[b] = "deleted"
    BY <1>2
  <2> QED BY <1>0, <1>1, <2>1, ReadersOn DEF FollowTypes, Removing
<1>4. Calm => Calm'
  <2> SUFFICES ASSUME Calm PROVE Calm'
    OBVIOUS
  <2>1. task'[t] = v /\ \A u \in Tasks : u # t => task'[u] = task[u]
    BY <1>1, Settling
  <2>2. Bounded'
    <3> SUFFICES ASSUME NEW b \in Agents, agent'[b] = "live"
                 PROVE  row = b \/ \E u \in Tasks : At(u, "created")' /\ task'[u].id = b
      BY DEF Bounded
    <3>1. CASE b = a
      BY <1>1, <2>1, <3>1 DEF At
    <3>2. CASE b # a
      <4>1. row = b \/ \E u \in Tasks : At(u, "created") /\ task[u].id = b
        BY <1>2, <3>2 DEF Calm, Bounded
      <4>2. ASSUME NEW u \in Tasks, At(u, "created"), task[u].id = b
            PROVE  At(u, "created")' /\ task'[u].id = b
        BY <1>0, <2>1, <4>2 DEF At
      <4> QED BY <4>1, <4>2
    <3> QED BY <3>1, <3>2
  <2>3. ResetBound'
    <3>1. CASE t = "reset"
      BY <1>1, <2>1, <3>1 DEF ResetBound, At
    <3>2. CASE t # "reset"
      BY <2>1, <3>2 DEF Calm, ResetBound, At
    <3> QED BY <3>1, <3>2
  <2>4. Following'
    <3> SUFFICES ASSUME mode = "thread", At("socket", "append")', agent'[task'["socket"].id] = "live"
                 PROVE  projected = task'["socket"].id \/ Resetting'
      BY DEF Following
    <3>1. t # "socket" /\ task'["socket"] = task["socket"] /\ task["socket"].id \in Agents
      BY <1>1, <2>1, TasksTyped DEF At, Placed, Carrying
    <3>2. task["socket"].id # a
      BY <1>0, TasksTyped DEF Known
    <3>3. projected = task["socket"].id \/ Resetting
      BY <1>2, <3>1, <3>2 DEF Calm, Following, At
    <3>4. Resetting => Resetting'
      BY <1>0, <1>1, <2>1 DEF Resetting
    <3> QED BY <3>1, <3>3, <3>4
  <2> QED BY <2>2, <2>3, <2>4 DEF Calm
<1> QED BY <1>3, <1>4 DEF FollowInv, Upset

LEMMA PersistFollowed == ASSUME DeliveryInv, FollowInv, NEW t \in Tasks, Persist(t) PROVE FollowInv'
<1> PICK a : a = task[t].id
  OBVIOUS
<1>0. /\ DeliveryTypes /\ FollowTypes /\ Reader(t) /\ task[t].pc = "created" /\ a \in Agents /\ Goto(t, "follow")
      /\ row' = (IF row = Absent THEN Absent ELSE a)
      /\ UNCHANGED <<mode, agent, projected, seen, faults, wiped>> /\ t # "delete" /\ seen[t] = Unbound
  BY TasksTyped DEF Persist, At, DeliveryInv, SessionsInv, Placed, Carrying, FollowInv, Reader, Removing
<1>1. (raced => raced') /\ (row # seen[t] => raced')
  BY DEF Persist
<1>2. PICK v : Sets(t, v) /\ v.pc = "follow" /\ v.id = a
  BY <1>0, Gone DEF Pcs
<1>3. FollowTypes' /\ \A u \in Tasks : Reader(u)'
  BY <1>0, <1>2, ReadersOn DEF FollowTypes, Removing
<1>4. Calm /\ ~raced' => Calm'
  <2> SUFFICES ASSUME Calm, ~raced' PROVE Calm'
    OBVIOUS
  <2>0. row = Unbound /\ row' = a
    BY <1>0, <1>1
  <2>1. task'[t] = v /\ \A u \in Tasks : u # t => task'[u] = task[u]
    BY <1>2, Settling
  <2>2. Bounded'
    <3> SUFFICES ASSUME NEW b \in Agents, agent[b] = "live"
                 PROVE  row' = b \/ \E u \in Tasks : At(u, "created")' /\ task'[u].id = b
      BY <1>0 DEF Bounded
    <3>1. PICK u \in Tasks : At(u, "created") /\ task[u].id = b
      BY <2>0 DEF Calm, Bounded
    <3>2. CASE u = t
      BY <2>0, <3>1, <3>2
    <3>3. CASE u # t
      BY <2>1, <3>1, <3>3 DEF At
    <3> QED BY <3>2, <3>3
  <2>3. ResetBound'
    <3>1. CASE t = "reset"
      BY <1>2, <2>0, <2>1, <3>1 DEF ResetBound
    <3>2. CASE t # "reset"
      <4>1. "reset" \in Tasks => task'["reset"] = task["reset"]
        BY <2>1, <3>2
      <4>2. "reset" \in Tasks /\ At("reset", "follow") => FALSE
        BY <2>0, TasksTyped DEF Calm, ResetBound, At, Placed, Carrying
      <4> QED BY <4>1, <4>2 DEF ResetBound, At
    <3> QED BY <3>1, <3>2
  <2>4. Following'
    <3> SUFFICES ASSUME mode = "thread", At("socket", "append")', agent[task'["socket"].id] = "live"
                 PROVE  projected = task'["socket"].id \/ Resetting'
      BY <1>0 DEF Following
    <3>1. task'["socket"] = task["socket"]
      BY <1>2, <2>1, TasksTyped DEF At
    <3>2. projected = task["socket"].id \/ Resetting
      BY <3>1 DEF Calm, Following, At
    <3>3. Resetting => Resetting'
      BY <1>0, <1>2, <2>1 DEF Resetting
    <3> QED BY <3>1, <3>2, <3>3
  <2> QED BY <2>2, <2>3, <2>4 DEF Calm
<1> QED BY <1>0, <1>1, <1>3, <1>4 DEF FollowInv, Upset

LEMMA FollowFollowed == ASSUME DeliveryInv, FollowInv, NEW t \in Tasks, Follow(t) PROVE FollowInv'
<1>0. /\ DeliveryTypes /\ FollowTypes /\ Reader(t) /\ task[t].pc = "follow" /\ task[t].id \in Agents /\ Goto(t, "append")
      /\ projected' = (IF t = "job" \/ mode = "proactive" THEN projected ELSE task[t].id)
      /\ UNCHANGED <<mode, row, agent, seen, faults, raced, wiped>> /\ t # "delete"
  BY TasksTyped DEF Follow, At, store, history, Placed, Carrying, FollowInv, Reader, Removing
<1>1. PICK v : Sets(t, v) /\ v.pc = "append" /\ v.id = task[t].id
  BY <1>0, Gone DEF Pcs
<1>2. FollowTypes' /\ \A u \in Tasks : Reader(u)'
  BY <1>0, <1>1, ReadersOn DEF FollowTypes, Removing
<1>3. Calm => Calm'
  <2> SUFFICES ASSUME Calm PROVE Calm'
    OBVIOUS
  <2>1. task'[t] = v /\ \A u \in Tasks : u # t => task'[u] = task[u]
    BY <1>1, Settling
  <2>2. Bounded'
    <3>1. \A u \in Tasks : At(u, "created") => At(u, "created")' /\ task'[u].id = task[u].id
      BY <1>0, <2>1 DEF At
    <3> QED BY <1>0, <3>1 DEF Calm, Bounded
  <2>3. ResetBound'
    <3>1. CASE t = "reset"
      BY <1>1, <2>1, <3>1 DEF ResetBound, At
    <3>2. CASE t # "reset"
      BY <1>0, <2>1, <3>2 DEF Calm, ResetBound, At
    <3> QED BY <3>1, <3>2
  <2>4. Following'
    <3> SUFFICES ASSUME mode = "thread", At("socket", "append")', agent[task'["socket"].id] = "live"
                 PROVE  projected' = task'["socket"].id \/ Resetting'
      BY <1>0 DEF Following
    <3>1. CASE t = "socket"
      BY <1>0, <1>1, <2>1, <3>1
    <3>2. CASE t # "socket"
      <4>1. task'["socket"] = task["socket"] /\ At("socket", "append") /\ task["socket"].id \in Agents
        BY <2>1, <3>2, TasksTyped DEF At, Placed, Carrying
      <4>2. CASE t = "reset"
        <5>1. row = task["reset"].id
          BY <1>0, <4>2 DEF Calm, ResetBound, At
        <5>2. ASSUME NEW u \in Tasks, At(u, "created"), task[u].id = task["socket"].id PROVE FALSE
          <6>1. u # "socket" /\ Fresh(u)
            BY <4>1, <5>2 DEF At, DeliveryInv, SessionsInv
          <6> QED BY <5>2, <6>1, TasksTyped DEF Fresh
        <5>3. row = task["socket"].id
          BY <4>1, <5>2 DEF Calm, Bounded
        <5> QED BY <1>0, <4>1, <4>2, <5>1, <5>3
      <4>3. CASE t # "reset"
        <5>1. t = "job" /\ projected' = projected
          BY <1>0, <3>2, <4>3
        <5>2. projected = task["socket"].id \/ Resetting
          BY <4>1 DEF Calm, Following
        <5>3. Resetting => Resetting'
          BY <2>1, <4>3 DEF Resetting
        <5> QED BY <4>1, <5>1, <5>2, <5>3
      <4> QED BY <4>2, <4>3
    <3> QED BY <3>1, <3>2
  <2> QED BY <2>2, <2>3, <2>4 DEF Calm
<1> QED BY <1>0, <1>2, <1>3 DEF FollowInv, Upset

LEMMA FollowStarts == DeliveryInit => FollowInv
<1> SUFFICES ASSUME DeliveryInit PROVE FollowInv
  OBVIOUS
<1>1. \A t \in Tasks : task[t].id = Unbound /\ task[t].pc \in {"rest", "down"} /\ (t # "socket" => task[t].pc = "rest")
  BY IdleTyped DEF DeliveryInit
<1>2. FollowTypes
  BY DEF DeliveryInit, FollowTypes
<1>3. \A t \in Tasks : Reader(t)
  BY <1>1 DEF Reader, Clearing, Halfway, Removing
<1>4. Calm
  BY <1>1 DEF DeliveryInit, Calm, Bounded, ResetBound, Following, At
<1> QED BY <1>2, <1>3, <1>4 DEF FollowInv

LEMMA FollowKept == DeliveryInv /\ FollowInv /\ [DeliveryNext]_deliveryVars => FollowInv'
<1> SUFFICES ASSUME DeliveryInv, FollowInv, [DeliveryNext]_deliveryVars PROVE FollowInv'
  OBVIOUS
<1>1. ASSUME NEW m \in Messages, Send(m) \/ Receive(m) \/ Observe(m) PROVE FollowInv'
  BY <1>1, SendFollowed, ConnectionFollowed, ObserveFollowed
<1>2. ASSUME SocketWorks PROVE FollowInv'
  BY <1>2, ConnectionFollowed, LookFollowed DEF SocketWorks
<1>3. ASSUME NEW t \in Tasks, Step(t) PROVE FollowInv'
  BY <1>3, AskedFollowed, UnfollowFollowed, ClearFollowed, CreatesFollowed, PersistFollowed, FollowFollowed DEF Step
<1>4. ASSUME NEW t \in Tasks, Begin(t) \/ RequestFails(t) \/ Drop(t) PROVE FollowInv'
  BY <1>4, BeginFollowed, FaultsFollowed
<1>5. ASSUME CancelFails \/ Kill PROVE FollowInv'
  BY <1>5, FaultsFollowed, KillFollowed, TasksTyped
<1>6. ASSUME UNCHANGED deliveryVars PROVE FollowInv'
  BY <1>6 DEF deliveryVars, FollowInv, FollowTypes, Reader, Clearing, Halfway, Upset, Calm, Bounded,
              ResetBound, Following, Resetting, At
<1> QED BY <1>1, <1>2, <1>3, <1>4, <1>5, <1>6 DEF DeliveryNext

\* The status a messenger shows while an agent works on its message is the status
\* of the session that works on it, unless a fault or another task interfered
\* (append_to_agent_with_projection).
THEOREM StatusIsFollowed == DeliverySpec => FollowedWhenHeard
<1>1. DeliveryInv /\ FollowInv /\ [DeliveryNext]_deliveryVars =>
        [heard' # heard /\ mode = "thread" =>
           \/ projected = task["socket"].id
           \/ raced \/ faults > 0 \/ wiped > 0
           \/ \E t \in {"reset", "delete"} \intersect Tasks : ~At(t, "rest")]_deliveryVars
  <2> SUFFICES ASSUME DeliveryInv, FollowInv, DeliveryNext, heard' # heard, mode = "thread", ~Upset
               PROVE  projected = task["socket"].id \/ \E t \in {"reset", "delete"} \intersect Tasks : ~At(t, "rest")
    BY DEF Upset
  <2>1. AgentAccepts("socket")
    <3>1. PICK t \in Tasks : AgentAccepts(t)
      BY DEF DeliveryNext, Send, Receive, Observe, SocketWorks, Connect, Look, CancelAnswered, Acknowledge, Step, Begin,
             AgentDeletes, Removed, Unfollow, Clear, AgentCreates, Persist, Follow, AgentUnaware, Record, RequestFails, Drop,
             CancelFails, Kill, history
    <3>2. t = "socket"
      BY <3>1 DEF AgentAccepts
    <3> QED BY <3>1, <3>2
  <2>2. projected = task["socket"].id \/ Resetting
    BY <2>1 DEF AgentAccepts, FollowInv, Calm, Following
  <2>3. Resetting => \E t \in {"reset", "delete"} \intersect Tasks : ~At(t, "rest")
    BY DEF Resetting, At
  <2> QED BY <2>2, <2>3
<1> QED BY <1>1, DeliveryStarts, DeliveryKept, FollowStarts, FollowKept, PTL DEF DeliverySpec, FollowedWhenHeard
=============================================================================
