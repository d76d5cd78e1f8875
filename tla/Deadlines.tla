----------------------------- MODULE Deadlines -----------------------------
(***************************************************************************)
(* How the end of a wait comes back to the session that waits: the runners *)
(* arm their deadlines, one scheduler sleeps for all of them, and one loop *)
(* of the supervisor puts the wakes into the runners' queues.  The three   *)
(* queues between them are bounded and each of the three waits for room.   *)
(*                                                                         *)
(* Of a session only what touches its wait is kept: Runner and Supervisor  *)
(* have the rest.  A session has one wait at a time; the automatic wait    *)
(* and the wait of a tool are armed alike.  The clock only says which      *)
(* waits have expired.                                                     *)
(***************************************************************************)
EXTENDS Integers, Sequences, FiniteSets

CONSTANTS Sleepers,          \* the sessions
          CommandCapacity,   \* of the scheduler's queue
          WakeCapacity,      \* of the wakes' queue
          RunnerCapacity,    \* of each runner's queue
          MaxOrders,         \* commands of clients
          MaxEnds            \* runners that fail, sessions deleted, restarts

ASSUME DeadlineAssumption ==
  /\ CommandCapacity \in Nat \ {0} /\ WakeCapacity \in Nat \ {0} /\ RunnerCapacity \in Nat \ {0}
  /\ MaxOrders \in Nat /\ MaxEnds \in Nat

VARIABLES
  sleeper,    \* of every session: slot, runner, the runner's queue, its wait (0: none)
  expired,    \* the waits whose deadline has passed
  scheduler,  \* its queue, the heap, the latest entry of each wait, what is due, the wake to send
  wakes,      \* sent by the scheduler
  courier,    \* the wake the supervisor's loop is delivering
  ordered, ended   \* commands and ends so far

deadlineVars == <<sleeper, expired, scheduler, wakes, courier, ordered, ended>>

Wake(s, n) == [of |-> s, wait |-> n]
NoWake == Wake("nobody", 0)
Arm(s, n) == [what |-> "arm", wake |-> Wake(s, n)]
CancelSession(s) == [what |-> "cancel", wake |-> Wake(s, 0)]
NoCourier == [pc |-> "none", of |-> "nobody"]
NewScheduler == [queue |-> <<>>, heap |-> {}, current |-> {}, due |-> {}, serial |-> 0, sending |-> NoWake]

(* waits numbers a session's waits; over: its last commit ended a turn. *)
DeadlinesInit ==
  /\ sleeper = [s \in Sleepers |-> [slot |-> "idle", pc |-> "none", queue |-> <<>>, wait |-> 0, waits |-> 0, over |-> FALSE]]
  /\ expired = {} /\ scheduler = NewScheduler /\ wakes = <<>> /\ courier = NoCourier /\ ordered = 0 /\ ended = 0
-----------------------------------------------------------------------------
(* The runners. *)
Overdue(s) == sleeper[s].wait # 0 /\ Wake(s, sleeper[s].wait) \in expired
Activated(slot) == [slot EXCEPT !.slot = "active", !.pc = "drain", !.queue = <<>>]

(* A client's command finds the runner or starts one; a full queue refuses *)
(* it.                                                                     *)
Orders(s) ==
  /\ ordered < MaxOrders /\ ordered' = ordered + 1
  /\ sleeper[s].slot \in {"idle", "active"} /\ Len(sleeper[s].queue) < RunnerCapacity
  /\ LET slot == IF sleeper[s].slot = "idle" THEN Activated(sleeper[s]) ELSE sleeper[s]
     IN sleeper' = [sleeper EXCEPT ![s] = [slot EXCEPT !.queue = Append(@, "order")]]
  /\ UNCHANGED <<expired, scheduler, wakes, courier, ended>>

(* What a command leads to may begin a wait or replace it, end it, or end  *)
(* the turn, which leaves a tool's wait; a wake only makes the runner look.*)
TakesOrder(s) ==
  /\ sleeper[s].pc \in {"parked", "drain"} /\ sleeper[s].queue # <<>> /\ Head(sleeper[s].queue) = "order"
  /\ \E slot \in {[sleeper[s] EXCEPT !.over = FALSE],
                  [sleeper[s] EXCEPT !.over = TRUE],
                  [sleeper[s] EXCEPT !.over = FALSE, !.wait = 0],
                  [sleeper[s] EXCEPT !.over = FALSE, !.wait = sleeper[s].waits + 1, !.waits = @ + 1]} :
       sleeper' = [sleeper EXCEPT ![s] = [slot EXCEPT !.queue = Tail(@), !.pc = "drain"]]
  /\ UNCHANGED <<expired, scheduler, wakes, courier, ordered, ended>>

TakesOther(s) ==
  /\ sleeper[s].pc \in {"parked", "drain"} /\ sleeper[s].queue # <<>> /\ Head(sleeper[s].queue) # "order"
  /\ sleeper' = [sleeper EXCEPT ![s].queue = Tail(@), ![s].pc = IF Head(sleeper[s].queue) = "stop" THEN "stop" ELSE "drain"]
  /\ UNCHANGED <<expired, scheduler, wakes, courier, ordered, ended>>

(* With its queue empty the runner decides: a deadline that has passed     *)
(* ends the wait, whoever woke it; else it is armed, each time the runner  *)
(* parks.  Without a wait the runner parks, or ends when nothing is left.  *)
Decides(s) ==
  /\ sleeper[s].pc = "drain" /\ sleeper[s].queue = <<>>
  /\ \E slot \in IF Overdue(s) THEN {[sleeper[s] EXCEPT !.wait = 0, !.over = FALSE]}
                 ELSE IF sleeper[s].wait # 0 THEN {[sleeper[s] EXCEPT !.pc = "arm"]}
                 ELSE {[sleeper[s] EXCEPT !.pc = "parked"]}
                      \cup (IF sleeper[s].slot = "active" THEN {[sleeper[s] EXCEPT !.slot = "idle", !.pc = "none"]} ELSE {}) :
       sleeper' = [sleeper EXCEPT ![s] = slot]
  /\ UNCHANGED <<expired, scheduler, wakes, courier, ordered, ended>>

SendsCommand(command) ==
  /\ Len(scheduler.queue) < CommandCapacity
  /\ scheduler' = [scheduler EXCEPT !.queue = Append(@, command)]
Arms(s) ==
  /\ sleeper[s].pc = "arm" /\ SendsCommand(Arm(s, sleeper[s].wait))
  /\ sleeper' = [sleeper EXCEPT ![s].pc = "parked"]
  /\ UNCHANGED <<expired, wakes, courier, ordered, ended>>

(* A runner fails, with what its queue held, and is rebuilt from the log.  *)
\* Mutant: a rebuilt runner waits for the wake instead of looking at the clock.
RebuiltParked(s) ==
  /\ ended < MaxEnds /\ ended' = ended + 1
  /\ sleeper[s].slot = "active"
  /\ sleeper' = [sleeper EXCEPT ![s] = [Activated(@) EXCEPT !.pc = "parked"]]
  /\ UNCHANGED <<expired, scheduler, wakes, courier, ordered>>
Rebuilt(s) ==
  /\ ended < MaxEnds /\ ended' = ended + 1
  /\ sleeper[s].slot = "active"
  /\ sleeper' = [sleeper EXCEPT ![s] = Activated(@)]
  /\ UNCHANGED <<expired, scheduler, wakes, courier, ordered>>

(* A deletion closes the slot, stops the runner, which says so to the      *)
(* scheduler, and says so again itself.                                    *)
DeletionBegins(s) ==
  /\ ended < MaxEnds /\ ended' = ended + 1
  /\ sleeper[s].slot \in {"idle", "active"}
  /\ sleeper' = [sleeper EXCEPT ![s].slot = "deleting"]
  /\ UNCHANGED <<expired, scheduler, wakes, courier, ordered>>
DeletionStops(s) ==
  /\ sleeper[s].slot = "deleting" /\ Len(sleeper[s].queue) < RunnerCapacity
  /\ sleeper' = [sleeper EXCEPT ![s].slot = "stopping", ![s].queue = IF sleeper[s].pc = "none" THEN <<>> ELSE Append(@, "stop")]
  /\ UNCHANGED <<expired, scheduler, wakes, courier, ordered, ended>>
Cancels(s) ==
  /\ SendsCommand(CancelSession(s))
  /\ \/ sleeper[s].pc = "stop" /\ sleeper' = [sleeper EXCEPT ![s].pc = "none", ![s].queue = <<>>]
     \/ sleeper[s].slot = "stopping" /\ sleeper[s].pc = "none" /\ sleeper' = [sleeper EXCEPT ![s].slot = "deleted"]
  /\ UNCHANGED <<expired, wakes, courier, ordered, ended>>

LastCommitFinishes(s) == sleeper[s].over
RequiresRunner(s) == sleeper[s].wait # 0

(* The agent starts again: every session whose last commit does not end a  *)
(* turn is read, and activated when it waits.                              *)
Restarts ==
  /\ ended < MaxEnds /\ ended' = ended + 1
  /\ sleeper' = [s \in Sleepers |->
       CASE sleeper[s].slot = "deleted" -> sleeper[s]
         [] RequiresRunner(s) /\ ~LastCommitFinishes(s) -> Activated(sleeper[s])
         [] OTHER -> [sleeper[s] EXCEPT !.slot = "idle", !.pc = "none", !.queue = <<>>]]
  /\ scheduler' = NewScheduler /\ wakes' = <<>> /\ courier' = NoCourier
  /\ UNCHANGED <<expired, ordered>>
-----------------------------------------------------------------------------
(* The scheduler takes commands first.  Then it sends what is due, one     *)
(* after the other, and takes no command until all are sent; an entry that *)
(* is not the latest of its wait is dropped.                               *)
Passes(s) ==
  /\ sleeper[s].wait # 0 /\ ~Overdue(s)
  /\ expired' = expired \cup {Wake(s, sleeper[s].wait)}
  /\ UNCHANGED <<sleeper, scheduler, wakes, courier, ordered, ended>>

Armed(command) ==
  LET entry == [wake |-> command.wake, serial |-> scheduler.serial + 1]
  IN [scheduler EXCEPT !.queue = Tail(@), !.serial = @ + 1, !.heap = @ \cup {entry},
                       !.current = {c \in @ : c.wake # entry.wake} \cup {entry}]
TakesCommand ==
  /\ scheduler.due = {} /\ scheduler.queue # <<>>
  /\ scheduler' = IF Head(scheduler.queue).what = "arm" THEN Armed(Head(scheduler.queue))
                  ELSE [scheduler EXCEPT !.queue = Tail(@), !.current = {c \in @ : c.wake.of # Head(scheduler.queue).wake.of}]
  /\ UNCHANGED <<sleeper, expired, wakes, courier, ordered, ended>>

FallsDue ==
  /\ scheduler.due = {} /\ scheduler.queue = <<>>
  /\ \E entry \in scheduler.heap : entry.wake \in expired
  /\ scheduler' = [scheduler EXCEPT !.due = {entry \in scheduler.heap : entry.wake \in expired}]
  /\ UNCHANGED <<sleeper, expired, wakes, courier, ordered, ended>>

Pops ==
  /\ scheduler.sending = NoWake
  /\ \E entry \in scheduler.due :
       scheduler' = IF entry \in scheduler.current
                    THEN [scheduler EXCEPT !.heap = @ \ {entry}, !.current = @ \ {entry}, !.sending = entry.wake]
                    ELSE [scheduler EXCEPT !.heap = @ \ {entry}, !.due = @ \ {entry}]
  /\ UNCHANGED <<sleeper, expired, wakes, courier, ordered, ended>>

SendsWake ==
  /\ scheduler.sending # NoWake /\ Len(wakes) < WakeCapacity
  /\ wakes' = Append(wakes, scheduler.sending)
  /\ scheduler' = [scheduler EXCEPT !.sending = NoWake, !.due = {entry \in @ : entry \in scheduler.heap}]
  /\ UNCHANGED <<sleeper, expired, courier, ordered, ended>>
-----------------------------------------------------------------------------
(* The supervisor's loop: it starts the session it has a wake for, waits   *)
(* for room in its queue, and forgets the wake of a session that goes.     *)
TakesWake ==
  /\ courier.pc = "none" /\ wakes # <<>>
  /\ courier' = [pc |-> "look", of |-> Head(wakes).of] /\ wakes' = Tail(wakes)
  /\ UNCHANGED <<sleeper, expired, scheduler, ordered, ended>>

Looks ==
  /\ courier.pc = "look"
  /\ sleeper' = IF sleeper[courier.of].slot = "idle" THEN [sleeper EXCEPT ![courier.of] = Activated(@)] ELSE sleeper
  /\ courier' = IF sleeper[courier.of].slot \in {"idle", "active"} THEN [courier EXCEPT !.pc = "wait"] ELSE NoCourier
  /\ UNCHANGED <<expired, scheduler, wakes, ordered, ended>>

Delivers ==
  /\ courier.pc = "wait" /\ sleeper[courier.of].slot = "active" /\ Len(sleeper[courier.of].queue) < RunnerCapacity
  /\ sleeper' = [sleeper EXCEPT ![courier.of].queue = Append(@, "wake")] /\ courier' = NoCourier
  /\ UNCHANGED <<expired, scheduler, wakes, ordered, ended>>

LooksAgain ==
  /\ courier.pc = "wait" /\ sleeper[courier.of].slot # "active"
  /\ sleeper[courier.of].pc = "none" \/ Len(sleeper[courier.of].queue) < RunnerCapacity
  /\ courier' = [courier EXCEPT !.pc = "look"]
  /\ UNCHANGED <<sleeper, expired, scheduler, wakes, ordered, ended>>

RunnerWorks(s) == TakesOrder(s) \/ TakesOther(s) \/ Decides(s) \/ Arms(s)
SessionWorks(s) == RunnerWorks(s) \/ DeletionStops(s) \/ Cancels(s)
SchedulerWorks == TakesCommand \/ FallsDue \/ Pops \/ SendsWake
CourierWorks == TakesWake \/ Looks \/ LooksAgain
DeadlinesNext ==
  \/ \E s \in Sleepers : Orders(s) \/ SessionWorks(s) \/ Rebuilt(s) \/ DeletionBegins(s) \/ Passes(s)
  \/ Restarts \/ SchedulerWorks \/ CourierWorks \/ Delivers
-----------------------------------------------------------------------------
(* Each waits for the next: the runner to arm its deadline, the scheduler  *)
(* to send a wake, the supervisor's loop for room in that runner's queue.  *)
CircularWait ==
  /\ scheduler.sending # NoWake /\ Len(wakes) = WakeCapacity /\ Len(scheduler.queue) = CommandCapacity
  /\ courier.pc = "wait" /\ Len(sleeper[courier.of].queue) = RunnerCapacity
  /\ sleeper[courier.of].pc \in {"arm", "stop"}

(* A session that was started with its turn over is not asked for a wait   *)
(* that a tool left behind.                                                *)
LeftAside(s) == sleeper[s].slot = "idle" /\ LastCommitFinishes(s)

(* No wait whose deadline has passed goes on, but of a session that is     *)
(* deleted or was left aside, and while all three wait for each other.     *)
DeadlinesMet ==
  CircularWait \/ \A s \in Sleepers : Overdue(s) => LeftAside(s) \/ sleeper[s].slot \notin {"idle", "active"}
=============================================================================
