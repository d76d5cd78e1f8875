----------------------------- MODULE Supervisor -----------------------------
(***************************************************************************)
(* The slots of one session and everybody who works on them: requests,     *)
(* deadline wakes, the start-up scan, the rebuild after a failure and the  *)
(* shutdown.  A slot's status is guarded by its lock; who finds a session  *)
(* inactive claims it, recovers its log and starts a runner, and whoever   *)
(* comes meanwhile waits for the slot to change.  A runner is what its     *)
(* supervisor sees of it: commands taken, work done, one of four exits.    *)
(*                                                                         *)
(* Runners and channels are numbered as they are made; a runner that is    *)
(* restarted after an idle exit keeps the channel.  A slot that was        *)
(* deleted leaves the map, and the session's number is not used again.     *)
(***************************************************************************)
EXTENDS Naturals, SequencesExt, FiniteSetsExt

CONSTANTS Clients,      \* requests and wakes, one each
          Kinds,        \* what a client may ask for
          Stages,       \* where a runner may fail: append or loop
          QueueCap,     \* session_queue_capacity
          GlobalCap,    \* global_queue_capacity
          FaultLimit,   \* runner_fault_limit
          MaxRunners,   \* runners in a behaviour
          MaxFailures,  \* failures of runners, recoveries, detachments and the scan
          MaxGone       \* requests whose client goes away

AllKinds == {"create", "input", "cancel", "inspect", "delete", "wake"}

ASSUME SupervisorAssumption ==
  /\ Clients \cap {"scan", "rebuild", "down", "none"} = {}
  /\ Kinds \subseteq AllKinds /\ Stages \subseteq {"append", "loop"}
  /\ QueueCap \in Nat \ {0} /\ GlobalCap \in Nat \ {0} /\ FaultLimit \in Nat \ {0}
  /\ MaxRunners \in Nat /\ MaxFailures \in Nat /\ MaxGone \in Nat

VARIABLES
  log,       \* what a recovery would read
  slots,     \* the slots made so far, in order
  map,       \* the slot in the map, 0 for none
  chans,     \* the channels: their commands, and whether someone receives
  runners,   \* the runners: running, left with an exit, or gone
  actors,    \* what each task is doing
  stopping,
  row,       \* equal failures in a row and the steps completed since, as they happened
  failures, gone

vars == <<log, slots, map, chans, runners, actors, stopping, row, failures, gone>>

Actors == Clients \cup {"scan", "rebuild", "down"}
External == {"create", "input", "cancel"}

NoStreak == [stage |-> "none", count |-> 0, steps |-> 0]
NoActor == [pc |-> "off", kind |-> "none", at |-> 0, id |-> 0, heard |-> FALSE,
            permit |-> FALSE, answer |-> "none"]
NewSlot(status) == [status |-> status, id |-> 0, chan |-> 0, finished |-> FALSE]

\* The process starts with a session of an earlier life, or without one.
Init ==
  /\ log \in [dir : {"live"}, work : BOOLEAN, finished : BOOLEAN,
              streak : {NoStreak}, applied : {<<>>}]
             \cup [dir : {"none"}, work : {FALSE}, finished : {FALSE},
                   streak : {NoStreak}, applied : {<<>>}]
  /\ slots = <<>> /\ map = 0 /\ chans = <<>> /\ runners = <<>>
  /\ actors = [x \in Actors |-> IF x = "scan" THEN [NoActor EXCEPT !.pc = "discover"]
                                ELSE NoActor]
  /\ stopping = FALSE /\ row = NoStreak
  /\ failures = 0 /\ gone = 0

-----------------------------------------------------------------------------
Slot(x) == slots[actors[x].at]
\* What a task remembers of a runner goes when it looks at the slot again.
Forgetful == {"ensure", "waiting", "awaiting", "detach", "next"}
Go(x, pc) ==
  [actors EXCEPT ![x] = [@ EXCEPT !.pc = pc, !.id = IF pc \in Forgetful THEN 0 ELSE actors[x].id,
                                  !.heard = FALSE]]
\* Mutant: the place is not given back.
EndedHolding(actor, pc, answer) ==
  [NoActor EXCEPT !.pc = pc, !.kind = actor.kind, !.answer = answer, !.permit = actor.permit]
Ended(actor, pc, answer) ==
  [NoActor EXCEPT !.pc = pc, !.kind = actor.kind, !.answer = answer]
Finish(x, answer) == [actors EXCEPT ![x] = Ended(@, "done", answer)]

\* notify_waiters: those who registered for a change of slot s.
Notified(all, s) ==
  [x \in Actors |->
     IF all[x].at # s THEN all[x]
     ELSE IF all[x].pc = "waiting"
     THEN [all[x] EXCEPT !.pc = IF all[x].kind = "delete" THEN "mark" ELSE "ensure"]
     ELSE IF all[x].pc = "reserving" THEN [all[x] EXCEPT !.heard = TRUE]
     ELSE all[x]]

Refused(status) == status \in {"circuit", "unavailable", "deleting"}

\* Responses that are dropped with a channel: the clients learn that their
\* command was not confirmed.
\* Mutant: the command is submitted again.
DroppedAgain(all, commands) ==
  LET lost == {commands[i].from : i \in DOMAIN commands}
  IN [x \in Actors |->
        IF x \in lost /\ all[x].pc = "awaiting" THEN [all[x] EXCEPT !.pc = "ensure"] ELSE all[x]]
Dropped(all, commands) ==
  LET lost == {commands[i].from : i \in DOMAIN commands}
  IN [x \in Actors |->
        IF x \notin lost THEN all[x]
        ELSE IF all[x].pc = "awaiting"
        THEN Ended(all[x], "done", "lost")
        ELSE [all[x] EXCEPT !.permit = FALSE]]

Permits == Cardinality({x \in Actors : actors[x].permit})

Command(what, from) == [what |-> what, from |-> from, stage |-> "none", count |-> 0]
Fault(stage, count) == [what |-> "fault", from |-> "none", stage |-> stage, count |-> count]

\* Places that are held for a command count.
HasRoom(ch) ==
  Len(chans[ch].queue) + Cardinality({x \in Actors : /\ actors[x].pc = "holding"
                                                     /\ runners[actors[x].id].chan = ch}) < QueueCap
Sent(ch, command) ==
  IF chans[ch].open THEN [chans EXCEPT ![ch].queue = Append(@, command)] ELSE chans

\* A runner with number Len(runners) + 1 for slot s on channel ch.
Spawned(s, ch) == Append(runners, [pc |-> "run", at |-> s, chan |-> ch, stage |-> "none"])

-----------------------------------------------------------------------------
(* Requests.                                                               *)

\* create_session: a fresh slot, recovering, and a runner for the empty state.
Create(c) ==
  /\ actors[c].pc = "off" /\ "create" \in Kinds
  /\ log.dir = "none" /\ slots = <<>> /\ ~stopping
  /\ Permits < GlobalCap
  /\ slots' = <<NewSlot("recovering")>> /\ map' = 1
  /\ actors' = [actors EXCEPT ![c] = [NoActor EXCEPT !.pc = "activate", !.kind = "create",
                                        !.at = 1, !.permit = TRUE]]
  /\ UNCHANGED <<log, chans, runners, stopping, row, failures, gone>>

\* lookup: in the map, or else on disk; the map is asked again to insert it.
Lookup(c) ==
  /\ actors[c].pc = "off"
  /\ \E kind \in Kinds \ {"create"} :
       /\ kind = "wake" => \A x \in Clients : actors[x].kind # "wake"
       /\ actors' = [actors EXCEPT ![c] =
            [NoActor EXCEPT !.kind = kind, !.at = map,
               !.pc = IF map # 0 THEN "admit" ELSE IF log.dir = "live" THEN "insert" ELSE "done",
               !.answer = IF map = 0 /\ log.dir # "live" THEN "notfound" ELSE "none"]]
  /\ UNCHANGED <<log, slots, map, chans, runners, stopping, row, failures, gone>>

Insert(c) ==
  /\ actors[c].pc = "insert"
  /\ slots' = IF map = 0 THEN Append(slots, NewSlot("unchecked")) ELSE slots
  /\ map' = IF map = 0 THEN Len(slots') ELSE map
  /\ actors' = [actors EXCEPT ![c].pc = "admit", ![c].at = map']
  /\ UNCHANGED <<log, chans, runners, stopping, row, failures, gone>>

\* A place in the global queue, for those who need one.
Admit(c) ==
  /\ actors[c].pc = "admit"
  /\ actors' =
       LET kind == actors[c].kind
           next == IF kind = "delete" THEN "mark"
                   ELSE IF kind = "inspect" /\ Slot(c).status = "circuit" THEN "read"
                   ELSE "ensure"
       IN IF kind \in External /\ Permits >= GlobalCap THEN Finish(c, "overloaded")
          ELSE [actors EXCEPT ![c].pc = next, ![c].permit = kind \in External]
  /\ UNCHANGED <<log, slots, map, chans, runners, stopping, row, failures, gone>>

\* inspect of a session whose circuit is open reads the log.
ReadLog(c) ==
  /\ actors[c].pc = "read"
  /\ actors' = Finish(c, IF log.dir = "live" THEN "ok" ELSE "notfound")
  /\ UNCHANGED <<log, slots, map, chans, runners, stopping, row, failures, gone>>

Sends(c) == IF actors[c].kind \in External THEN "dispatch" ELSE "reserve"

\* ensure_active: who finds the slot inactive recovers it.
\* Mutant: a recovery under way is not waited for.
EnsureActiveEager(c) ==
  /\ actors[c].pc = "ensure"
  /\ Slot(c).status \in {"unchecked", "idle", "recovering"}
  /\ slots' = [slots EXCEPT ![actors[c].at].status = "recovering"]
  /\ actors' = Go(c, "recover")
  /\ UNCHANGED <<log, map, chans, runners, stopping, row, failures, gone>>
EnsureActive(c) ==
  /\ actors[c].pc = "ensure"
  /\ LET claims == Slot(c).status \in {"unchecked", "idle"}
     IN /\ slots' = IF claims
                    THEN [slots EXCEPT ![actors[c].at].status = "recovering", ![actors[c].at].finished = FALSE]
                    ELSE slots
        /\ actors' = IF claims THEN Go(c, "recover")
                     ELSE IF Slot(c).status = "active" THEN Go(c, Sends(c))
                     ELSE IF Slot(c).status = "recovering" THEN Go(c, "waiting")
                     ELSE Finish(c, Slot(c).status)
  /\ UNCHANGED <<log, map, chans, runners, stopping, row, failures, gone>>

\* recover_state: the log is read; a failure makes the session unavailable.
Recover(x) ==
  /\ actors[x].pc = "recover" /\ log.dir = "live"
  /\ actors' = Go(x, "activate")
  /\ UNCHANGED <<log, slots, map, chans, runners, stopping, row, failures, gone>>

RecoveryFails(x) ==
  /\ actors[x].pc = "recover"
  /\ \/ log.dir # "live" /\ UNCHANGED failures
     \/ failures < MaxFailures /\ failures' = failures + 1
  /\ slots' = [slots EXCEPT ![actors[x].at].status = "unavailable"]
  /\ actors' = Notified(Finish(x, "unavailable"), actors[x].at)
  /\ UNCHANGED <<log, map, chans, runners, stopping, row, gone>>

\* The fault that a rebuilt runner records first.
NextCount(stage) == IF log.streak.stage = stage THEN log.streak.count + 1 ELSE 1

\* activate: the slot becomes active and a runner starts, with a channel of its own.
\* (A recovery that had to report something puts a fault of its own in first, with
\* a count of one and a closed circuit; the reports of a recovery are left out.)
Activate(x) ==
  /\ actors[x].pc = "activate" /\ Slot(x).status = "recovering"
  /\ Len(runners) < MaxRunners
  /\ LET s == actors[x].at
         id == Len(runners) + 1
         stage == runners[actors[x].id].stage
         initial == IF x = "rebuild" THEN <<Fault(stage, NextCount(stage))>> ELSE <<>>
     IN /\ chans' = Append(chans, [queue |-> initial, open |-> TRUE])
        /\ runners' = Spawned(s, Len(chans'))
        /\ slots' = [slots EXCEPT ![s] = [status |-> "active", id |-> id, chan |-> Len(chans'),
                                          finished |-> FALSE]]
        /\ actors' = Notified(IF x \in Clients THEN Go(x, Sends(x)) ELSE Finish(x, "ok"), s)
  /\ UNCHANGED <<log, map, stopping, row, failures, gone>>

\* dispatch_external: what the status is when the command is ready to be sent.
Dispatch(c) ==
  /\ actors[c].pc = "dispatch"
  /\ LET ch == Slot(c).chan
         status == Slot(c).status
         sent == status = "active" /\ chans[ch].open /\ HasRoom(ch)
     IN /\ chans' = IF sent THEN Sent(ch, Command(actors[c].kind, c)) ELSE chans
        /\ actors' = IF sent THEN Go(c, "awaiting")
                     ELSE IF Refused(status) THEN Finish(c, status)
                     ELSE IF status \in {"unchecked", "idle"} THEN Go(c, "ensure")
                     ELSE IF status = "active" /\ chans[ch].open THEN Finish(c, "full")
                     ELSE Go(c, "waiting")
  /\ UNCHANGED <<log, slots, map, runners, stopping, row, failures, gone>>

\* send_internal: the sender is taken, room is awaited without the lock, and
\* the runner is looked at again before the command goes in.
Reserve(c) ==
  /\ actors[c].pc = "reserve"
  /\ actors' = IF Slot(c).status = "active"
               THEN [actors EXCEPT ![c].pc = "reserving", ![c].id = Slot(c).id, ![c].heard = FALSE]
               ELSE IF Refused(Slot(c).status) THEN Finish(c, Slot(c).status)
               ELSE IF Slot(c).status = "recovering" THEN Go(c, "waiting")
               ELSE Go(c, "ensure")
  /\ UNCHANGED <<log, slots, map, chans, runners, stopping, row, failures, gone>>

\* Mutant: the notification is registered too late.
TakePlaceDeaf(c) ==
  /\ actors[c].pc = "reserving"
  /\ LET ch == runners[actors[c].id].chan
     IN /\ ~chans[ch].open \/ HasRoom(ch)
        /\ actors' = Go(c, IF chans[ch].open THEN "holding" ELSE "waiting")
  /\ UNCHANGED <<log, slots, map, chans, runners, stopping, row, failures, gone>>
TakePlace(c) ==
  /\ actors[c].pc = "reserving"
  /\ LET ch == runners[actors[c].id].chan
     IN /\ ~chans[ch].open \/ HasRoom(ch)
        /\ actors' = Go(c, IF chans[ch].open THEN "holding"
                          ELSE IF actors[c].heard THEN "ensure" ELSE "waiting")
  /\ UNCHANGED <<log, slots, map, chans, runners, stopping, row, failures, gone>>

\* A command that goes to a channel nobody receives from is lost with it.
SendInternal(c) ==
  /\ actors[c].pc = "holding"
  /\ LET ch == runners[actors[c].id].chan
         same == Slot(c).status = "active" /\ Slot(c).id = actors[c].id
     IN /\ chans' = IF same THEN Sent(ch, Command(actors[c].kind, c)) ELSE chans
        /\ actors' = IF ~same THEN Go(c, "ensure")
                     ELSE IF actors[c].kind = "wake" THEN Finish(c, "ok")
                     ELSE IF ~chans[ch].open THEN Finish(c, "lost")
                     ELSE Go(c, "awaiting")
  /\ UNCHANGED <<log, slots, map, runners, stopping, row, failures, gone>>

\* The client of a request goes away, and the future that served it is dropped
\* where it stands; a move of the directory that has begun may
\* still happen.  Wakes are served by a task of their own.
Leave(c) ==
  /\ gone < MaxGone /\ actors[c].pc \notin {"off", "done", "left"}
  /\ actors[c].kind # "wake"
  /\ gone' = gone + 1
  /\ actors' = [actors EXCEPT ![c] = [Ended(@, "left", @.pc) EXCEPT
                                       !.permit = actors[c].permit /\ actors[c].pc = "awaiting"]]
  /\ log' \in {log} \cup IF actors[c].pc = "detach" /\ log.dir = "live"
                       THEN {[log EXCEPT !.dir = "detached"]} ELSE {}
  /\ UNCHANGED <<slots, map, chans, runners, stopping, row, failures>>

-----------------------------------------------------------------------------
(* Deletion.                                                               *)

\* New work is refused from here on; a recovery under way is waited for.
MarkDeleting(c) ==
  /\ actors[c].pc = "mark"
  /\ LET s == actors[c].at
         waits == Slot(c).status = "recovering"
     IN /\ slots' = IF waits \/ Slot(c).status = "deleting" THEN slots
                    ELSE [slots EXCEPT ![s].status = "deleting", ![s].finished = FALSE]
        /\ actors' = IF waits THEN Go(c, "waiting")
                     ELSE IF Slot(c).status = "deleting" THEN Finish(c, "deleting")
                     ELSE Notified([actors EXCEPT
                            ![c].pc = IF Slot(c).status = "active" THEN "stop" ELSE "detach",
                            ![c].id = Slot(c).id], s)
  /\ UNCHANGED <<log, map, chans, runners, stopping, row, failures, gone>>

\* Stop waits for room like every internal command; a closed channel is skipped.
SendStop(x) ==
  /\ actors[x].pc = "stop"
  /\ LET ch == runners[actors[x].id].chan
     IN /\ ~chans[ch].open \/ HasRoom(ch)
        /\ chans' = Sent(ch, Command("stop", x))
  /\ actors' = Go(x, "join")
  /\ UNCHANGED <<log, slots, map, runners, stopping, row, failures, gone>>

\* wait_for_runner: numbers complete in order for a slot.
\* Mutant: the runner is not waited for.
JoinAtOnce(x) ==
  /\ actors[x].pc = "join"
  /\ actors' = Go(x, IF x = "down" THEN "next" ELSE "detach")
  /\ UNCHANGED <<log, slots, map, chans, runners, stopping, row, failures, gone>>
\* Mutant: the slot is waited for instead of the runner.
JoinIdle(x) ==
  /\ actors[x].pc = "join" /\ Slot(x).status \in {"idle", "deleting"}
  /\ actors' = Go(x, IF x = "down" THEN "next" ELSE "detach")
  /\ UNCHANGED <<log, slots, map, chans, runners, stopping, row, failures, gone>>
Join(x) ==
  /\ actors[x].pc = "join"
  /\ \E id \in DOMAIN runners : /\ id >= actors[x].id /\ runners[id].at = actors[x].at
                               /\ runners[id].pc = "gone"
  /\ actors' = Go(x, IF x = "down" THEN "next" ELSE "detach")
  /\ UNCHANGED <<log, slots, map, chans, runners, stopping, row, failures, gone>>

\* The directory is moved away, or that fails and the slot stays as it is.
Detach(c) ==
  /\ actors[c].pc = "detach"
  /\ \/ /\ log.dir = "live"
        /\ log' = [log EXCEPT !.dir = "detached"]
        /\ actors' = Go(c, "forget") /\ UNCHANGED failures
     \/ /\ log.dir # "live"
        /\ actors' = Finish(c, "notfound") /\ UNCHANGED <<log, failures>>
     \/ /\ failures < MaxFailures /\ failures' = failures + 1
        /\ actors' = Finish(c, "failed") /\ UNCHANGED log
  /\ UNCHANGED <<slots, map, chans, runners, stopping, row, gone>>

Forget(c) ==
  /\ actors[c].pc = "forget"
  /\ map' = 0
  /\ actors' = Finish(c, "ok")
  /\ UNCHANGED <<log, slots, chans, runners, stopping, row, failures, gone>>

-----------------------------------------------------------------------------
(* Runners.                                                                *)

Runs(id) == id \in DOMAIN runners /\ runners[id].pc = "run"

\* The runner returns; unless it was idle it drops its end of the channel.
Left(id, how, stage) ==
  runners' = [runners EXCEPT ![id].pc = how, ![id].stage = stage]
Closed(ch) == [chans EXCEPT ![ch] = [queue |-> <<>>, open |-> FALSE]]

\* A command takes effect in one append.
Effect(command) ==
  CASE command.what = "create" -> [log EXCEPT !.dir = "live", !.applied = Append(@, command.from)]
    [] command.what = "input" ->
         [log EXCEPT !.work = TRUE, !.finished = FALSE, !.applied = Append(@, command.from)]
    [] command.what = "cancel" ->
         [log EXCEPT !.work = FALSE, !.finished = FALSE, !.applied = Append(@, command.from)]
    [] command.what = "fault" ->
         [log EXCEPT !.work = TRUE, !.finished = FALSE,
                     !.streak = [stage |-> command.stage, count |-> command.count, steps |-> 0]]
    [] OTHER -> log

Opens(command) == command.what = "fault" /\ command.count >= FaultLimit

Handle(id) ==
  /\ Runs(id)
  /\ LET ch == runners[id].chan
         queue == chans[ch].queue
         command == Head(queue)
         ends == command.what = "stop" \/ Opens(command)
     IN /\ queue # <<>>
        /\ log' = Effect(command)
        /\ chans' = IF ends THEN Closed(ch) ELSE [chans EXCEPT ![ch].queue = Tail(@)]
        /\ IF ends THEN Left(id, IF command.what = "stop" THEN "stopped" ELSE "circuit", "none")
           ELSE UNCHANGED runners
        /\ LET rest == IF ends THEN Dropped(actors, Tail(queue)) ELSE actors
               from == command.from
           IN actors' = IF from \notin Clients \/ rest[from].pc # "awaiting"
                        THEN IF from \in Clients THEN [rest EXCEPT ![from].permit = FALSE] ELSE rest
                        ELSE [rest EXCEPT ![from] = Ended(@, "done", "ok")]
  /\ UNCHANGED <<slots, map, stopping, row, failures, gone>>

\* Two completed steps end a streak of equal faults.
AfterStep(streak) ==
  IF streak = NoStreak \/ streak.steps = 1 THEN NoStreak ELSE [streak EXCEPT !.steps = 1]

\* A fault to be recorded is taken from the channel before anything else.
Owes(id) ==
  LET queue == chans[runners[id].chan].queue
  IN queue # <<>> /\ Head(queue).what = "fault"

Work(id) ==
  /\ Runs(id) /\ log.work /\ ~Owes(id)
  /\ \/ /\ log' = [log EXCEPT !.streak = AfterStep(@)]
        /\ row' = AfterStep(row)
     \/ /\ log' = [log EXCEPT !.work = FALSE, !.finished = TRUE]
        /\ UNCHANGED row
  /\ UNCHANGED <<slots, map, chans, runners, actors, stopping, failures, gone>>

\* The runner fails between two commands, or in the append of one, which may
\* still have been written.
Breaks(id, stage) ==
  /\ stage \in Stages
  /\ Left(id, "failed", stage)
  /\ row' = [stage |-> stage, count |-> IF row.stage = stage THEN row.count + 1 ELSE 1, steps |-> 0]

Fail(id) ==
  /\ Runs(id) /\ failures < MaxFailures
  /\ failures' = failures + 1
  /\ LET ch == runners[id].chan
         queue == chans[ch].queue
     IN /\ \/ ~Owes(id) /\ Breaks(id, "loop") /\ UNCHANGED log
           \/ /\ Breaks(id, "append")
              /\ log' \in {log} \cup {Effect(queue[i]) : i \in DOMAIN queue \cap {1}}
        /\ chans' = Closed(ch)
        /\ actors' = Dropped(actors, queue)
  /\ UNCHANGED <<slots, map, stopping, gone>>

\* Nothing left to do: the runner returns with its receiver, whatever is in it.
IdleExit(id) ==
  /\ Runs(id) /\ log.dir # "none" /\ ~log.work /\ ~Owes(id)
  /\ Left(id, "idle", "none")
  /\ UNCHANGED <<log, slots, map, chans, actors, stopping, row, failures, gone>>

Mine(id) == LET slot == slots[runners[id].at] IN slot.status = "active" /\ slot.id = id
\* Mutant: the slot goes idle.
RebuildsNever(id) == FALSE
Rebuilds(id) == runners[id].pc = "failed" /\ Mine(id) /\ ~stopping
\* Mutant: idle is finished.
ListedIdle(id) == runners[id].pc = "idle" /\ ~stopping
ListedFinished(id) == runners[id].pc = "idle" /\ ~stopping /\ log.finished

\* runner_exited: what becomes of the slot, if it still is this runner's.
Exited(id) ==
  /\ id \in DOMAIN runners /\ runners[id].pc \in {"idle", "circuit", "stopped", "failed"}
  /\ LET r == runners[id]
         s == r.at
         mine == Mine(id)
         queue == chans[r.chan].queue
         restarts == r.pc = "idle" /\ mine /\ ~stopping /\ queue # <<>>
         rebuilds == Rebuilds(id)
         status == IF rebuilds THEN "recovering"
                   ELSE IF r.pc = "circuit" /\ ~stopping THEN "circuit" ELSE "idle"
         left == [runners EXCEPT ![id].pc = "gone"]
     IN /\ restarts => Len(runners) < MaxRunners
        /\ runners' = IF restarts THEN Append(left, [r EXCEPT !.pc = "run"]) ELSE left
        /\ chans' = IF restarts THEN chans ELSE Closed(r.chan)
        /\ slots' = IF ~mine THEN slots
                    ELSE IF restarts THEN [slots EXCEPT ![s].id = Len(runners')]
                    ELSE [slots EXCEPT ![s].status = status,
                            ![s].finished = ListedFinished(id)]
        /\ LET rest == IF restarts THEN actors ELSE Dropped(actors, queue)
               told == IF mine THEN Notified(rest, s) ELSE rest
           IN actors' = IF rebuilds
                        THEN [told EXCEPT !["rebuild"] = [NoActor EXCEPT !.pc = "recover", !.at = s, !.id = id]]
                        ELSE told
  /\ UNCHANGED <<log, map, stopping, row, failures, gone>>

-----------------------------------------------------------------------------
(* The scan at the start, and the shutdown.                                *)

\* The directories are listed first and put into the map later.  When they cannot
\* be listed the scan ends, and nobody is told.
Discover ==
  /\ actors["scan"].pc = "discover"
  /\ \/ /\ actors' = IF log.dir = "live" THEN Go("scan", "enlist") ELSE Finish("scan", "ok")
        /\ UNCHANGED failures
     \/ /\ failures < MaxFailures /\ failures' = failures + 1
        /\ actors' = Finish("scan", "failed")
  /\ UNCHANGED <<log, slots, map, chans, runners, stopping, row, gone>>

Enlist ==
  /\ actors["scan"].pc = "enlist"
  /\ slots' = IF map = 0 THEN Append(slots, NewSlot("unchecked")) ELSE slots
  /\ map' = IF map = 0 THEN Len(slots') ELSE map
  /\ actors' = [actors EXCEPT !["scan"].pc = "check", !["scan"].at = map']
  /\ UNCHANGED <<log, chans, runners, stopping, row, failures, gone>>

Check ==
  /\ actors["scan"].pc = "check"
  /\ LET claims == ~stopping /\ Slot("scan").status = "unchecked"
     IN /\ slots' = IF claims THEN [slots EXCEPT ![actors["scan"].at].status = "recovering"] ELSE slots
        /\ actors' = IF claims THEN Go("scan", "glance") ELSE Finish("scan", "ok")
  /\ UNCHANGED <<log, map, chans, runners, stopping, row, failures, gone>>

\* A log that ends with a finished turn, or that holds no work, needs no runner.
Glance ==
  /\ actors["scan"].pc = "glance"
  /\ LET s == actors["scan"].at
         rests == log.dir = "live" /\ (log.finished \/ ~log.work)
     IN /\ slots' = IF rests THEN [slots EXCEPT ![s].status = "idle", ![s].finished = log.finished]
                    ELSE slots
        /\ actors' = IF rests THEN Notified(Finish("scan", "ok"), s) ELSE Go("scan", "recover")
  /\ UNCHANGED <<log, map, chans, runners, stopping, row, failures, gone>>

Shutdown ==
  /\ actors["down"].pc = "off"
  /\ stopping' = TRUE
  /\ actors' = Go("down", "scan")
  /\ UNCHANGED <<log, slots, map, chans, runners, row, failures, gone>>

ScanEnded ==
  /\ actors["down"].pc = "scan" /\ actors["scan"].pc = "done"
  /\ actors' = [actors EXCEPT !["down"].pc = "look", !["down"].at = map]
  /\ UNCHANGED <<log, slots, map, chans, runners, stopping, row, failures, gone>>

\* Each slot that is active gets a Stop.
Look ==
  /\ actors["down"].pc = "look"
  /\ actors' = IF actors["down"].at # 0 /\ Slot("down").status = "active"
               THEN [actors EXCEPT !["down"].pc = "stop", !["down"].id = Slot("down").id]
               ELSE Go("down", "next")
  /\ UNCHANGED <<log, slots, map, chans, runners, stopping, row, failures, gone>>

\* The server drains its requests while a first shutdown is under way; a second
\* one follows.
Again ==
  /\ actors["down"].pc = "next" /\ actors["down"].answer = "none"
  /\ \A c \in Clients : actors[c].kind # "wake" => actors[c].pc \in {"off", "done", "left"}
  /\ actors' = [actors EXCEPT !["down"].pc = "scan", !["down"].answer = "drained"]
  /\ UNCHANGED <<log, slots, map, chans, runners, stopping, row, failures, gone>>

-----------------------------------------------------------------------------
Request(c) ==
  \/ Insert(c) \/ Admit(c) \/ ReadLog(c) \/ EnsureActive(c) \/ Dispatch(c)
  \/ Reserve(c) \/ TakePlace(c) \/ SendInternal(c) \/ MarkDeleting(c) \/ Detach(c)
  \/ Forget(c)
Common(x) == Recover(x) \/ RecoveryFails(x) \/ Activate(x) \/ SendStop(x) \/ Join(x)
Background == Discover \/ Enlist \/ Check \/ Glance \/ ScanEnded \/ Look \/ Again

Next ==
  \/ \E c \in Clients : Create(c) \/ Lookup(c) \/ Request(c) \/ Leave(c)
  \/ \E x \in Actors : Common(x)
  \/ \E id \in 1..MaxRunners : Handle(id) \/ Work(id) \/ Fail(id) \/ IdleExit(id) \/ Exited(id)
  \/ Background \/ Shutdown

Spec == Init /\ [][Next]_vars

\* Every task is scheduled again, and a runner takes its commands; nobody has to
\* ask, to work, to fail or to shut down.
FairSpec ==
  /\ Spec
  /\ \A c \in Clients : WF_vars(Request(c))
  /\ \A x \in Actors : WF_vars(Common(x))
  /\ \A id \in 1..MaxRunners : WF_vars(Handle(id) \/ Exited(id))
  /\ WF_vars(Discover \/ Enlist \/ Check \/ Glance)
  /\ WF_vars(ScanEnded \/ Look \/ Again)
=============================================================================
