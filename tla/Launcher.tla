------------------------------ MODULE Launcher ------------------------------
(***************************************************************************)
(* The zork process, which keeps one gateway and one agent running, starts *)
(* them again when they exit, and replaces both on request: a client of    *)
(* its socket (zork update, or the gateway's own admin page) or a SIGHUP.  *)
(* It does one thing at a time, and listens for signals only while it      *)
(* waits for the next one.                                                 *)
(*                                                                         *)
(* The children are free to exit; told to end, they end.                   *)
(***************************************************************************)
EXTENDS Integers, FiniteSets

CONSTANTS Askers,     \* clients of the socket; those in AdminAskers are the gateway's
          AdminAskers,
          MaxExits    \* hangups, exits of children that nobody asked for, and failing starts

Names == {"gateway", "agent"}
Nobody == "nobody"

ASSUME LauncherAssumption == AdminAskers \subseteq Askers /\ Nobody \notin Askers /\ MaxExits \in Nat

VARIABLES
  current,    \* the child that is kept, of each name
  next,       \* the child that is to replace it, during a restart
  pidFile,    \* whose pid is in the ready file of each name
  main,       \* what the process is doing, to which child and for whom
  signals,    \* received and not yet acted upon
  deaf,       \* a signal came and was never acted upon
  asker,      \* the clients, and what they were told
  listener,   \* the client whose request is being answered
  requested,  \* the request has not been taken yet
  exits

launcherVars == <<current, next, pidFile, main, signals, deaf, asker, listener, requested, exits>>

(* fresh: started since the last request was taken. *)
Child(run, fresh) == [run |-> run, fresh |-> fresh]
NoChild == Child("none", FALSE)
Alive(child) == child.run \in {"starting", "ready", "ending"}
Terminated(child) == IF Alive(child) THEN [child EXCEPT !.run = "ending"] ELSE child
Waiting == [pc |-> "select", name |-> Nobody, asked |-> FALSE]
Unasked == [phase |-> "off", fresh |-> FALSE]

LauncherInit ==
  /\ current = [n \in Names |-> Child("starting", FALSE)] /\ next = NoChild
  /\ pidFile = [n \in Names |-> "other"] /\ main = Waiting
  /\ signals = {} /\ deaf = FALSE
  /\ asker = [c \in Askers |-> Unasked] /\ listener = Nobody /\ requested = FALSE /\ exits = 0
-----------------------------------------------------------------------------
(* The children.  The gateway's own clients end with it. *)
LeftAlone(clients) ==
  [c \in Askers |-> IF c \in AdminAskers /\ clients[c].phase = "connected" THEN [clients[c] EXCEPT !.phase = "gone"] ELSE clients[c]]

ChildReady(n) ==
  /\ \/ current[n].run = "starting" /\ current' = [current EXCEPT ![n].run = "ready"]
        /\ pidFile' = [pidFile EXCEPT ![n] = "current"] /\ UNCHANGED next
     \/ main.name = n /\ next.run = "starting" /\ next' = [next EXCEPT !.run = "ready"]
        /\ pidFile' = [pidFile EXCEPT ![n] = "next"] /\ UNCHANGED current
  /\ UNCHANGED <<main, signals, deaf, asker, listener, requested, exits>>

(* A child that ends in order takes its ready file away; one that is ended *)
(* before it listens for signals does not.                                 *)
Exits(n, from, cleared) ==
  /\ \/ current[n].run \in from /\ current' = [current EXCEPT ![n].run = "exited"]
        /\ pidFile' = [pidFile EXCEPT ![n] = IF cleared /\ @ = "current" THEN "other" ELSE @] /\ UNCHANGED next
     \/ main.name = n /\ next.run \in from /\ next' = [next EXCEPT !.run = "exited"]
        /\ pidFile' = [pidFile EXCEPT ![n] = IF cleared /\ @ = "next" THEN "other" ELSE @] /\ UNCHANGED current
  /\ asker' = IF n = "gateway" THEN LeftAlone(asker) ELSE asker
  /\ UNCHANGED <<main, signals, deaf, listener, requested>>

ChildStops(n) == (\E cleared \in BOOLEAN : Exits(n, {"ending"}, cleared)) /\ UNCHANGED exits
ChildExits(n, cleared) == exits < MaxExits /\ exits' = exits + 1 /\ Exits(n, {"starting", "ready"}, cleared)
-----------------------------------------------------------------------------
(* The loop takes one of the events that are ready.  With the others'      *)
(* futures the signals that had been received are dropped.                 *)
Selects ==
  /\ main.pc = "select" /\ signals' = {} /\ deaf' = (deaf \/ signals # {})

Respawn(n) ==
  /\ current[n].run = "exited" /\ Selects
  /\ current' = [current EXCEPT ![n] = Child("starting", TRUE)] /\ pidFile' = [pidFile EXCEPT ![n] = "other"]
  /\ UNCHANGED <<next, main, asker, listener, requested, exits>>

(* The end of the process is the end of its children and its clients. *)
Gone ==
  /\ main' = [Waiting EXCEPT !.pc = "gone"]
  /\ current' = [n \in Names |-> Child("exited", FALSE)] /\ next' = NoChild
  /\ asker' = [c \in Askers |-> IF asker[c].phase = "connected" THEN [asker[c] EXCEPT !.phase = "gone"] ELSE asker[c]]
  /\ listener' = Nobody /\ requested' = FALSE

RespawnFails(n) ==
  /\ current[n].run = "exited" /\ Selects /\ exits < MaxExits /\ exits' = exits + 1
  /\ Gone /\ UNCHANGED pidFile

Shutdown ==
  /\ main.pc = "select" /\ "term" \in signals
  /\ main' = [Waiting EXCEPT !.pc = "stopping"] /\ current' = [n \in Names |-> Terminated(current[n])]
  /\ signals' = {} /\ UNCHANGED <<next, pidFile, deaf, asker, listener, requested, exits>>

(* After a while the rest is killed. *)
Stopped == main.pc = "stopping" /\ Gone /\ UNCHANGED <<pidFile, signals, deaf, exits>>
-----------------------------------------------------------------------------
(* A restart: the gateway first, then the agent.  Each is told to end and  *)
(* killed when it takes too long; the new one must write its pid in time.  *)
Restart(asked) ==
  /\ main' = [pc |-> "drain", name |-> "gateway", asked |-> asked]
  /\ current' = [n \in Names |-> [(IF n = "gateway" THEN Terminated(current[n]) ELSE current[n]) EXCEPT !.fresh = FALSE]]
  /\ UNCHANGED <<next, pidFile, asker, listener, exits>>

TakeReload == requested /\ Selects /\ requested' = FALSE /\ Restart(TRUE)
Hangup ==
  /\ main.pc = "select" /\ "hup" \in signals
  /\ signals' = {} /\ deaf' = (deaf \/ "term" \in signals) /\ Restart(FALSE) /\ UNCHANGED requested

Drained ==
  /\ main.pc = "drain" /\ current[main.name].run = "exited"
  /\ main' = [main EXCEPT !.pc = "spawn"]
  /\ UNCHANGED <<current, next, pidFile, signals, deaf, asker, listener, requested, exits>>

\* Mutant: a child that takes too long is left to itself.
StartKillNot(child) == child
StartKill(child) == [child EXCEPT !.run = "exited"]
DrainTimeout ==
  /\ main.pc = "drain" /\ current[main.name].run = "ending"
  /\ current' = [current EXCEPT ![main.name] = StartKill(@)] /\ main' = [main EXCEPT !.pc = "spawn"]
  /\ asker' = IF main.name = "gateway" THEN LeftAlone(asker) ELSE asker
  /\ UNCHANGED <<next, pidFile, signals, deaf, listener, requested, exits>>

SpawnNext ==
  /\ main.pc = "spawn" /\ next' = Child("starting", TRUE) /\ main' = [main EXCEPT !.pc = "ready"]
  /\ UNCHANGED <<current, pidFile, signals, deaf, asker, listener, requested, exits>>

\* Mutant: only a success is told.
TellsSuccess(said) ==
  IF main.asked /\ said = "ok"
  THEN /\ asker' = [asker EXCEPT ![listener] = IF @.phase = "connected" THEN [phase |-> said, fresh |-> \A n \in Names : current'[n].fresh] ELSE @]
       /\ listener' = Nobody
  ELSE UNCHANGED <<asker, listener>>
(* The client is told how it went, if it is still there. *)
Tells(said) ==
  IF main.asked
  THEN /\ asker' = [asker EXCEPT ![listener] = IF @.phase = "connected" THEN [phase |-> said, fresh |-> \A n \in Names : current'[n].fresh] ELSE @]
       /\ listener' = Nobody
  ELSE UNCHANGED <<asker, listener>>

SpawnFails ==
  /\ main.pc = "spawn" /\ exits < MaxExits /\ exits' = exits + 1
  /\ main' = Waiting /\ UNCHANGED current /\ Tells("error")
  /\ UNCHANGED <<next, pidFile, signals, deaf, requested>>

NextReady ==
  /\ main.pc = "ready" /\ pidFile[main.name] = "next"
  /\ pidFile' = [pidFile EXCEPT ![main.name] = "current"] /\ next' = NoChild
  /\ IF main.name = "gateway"
     THEN /\ current' = [current EXCEPT !["gateway"] = next, !["agent"] = Terminated(@)]
          /\ main' = [main EXCEPT !.pc = "drain", !.name = "agent"] /\ UNCHANGED <<asker, listener>>
     ELSE current' = [current EXCEPT !["agent"] = next] /\ main' = Waiting /\ Tells("ok")
  /\ UNCHANGED <<signals, deaf, requested, exits>>

NextLate ==
  /\ main.pc = "ready" /\ next' = Terminated(next) /\ main' = [main EXCEPT !.pc = "undo"]
  /\ UNCHANGED <<current, pidFile, signals, deaf, asker, listener, requested, exits>>

(* The failed one is waited for, as long as it takes; the old one has      *)
(* ended already, so the loop starts another.                              *)
Undone ==
  /\ main.pc = "undo" /\ next.run = "exited" /\ next' = NoChild
  /\ main' = Waiting /\ UNCHANGED current /\ Tells("error")
  /\ UNCHANGED <<pidFile, signals, deaf, requested, exits>>
-----------------------------------------------------------------------------
(* Signals and clients.  The socket's clients are served one by one. *)
Signal(s) ==
  /\ s \notin signals /\ ~deaf /\ main.pc \notin {"stopping", "gone"}
  /\ (s = "hup" => exits < MaxExits) /\ exits' = exits + IF s = "hup" THEN 1 ELSE 0
  /\ IF main.pc = "select" THEN signals' = signals \cup {s} /\ UNCHANGED deaf ELSE deaf' = TRUE /\ UNCHANGED signals
  /\ UNCHANGED <<current, next, pidFile, main, asker, listener, requested>>

AsksFor(c) ==
  /\ asker[c] = Unasked /\ main.pc # "gone" /\ (c \in AdminAskers => current["gateway"].run = "ready")
  /\ asker' = [asker EXCEPT ![c].phase = "connected"]
  /\ UNCHANGED <<current, next, pidFile, main, signals, deaf, listener, requested, exits>>

Disconnects(c) ==
  /\ asker[c].phase = "connected" /\ asker' = [asker EXCEPT ![c].phase = "gone"]
  /\ UNCHANGED <<current, next, pidFile, main, signals, deaf, listener, requested, exits>>

Listens(c) ==
  /\ listener = Nobody /\ asker[c].phase = "connected"
  /\ listener' = c /\ requested' = TRUE
  /\ UNCHANGED <<current, next, pidFile, main, signals, deaf, asker, exits>>

MainWorks ==
  \/ \E n \in Names : Respawn(n)
  \/ Shutdown \/ Stopped \/ TakeReload \/ Hangup
  \/ Drained \/ DrainTimeout \/ SpawnNext \/ NextReady \/ NextLate \/ Undone

LauncherNext ==
  \/ MainWorks \/ SpawnFails
  \/ \E n \in Names : RespawnFails(n) \/ ChildReady(n) \/ ChildStops(n) \/ \E cleared \in BOOLEAN : ChildExits(n, cleared)
  \/ \E s \in {"term", "hup"} : Signal(s)
  \/ \E c \in Askers : AsksFor(c) \/ Disconnects(c) \/ Listens(c)

(* The process, its socket and the children that were told to end go on. *)
LauncherSystem == MainWorks \/ (\E n \in Names : ChildStops(n)) \/ \E c \in Askers : Listens(c)

LauncherSpec == LauncherInit /\ [][LauncherNext]_launcherVars
-----------------------------------------------------------------------------
(* Of each name one process runs at a time, through every restart, and     *)
(* none is left behind.                                                    *)
OneEach ==
  /\ \A n \in Names : ~(Alive(current[n]) /\ main.name = n /\ Alive(next))
  /\ main.pc = "gone" => \A n \in Names : ~Alive(current[n])

(* Who is told "ok" has two processes that were started since, and the     *)
(* admin page is never told: the gateway that asks for it is the first to  *)
(* be ended.                                                               *)
ReloadTold ==
  \A c \in Askers : asker[c].phase = "ok" => asker[c].fresh /\ c \notin AdminAskers

LauncherHonest == OneEach /\ ReloadTold
=============================================================================
