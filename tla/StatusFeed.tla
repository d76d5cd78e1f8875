----------------------------- MODULE StatusFeed -----------------------------
(***************************************************************************)
(* How one conversation's status gets from the agent's log to its thread   *)
(* in Slack: the log and the broadcast of what was appended, the event     *)
(* stream the agent serves from both, the gateway's subscription with its  *)
(* cursor and its projection of events to a status, and the hub that sends *)
(* one status at a time to Slack.                                          *)
(*                                                                         *)
(* Events and positions: what the session's log holds is SessionState's;   *)
(* here an event is what the projection makes of it.  Slack is external.   *)
(***************************************************************************)
EXTENDS Integers, Sequences, SequencesExt

CONSTANTS MaxEvents,      \* events in the log of an agent session
          LiveCapacity,   \* events the broadcast keeps for a slow receiver
          MaxBreaks       \* broken streams, kills, failed deliveries, resets, deletions

ASSUME FeedAssumption ==
  /\ MaxEvents \in Nat /\ LiveCapacity \in Nat \ {0}
  /\ MaxBreaks \in Nat

None == "none"
Calls == {1, 2}   \* the calls of a batch

VARIABLES
  log,        \* events appended
  published,  \* how many of them went to the broadcast
  live,       \* positions in the receiver's part of the broadcast
  lagged,     \* the receiver missed some
  stream,     \* the agent's side: off, scan (the log) or live, and where it is
  wire,       \* positions sent and not received
  feed,       \* the gateway's subscription: off, opening, open; and its cursor
  active,     \* the projection's running calls
  hub,        \* last status sent, pending, flushing and in flight
  slack,      \* the status Slack shows
  bound,        \* the conversation's row exists
  breaks,
  lost,       \* the status asked for last was taken for shown, or failed
  unsure,     \* the hub does not know what Slack shows
  blind       \* the projection forgot running calls

agentVars == <<log, published, live, lagged, stream, wire>>
hubVars == <<hub, slack, lost, unsure>>
feedVars == <<log, published, live, lagged, stream, wire, feed, active, hub, slack, bound,
              breaks, lost, unsure, blind>>

Hub == [last |-> "", pending |-> None, flushing |-> FALSE, flying |-> None]
Off == [pc |-> "off", at |-> 0, end |-> 0]

FeedInit ==
  /\ log = <<>> /\ published = 0 /\ live = <<>> /\ lagged = FALSE
  /\ stream = Off /\ wire = <<>> /\ feed = [pc |-> "off", cursor |-> 0]
  /\ active = {} /\ hub = Hub /\ slack = "" /\ bound = TRUE
  /\ breaks = 0 /\ lost = FALSE /\ unsure = FALSE /\ blind = FALSE
-----------------------------------------------------------------------------
(* What an event makes of the running calls and of the status. *)
Apply(calls, event) ==
  CASE event.kind = "thinking" -> [calls |-> {}, status |-> "Thinking"]
    [] event.kind = "tools" -> [calls |-> Calls, status |-> "Working"]
    [] event.kind = "result" ->
         [calls |-> calls \ {event.call},
          status |-> IF calls \ {event.call} = {} THEN "Thinking" ELSE "Working"]
    [] event.kind = "finished" -> [calls |-> {}, status |-> ""]
    [] event.kind = "failed" -> [calls |-> {}, status |-> "Failed"]

(* Events that say nothing of the status. *)
Silent(event) == event.kind = "input"

Project(shown, event) == IF Silent(event) THEN shown ELSE Apply(shown.calls, event)

(* The status of a log that one projection read from its start. *)
StatusOf(events) == FoldLeft(Project, [calls |-> {}, status |-> ""], events).status

(* What a session's log can hold next: calls are made in a turn, by a      *)
(* step, one batch of them, and a result comes at any time after its call, *)
(* once, also after the turn.                                              *)
LastOf(kinds) == SelectLastInSubSeq(log, 1, Len(log), LAMBDA e : e.kind \in kinds)
InTurn == LastOf({"thinking"}) > LastOf({"finished", "failed"})
Possible ==
  {[kind |-> k, call |-> 0] : k \in {"input", "thinking"}}
  \cup {[kind |-> k, call |-> 0] : k \in IF ~InTurn THEN {} ELSE {"finished", "failed"}
                                             \cup IF LastOf({"tools"}) = 0 THEN {"tools"} ELSE {}}
  \cup {[kind |-> "result", call |-> c] : c \in {c \in Calls : LET b == LastOf({"tools"})
           IN b > 0 /\ \A i \in b..Len(log) : log[i] # [kind |-> "result", call |-> c]}}

(* The runner persists an event before it publishes it, and publishes it   *)
(* before the next.                                                        *)
PersistEvent(event) ==
  /\ bound /\ Len(log) < MaxEvents /\ published = Len(log)
  /\ log' = Append(log, event)
  /\ UNCHANGED <<published, live, lagged, stream, wire, feed, active, hubVars, bound, breaks, blind>>

(* The broadcast keeps the last events; a receiver that is behind loses    *)
(* the oldest and is told so.                                              *)
Publish ==
  /\ published < Len(log) /\ published' = published + 1
  /\ IF stream.pc = "off" THEN UNCHANGED <<live, lagged>>
     ELSE LET kept == Append(live, published + 1)
          IN /\ live' = IF Len(kept) > LiveCapacity THEN Tail(kept) ELSE kept
             /\ lagged' = (lagged \/ Len(kept) > LiveCapacity)
  /\ UNCHANGED <<log, stream, wire, feed, active, hubVars, bound, breaks, blind>>
-----------------------------------------------------------------------------
(* A row without a followed session gets its subscription with the next    *)
(* message or when the gateway starts.                                     *)
Ensure ==
  /\ bound /\ feed.pc = "off" /\ log # <<>>
  /\ feed' = [pc |-> "opening", cursor |-> 0]
  /\ UNCHANGED <<agentVars, active, hubVars, bound, breaks, blind>>

(* The agent listens to the broadcast before it reads the log. *)
Open ==
  /\ feed.pc = "opening" /\ feed' = [feed EXCEPT !.pc = "open"]
  /\ stream' = [pc |-> "scan", at |-> feed.cursor, end |-> Len(log)]
  /\ live' = <<>> /\ lagged' = FALSE /\ wire' = <<>> /\ active' = {}
  /\ UNCHANGED <<log, published, hubVars, bound, breaks, blind>>

Sends(position) == wire = <<>> /\ wire' = <<position>>

ScanItem ==
  /\ stream.pc = "scan" /\ stream.at < Len(log) /\ Sends(stream.at + 1)
  /\ stream' = [stream EXCEPT !.at = @ + 1]
  /\ UNCHANGED <<log, published, live, lagged, feed, active, hubVars, bound, breaks, blind>>

(* A scan may end without what was appended after it began. *)
ScanDone ==
  /\ stream.pc = "scan" /\ stream.at >= stream.end
  /\ stream' = [stream EXCEPT !.pc = "live"]
  /\ UNCHANGED <<log, published, live, lagged, wire, feed, active, hubVars, bound, breaks, blind>>

\* Mutant: what the scan has sent is not recognised.
IsOldNever(position) == FALSE

(* The event was in the log when it was scanned. *)
IsOld(position) == position <= stream.at

LiveItem ==
  /\ stream.pc = "live" /\ ~lagged /\ live # <<>>
  /\ live' = Tail(live)
  /\ IF IsOld(Head(live)) THEN UNCHANGED <<stream, wire>>
     ELSE Sends(Head(live)) /\ stream' = [stream EXCEPT !.at = Head(live)]
  /\ UNCHANGED <<log, published, lagged, feed, active, hubVars, bound, breaks, blind>>

(* What was missed is read from the log. *)
LiveLagged ==
  /\ stream.pc = "live" /\ lagged /\ lagged' = FALSE
  /\ stream' = [stream EXCEPT !.pc = "scan", !.end = Len(log)]
  /\ UNCHANGED <<log, published, live, wire, feed, active, hubVars, bound, breaks, blind>>
-----------------------------------------------------------------------------
Shown == IF hub.pending # None THEN hub.pending ELSE hub.last

(* The hub takes the status it sent last for the one shown, also while     *)
(* another is on its way.                                                  *)
SetThread(status) ==
  IF Shown = status
  THEN UNCHANGED hub /\ lost' = (hub.pending = None /\ hub.flying \notin {None, status})
  ELSE hub' = [hub EXCEPT !.pending = status, !.flushing = TRUE] /\ lost' = FALSE

ReceiveEvent ==
  /\ feed.pc = "open" /\ wire # <<>> /\ wire' = <<>>
  /\ feed' = [feed EXCEPT !.cursor = Head(wire)]
  /\ LET event == log[Head(wire)]
         shown == Apply(active, event)
     IN IF Silent(event) THEN UNCHANGED <<active, blind, hub, lost>>
        ELSE /\ active' = shown.calls /\ SetThread(shown.status)
             /\ blind' = (blind /\ event.kind = "result")
  /\ UNCHANGED <<log, published, live, lagged, stream, slack, bound, breaks, unsure>>

(* One status at a time: the newest, unless it was the last sent. *)
TakePending ==
  /\ hub.flushing /\ hub.flying = None
  /\ hub' = IF hub.pending = None THEN [hub EXCEPT !.flushing = FALSE]
            ELSE [hub EXCEPT !.pending = None,
                             !.flying = IF hub.pending = hub.last THEN None ELSE hub.pending]
  /\ UNCHANGED <<agentVars, feed, active, slack, bound, breaks, lost, unsure, blind>>

Delivered ==
  /\ hub.flying # None
  /\ hub' = [hub EXCEPT !.last = hub.flying, !.flying = None] /\ slack' = hub.flying
  /\ UNCHANGED <<agentVars, feed, active, bound, breaks, lost, unsure, blind>>

(* A status that fails is not sent again; Slack may have taken it. *)
DeliveryFails(taken) ==
  /\ hub.flying # None /\ breaks < MaxBreaks /\ breaks' = breaks + 1
  /\ hub' = [hub EXCEPT !.flying = None]
  /\ slack' = IF taken THEN hub.flying ELSE slack
  /\ unsure' = (unsure \/ taken) /\ lost' = (lost \/ hub.pending = None)
  /\ UNCHANGED <<agentVars, feed, active, bound, blind>>
-----------------------------------------------------------------------------
NoStream == stream' = Off /\ live' = <<>> /\ lagged' = FALSE /\ wire' = <<>>

(* The stream breaks, or the agent is killed and what it had appended and  *)
(* not published with it.  The gateway opens it again at its cursor, and   *)
(* its projection starts anew.                                             *)
StreamBreaks ==
  /\ feed.pc = "open" /\ breaks < MaxBreaks /\ breaks' = breaks + 1
  /\ feed' = [feed EXCEPT !.pc = "opening"] /\ NoStream
  /\ published' \in {published, Len(log)}
  /\ blind' = (blind \/ active # {})
  /\ UNCHANGED <<log, active, hubVars, bound>>

(* The gateway starts: every row with a session is followed from the       *)
(* beginning, and the hub knows no thread.  Slack may have taken the       *)
(* status that was on its way.                                             *)
GatewayRestarts(taken) ==
  /\ bound /\ breaks < MaxBreaks /\ breaks' = breaks + 1
  /\ feed' = [pc |-> IF log = <<>> THEN "off" ELSE "opening", cursor |-> 0] /\ NoStream
  /\ taken => hub.flying # None
  /\ hub' = Hub /\ slack' = IF taken THEN hub.flying ELSE slack
  /\ unsure' = (unsure \/ slack' # "") /\ lost' = FALSE /\ blind' = FALSE /\ active' = {}
  /\ UNCHANGED <<log, published, bound>>

(* The agent session is deleted, the subscription removed, and the status  *)
(* cleared while the row still says where; the next session's log is new.  *)
ResetSession ==
  /\ bound /\ breaks < MaxBreaks /\ breaks' = breaks + 1
  /\ log' = <<>> /\ published' = 0 /\ NoStream /\ active' = {} /\ blind' = FALSE
  /\ feed' = [pc |-> "off", cursor |-> 0]
  /\ IF feed.pc = "off" THEN UNCHANGED <<hub, lost>> ELSE SetThread("")
  /\ UNCHANGED <<slack, bound, unsure>>

(* The row is gone when the subscription is removed: nothing says which    *)
(* messenger to clear the status in.                                       *)
DeleteSession ==
  /\ bound /\ breaks < MaxBreaks /\ breaks' = breaks + 1 /\ bound' = FALSE
  /\ log' = <<>> /\ published' = 0 /\ NoStream /\ active' = {}
  /\ feed' = [pc |-> "off", cursor |-> 0]
  /\ UNCHANGED <<hubVars, blind>>

FeedSystem ==
  \/ Publish \/ Ensure \/ Open \/ ScanItem \/ ScanDone \/ LiveItem \/ LiveLagged
  \/ ReceiveEvent \/ TakePending \/ Delivered

FeedNext ==
  \/ \E event \in Possible : PersistEvent(event)
  \/ Publish \/ Ensure \/ Open \/ ScanItem \/ ScanDone \/ LiveItem \/ LiveLagged
  \/ ReceiveEvent \/ TakePending \/ Delivered
  \/ \E taken \in BOOLEAN : DeliveryFails(taken) \/ GatewayRestarts(taken)
  \/ StreamBreaks \/ ResetSession \/ DeleteSession

FeedSpec == FeedInit /\ [][FeedNext]_feedVars /\ WF_feedVars(FeedSystem)
-----------------------------------------------------------------------------
(* Through scans, lags and reconnections every event of the log arrives    *)
(* once and in order: the cursor moves by one or a new subscription starts *)
(* at the beginning.                                                       *)
FeedExact ==
  [][feed'.cursor \in {feed.cursor, feed.cursor + 1} \/ feed'.cursor = 0]_<<feed>>

(* When nothing more happens Slack shows the status of the whole log,      *)
(* unless the hub took the last status for shown or failed to send it, was *)
(* not sure what Slack shows, or the projection had forgotten calls; and   *)
(* whatever it showed when the conversation was deleted.                   *)
StatusSettles ==
  <>[](slack = StatusOf(log) \/ lost \/ unsure \/ blind \/ ~bound)

\* What a session does is shown: every event arrives at the gateway, and Slack
\* comes to show what they amount to (stream_events, the status hub).
StatusFollows == FeedExact /\ StatusSettles
=============================================================================
