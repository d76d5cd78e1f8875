--------------------------- MODULE ServicesProofs ---------------------------
(***************************************************************************)
(* Proofs about five services, each on its own.  The background jobs: the  *)
(* row says what the gateway holds, unless known ways of overtaking were   *)
(* taken.  The status feed: every event once and in order, through         *)
(* restarts and lag.  The workspace: a command's result has all its        *)
(* output, a killed command leaves nothing running, and writers one at a   *)
(* time leave the file whole.  The choice of a selection: what a row says  *)
(* of its session, for any profiles and requests.  The launcher: one       *)
(* process of each name, none left behind, and "ok" told of two new        *)
(* processes only, for any set of clients.                                 *)
(***************************************************************************)
EXTENDS Jobs, Launcher, StatusFeed, Workspace, Selections, TLAPS

Statuses == {"none", "registered", "running", "succeeded", "failed", "cancelled"}
JobTypes ==
  /\ up \in BOOLEAN /\ job \in [status : Statuses, restart : BOOLEAN]
  /\ process \in {"none", "alive", "exited"} /\ registering \in {"rest", "spawn"}
  /\ watcher \in {"rest", "poll", "reaped", "tell"} /\ canceller \in {"rest", "stop", "write"}
  /\ notifier \in (Statuses \ {"none"}) \cup {"rest"} /\ timer \in {"rest", "armed"}
  /\ cancelled \in BOOLEAN

\* NothingYet happens in a gateway that is down, and before the process is started
\* nobody watches it.
Untended == process = "none" /\ watcher = "rest" /\ timer = "rest"
StartsAlone ==
  /\ ~up => Untended /\ registering = "rest" /\ canceller = "rest" /\ notifier = "rest"
  /\ registering = "spawn" =>
       /\ Untended /\ job.status \in {"registered", "cancelled"}
       /\ notifier \in {"rest", "registered", "cancelled"}
  /\ job.status = "none" => Untended /\ ~cancelled /\ canceller = "rest" /\ registering = "rest" /\ notifier = "rest"

\* As long as nothing has made the row say what is not so.
Excused == excuses \ {"refused"} # {}
HeldWatched ==
  ~Excused =>
    /\ process # "none" => watcher = "poll" /\ job.status = "running" /\ canceller # "write"
    /\ job.status = "running" /\ up => watcher \in {"poll", "reaped"} \/ canceller = "write"
    /\ watcher = "poll" /\ process = "none" /\ job.status = "running" => canceller = "write"
    /\ cancelled => job.status \notin Active

JobInv == JobTypes /\ StartsAlone /\ HeldWatched

\* A row that says what is so has none of the excuses.
LEMMA Unexcused ==
  ASSUME ~Excused'
  PROVE  \A name \in {"cancelled first", "written back", "timed out", "not restored"} :
           name \notin excuses'
  BY DEF Excused

\* Each task of the job keeps the types, lets none but the request that registers
\* the job start it, and, without an excuse, leaves row and process in agreement.
LEMMA JobTypesKept == JobInv /\ JobsNext => JobTypes'
<1> SUFFICES ASSUME JobInv, JobsNext PROVE JobTypes'
  OBVIOUS
<1> USE DEF Statuses, Active, Ends, Spawned, Restores, JobInv, JobTypes
<1>1. CASE Register
  BY <1>1 DEF Register
<1>2. CASE RegisterSpawns
  BY <1>2 DEF RegisterSpawns
<1>3. CASE RegisterFails
  BY <1>3 DEF RegisterFails
<1>4. CASE ProcessExits
  BY <1>4 DEF ProcessExits
<1>5. CASE WatcherLooks
  BY <1>5 DEF WatcherLooks
<1>6. CASE WatcherWrites
  BY <1>6 DEF WatcherWrites
<1>7. CASE WatcherTells
  BY <1>7 DEF WatcherTells
<1>8. CASE CancelReads
  BY <1>8 DEF CancelReads
<1>9. CASE CancelStops
  BY <1>9 DEF CancelStops
<1>10. CASE CancelWrites
  BY <1>10 DEF CancelWrites
<1>11. CASE CancelDropped
  BY <1>11 DEF CancelDropped
<1>12. CASE NotifyReads
  BY <1>12 DEF NotifyReads
<1>13. CASE NotifyWrites
  BY <1>13 DEF NotifyWrites
<1>14. CASE NotifyFails
  BY <1>14 DEF NotifyFails
<1>15. CASE TimedOut
  BY <1>15 DEF TimedOut
<1>16. CASE GatewayKilled
  BY <1>16 DEF GatewayKilled
<1>17. CASE Boot
  BY <1>17 DEF Boot
<1> QED BY <1>1, <1>2, <1>3, <1>4, <1>5, <1>6, <1>7, <1>8, <1>9, <1>10, <1>11, <1>12, <1>13, <1>14, <1>15, <1>16, <1>17 DEF JobsNext

LEMMA JobAloneKept == JobInv /\ JobsNext => StartsAlone'
<1> SUFFICES ASSUME JobInv, JobsNext PROVE StartsAlone'
  OBVIOUS
<1> USE DEF Statuses, Active, Ends, Spawned, Restores, JobInv, JobTypes, StartsAlone, Untended
<1>1. CASE Register
  BY <1>1 DEF Register
<1>2. CASE RegisterSpawns
  BY <1>2 DEF RegisterSpawns
<1>3. CASE RegisterFails
  BY <1>3 DEF RegisterFails
<1>4. CASE ProcessExits
  BY <1>4 DEF ProcessExits
<1>5. CASE WatcherLooks
  BY <1>5 DEF WatcherLooks
<1>6. CASE WatcherWrites
  BY <1>6 DEF WatcherWrites
<1>7. CASE WatcherTells
  BY <1>7 DEF WatcherTells
<1>8. CASE CancelReads
  BY <1>8 DEF CancelReads
<1>9. CASE CancelStops
  BY <1>9 DEF CancelStops
<1>10. CASE CancelWrites
  BY <1>10 DEF CancelWrites
<1>11. CASE CancelDropped
  BY <1>11 DEF CancelDropped
<1>12. CASE NotifyReads
  BY <1>12 DEF NotifyReads
<1>13. CASE NotifyWrites
  BY <1>13 DEF NotifyWrites
<1>14. CASE NotifyFails
  BY <1>14 DEF NotifyFails
<1>15. CASE TimedOut
  BY <1>15 DEF TimedOut
<1>16. CASE GatewayKilled
  BY <1>16 DEF GatewayKilled
<1>17. CASE Boot
  BY <1>17 DEF Boot
<1> QED BY <1>1, <1>2, <1>3, <1>4, <1>5, <1>6, <1>7, <1>8, <1>9, <1>10, <1>11, <1>12, <1>13, <1>14, <1>15, <1>16, <1>17 DEF JobsNext

LEMMA JobHeldKept == JobInv /\ JobsNext => HeldWatched'
<1> SUFFICES ASSUME JobInv, JobsNext PROVE HeldWatched'
  OBVIOUS
<1> USE DEF Statuses, Active, Ends, Spawned, Restores, JobInv, JobTypes, StartsAlone, Untended, HeldWatched, Excused, Excuse
<1>1. CASE Register
  BY <1>1 DEF Register
<1>2. CASE RegisterSpawns
  <2> SUFFICES ASSUME ~Excused' PROVE HeldWatched'
    BY DEF HeldWatched
  <2> HIDE DEF Excused
  <2>0. excuses' = IF job.status = "cancelled" \/ canceller = "write" THEN excuses \cup {"cancelled first"} ELSE excuses
    BY <1>2 DEF RegisterSpawns
  <2>1. ~Excused /\ job.status = "registered" /\ canceller # "write"
    <3>1. "cancelled first" \notin excuses'
      BY Unexcused
    <3>2. ~(job.status = "cancelled" \/ canceller = "write")
      BY <2>0, <3>1
    <3> QED BY <1>2, <2>0, <3>2 DEF RegisterSpawns, Excused
  <2>2. ~cancelled
    BY <2>1 DEF HeldWatched
  <2> QED BY <1>2, <2>1, <2>2 DEF RegisterSpawns, HeldWatched
<1>3. CASE RegisterFails
  BY <1>3 DEF RegisterFails
<1>4. CASE ProcessExits
  BY <1>4 DEF ProcessExits
<1>5. CASE WatcherLooks
  BY <1>5 DEF WatcherLooks
<1>6. CASE WatcherWrites
  BY <1>6 DEF WatcherWrites
<1>7. CASE WatcherTells
  BY <1>7 DEF WatcherTells
<1>8. CASE CancelReads
  BY <1>8 DEF CancelReads
<1>9. CASE CancelStops
  BY <1>9 DEF CancelStops
<1>10. CASE CancelWrites
  BY <1>10 DEF CancelWrites
<1>11. CASE CancelDropped
  BY <1>11 DEF CancelDropped
<1>12. CASE NotifyReads
  BY <1>12 DEF NotifyReads
<1>13. CASE NotifyWrites
  <2> SUFFICES ASSUME ~Excused' PROVE HeldWatched'
    BY DEF HeldWatched
  <2> HIDE DEF Excused
  <2>0. excuses' = IF job.status # notifier THEN excuses \cup {"written back"} ELSE excuses
    BY <1>13 DEF NotifyWrites
  <2>1. ~Excused /\ job.status = notifier
    <3>1. "written back" \notin excuses'
      BY Unexcused
    <3>2. job.status = notifier
      BY <2>0, <3>1
    <3> QED BY <2>0, <3>2 DEF Excused
  <2>2. job' = job
    BY <1>13, <2>1 DEF NotifyWrites
  <2> QED BY <1>13, <2>1, <2>2 DEF NotifyWrites, HeldWatched
<1>14. CASE NotifyFails
  BY <1>14 DEF NotifyFails
<1>15. CASE TimedOut
  <2> SUFFICES ASSUME ~Excused' PROVE HeldWatched'
    BY DEF HeldWatched
  <2>1. CASE job.status \in Active
    <3>1. /\ excuses' = IF process # "none" THEN excuses \cup {"timed out"} ELSE excuses
          /\ job'.status = "failed"
      BY <1>15, <2>1 DEF TimedOut
    <3>2. ~Excused /\ process = "none"
      <4>1. "timed out" \notin excuses'
        BY Unexcused
      <4>2. process = "none"
        BY <3>1, <4>1
      <4> QED BY <3>1, <4>2 DEF Excused
    <3> QED BY <1>15, <2>1, <3>1, <3>2 DEF TimedOut, HeldWatched
  <2>2. CASE job.status \notin Active
    BY <1>15, <2>2 DEF TimedOut, HeldWatched, Excused
  <2> QED BY <2>1, <2>2
<1>16. CASE GatewayKilled
  BY <1>16 DEF GatewayKilled
<1>17. CASE Boot
  <2> SUFFICES ASSUME ~Excused' PROVE HeldWatched'
    BY DEF HeldWatched
  <2> HIDE DEF Excused
  <2>0. excuses' = IF ~Restores /\ job.status \in Active THEN excuses \cup {"not restored"} ELSE excuses
    BY <1>17 DEF Boot
  <2>1. ~Excused /\ (Restores \/ job.status \notin Active)
    <3>1. "not restored" \notin excuses'
      BY Unexcused
    <3>2. ~(~Restores /\ job.status \in Active)
      BY <2>0, <3>1
    <3> QED BY <2>0, <3>2 DEF Excused
  <2>2. ~up /\ up' /\ cancelled' = cancelled /\ canceller' = canceller
    BY <1>17 DEF Boot
  <2>3. Untended /\ canceller = "rest"
    BY <2>2
  <2>4. CASE Restores
    <3>1. ~cancelled
      BY <2>1, <2>4 DEF HeldWatched
    <3> QED BY <1>17, <2>2, <2>3, <2>4, <3>1 DEF Boot, HeldWatched
  <2>5. CASE ~Restores
    <3>1. job' = job /\ process' = process /\ watcher' = watcher /\ job.status # "running"
      BY <1>17, <2>1, <2>5 DEF Boot
    <3> QED BY <2>1, <2>2, <2>3, <3>1 DEF HeldWatched
  <2> QED BY <2>4, <2>5
<1> QED BY <1>1, <1>2, <1>3, <1>4, <1>5, <1>6, <1>7, <1>8, <1>9, <1>10, <1>11, <1>12, <1>13, <1>14, <1>15, <1>16, <1>17 DEF JobsNext

LEMMA JobStarts == JobsInit => JobInv
  BY DEF Statuses, JobsInit, JobInv, JobTypes, StartsAlone, Untended, HeldWatched

LEMMA JobKept == JobInv /\ [JobsNext]_jobVars => JobInv'
<1>1. JobInv /\ JobsNext => JobInv'
  BY JobTypesKept, JobAloneKept, JobHeldKept DEF JobInv
<1>2. JobInv /\ UNCHANGED jobVars => JobInv'
  BY DEF Active, jobVars, JobInv, JobTypes, StartsAlone, Untended, HeldWatched, Excused
<1> QED BY <1>1, <1>2

(* Whatever cancels, notifies, exits and fails, and however often the       *)
(* gateway is killed: unless a writer that is known to has overtaken        *)
(* another, the row of a job at rest says whether a process is held for it. *)
THEOREM JobRowIsHonest == JobsSpec => []JobStatusHonest
<1>1. JobInv => JobStatusHonest
  BY DEF Active, JobInv, HeldWatched, Excused, JobStatusHonest, JobAtRest
<1> QED BY <1>1, JobStarts, JobKept, PTL DEF JobsSpec

-----------------------------------------------------------------------------

\* Where the receiver's part of the broadcast begins.
EventKinds == {"input", "thinking", "tools", "result", "finished", "failed"}
Logged == [kind : EventKinds, call : Nat]
Missed == published - Len(live)

FeedTypes ==
  /\ log \in Seq(Logged) /\ live \in Seq(Nat) /\ wire \in Seq(Nat) /\ lagged \in BOOLEAN /\ published \in 0..Len(log)
  /\ feed \in [pc : {"off", "opening", "open"}, cursor : 0..Len(log)]
  /\ stream \in [pc : {"off", "scan", "live"}, at : 0..Len(log), end : 0..Len(log)]

\* The receiver's part of the broadcast is the last that was published, in order.
LastPublished == Len(live) <= published /\ \A i \in 1..Len(live) : live[i] = Missed + i

\* There is a stream while the subscription is open; what was sent and not received is
\* the event after the cursor, and the stream is where it was sent from.
Streaming ==
  /\ feed.pc = "open" <=> stream.pc # "off"
  /\ stream.pc = "off" => live = <<>>
  /\ feed.pc = "open" => \/ wire = <<>> /\ stream.at = feed.cursor
                         \/ wire = <<stream.at>> /\ stream.at = feed.cursor + 1

\* Unless the receiver missed some, the broadcast has everything the stream, or the scan
\* it is in, will not have read.
Reaches ==
  ~lagged => /\ stream.pc = "scan" => Missed <= stream.end
             /\ stream.pc = "live" => Missed <= stream.at

FeedInv == FeedTypes /\ LastPublished /\ Streaming /\ Reaches

LEMMA NothingYet == (\A S : <<>> \in Seq(S)) /\ Len(<<>>) = 0
  OBVIOUS

LEMMA FeedStarts == FeedInit => FeedInv
<1> SUFFICES ASSUME FeedInit PROVE FeedInv
  OBVIOUS
<1>1. log = <<>> /\ published = 0 /\ live = <<>> /\ lagged = FALSE /\ stream = [pc |-> "off", at |-> 0, end |-> 0] /\ wire = <<>>
      /\ feed = [pc |-> "off", cursor |-> 0]
  BY DEF FeedInit, Off
<1>2. Len(log) = 0 /\ Len(live) = 0 /\ 0 \in 0..0
  BY <1>1, NothingYet
<1>3. FeedTypes
  BY <1>1, <1>2, NothingYet DEF FeedTypes
<1>4. LastPublished /\ Streaming /\ Reaches
  BY <1>1, <1>2 DEF LastPublished, Streaming, Reaches, Missed
<1> QED BY <1>3, <1>4 DEF FeedInv

\* NothingYet the invariant speaks of, except that the log may be longer.
LEMMA FeedLogged ==
  ASSUME FeedInv, log' \in Seq(Logged), Len(log') >= Len(log), UNCHANGED <<published, live, lagged, stream, wire, feed>>
  PROVE  FeedInv'
<1>1. Len(log) \in Nat /\ Len(log') \in Nat /\ \A n \in 0..Len(log) : n \in 0..Len(log')
  BY DEF FeedInv, FeedTypes
<1>2. FeedTypes'
  BY <1>1 DEF FeedInv, FeedTypes
<1>3. LastPublished' /\ Streaming' /\ Reaches'
  BY DEF FeedInv, LastPublished, Streaming, Reaches, Missed
<1> QED BY <1>2, <1>3 DEF FeedInv

LEMMA PossibleIs == Possible \subseteq Logged
<1>1. ASSUME NEW k \in EventKinds, NEW c \in Nat PROVE [kind |-> k, call |-> c] \in Logged
  BY DEF Logged
<1>2. \A c \in Calls : c \in Nat
  BY DEF Calls
<1> QED BY <1>1, <1>2 DEF Possible, EventKinds

LEMMA PersistKeeps == ASSUME FeedInv, NEW event \in Possible, PersistEvent(event) PROVE FeedInv'
<1>1. log \in Seq(Logged) /\ event \in Logged /\ log' = Append(log, event) /\ UNCHANGED <<published, live, lagged, stream, wire, feed>>
  BY PossibleIs DEF FeedInv, FeedTypes, PersistEvent
<1>2. log' \in Seq(Logged) /\ Len(log') >= Len(log)
  BY <1>1
<1> QED BY <1>1, <1>2, FeedLogged

LEMMA AppendFeed ==
  ASSUME NEW s \in Seq(Nat), NEW e \in Nat
  PROVE  /\ Append(s, e) \in Seq(Nat) /\ Len(Append(s, e)) = Len(s) + 1 /\ Len(s) \in Nat
         /\ \A i \in 1..Len(s) : Append(s, e)[i] = s[i]
         /\ Append(s, e)[Len(s) + 1] = e
  OBVIOUS

LEMMA TailFeed ==
  ASSUME NEW s \in Seq(Nat), s # <<>>
  PROVE  /\ Tail(s) \in Seq(Nat) /\ Len(Tail(s)) = Len(s) - 1 /\ Len(s) \in Nat \ {0} /\ Head(s) = s[1] /\ s[1] \in Nat
         /\ \A i \in 1..(Len(s) - 1) : Tail(s)[i] = s[i + 1]
  OBVIOUS

LEMMA PublishKeeps == ASSUME FeedInv, Publish PROVE FeedInv'
<1> PICK kept : kept = Append(live, published + 1)
  OBVIOUS
<1>1. /\ FeedTypes /\ LastPublished /\ Streaming /\ Reaches /\ published < Len(log) /\ published' = published + 1
      /\ UNCHANGED <<log, stream, wire, feed>>
  BY DEF FeedInv, Publish
<1>2. published \in Nat /\ Len(log) \in Nat /\ Len(live) \in Nat /\ published' \in 0..Len(log)
  BY <1>1 DEF FeedTypes
<1>3. CASE stream.pc = "off"
  <2>1. live' = live /\ lagged' = lagged /\ live = <<>>
    BY <1>1, <1>3 DEF Publish, Streaming
  <2>2. FeedTypes'
    BY <1>1, <1>2, <2>1 DEF FeedTypes
  <2>3. LastPublished' /\ Reaches'
    BY <1>1, <1>2, <1>3, <2>1, NothingYet DEF LastPublished, Reaches
  <2>4. Streaming'
    BY <1>1, <2>1 DEF Streaming
  <2> QED BY <2>2, <2>3, <2>4 DEF FeedInv
<1>4. CASE stream.pc # "off"
  <2>0. live \in Seq(Nat) /\ published + 1 \in Nat
    BY <1>1, <1>2 DEF FeedTypes
  <2>1. /\ kept \in Seq(Nat) /\ Len(kept) = Len(live) + 1 /\ \A i \in 1..Len(live) : kept[i] = live[i]
        /\ kept[Len(live) + 1] = published + 1
    BY <2>0, AppendFeed
  <2>2. \A i \in 1..Len(kept) : kept[i] = Missed + i
    <3> SUFFICES ASSUME NEW i \in 1..Len(kept) PROVE kept[i] = Missed + i
      OBVIOUS
    <3>1. CASE i \in 1..Len(live)
      BY <1>1, <2>1, <3>1 DEF LastPublished
    <3>2. CASE i = Len(live) + 1
      BY <1>2, <2>1, <3>2 DEF Missed
    <3> QED BY <1>2, <2>1, <3>1, <3>2
  <2>3. CASE Len(kept) > LiveCapacity
    <3>1. live' = Tail(kept) /\ lagged' = TRUE
      BY <1>4, <2>3 DEF Publish
    <3>2. kept # <<>>
      BY <1>2, <2>1, NothingYet
    <3>3. live' \in Seq(Nat) /\ Len(live') = Len(live) /\ \A i \in 1..Len(live) : live'[i] = kept[i + 1]
      BY <1>2, <2>1, <3>1, <3>2, TailFeed
    <3>4. FeedTypes'
      BY <1>1, <1>2, <3>1, <3>3 DEF FeedTypes
    <3>5. LastPublished'
      <4> SUFFICES ASSUME NEW i \in 1..Len(live') PROVE live'[i] = Missed' + i
        BY <1>1, <1>2, <3>3 DEF LastPublished
      <4>1. live'[i] = kept[i + 1] /\ i + 1 \in 1..Len(kept)
        BY <1>2, <2>1, <3>3
      <4>2. Missed' = Missed + 1 /\ Missed \in Int
        BY <1>1, <1>2, <3>3 DEF Missed
      <4> QED BY <2>2, <4>1, <4>2
    <3>6. Reaches' /\ Streaming'
      BY <1>1, <1>4, <3>1 DEF Reaches, Streaming
    <3> QED BY <3>4, <3>5, <3>6 DEF FeedInv
  <2>4. CASE ~(Len(kept) > LiveCapacity)
    <3>1. live' = kept /\ lagged' = lagged
      <4>1. live' = kept
        BY <1>4, <2>4 DEF Publish
      <4>2. lagged' = (lagged \/ FALSE)
        BY <1>4, <2>4, Zenon DEF Publish
      <4>3. lagged \in BOOLEAN
        BY <1>1 DEF FeedTypes
      <4> QED BY <4>1, <4>2, <4>3, Zenon
    <3>2. Missed' = Missed /\ Len(live') <= published'
      BY <1>1, <1>2, <2>1, <3>1 DEF Missed, LastPublished
    <3>3. FeedTypes'
      BY <1>1, <1>2, <2>1, <3>1 DEF FeedTypes
    <3>4. LastPublished'
      BY <2>2, <3>1, <3>2 DEF LastPublished
    <3>5. Reaches' /\ Streaming'
      BY <1>1, <1>4, <3>1, <3>2 DEF Reaches, Streaming
    <3> QED BY <3>3, <3>4, <3>5 DEF FeedInv
  <2> QED BY <2>3, <2>4
<1> QED BY <1>3, <1>4

LEMMA SendsIs ==
  ASSUME NEW position \in Nat, Sends(position)
  PROVE  wire = <<>> /\ wire' = <<position>> /\ wire' \in Seq(Nat)
  BY DEF Sends

LEMMA EnsureKeeps == ASSUME FeedInv, Ensure PROVE FeedInv'
<1>1. /\ FeedInv /\ feed' = [pc |-> "opening", cursor |-> 0] /\ feed.pc = "off"
      /\ UNCHANGED <<log, published, live, lagged, stream, wire>>
  BY DEF Ensure, agentVars
<1>2. FeedTypes'
  BY <1>1 DEF FeedInv, FeedTypes
<1> QED BY <1>1, <1>2 DEF FeedInv, LastPublished, Streaming, Reaches, Missed

LEMMA OpenKeeps == ASSUME FeedInv, Open PROVE FeedInv'
<1>1. /\ FeedTypes /\ feed' = [feed EXCEPT !.pc = "open"] /\ stream' = [pc |-> "scan", at |-> feed.cursor, end |-> Len(log)]
      /\ live' = <<>> /\ lagged' = FALSE /\ wire' = <<>> /\ UNCHANGED <<log, published>>
  BY DEF FeedInv, Open
<1>2. Len(log) \in Nat /\ published \in 0..Len(log)
  BY <1>1 DEF FeedTypes
<1>3. feed'.pc = "open" /\ feed'.cursor = feed.cursor /\ feed'.cursor \in 0..Len(log) /\ Len(log) \in 0..Len(log)
  BY <1>1, <1>2 DEF FeedTypes
<1>4. FeedTypes'
  BY <1>1, <1>2, <1>3, NothingYet DEF FeedTypes
<1>5. LastPublished' /\ Streaming' /\ Reaches'
  BY <1>1, <1>2, <1>3, NothingYet DEF LastPublished, Streaming, Reaches, Missed
<1> QED BY <1>4, <1>5 DEF FeedInv

LEMMA ScanItemKeeps == ASSUME FeedInv, ScanItem PROVE FeedInv'
<1>1. /\ FeedTypes /\ LastPublished /\ Streaming /\ Reaches /\ stream.pc = "scan" /\ stream.at < Len(log) /\ Sends(stream.at + 1)
      /\ stream' = [stream EXCEPT !.at = stream.at + 1] /\ UNCHANGED <<log, published, live, lagged, feed>>
  BY DEF FeedInv, ScanItem
<1>2. stream.at \in Nat /\ Len(log) \in Nat /\ stream.at + 1 \in 0..Len(log) /\ stream.at + 1 \in Nat
  BY <1>1 DEF FeedTypes
<1>3. wire = <<>> /\ wire' = <<stream.at + 1>> /\ wire' \in Seq(Nat)
  BY <1>1, <1>2, SendsIs
<1>4. stream'.pc = "scan" /\ stream'.at = stream.at + 1 /\ stream'.end = stream.end
  BY <1>1 DEF FeedTypes
<1>5. FeedTypes'
  BY <1>1, <1>2, <1>3 DEF FeedTypes
<1>6. wire # <<stream.at>>
  BY <1>3, NothingYet
<1>7. Streaming'
  BY <1>1, <1>3, <1>4, <1>6 DEF Streaming
<1>8. LastPublished' /\ Reaches'
  BY <1>1, <1>4 DEF LastPublished, Reaches, Missed
<1> QED BY <1>5, <1>7, <1>8 DEF FeedInv

LEMMA ScanDoneKeeps == ASSUME FeedInv, ScanDone PROVE FeedInv'
<1>1. /\ FeedTypes /\ LastPublished /\ Streaming /\ Reaches /\ stream.pc = "scan" /\ stream.at >= stream.end
      /\ stream' = [stream EXCEPT !.pc = "live"] /\ UNCHANGED <<log, published, live, lagged, wire, feed>>
  BY DEF FeedInv, ScanDone
<1>2. stream'.pc = "live" /\ stream'.at = stream.at /\ stream'.end = stream.end
  BY <1>1 DEF FeedTypes
<1>3. Missed \in Int /\ stream.at \in Int /\ stream.end \in Int
  BY <1>1 DEF FeedTypes, Missed
<1>4. FeedTypes'
  BY <1>1 DEF FeedTypes
<1>5. LastPublished' /\ Streaming'
  BY <1>1, <1>2 DEF LastPublished, Streaming, Missed
<1>6. Missed' = Missed
  BY <1>1 DEF Missed
<1>7. Reaches'
  BY <1>1, <1>2, <1>3, <1>6 DEF Reaches
<1> QED BY <1>4, <1>5, <1>7 DEF FeedInv

LEMMA LiveItemKeeps == ASSUME FeedInv, LiveItem PROVE FeedInv'
<1> PICK first : first = live[1]
  OBVIOUS
<1>1. /\ FeedTypes /\ LastPublished /\ Streaming /\ Reaches /\ stream.pc = "live" /\ ~lagged /\ live # <<>> /\ live' = Tail(live)
      /\ UNCHANGED <<log, published, lagged, feed>>
  BY DEF FeedInv, LiveItem
<1>2. /\ live' \in Seq(Nat) /\ Len(live') = Len(live) - 1 /\ Len(live) \in Nat \ {0} /\ Head(live) = first /\ first \in Nat
      /\ \A i \in 1..(Len(live) - 1) : live'[i] = live[i + 1]
  BY <1>1, TailFeed DEF FeedTypes
<1>3. published \in Nat /\ Len(log) \in Nat /\ published <= Len(log) /\ stream.at \in 0..Len(log)
  BY <1>1 DEF FeedTypes
<1>4. first = Missed + 1 /\ Missed' = Missed + 1 /\ Missed \in Int /\ first <= published
  BY <1>1, <1>2, <1>3 DEF LastPublished, Missed
<1>5. LastPublished'
  <2> SUFFICES ASSUME NEW i \in 1..Len(live') PROVE live'[i] = Missed' + i
    BY <1>1, <1>2, <1>3 DEF LastPublished
  <2>1. i \in 1..(Len(live) - 1) /\ i + 1 \in 1..Len(live)
    BY <1>2
  <2> QED BY <1>1, <1>2, <1>4, <2>1 DEF LastPublished
<1>6. Missed <= stream.at
  BY <1>1 DEF Reaches
<1>7. CASE IsOld(first)
  <2>1. first <= stream.at /\ UNCHANGED <<stream, wire>>
    BY <1>2, <1>7 DEF LiveItem, IsOld
  <2>2. FeedTypes' /\ Streaming'
    BY <1>1, <1>2, <2>1 DEF FeedTypes, Streaming
  <2>3. Reaches'
    BY <1>1, <1>4, <2>1 DEF Reaches
  <2> QED BY <1>5, <2>2, <2>3 DEF FeedInv
<1>8. CASE ~IsOld(first)
  <2>1. Sends(first) /\ stream' = [stream EXCEPT !.at = first]
    BY <1>2, <1>8 DEF LiveItem
  <2>2. first = stream.at + 1 /\ first \in 0..Len(log)
    BY <1>2, <1>3, <1>4, <1>6, <1>8 DEF IsOld
  <2>3. wire = <<>> /\ wire' = <<first>> /\ wire' \in Seq(Nat)
    BY <1>2, <2>1, SendsIs
  <2>8. wire # <<stream.at>>
    BY <2>3, NothingYet
  <2>4. stream'.pc = "live" /\ stream'.at = first
    BY <1>1, <2>1 DEF FeedTypes
  <2>5. FeedTypes'
    BY <1>1, <1>2, <2>1, <2>2, <2>3 DEF FeedTypes
  <2>6. Streaming'
    BY <1>1, <2>2, <2>3, <2>4, <2>8 DEF Streaming
  <2>7. Reaches'
    BY <1>1, <1>4, <2>4 DEF Reaches
  <2> QED BY <1>5, <2>5, <2>6, <2>7 DEF FeedInv
<1> QED BY <1>7, <1>8

LEMMA LiveLaggedKeeps == ASSUME FeedInv, LiveLagged PROVE FeedInv'
<1>1. /\ FeedTypes /\ LastPublished /\ Streaming /\ stream.pc = "live" /\ lagged' = FALSE
      /\ stream' = [stream EXCEPT !.pc = "scan", !.end = Len(log)] /\ UNCHANGED <<log, published, live, wire, feed>>
  BY DEF FeedInv, LiveLagged
<1>2. Len(log) \in 0..Len(log) /\ published \in 0..Len(log) /\ Len(live) \in Nat
  BY <1>1 DEF FeedTypes
<1>3. stream'.pc = "scan" /\ stream'.at = stream.at /\ stream'.end = Len(log) /\ stream' \in [pc : {"off", "scan", "live"}, at : 0..Len(log), end : 0..Len(log)]
  BY <1>1, <1>2 DEF FeedTypes
<1>4. FeedTypes'
  BY <1>1, <1>3 DEF FeedTypes
<1>5. LastPublished' /\ Streaming' /\ Reaches'
  BY <1>1, <1>2, <1>3 DEF LastPublished, Streaming, Reaches, Missed
<1> QED BY <1>4, <1>5 DEF FeedInv

LEMMA ReceiveKeeps == ASSUME FeedInv, ReceiveEvent PROVE FeedInv' /\ feed'.cursor = feed.cursor + 1
<1>1. /\ FeedTypes /\ LastPublished /\ Streaming /\ Reaches /\ feed.pc = "open" /\ wire # <<>> /\ wire' = <<>>
      /\ feed' = [feed EXCEPT !.cursor = Head(wire)] /\ UNCHANGED <<log, published, live, lagged, stream>>
  BY DEF FeedInv, ReceiveEvent
<1>2. wire = <<stream.at>> /\ stream.at = feed.cursor + 1 /\ stream.at \in 0..Len(log) /\ Head(wire) = stream.at
  BY <1>1 DEF Streaming, FeedTypes
<1>3. feed'.pc = "open" /\ feed'.cursor = stream.at
  BY <1>1, <1>2 DEF FeedTypes
<1>4. FeedTypes'
  BY <1>1, <1>2, NothingYet DEF FeedTypes
<1>5. Streaming' /\ LastPublished' /\ Reaches'
  BY <1>1, <1>3 DEF Streaming, LastPublished, Reaches, Missed
<1> QED BY <1>2, <1>3, <1>4, <1>5 DEF FeedInv

\* The stream has gone.
LEMMA StreamGone ==
  ASSUME NoStream, log' \in Seq(Logged), published' \in 0..Len(log'), feed' \in [pc : {"off", "opening"}, cursor : 0..Len(log')]
  PROVE  FeedInv'
<1>1. live' = <<>> /\ lagged' = FALSE /\ wire' = <<>> /\ stream' = [pc |-> "off", at |-> 0, end |-> 0]
  BY DEF NoStream, Off
<1>2. Len(log') \in Nat /\ 0 \in 0..Len(log')
  OBVIOUS
<1>3. FeedTypes'
  BY <1>1, <1>2, NothingYet DEF FeedTypes
<1>4. LastPublished' /\ Streaming' /\ Reaches'
  BY <1>1, <1>2, NothingYet DEF LastPublished, Streaming, Reaches
<1> QED BY <1>3, <1>4 DEF FeedInv

LEMMA BreaksKeep == ASSUME FeedInv, StreamBreaks PROVE FeedInv' /\ feed'.cursor = feed.cursor
<1>1. /\ FeedTypes /\ NoStream /\ feed' = [feed EXCEPT !.pc = "opening"] /\ published' \in {published, Len(log)} /\ log' = log
  BY DEF FeedInv, StreamBreaks
<1>2. published' \in 0..Len(log') /\ Len(log) \in 0..Len(log)
  BY <1>1 DEF FeedTypes
<1>3. feed' \in [pc : {"off", "opening"}, cursor : 0..Len(log')] /\ feed'.cursor = feed.cursor
  BY <1>1 DEF FeedTypes
<1> QED BY <1>1, <1>2, <1>3, StreamGone DEF FeedTypes

LEMMA AnewKeeps == ASSUME FeedInv, (\E taken \in BOOLEAN : GatewayRestarts(taken)) \/ ResetSession \/ DeleteSession PROVE FeedInv' /\ feed'.cursor = 0
<1>1. CASE \E taken \in BOOLEAN : GatewayRestarts(taken)
  <2>1. FeedTypes /\ NoStream /\ feed' = [pc |-> IF log = <<>> THEN "off" ELSE "opening", cursor |-> 0] /\ UNCHANGED <<log, published>>
    BY <1>1 DEF FeedInv, GatewayRestarts
  <2>2. published' \in 0..Len(log') /\ 0 \in 0..Len(log')
    BY <2>1 DEF FeedTypes
  <2>3. feed' \in [pc : {"off", "opening"}, cursor : 0..Len(log')] /\ feed'.cursor = 0
    BY <2>1, <2>2
  <2> QED BY <2>1, <2>2, <2>3, StreamGone DEF FeedTypes
<1>2. CASE ResetSession \/ DeleteSession
  <2>1. NoStream /\ feed' = [pc |-> "off", cursor |-> 0] /\ log' = <<>> /\ published' = 0
    BY <1>2 DEF ResetSession, DeleteSession
  <2>2. Len(log') = 0 /\ 0 \in 0..0 /\ log' \in Seq(Logged)
    BY <2>1, NothingYet
  <2> QED BY <2>1, <2>2, StreamGone
<1> QED BY <1>1, <1>2

LEMMA FeedKept == ASSUME FeedInv, FeedNext PROVE FeedInv' /\ (feed' = feed \/ feed'.cursor \in {feed.cursor, feed.cursor + 1} \/ feed'.cursor = 0)
<1>1. CASE \E event \in Possible : PersistEvent(event)
  BY <1>1, PersistKeeps DEF PersistEvent
<1>2. CASE Publish
  BY <1>2, PublishKeeps DEF Publish
<1>3. CASE Ensure
  BY <1>3, EnsureKeeps DEF Ensure
<1>4. CASE Open
  <2>1. feed'.cursor = feed.cursor
    BY <1>4 DEF FeedInv, FeedTypes, Open
  <2> QED BY <1>4, <2>1, OpenKeeps
<1>5. CASE ScanItem \/ ScanDone \/ LiveItem \/ LiveLagged
  BY <1>5, ScanItemKeeps, ScanDoneKeeps, LiveItemKeeps, LiveLaggedKeeps DEF ScanItem, ScanDone, LiveItem, LiveLagged
<1>6. CASE ReceiveEvent
  BY <1>6, ReceiveKeeps
<1>7. CASE TakePending \/ Delivered \/ \E taken \in BOOLEAN : DeliveryFails(taken)
  <2>1. UNCHANGED <<log, published, live, lagged, stream, wire, feed>>
    BY <1>7 DEF TakePending, Delivered, DeliveryFails, agentVars
  <2>2. log' \in Seq(Logged) /\ Len(log') >= Len(log)
    BY <2>1 DEF FeedInv, FeedTypes
  <2> QED BY <2>1, <2>2, FeedLogged
<1>8. CASE StreamBreaks
  BY <1>8, BreaksKeep
<1>9. CASE (\E taken \in BOOLEAN : GatewayRestarts(taken)) \/ ResetSession \/ DeleteSession
  BY <1>9, AnewKeeps
<1> QED BY <1>1, <1>2, <1>3, <1>4, <1>5, <1>6, <1>7, <1>8, <1>9 DEF FeedNext

\* Through scans, lags and reconnections every event of a session's log arrives at the
\* gateway once and in order (stream_events, status_projection.rs).
THEOREM EventsComeInOrder == FeedSpec => FeedExact
<1>1. FeedInv /\ [FeedNext]_feedVars => FeedInv'
  <2> SUFFICES ASSUME FeedInv, [FeedNext]_feedVars PROVE FeedInv'
    OBVIOUS
  <2>1. CASE UNCHANGED feedVars
    <3>1. UNCHANGED <<log, published, live, lagged, stream, wire, feed>>
      BY <2>1 DEF feedVars
    <3>2. log' \in Seq(Logged) /\ Len(log') >= Len(log)
      BY <3>1 DEF FeedInv, FeedTypes
    <3> QED BY <3>1, <3>2, FeedLogged
  <2> QED BY <2>1, FeedKept
<1>2. FeedInv /\ [FeedNext]_feedVars => [feed'.cursor \in {feed.cursor, feed.cursor + 1} \/ feed'.cursor = 0]_<<feed>>
  <2> SUFFICES ASSUME FeedInv, [FeedNext]_feedVars, feed' # feed
               PROVE  feed'.cursor \in {feed.cursor, feed.cursor + 1} \/ feed'.cursor = 0
    OBVIOUS
  <2>1. FeedNext
    BY DEF feedVars
  <2> QED BY <2>1, FeedKept
<1> QED BY <1>1, <1>2, FeedStarts, PTL DEF FeedSpec, FeedExact

-----------------------------------------------------------------------------

\* What a call, a thread and a process group are made of.
CallPhases == {"waiting", "blocking", "wait", "join", "done"}
WholeOutcomes == {"succeeded", "failed", "timed out"}
Contents == {<<>>, <<"own">>}
IsRequest(r) ==
  /\ DOMAIN r = {"kind", "content", "edits", "limited", "phase", "outcome", "output"}
  /\ r.kind \in {"shell", "write", "edit"} /\ r.content \in Contents /\ r.phase \in CallPhases
IsThread(t) ==
  /\ DOMAIN t = {"at", "original", "new", "torn"}
  /\ t.at \in {"none", "read", "open", "write", "ended"} /\ t.torn \in BOOLEAN
IsGroup(p) ==
  /\ DOMAIN p = {"shell", "child", "holds", "ok", "armed", "wrote", "log"}
  /\ p.shell \in {"none", "running", "exited", "killed"} /\ p.child \in {"none", "running", "ended"}
  /\ p.holds \in BOOLEAN /\ p.armed \in BOOLEAN /\ p.wrote \in Nat /\ p.log \in Seq(Nat)

\* A command has no thread, and another call no process; the kill at the end reaches the
\* whole group as long as the shell runs.
Proper(c) ==
  /\ call[c].kind = "shell" => thread[c].at = "none"
  /\ call[c].kind # "shell" => group[c].shell = "none" /\ group[c].child = "none"
  /\ call[c].phase = "waiting" =>
       thread[c].at = "none" /\ group[c].shell = "none" /\ group[c].child = "none" /\ group[c].log = <<>>
  /\ group[c].shell = "running" => group[c].armed
  /\ group[c].shell = "killed" => group[c].child # "running"
  /\ call[c].phase = "done" => group[c].shell # "running"

\* A command that has returned a result has no process that can write.
Returned(c) ==
  call[c].kind = "shell" /\ call[c].outcome \in WholeOutcomes /\ call[c].phase = "done"
    => call[c].output = group[c].wrote /\ ~Writers(group[c])

InOrder(c) == \A i \in 1..Len(group[c].log) : group[c].log[i] = i
RunInv(c) == IsRequest(call[c]) /\ IsThread(thread[c]) /\ IsGroup(group[c]) /\ Proper(c) /\ Returned(c) /\ InOrder(c)

Reading ==
  /\ DOMAIN reader = {"of", "next", "got", "last"} /\ reader.next \in Nat /\ reader.got \in Seq(Nat)
  /\ Len(reader.got) = reader.next /\ \A i \in 1..Len(reader.got) : reader.got[i] = i
  /\ reader.of = {} => reader.next = 0
  /\ \A c \in Runs : c \in reader.of => reader.next <= Len(group[c].log)

WorkInv ==
  /\ DOMAIN call = Runs /\ DOMAIN thread = Runs /\ DOMAIN group = Runs
  /\ \A c \in Runs : RunInv(c)
  /\ Reading

\* What was not torn was written by one call at a time, to an empty file.
Calm == \A c \in Runs : call[c].kind # "edit"
WrittenAlone ==
  /\ \A c \in Runs : (thread[c].new \in Contents) /\ (thread[c].at \in {"none", "open"} => ~thread[c].torn) /\ thread[c].at # "read"
  /\ (\A c \in Runs : ~thread[c].torn) =>
       /\ \A c, d \in Runs : thread[c].at = "write" /\ thread[d].at = "write" => c = d
       /\ (\E c \in Runs : thread[c].at = "write") => file = <<>>
       /\ (\A c \in Runs : thread[c].at # "write") =>
            file \in BoundedSeq(Letters, MaxText) \/ \E c \in Runs : thread[c].at = "ended" /\ file = thread[c].new
FileInv == WorkInv /\ (Calm => WrittenAlone)

LEMMA NothingIs == (\A S : <<>> \in Seq(S)) /\ Len(<<>>) = 0
  OBVIOUS

LEMMA NoProcessIs ==
  /\ IsGroup(NoProcess) /\ NoProcess.shell = "none" /\ NoProcess.child = "none" /\ NoProcess.log = <<>> /\ NoProcess.armed = FALSE
  BY NothingIs DEF NoProcess, IsGroup

LEMMA RequestedIs ==
  ASSUME NEW kind \in {"shell", "write", "edit"}, NEW content \in Contents, NEW edits, NEW limited
  PROVE  /\ IsRequest(Requested(kind, content, edits, limited))
         /\ Requested(kind, content, edits, limited).phase = "waiting"
         /\ Requested(kind, content, edits, limited).kind = kind
<1> PICK made : made = Requested(kind, content, edits, limited)
  OBVIOUS
<1>1. /\ DOMAIN made = {"kind", "content", "edits", "limited", "phase", "outcome", "output"}
      /\ made.kind = kind /\ made.content = content /\ made.phase = "waiting"
  BY DEF Requested
<1>2. IsRequest(made)
  BY <1>1 DEF IsRequest, CallPhases
<1> QED BY <1>1, <1>2

LEMMA WorkStarts == WorkspaceInit => FileInv
<1> SUFFICES ASSUME WorkspaceInit PROVE FileInv
  OBVIOUS
<1>1. \A r \in Writes \cup LetterEdits \cup PairEdits \cup Shells : IsRequest(r) /\ r.phase = "waiting"
  <2>1. <<>> \in Contents
    BY DEF Contents
  <2>2. \A r \in Writes : IsRequest(r) /\ r.phase = "waiting"
    <3> SUFFICES ASSUME NEW r \in Writes PROVE IsRequest(r) /\ r.phase = "waiting"
      OBVIOUS
    <3>1. PICK content \in Contents : r = Requested("write", content, <<>>, FALSE)
      BY Zenon DEF Writes, Contents
    <3> QED BY <3>1, RequestedIs
  <2>3. \A r \in LetterEdits : IsRequest(r) /\ r.phase = "waiting"
    BY <2>1, RequestedIs DEF LetterEdits
  <2>4. \A r \in PairEdits : IsRequest(r) /\ r.phase = "waiting"
    <3> SUFFICES ASSUME NEW r \in PairEdits PROVE IsRequest(r) /\ r.phase = "waiting"
      OBVIOUS
    <3>1. PICK edits : r = Requested("edit", <<>>, edits, FALSE)
      BY DEF PairEdits
    <3> QED BY <2>1, <3>1, RequestedIs
  <2>5. \A r \in Shells : IsRequest(r) /\ r.phase = "waiting"
    BY <2>1, RequestedIs DEF Shells
  <2> QED BY <2>2, <2>3, <2>4, <2>5
<1>2. /\ DOMAIN call = Runs /\ \A c \in Runs : call[c] \in Writes \cup LetterEdits \cup PairEdits \cup Shells
      /\ file \in BoundedSeq(Letters, MaxText)
      /\ thread = [c \in Runs |-> NoThread] /\ group = [c \in Runs |-> NoProcess] /\ reader = NoReader
  BY DEF WorkspaceInit
<1>3. IsThread(NoThread) /\ NoThread.at = "none" /\ NoThread.torn = FALSE /\ NoThread.new \in Contents
  BY DEF IsThread, NoThread, Contents
<1>4. \A c \in Runs : RunInv(c)
  <2> SUFFICES ASSUME NEW c \in Runs PROVE RunInv(c)
    OBVIOUS
  <2>1. IsRequest(call[c]) /\ call[c].phase = "waiting" /\ thread[c] = NoThread /\ group[c] = NoProcess
    BY <1>1, <1>2
  <2>2. Proper(c) /\ Returned(c) /\ InOrder(c)
    BY <1>3, <2>1, NoProcessIs, NothingIs DEF Proper, Returned, InOrder
  <2> QED BY <1>3, <2>1, <2>2, NoProcessIs DEF RunInv
<1>5. Reading
  BY <1>2, NothingIs DEF Reading, NoReader
<1>6. WrittenAlone
  BY <1>2, <1>3 DEF WrittenAlone
<1> QED BY <1>2, <1>4, <1>5, <1>6 DEF FileInv, WorkInv

\* A call that a step leaves alone.
LEMMA SameRun ==
  ASSUME NEW c, RunInv(c), call'[c] = call[c], thread'[c].at = thread[c].at, IsThread(thread'[c]), group'[c] = group[c]
  PROVE  RunInv(c)'
  BY DEF RunInv, Proper, Returned, InOrder, Writers, IsRequest, IsThread, IsGroup

\* A step of one call.
LEMMA RunStep ==
  ASSUME WorkInv, NEW c \in Runs, DOMAIN call' = Runs, DOMAIN thread' = Runs, DOMAIN group' = Runs, RunInv(c)',
         \A d \in Runs \ {c} : call'[d] = call[d] /\ thread'[d].at = thread[d].at /\ IsThread(thread'[d]) /\ group'[d] = group[d],
         UNCHANGED reader, group'[c].log = group[c].log \/ Len(group'[c].log) >= Len(group[c].log)
  PROVE  WorkInv'
<1>1. \A d \in Runs : RunInv(d)'
  <2> SUFFICES ASSUME NEW d \in Runs \ {c} PROVE RunInv(d)'
    OBVIOUS
  <2>1. RunInv(d)
    BY DEF WorkInv
  <2> QED BY <2>1, SameRun
<1>2. Reading'
  <2>1. IsGroup(group[c]) /\ IsGroup(group'[c])
    BY DEF WorkInv, RunInv
  <2>2. Len(group'[c].log) >= Len(group[c].log) /\ Len(group[c].log) \in Nat /\ Len(group'[c].log) \in Nat
    BY <2>1 DEF IsGroup
  <2>3. \A d \in Runs : d \in reader.of => reader.next <= Len(group'[d].log)
    BY <2>2 DEF WorkInv, Reading
  <2> QED BY <2>3 DEF WorkInv, Reading
<1> QED BY <1>1, <1>2 DEF WorkInv

LEMMA SameFile ==
  ASSUME FileInv, UNCHANGED <<file, thread>>, \A c \in Runs : call'[c].kind = call[c].kind
  PROVE  Calm' => WrittenAlone'
  BY DEF FileInv, Calm, WrittenAlone

\* A step of the processes of a command, or of what waits for them.
LEMMA ProcessStep ==
  ASSUME FileInv, NEW c \in Runs, UNCHANGED <<file, thread, reader>>, RunInv(c)',
         DOMAIN call' = Runs, DOMAIN group' = Runs, \A d \in Runs \ {c} : call'[d] = call[d] /\ group'[d] = group[d],
         call'[c].kind = call[c].kind, group'[c].log = group[c].log \/ Len(group'[c].log) >= Len(group[c].log)
  PROVE  FileInv'
<1>1. \A d \in Runs : IsThread(thread'[d]) /\ call'[d].kind = call[d].kind
  BY DEF FileInv, WorkInv, RunInv
<1>2. WorkInv'
  BY <1>1, RunStep DEF FileInv, WorkInv
<1> QED BY <1>1, <1>2, SameFile DEF FileInv

LEMMA RunIs ==
  ASSUME FileInv, NEW c \in Runs
  PROVE  /\ DOMAIN call = Runs /\ DOMAIN thread = Runs /\ DOMAIN group = Runs
         /\ IsRequest(call[c]) /\ IsThread(thread[c]) /\ IsGroup(group[c]) /\ Proper(c) /\ Returned(c) /\ InOrder(c)
  BY DEF FileInv, WorkInv, RunInv

LEMMA ShellWorksKeeps == ASSUME FileInv, NEW c \in Runs, ShellWorks(c) PROVE FileInv'
<1> PICK p : p = group[c]
  OBVIOUS
<1>1. /\ IsRequest(call[c]) /\ IsThread(thread[c]) /\ IsGroup(p) /\ Proper(c) /\ Returned(c) /\ InOrder(c)
      /\ DOMAIN group = Runs /\ p.shell = "running" /\ UNCHANGED <<call, file, thread, reader>>
  BY RunIs DEF ShellWorks
<1>2. ASSUME NEW holds \in BOOLEAN, group' = [group EXCEPT ![c].child = "running", ![c].holds = holds]
      PROVE  FileInv'
  <2> PICK new : new = [p EXCEPT !.child = "running", !.holds = holds]
    OBVIOUS
  <2>1. group' = [group EXCEPT ![c] = new]
    BY <1>1, <1>2
  <2>2. /\ IsGroup(new) /\ new.shell = p.shell /\ new.armed = p.armed /\ new.log = p.log /\ new.wrote = p.wrote
    BY <1>1 DEF IsGroup
  <2>3. group'[c] = new /\ DOMAIN group' = Runs /\ \A d \in Runs \ {c} : group'[d] = group[d]
    BY <1>1, <2>1
  <2>4. call[c].phase # "done" /\ call[c].phase # "waiting" /\ call[c].kind = "shell"
    BY <1>1 DEF Proper
  <2>5. RunInv(c)'
    <3>1. Proper(c)' /\ Returned(c)' /\ InOrder(c)'
      BY <1>1, <2>2, <2>3, <2>4 DEF Proper, Returned, InOrder
    <3> QED BY <1>1, <2>2, <2>3, <3>1 DEF RunInv, IsRequest, IsThread, IsGroup
  <2>6. DOMAIN call = Runs
    BY RunIs
  <2> QED BY <1>1, <2>2, <2>3, <2>5, <2>6, ProcessStep
<1>3. ASSUME NEW ok \in BOOLEAN, group' = [group EXCEPT ![c].shell = "exited", ![c].ok = ok]
      PROVE  FileInv'
  <2> PICK new : new = [p EXCEPT !.shell = "exited", !.ok = ok]
    OBVIOUS
  <2>1. group' = [group EXCEPT ![c] = new]
    BY <1>1, <1>3
  <2>2. /\ IsGroup(new) /\ new.shell = "exited" /\ new.child = p.child /\ new.log = p.log /\ new.wrote = p.wrote
    BY <1>1 DEF IsGroup
  <2>3. group'[c] = new /\ DOMAIN group' = Runs /\ \A d \in Runs \ {c} : group'[d] = group[d]
    BY <1>1, <2>1
  <2>4. call[c].phase # "done" /\ call[c].phase # "waiting" /\ call[c].kind = "shell"
    BY <1>1 DEF Proper
  <2>5. RunInv(c)'
    <3>1. Proper(c)' /\ Returned(c)' /\ InOrder(c)'
      BY <1>1, <2>2, <2>3, <2>4 DEF Proper, Returned, InOrder
    <3> QED BY <1>1, <2>2, <2>3, <3>1 DEF RunInv, IsRequest, IsThread, IsGroup
  <2>6. DOMAIN call = Runs
    BY RunIs
  <2> QED BY <1>1, <2>2, <2>3, <2>5, <2>6, ProcessStep
<1> QED BY <1>1, <1>2, <1>3 DEF ShellWorks

LEMMA PrintsKeeps == ASSUME FileInv, NEW c \in Runs, Prints(c) PROVE FileInv'
<1> PICK p : p = group[c]
  OBVIOUS
<1> PICK new : new = [p EXCEPT !.wrote = p.wrote + 1]
  OBVIOUS
<1>1. /\ IsRequest(call[c]) /\ IsThread(thread[c]) /\ IsGroup(p) /\ Proper(c) /\ Returned(c) /\ InOrder(c)
      /\ DOMAIN group = Runs /\ DOMAIN call = Runs /\ Writers(p) /\ UNCHANGED <<call, file, thread, reader>>
      /\ group' = [group EXCEPT ![c] = new]
  BY RunIs DEF Prints
<1>2. /\ IsGroup(new) /\ new.shell = p.shell /\ new.child = p.child /\ new.holds = p.holds /\ new.armed = p.armed /\ new.log = p.log
  BY <1>1 DEF IsGroup
<1>3. group'[c] = new /\ DOMAIN group' = Runs /\ \A d \in Runs \ {c} : group'[d] = group[d]
  BY <1>1
<1>4. Proper(c)' /\ Returned(c)' /\ InOrder(c)'
  BY <1>1, <1>2, <1>3 DEF Proper, Returned, InOrder
<1>5. RunInv(c)'
  BY <1>1, <1>2, <1>3, <1>4 DEF RunInv, IsRequest, IsThread, IsGroup
<1> QED BY <1>1, <1>2, <1>3, <1>5, ProcessStep

LEMMA ChildEndsKeeps == ASSUME FileInv, NEW c \in Runs, ChildEnds(c) PROVE FileInv'
<1> PICK p : p = group[c]
  OBVIOUS
<1> PICK new : new = [p EXCEPT !.child = "ended"]
  OBVIOUS
<1>1. /\ IsRequest(call[c]) /\ IsThread(thread[c]) /\ IsGroup(p) /\ Proper(c) /\ Returned(c) /\ InOrder(c)
      /\ DOMAIN group = Runs /\ DOMAIN call = Runs /\ p.child = "running" /\ UNCHANGED <<call, file, thread, reader>>
      /\ group' = [group EXCEPT ![c] = new]
  BY RunIs DEF ChildEnds
<1>2. /\ IsGroup(new) /\ new.shell = p.shell /\ new.child = "ended" /\ new.armed = p.armed /\ new.log = p.log /\ new.wrote = p.wrote
  BY <1>1 DEF IsGroup
<1>3. group'[c] = new /\ DOMAIN group' = Runs /\ \A d \in Runs \ {c} : group'[d] = group[d]
  BY <1>1
<1>4. Proper(c)' /\ Returned(c)' /\ InOrder(c)'
  BY <1>1, <1>2, <1>3 DEF Proper, Returned, InOrder, Writers
<1>5. RunInv(c)'
  BY <1>1, <1>2, <1>3, <1>4 DEF RunInv, IsRequest, IsThread, IsGroup
<1> QED BY <1>1, <1>2, <1>3, <1>5, ProcessStep

LEMMA CollectKeeps == ASSUME FileInv, NEW c \in Runs, Collect(c) PROVE FileInv'
<1> PICK p : p = group[c]
  OBVIOUS
<1> PICK more : more = Append(p.log, Len(p.log) + 1)
  OBVIOUS
<1> PICK new : new = [p EXCEPT !.log = more]
  OBVIOUS
<1>1. /\ IsRequest(call[c]) /\ IsThread(thread[c]) /\ IsGroup(p) /\ Proper(c) /\ Returned(c) /\ InOrder(c)
      /\ DOMAIN group = Runs /\ DOMAIN call = Runs /\ Running(c) /\ UNCHANGED <<call, file, thread, reader>>
      /\ group' = [group EXCEPT ![c] = new]
  BY RunIs DEF Collect
<1>2. /\ p.log \in Seq(Nat) /\ Len(p.log) \in Nat /\ more \in Seq(Nat) /\ Len(more) = Len(p.log) + 1 /\ more[Len(p.log) + 1] = Len(p.log) + 1
      /\ \A i \in 1..Len(p.log) : more[i] = p.log[i]
  BY <1>1 DEF IsGroup
<1>3. /\ IsGroup(new) /\ new.shell = p.shell /\ new.child = p.child /\ new.armed = p.armed /\ new.log = more
  BY <1>1, <1>2 DEF IsGroup
<1>4. group'[c] = new /\ DOMAIN group' = Runs /\ \A d \in Runs \ {c} : group'[d] = group[d]
  BY <1>1
<1>5. call[c].phase # "waiting" /\ call[c].phase # "done"
  BY <1>1 DEF Running
<1>6. Proper(c)' /\ Returned(c)'
  BY <1>1, <1>3, <1>4, <1>5 DEF Proper, Returned
<1>7. InOrder(c)'
  <2> SUFFICES ASSUME NEW i \in 1..Len(more) PROVE more[i] = i
    BY <1>3, <1>4 DEF InOrder
  <2>1. i \in 1..Len(p.log) \/ i = Len(p.log) + 1
    BY <1>2
  <2> QED BY <1>1, <1>2, <2>1 DEF InOrder
<1>8. RunInv(c)'
  BY <1>1, <1>3, <1>4, <1>6, <1>7 DEF RunInv, IsRequest, IsThread, IsGroup
<1>9. Len(group'[c].log) >= Len(group[c].log)
  BY <1>2, <1>3, <1>4
<1> QED BY <1>1, <1>4, <1>8, <1>9, ProcessStep

\* What a kill leaves.
LEMMA KilledIs ==
  ASSUME NEW p, IsGroup(p), NEW q, q = Killed(p)
  PROVE  /\ IsGroup(q) /\ q.log = p.log /\ q.shell # "running"
         /\ (p.shell # "running" => q.shell = p.shell) /\ (p.child # "running" => q.child = p.child)
         /\ (p.armed => q.child # "running")
<1> PICK shell : shell = IF p.shell = "running" THEN "killed" ELSE p.shell
  OBVIOUS
<1> PICK child : child = IF p.armed /\ p.child = "running" THEN "ended" ELSE p.child
  OBVIOUS
<1>1. /\ shell \in {"none", "exited", "killed"} /\ child \in {"none", "running", "ended"}
      /\ (p.shell # "running" => shell = p.shell) /\ (p.child # "running" => child = p.child)
      /\ (p.armed => child # "running")
  BY DEF IsGroup
<1>2. q = [p EXCEPT !.shell = shell, !.child = child, !.armed = FALSE]
  BY DEF Killed
<1>3. /\ DOMAIN q = DOMAIN p /\ q.shell = shell /\ q.child = child /\ q.armed \in BOOLEAN /\ q.holds = p.holds
      /\ q.wrote = p.wrote /\ q.log = p.log
  BY <1>2 DEF IsGroup
<1>4. IsGroup(q)
  BY <1>1, <1>3 DEF IsGroup
<1> QED BY <1>1, <1>3, <1>4

LEMMA WaitedKeeps == ASSUME FileInv, NEW c \in Runs, Waited(c) PROVE FileInv'
<1> PICK p : p = group[c]
  OBVIOUS
<1> PICK new : new = [p EXCEPT !.armed = FALSE]
  OBVIOUS
<1> PICK r : r = call[c]
  OBVIOUS
<1> PICK outcome : outcome = IF p.ok THEN "succeeded" ELSE "failed"
  OBVIOUS
<1> PICK s : s = [r EXCEPT !.phase = "join", !.outcome = outcome]
  OBVIOUS
<1>1. /\ IsRequest(r) /\ IsThread(thread[c]) /\ IsGroup(p) /\ Proper(c) /\ Returned(c) /\ InOrder(c)
      /\ DOMAIN group = Runs /\ DOMAIN call = Runs /\ r.phase = "wait" /\ p.shell = "exited" /\ UNCHANGED <<file, thread, reader>>
      /\ group' = [group EXCEPT ![c] = new]
  BY RunIs DEF Waited
<1>2. call' = [call EXCEPT ![c] = s]
  BY <1>1 DEF Waited
<1>3. /\ IsGroup(new) /\ new.shell = "exited" /\ new.child = p.child /\ new.log = p.log
  BY <1>1 DEF IsGroup
<1>4. IsRequest(s) /\ s.kind = r.kind /\ s.phase = "join"
  BY <1>1 DEF IsRequest, CallPhases
<1>5. /\ group'[c] = new /\ DOMAIN group' = Runs /\ call'[c] = s /\ DOMAIN call' = Runs
      /\ \A d \in Runs \ {c} : group'[d] = group[d] /\ call'[d] = call[d]
  BY <1>1, <1>2
<1>6. Proper(c)' /\ Returned(c)' /\ InOrder(c)'
  BY <1>1, <1>3, <1>4, <1>5 DEF Proper, Returned, InOrder
<1>7. RunInv(c)'
  BY <1>1, <1>3, <1>4, <1>5, <1>6 DEF RunInv, IsRequest, IsThread, IsGroup
<1> QED BY <1>1, <1>3, <1>4, <1>5, <1>7, ProcessStep

LEMMA ToolTimeoutKeeps == ASSUME FileInv, NEW c \in Runs, ToolTimeout(c) PROVE FileInv'
<1> PICK p : p = group[c]
  OBVIOUS
<1> PICK new : new = Killed(p)
  OBVIOUS
<1> PICK r : r = call[c]
  OBVIOUS
<1> PICK s : s = [r EXCEPT !.phase = "join", !.outcome = "timed out"]
  OBVIOUS
<1>1. /\ IsRequest(r) /\ IsThread(thread[c]) /\ IsGroup(p) /\ Proper(c) /\ Returned(c) /\ InOrder(c)
      /\ DOMAIN group = Runs /\ DOMAIN call = Runs /\ r.phase = "wait" /\ UNCHANGED <<file, thread, reader>>
      /\ group' = [group EXCEPT ![c] = new]
  BY RunIs DEF ToolTimeout
<1>2. call' = [call EXCEPT ![c] = s]
  BY <1>1 DEF ToolTimeout
<1>3. /\ IsGroup(new) /\ new.log = p.log /\ new.shell # "running"
      /\ (p.shell # "running" => new.shell = p.shell) /\ (p.child # "running" => new.child = p.child)
      /\ (p.armed => new.child # "running")
  BY <1>1, KilledIs
<1>4. IsRequest(s) /\ s.kind = r.kind /\ s.phase = "join"
  BY <1>1 DEF IsRequest, CallPhases
<1>5. /\ group'[c] = new /\ DOMAIN group' = Runs /\ call'[c] = s /\ DOMAIN call' = Runs
      /\ \A d \in Runs \ {c} : group'[d] = group[d] /\ call'[d] = call[d]
  BY <1>1, <1>2
<1>6. Proper(c)'
  BY <1>1, <1>3, <1>4, <1>5 DEF Proper
<1>7. Returned(c)' /\ InOrder(c)'
  BY <1>1, <1>3, <1>4, <1>5 DEF Returned, InOrder
<1>8. RunInv(c)'
  BY <1>1, <1>3, <1>4, <1>5, <1>6, <1>7 DEF RunInv, IsRequest, IsThread, IsGroup
<1> QED BY <1>1, <1>3, <1>4, <1>5, <1>8, ProcessStep

LEMMA ShellReturnsKeeps == ASSUME FileInv, NEW c \in Runs, ShellReturns(c) PROVE FileInv'
<1> PICK p : p = group[c]
  OBVIOUS
<1> PICK r : r = call[c]
  OBVIOUS
<1> PICK s : s = [r EXCEPT !.phase = "done", !.outcome = r.outcome, !.output = Len(p.log)]
  OBVIOUS
<1>1. /\ IsRequest(r) /\ IsThread(thread[c]) /\ IsGroup(p) /\ Proper(c) /\ Returned(c) /\ InOrder(c)
      /\ DOMAIN group = Runs /\ DOMAIN call = Runs /\ r.phase = "join" /\ UNCHANGED <<file, thread, group, reader>>
      /\ ~Writers(p) /\ Len(p.log) = p.wrote
  BY RunIs DEF ShellReturns, Collected
<1>2. call' = [call EXCEPT ![c] = s]
  BY <1>1 DEF ShellReturns, Returns
<1>3. IsRequest(s) /\ s.kind = r.kind /\ s.phase = "done" /\ s.output = p.wrote
  BY <1>1 DEF IsRequest, CallPhases
<1>4. call'[c] = s /\ DOMAIN call' = Runs /\ \A d \in Runs \ {c} : call'[d] = call[d]
  BY <1>1, <1>2
<1>5. Proper(c)'
  BY <1>1, <1>3, <1>4 DEF Proper, Writers
<1>6. Returned(c)' /\ InOrder(c)'
  BY <1>1, <1>3, <1>4 DEF Returned, InOrder, Writers
<1>7. RunInv(c)'
  BY <1>1, <1>3, <1>4, <1>5, <1>6 DEF RunInv, IsRequest, IsThread, IsGroup
<1> QED BY <1>1, <1>3, <1>4, <1>7, ProcessStep

LEMMA AbandonKeeps ==
  ASSUME FileInv, NEW c \in Runs, NEW outcome \in {"cancelled", "given up"}, call[c].phase # "done", Abandon(c, outcome)
  PROVE  FileInv'
<1> PICK p : p = group[c]
  OBVIOUS
<1> PICK new : new = IF call[c].phase = "waiting" THEN p ELSE [Killed(p) EXCEPT !.armed = p.armed]
  OBVIOUS
<1> PICK r : r = call[c]
  OBVIOUS
<1> PICK s : s = [r EXCEPT !.phase = "done", !.outcome = outcome]
  OBVIOUS
<1>1. /\ IsRequest(r) /\ IsThread(thread[c]) /\ IsGroup(p) /\ Proper(c) /\ Returned(c) /\ InOrder(c)
      /\ DOMAIN group = Runs /\ DOMAIN call = Runs /\ UNCHANGED <<file, thread, reader>>
      /\ group' = [group EXCEPT ![c] = new]
  BY RunIs DEF Abandon
<1>2. call' = [call EXCEPT ![c] = s]
  BY <1>1 DEF Abandon, Returns
<1>3. /\ IsGroup(new) /\ new.log = p.log /\ new.shell # "running"
      /\ (p.shell # "running" => new.shell = p.shell) /\ (p.child # "running" => new.child = p.child)
      /\ (p.armed => new.child # "running" \/ r.phase = "waiting")
  <2>1. CASE r.phase = "waiting"
    BY <1>1, <2>1 DEF Proper
  <2>2. CASE r.phase # "waiting"
    <3> PICK q : q = Killed(p)
      OBVIOUS
    <3>1. p.armed \in BOOLEAN /\ new = [q EXCEPT !.armed = p.armed]
      BY <1>1, <2>2 DEF IsGroup
    <3>2. /\ IsGroup(q) /\ q.log = p.log /\ q.shell # "running"
          /\ (p.shell # "running" => q.shell = p.shell) /\ (p.child # "running" => q.child = p.child)
          /\ (p.armed => q.child # "running")
      BY <1>1, KilledIs
    <3>3. IsGroup(new) /\ new.log = q.log /\ new.shell = q.shell /\ new.child = q.child
      BY <3>1, <3>2 DEF IsGroup
    <3> QED BY <3>2, <3>3
  <2> QED BY <2>1, <2>2
<1>4. IsRequest(s) /\ s.kind = r.kind /\ s.phase = "done" /\ s.outcome = outcome
  BY <1>1 DEF IsRequest, CallPhases
<1>5. /\ group'[c] = new /\ DOMAIN group' = Runs /\ call'[c] = s /\ DOMAIN call' = Runs
      /\ \A d \in Runs \ {c} : group'[d] = group[d] /\ call'[d] = call[d]
  BY <1>1, <1>2
<1>6. Proper(c)'
  BY <1>1, <1>3, <1>4, <1>5 DEF Proper
<1>7. Returned(c)' /\ InOrder(c)'
  BY <1>1, <1>3, <1>4, <1>5 DEF Returned, InOrder, WholeOutcomes
<1>8. RunInv(c)'
  BY <1>1, <1>3, <1>4, <1>5, <1>6, <1>7 DEF RunInv, IsRequest, IsThread, IsGroup
<1> QED BY <1>1, <1>3, <1>4, <1>5, <1>8, ProcessStep

\* A step of the thread of a call, which may tell its call that it has ended.
LEMMA ThreadStep ==
  ASSUME FileInv, NEW c \in Runs, thread[c].at # "none", DOMAIN thread' = Runs, IsThread(thread'[c]),
         \A d \in Runs \ {c} : thread'[d].at = thread[d].at /\ IsThread(thread'[d]), UNCHANGED <<group, reader>>,
         NEW outcome, call' = call \/ call' = TellsCall(c, outcome)
  PROVE  WorkInv' /\ \A d \in Runs : call'[d].kind = call[d].kind
<1> PICK r : r = call[c]
  OBVIOUS
<1> PICK s : s = [r EXCEPT !.phase = "done", !.outcome = outcome]
  OBVIOUS
<1>1. /\ IsRequest(r) /\ IsThread(thread[c]) /\ IsGroup(group[c]) /\ Proper(c) /\ InOrder(c)
      /\ DOMAIN call = Runs /\ DOMAIN group = Runs
  BY RunIs
<1>2. IsRequest(s) /\ s.kind = r.kind /\ s.phase = "done"
  BY <1>1 DEF IsRequest, CallPhases
<1>3. r.kind # "shell" /\ r.phase # "waiting" /\ group[c].shell = "none" /\ group[c].child = "none"
  BY <1>1 DEF Proper
<1>4. call' = call \/ call' = [call EXCEPT ![c] = s]
  BY <1>1 DEF TellsCall, Returns
<1>5. /\ DOMAIN call' = Runs /\ IsRequest(call'[c]) /\ call'[c].kind = r.kind /\ call'[c].phase # "waiting"
      /\ \A d \in Runs \ {c} : call'[d] = call[d]
  BY <1>1, <1>2, <1>3, <1>4
<1>6. Proper(c)' /\ Returned(c)' /\ InOrder(c)'
  BY <1>1, <1>3, <1>5 DEF Proper, Returned, InOrder
<1>7. RunInv(c)'
  BY <1>1, <1>5, <1>6 DEF RunInv, IsRequest, IsThread, IsGroup
<1>8. WorkInv'
  BY <1>1, <1>5, <1>7, RunStep DEF FileInv
<1> QED BY <1>5, <1>8

LEMMA ReadOriginalKeeps == ASSUME FileInv, NEW c \in Runs, ReadOriginal(c) PROVE FileInv'
<1> PICK t : t = thread[c]
  OBVIOUS
<1> PICK edited : edited = Edited(file, call[c].edits)
  OBVIOUS
<1> PICK new : new = [t EXCEPT !.at = "open", !.original = file, !.new = edited]
  OBVIOUS
<1>1. t.at = "read" /\ UNCHANGED <<file, group, reader>> /\ IsThread(t) /\ DOMAIN thread = Runs
  BY RunIs DEF ReadOriginal
<1>2. IsThread(new) /\ IsThread(NoThread)
  BY <1>1 DEF IsThread, NoThread
<1>3. \/ thread' = [thread EXCEPT ![c] = new] /\ call' = call
      \/ thread' = [thread EXCEPT ![c] = NoThread] /\ call' = TellsCall(c, "failed")
  BY DEF ReadOriginal
<1>4. DOMAIN thread' = Runs /\ IsThread(thread'[c]) /\ \A d \in Runs \ {c} : thread'[d] = thread[d]
  BY <1>1, <1>2, <1>3
<1>5. \A d \in Runs \ {c} : thread'[d].at = thread[d].at /\ IsThread(thread'[d])
  <2> SUFFICES ASSUME NEW d \in Runs \ {c} PROVE thread'[d].at = thread[d].at /\ IsThread(thread'[d])
    OBVIOUS
  <2>1. IsThread(thread[d])
    BY RunIs
  <2> QED BY <1>4, <2>1
<1>6. WorkInv' /\ \A d \in Runs : call'[d].kind = call[d].kind
  BY <1>1, <1>3, <1>4, <1>5, ThreadStep
<1>7. ~Calm'
  <2>1. ~Calm
    BY <1>1 DEF FileInv, WrittenAlone
  <2> QED BY <1>6, <2>1 DEF Calm
<1> QED BY <1>6, <1>7 DEF FileInv

LEMMA TruncateKeeps == ASSUME FileInv, NEW c \in Runs, Truncate(c) PROVE FileInv'
<1> PICK t : t = thread[c]
  OBVIOUS
<1> PICK others : others = {d \in Runs \ {c} : thread[d].at = "write"}
  OBVIOUS
<1> PICK beside \in BOOLEAN : beside <=> others # {}
  OBVIOUS
<1> PICK new : new = [t EXCEPT !.at = "write", !.torn = beside]
  OBVIOUS
<1>1. /\ t.at = "open" /\ file' = <<>> /\ UNCHANGED <<call, group, reader>> /\ IsThread(t)
      /\ DOMAIN thread' = Runs
  BY RunIs DEF Truncate
<1>2. thread'[c] = [t EXCEPT !.at = "write", !.torn = (others # {})]
  BY DEF Truncate
<1>3. IsThread(thread'[c]) /\ thread'[c].at = "write" /\ thread'[c].new = t.new /\ (thread'[c].torn <=> others # {})
  BY <1>1, <1>2 DEF IsThread
<1>4. ASSUME NEW d \in Runs \ {c}
      PROVE  /\ IsThread(thread'[d]) /\ thread'[d].at = thread[d].at /\ thread'[d].new = thread[d].new
             /\ d \in others => thread'[d].torn = TRUE
             /\ d \notin others => thread'[d] = thread[d]
  <2>1. IsThread(thread[d])
    BY RunIs
  <2>2. CASE d \in others
    <3>1. thread'[d] = [thread[d] EXCEPT !.torn = TRUE]
      BY <2>2 DEF Truncate
    <3> QED BY <2>1, <2>2, <3>1 DEF IsThread
  <2>3. CASE d \notin others
    <3>1. thread'[d] = thread[d]
      BY <2>3 DEF Truncate
    <3> QED BY <2>1, <2>3, <3>1
  <2> QED BY <2>2, <2>3
<1>5. WorkInv' /\ \A d \in Runs : call'[d].kind = call[d].kind
  <2>1. thread[c].at # "none" /\ call' = call /\ UNCHANGED <<group, reader>> /\ DOMAIN thread' = Runs /\ IsThread(thread'[c])
    BY <1>1, <1>3
  <2>2. \A d \in Runs \ {c} : thread'[d].at = thread[d].at /\ IsThread(thread'[d])
    BY <1>4
  <2>3. call' = call \/ call' = TellsCall(c, "succeeded")
    BY <2>1
  <2> QED BY <2>1, <2>2, <2>3, ThreadStep
<1>6. ASSUME Calm' PROVE WrittenAlone'
  <2>1. WrittenAlone
    BY <1>5, <1>6 DEF FileInv, Calm
  <2>2. ASSUME NEW d \in Runs
        PROVE  thread'[d].new \in Contents /\ (thread'[d].at \in {"none", "open"} => ~thread'[d].torn) /\ thread'[d].at # "read"
    <3>1. CASE d = c
      BY <1>3, <2>1, <3>1 DEF WrittenAlone
    <3>2. CASE d # c
      BY <1>4, <2>1, <3>2 DEF WrittenAlone
    <3> QED BY <3>1, <3>2
  <2>3. ASSUME \A d \in Runs : ~thread'[d].torn
        PROVE  \A d \in Runs : thread'[d].at = "write" => d = c
    BY <1>3, <1>4, <2>3
  <2> QED BY <1>1, <1>3, <2>2, <2>3 DEF WrittenAlone
<1> QED BY <1>5, <1>6 DEF FileInv

LEMMA WrittenToEmpty == ASSUME NEW s \in Contents PROVE s \o SubSeq(<<>>, Len(s) + 1, Len(<<>>)) = s
<1>1. s \in Seq({"own"}) /\ Len(s) \in Nat
  <2>1. CASE s = <<>>
    BY <2>1, NothingIs
  <2>2. CASE s = <<"own">>
    BY <2>2
  <2> QED BY <2>1, <2>2 DEF Contents
<1> PICK none : none = SubSeq(<<>>, Len(s) + 1, Len(<<>>))
  OBVIOUS
<1>2. <<>> \in Seq({"own"}) /\ Len(<<>>) = 0
  BY NothingIs
<1>3. none \in Seq({"own"}) /\ Len(none) = 0
  BY <1>1, <1>2
<1>4. none = <<>>
  BY <1>3
<1> QED BY <1>1, <1>4

LEMMA WriteContentKeeps == ASSUME FileInv, NEW c \in Runs, WriteContent(c) PROVE FileInv'
<1> PICK t : t = thread[c]
  OBVIOUS
<1> PICK new : new = [t EXCEPT !.at = "ended"]
  OBVIOUS
<1>1. /\ t.at = "write" /\ thread' = [thread EXCEPT ![c] = new] /\ call' = TellsCall(c, "succeeded")
      /\ UNCHANGED <<group, reader>> /\ IsThread(t) /\ DOMAIN thread = Runs
      /\ file' = t.new \o SubSeq(file, Len(t.new) + 1, Len(file))
  BY RunIs DEF WriteContent
<1>2. IsThread(new) /\ new.at = "ended" /\ new.new = t.new /\ new.torn = t.torn
  BY <1>1 DEF IsThread
<1>3. DOMAIN thread' = Runs /\ thread'[c] = new /\ \A d \in Runs \ {c} : thread'[d] = thread[d]
  BY <1>1
<1>4. \A d \in Runs \ {c} : thread'[d].at = thread[d].at /\ IsThread(thread'[d])
  <2> SUFFICES ASSUME NEW d \in Runs \ {c} PROVE thread'[d].at = thread[d].at /\ IsThread(thread'[d])
    OBVIOUS
  <2>1. IsThread(thread[d])
    BY RunIs
  <2> QED BY <1>3, <2>1
<1>5. WorkInv' /\ \A d \in Runs : call'[d].kind = call[d].kind
  BY <1>1, <1>2, <1>3, <1>4, ThreadStep
<1>6. ASSUME Calm' PROVE WrittenAlone'
  <2>1. WrittenAlone
    BY <1>5, <1>6 DEF FileInv, Calm
  <2>2. ASSUME NEW d \in Runs
        PROVE  thread'[d].new \in Contents /\ (thread'[d].at \in {"none", "open"} => ~thread'[d].torn) /\ thread'[d].at # "read"
    BY <1>2, <1>3, <2>1 DEF WrittenAlone
  <2>3. ASSUME \A d \in Runs : ~thread'[d].torn
        PROVE  /\ \A d \in Runs : thread'[d].at # "write"
               /\ file' = new.new /\ thread'[c].at = "ended"
    <3>1. \A d \in Runs : ~thread[d].torn
      BY <1>2, <1>3, <2>3
    <3>2. file = <<>> /\ \A d \in Runs : thread[d].at = "write" => d = c
      BY <1>1, <2>1, <3>1 DEF WrittenAlone
    <3>3. t.new \in Contents
      BY <2>1 DEF WrittenAlone
    <3>4. file' = t.new
      BY <1>1, <3>2, <3>3, WrittenToEmpty
    <3> QED BY <1>2, <1>3, <3>2, <3>4
  <2> QED BY <1>3, <2>2, <2>3 DEF WrittenAlone
<1> QED BY <1>5, <1>6 DEF FileInv

LEMMA StartCallKeeps == ASSUME FileInv, NEW c \in Runs, StartCall(c) PROVE FileInv'
<1> PICK r : r = call[c]
  OBVIOUS
<1>1. /\ IsRequest(r) /\ IsThread(thread[c]) /\ IsGroup(group[c]) /\ Proper(c) /\ Returned(c) /\ InOrder(c)
      /\ DOMAIN group = Runs /\ DOMAIN call = Runs /\ DOMAIN thread = Runs /\ r.phase = "waiting" /\ UNCHANGED <<file, reader>>
  BY RunIs DEF StartCall
<1>2. CASE r.kind = "shell"
  <2> PICK new : new = [NoProcess EXCEPT !.shell = "running", !.armed = TRUE]
    OBVIOUS
  <2> PICK s : s = [r EXCEPT !.phase = "wait"]
    OBVIOUS
  <2>1. call' = [call EXCEPT ![c] = s] /\ group' = [group EXCEPT ![c] = new] /\ thread' = thread
    BY <1>2 DEF StartCall
  <2>2. /\ IsGroup(new) /\ new.shell = "running" /\ new.child = "none" /\ new.armed = TRUE /\ new.log = <<>>
    BY NoProcessIs DEF IsGroup
  <2>3. IsRequest(s) /\ s.kind = "shell" /\ s.phase = "wait"
    BY <1>1, <1>2 DEF IsRequest, CallPhases
  <2>4. /\ group'[c] = new /\ DOMAIN group' = Runs /\ call'[c] = s /\ DOMAIN call' = Runs
        /\ \A d \in Runs \ {c} : group'[d] = group[d] /\ call'[d] = call[d]
    BY <1>1, <2>1
  <2>5. Proper(c)' /\ Returned(c)' /\ InOrder(c)'
    BY <1>1, <1>2, <2>1, <2>2, <2>3, <2>4, NothingIs DEF Proper, Returned, InOrder
  <2>6. RunInv(c)'
    BY <1>1, <2>1, <2>2, <2>3, <2>4, <2>5 DEF RunInv, IsRequest, IsThread, IsGroup
  <2>7. group'[c].log = group[c].log
    BY <1>1, <2>2, <2>4 DEF Proper
  <2> QED BY <1>1, <1>2, <2>1, <2>3, <2>4, <2>6, <2>7, ProcessStep
<1>3. CASE r.kind # "shell"
  <2> PICK at : at = IF r.kind = "edit" THEN "read" ELSE "open"
    OBVIOUS
  <2> PICK s : s = [r EXCEPT !.phase = "blocking"]
    OBVIOUS
  <2> PICK t : t = thread[c]
    OBVIOUS
  <2> PICK new : new = [t EXCEPT !.at = at, !.new = r.content]
    OBVIOUS
  <2>1. call' = [call EXCEPT ![c] = s] /\ group' = group
    BY <1>3 DEF StartCall
  <2>2. thread' = [thread EXCEPT ![c] = new]
    BY <1>1, <1>3 DEF StartCall
  <2>3. IsThread(new) /\ new.at = at /\ new.new = r.content /\ new.torn = t.torn /\ at \in {"read", "open"}
    BY <1>1 DEF IsThread
  <2>4. IsRequest(s) /\ s.kind = r.kind /\ s.phase = "blocking"
    BY <1>1 DEF IsRequest, CallPhases
  <2>5. /\ thread'[c] = new /\ DOMAIN thread' = Runs /\ call'[c] = s /\ DOMAIN call' = Runs
        /\ \A d \in Runs \ {c} : thread'[d] = thread[d] /\ call'[d] = call[d]
    BY <1>1, <2>1, <2>2
  <2>6. Proper(c)' /\ Returned(c)' /\ InOrder(c)'
    BY <1>1, <1>3, <2>1, <2>4, <2>5 DEF Proper, Returned, InOrder
  <2>7. RunInv(c)'
    BY <1>1, <2>1, <2>3, <2>4, <2>5, <2>6 DEF RunInv, IsRequest, IsThread, IsGroup
  <2>8. \A d \in Runs \ {c} : thread'[d].at = thread[d].at /\ IsThread(thread'[d]) /\ group'[d] = group[d]
    <3> SUFFICES ASSUME NEW d \in Runs \ {c} PROVE thread'[d].at = thread[d].at /\ IsThread(thread'[d]) /\ group'[d] = group[d]
      OBVIOUS
    <3>1. IsThread(thread[d])
      BY RunIs
    <3> QED BY <2>1, <2>5, <3>1
  <2>9. WorkInv'
    BY <1>1, <2>1, <2>5, <2>7, <2>8, RunStep DEF FileInv
  <2>10. ASSUME Calm' PROVE WrittenAlone'
    <3>1. WrittenAlone /\ at = "open"
      <4>1. r.kind # "edit" /\ Calm
        BY <2>4, <2>5, <2>10 DEF Calm
      <4> QED BY <4>1 DEF FileInv
    <3>2. t.at = "none" /\ ~t.torn /\ r.content \in Contents
      BY <1>1, <3>1 DEF Proper, WrittenAlone, IsRequest
    <3>3. ASSUME NEW d \in Runs
          PROVE  thread'[d].new \in Contents /\ (thread'[d].at \in {"none", "open"} => ~thread'[d].torn) /\ thread'[d].at # "read"
      <4>1. CASE d = c
        BY <2>3, <2>5, <3>1, <3>2, <4>1
      <4>2. CASE d # c
        BY <2>5, <3>1, <4>2 DEF WrittenAlone
      <4> QED BY <4>1, <4>2
    <3>4. \A d \in Runs : /\ thread'[d].torn = thread[d].torn
                          /\ thread'[d].at = "write" <=> thread[d].at = "write"
                          /\ thread[d].at = "ended" => thread'[d] = thread[d]
      BY <2>3, <2>5, <3>1, <3>2
    <3> QED BY <1>1, <3>1, <3>3, <3>4 DEF WrittenAlone
  <2> QED BY <2>9, <2>10 DEF FileInv
<1> QED BY <1>2, <1>3

\* A piece of a sequence.
LEMMA PieceOf ==
  ASSUME NEW s \in Seq(Nat), NEW from \in Nat, NEW upto \in Nat, from <= upto, upto <= Len(s)
  PROVE  /\ SubSeq(s, from + 1, upto) \in Seq(Nat) /\ Len(SubSeq(s, from + 1, upto)) = upto - from
         /\ \A i \in 1..(upto - from) : SubSeq(s, from + 1, upto)[i] = s[from + i]
<1>1. Len(s) \in Nat /\ from + 1 \in 1..(Len(s) + 1) /\ upto \in 0..Len(s)
  OBVIOUS
<1> PICK n : n = upto - from
  OBVIOUS
<1>2. n \in Nat /\ n = (upto - (from + 1)) + 1
  OBVIOUS
<1>3. SubSeq(s, from + 1, upto) = [i \in 1..n |-> s[i + from]]
  BY <1>1, <1>2
<1>4. \A i \in 1..n : s[i + from] \in Nat
  <2> SUFFICES ASSUME NEW i \in 1..n PROVE s[i + from] \in Nat
    OBVIOUS
  <2>1. i + from \in 1..Len(s)
    BY <1>1, <1>2
  <2> QED BY <2>1
<1> QED BY <1>1, <1>2, <1>3, <1>4

\* A page after what has been read.
Counts(s) == s \in Seq(Nat) /\ \A i \in 1..Len(s) : s[i] = i
Joined(got, p, upto) == got \o SubSeq(p, Len(got) + 1, upto)
LEMMA PageJoins ==
  ASSUME NEW p, NEW got, Counts(p), Counts(got), NEW upto \in Nat, Len(got) <= upto, upto <= Len(p)
  PROVE  Counts(Joined(got, p, upto)) /\ Len(Joined(got, p, upto)) = upto
<1>0. p \in Seq(Nat) /\ got \in Seq(Nat) /\ (\A i \in 1..Len(p) : p[i] = i) /\ \A i \in 1..Len(got) : got[i] = i
  BY DEF Counts
<1> PICK page : page = SubSeq(p, Len(got) + 1, upto)
  OBVIOUS
<1> PICK n \in Nat : n = Len(got)
  BY <1>0
<1>1. page \in Seq(Nat) /\ Len(page) = upto - n /\ \A i \in 1..(upto - n) : page[i] = p[n + i]
  <2>1. n <= upto
    OBVIOUS
  <2> QED BY <1>0, <2>1, PieceOf
<1>2. got \o page \in Seq(Nat) /\ Len(got \o page) = upto
  <2> PICK joined : joined = got \o page
    OBVIOUS
  <2>1. joined \in Seq(Nat) /\ Len(joined) = Len(got) + Len(page)
    BY <1>0, <1>1
  <2>2. Len(got) = n /\ Len(page) = upto - n
    BY <1>1
  <2>3. Len(joined) = upto
    BY <2>1, <2>2
  <2> QED BY <2>1, <2>3
<1>3. ASSUME NEW i \in 1..upto PROVE (got \o page)[i] = i
  <2>1. CASE i <= n
    <3>1. i \in 1..Len(got)
      BY <2>1
    <3> QED BY <1>0, <1>1, <3>1
  <2>2. CASE ~(i <= n)
    <3> PICK j : j = i - n
      OBVIOUS
    <3>1. j \in 1..(upto - n) /\ n + j = i
      BY <2>2
    <3>2. (got \o page)[i] = page[j]
      BY <1>0, <1>1, <2>2
    <3>3. n + j \in 1..Len(p)
      <4>1. Len(p) \in Nat /\ upto <= Len(p)
        BY <1>0
      <4> QED BY <3>1, <4>1
    <3>4. page[j] = p[n + j] /\ p[n + j] = n + j
      BY <1>0, <1>1, <3>1, <3>3
    <3> QED BY <3>1, <3>2, <3>4
  <2> QED BY <2>1, <2>2
<1> QED BY <1>2, <1>3 DEF Counts, Joined

LEMMA ReadPageKeeps == ASSUME FileInv, NEW c \in Runs, ReadPage(c) PROVE FileInv'
<1> PICK p : p = group[c].log
  OBVIOUS
<1> PICK from : from = reader.next
  OBVIOUS
<1> PICK upto : upto = PageEnd(p, from)
  OBVIOUS
<1> PICK got : got = reader.got
  OBVIOUS
<1> PICK page : page = SubSeq(p, from + 1, upto)
  OBVIOUS
<1>1. /\ UNCHANGED <<call, file, thread, group>> /\ reader.of \subseteq {c}
      /\ reader' = [of |-> {c}, next |-> upto, got |-> got \o page, last |-> (upto >= Len(p))]
  BY DEF ReadPage
<1>2. p \in Seq(Nat) /\ \A i \in 1..Len(p) : p[i] = i
  BY RunIs DEF IsGroup, InOrder
<1>3. from \in Nat /\ got \in Seq(Nat) /\ Len(got) = from /\ from <= Len(p) /\ \A i \in 1..from : got[i] = i
  <2>1. Reading
    BY DEF FileInv, WorkInv
  <2>2. reader.of = {} \/ c \in reader.of
    BY <1>1
  <2>3. from <= Len(p)
    BY <1>2, <2>1, <2>2 DEF Reading
  <2> QED BY <2>1, <2>3 DEF Reading
<1>4. upto \in Nat /\ from <= upto /\ upto <= Len(p)
  <2>1. Len(p) \in Nat /\ PageSize \in Nat
    BY <1>2, WorkspaceAssumption
  <2> PICK n \in Nat : n = Len(p)
    BY <2>1
  <2>2. upto = IF from + PageSize < n THEN from + PageSize ELSE n
    BY DEF PageEnd
  <2>3. from \in Nat /\ from <= n
    BY <1>3
  <2>4. upto \in Nat /\ from <= upto /\ upto <= n
    BY <2>1, <2>2, <2>3
  <2> QED BY <2>4
<1>5. Len(got) = from /\ p \in Seq(Nat) /\ got \in Seq(Nat) /\ from \in Nat
  BY <1>2, <1>3
<1>6. /\ got \o page \in Seq(Nat) /\ Len(got \o page) = upto /\ \A i \in 1..upto : (got \o page)[i] = i
  <2>1. Counts(p) /\ Counts(got)
    BY <1>2, <1>3 DEF Counts
  <2>2. Len(got) <= upto /\ upto <= Len(p) /\ upto \in Nat
    BY <1>4, <1>5
  <2>3. page = SubSeq(p, Len(got) + 1, upto)
    BY <1>5, Zenon
  <2>4. p \in Seq(Nat) /\ got \in Seq(Nat) /\ upto \in Nat
    BY <1>5, <2>2
  <2> PICK n \in Nat : n = upto
    BY <2>2
  <2>5. Counts(Joined(got, p, n)) /\ Len(Joined(got, p, n)) = n
    <3>1. Len(got) <= n /\ n <= Len(p)
      BY <2>2
    <3> HIDE <2>2, <2>4
    <3> QED BY <2>1, <3>1, PageJoins
  <2>6. Joined(got, p, n) = got \o page
    BY <2>3 DEF Joined
  <2> QED BY <2>5, <2>6 DEF Counts
<1>7. Reading'
  BY <1>1, <1>4, <1>6 DEF Reading
<1>8. WorkInv'
  <2>1. \A d \in Runs : RunInv(d)'
    <3> SUFFICES ASSUME NEW d \in Runs PROVE RunInv(d)'
      OBVIOUS
    <3>1. RunInv(d)
      BY DEF FileInv, WorkInv
    <3>2. IsThread(thread[d])
      BY <3>1 DEF RunInv
    <3> QED BY <1>1, <3>1, <3>2, SameRun
  <2> QED BY <1>1, <1>7, <2>1 DEF FileInv, WorkInv
<1>9. Calm' => WrittenAlone'
  BY <1>1, SameFile
<1> QED BY <1>8, <1>9 DEF FileInv

LEMMA WorkKept == FileInv /\ [WorkspaceNext]_workspaceVars => FileInv'
<1> SUFFICES ASSUME FileInv, [WorkspaceNext]_workspaceVars PROVE FileInv'
  OBVIOUS
<1>1. ASSUME NEW c \in Runs, CallWorks(c) PROVE FileInv'
  BY <1>1, StartCallKeeps, ReadOriginalKeeps, TruncateKeeps, WriteContentKeeps, CollectKeeps, WaitedKeeps, ShellReturnsKeeps DEF CallWorks
<1>2. ASSUME NEW c \in Runs, ToolTimeout(c) \/ Cancel(c) \/ ExecutorTimeout(c) \/ ReadPage(c) PROVE FileInv'
  BY <1>2, ToolTimeoutKeeps, AbandonKeeps, ReadPageKeeps DEF Cancel, ExecutorTimeout, GivesUp, Running
<1>3. ASSUME NEW c \in Runs, ShellWorks(c) \/ Prints(c) \/ ChildEnds(c) PROVE FileInv'
  BY <1>3, ShellWorksKeeps, PrintsKeeps, ChildEndsKeeps
<1>4. CASE UNCHANGED workspaceVars
  <2>1. UNCHANGED <<call, file, thread, group, reader>>
    BY <1>4 DEF workspaceVars
  <2>2. \A d \in Runs : RunInv(d)'
    <3> SUFFICES ASSUME NEW d \in Runs PROVE RunInv(d)'
      OBVIOUS
    <3>1. RunInv(d)
      BY DEF FileInv, WorkInv
    <3>2. IsThread(thread[d])
      BY <3>1 DEF RunInv
    <3> QED BY <2>1, <3>1, <3>2, SameRun
  <2>3. WorkInv'
    BY <2>1, <2>2 DEF FileInv, WorkInv, Reading
  <2>4. Calm' => WrittenAlone'
    BY <2>1, SameFile
  <2> QED BY <2>3, <2>4 DEF FileInv
<1> QED BY <1>1, <1>2, <1>3, <1>4 DEF WorkspaceNext

\* A command's result has all the output of its processes; when it was given up or timed
\* out before its shell had ended, no process of its group goes on; and the pages of its
\* live output join (shell, read_file and the process adapter's kill).
THEOREM CommandsEndWhole == WorkspaceSpec => [](OutputWhole /\ QuietAfter /\ PagesJoin)
<1>1. FileInv => OutputWhole /\ QuietAfter /\ PagesJoin
  <2> SUFFICES ASSUME FileInv PROVE OutputWhole /\ QuietAfter /\ PagesJoin
    OBVIOUS
  <2>1. OutputWhole
    BY RunIs DEF OutputWhole, Returned, WholeOutcomes
  <2>2. QuietAfter
    BY RunIs DEF QuietAfter, Proper
  <2>3. PagesJoin
    BY DEF FileInv, WorkInv, Reading, PagesJoin
  <2> QED BY <2>1, <2>2, <2>3
<1> QED BY <1>1, WorkStarts, WorkKept, PTL DEF WorkspaceSpec

\* When nobody writes, the file holds what one call wrote, unless two wrote at once; where
\* no call edits, since what an edit writes is not in reach (write_file).
THEOREM WritesStayWhole == WorkspaceSpec => []((\A c \in Runs : call[c].kind # "edit") => FileWhole)
<1>1. FileInv => ((\A c \in Runs : call[c].kind # "edit") => FileWhole)
  BY DEF FileInv, Calm, WrittenAlone, FileWhole
<1> QED BY <1>1, WorkStarts, WorkKept, PTL DEF WorkspaceSpec

-----------------------------------------------------------------------------
(* The choice of a selection: a row names nothing the agent has not taken, *)
(* and without overlapping or torn requests it says what its session has.  *)
RequestSteps == {"rest", "list", "put", "set", "create", "open", "read", "write", "block"}
Busy(c) == choice[c].pc # "rest"

\* A request is a record, its want whatever it may be.
IsChoice(r) == DOMAIN r = {"pc", "by", "id", "want", "heard"}

Shaped ==
  /\ choice = [c \in Choosers |-> choice[c]] /\ \A c \in Choosers : IsChoice(choice[c])
  /\ session = [s \in Sessions |-> session[s]] /\ took = [s \in Sessions |-> took[s]]
  /\ row = [id |-> row.id, selection |-> row.selection, blocked |-> row.blocked]
  /\ row.id \in Sessions \cup {0}

Sound(c) ==
  /\ choice[c].pc \in RequestSteps
  /\ choice[c].pc = "list" => choice[c].by \in {"page", "message"} /\ choice[c].id \in Sessions \cup {0}
  /\ choice[c].pc = "list" /\ choice[c].by = "message" => choice[c].id = 0
  /\ choice[c].pc \in {"put", "set", "read", "write"} => choice[c].id \in Sessions
  /\ choice[c].pc \in {"set", "open"} => choice[c].want # Nothing
  /\ choice[c].pc = "read" => session[choice[c].id] # Nothing
  /\ choice[c].pc = "write" => choice[c].want \in took[choice[c].id]

\* What a session has it has taken.
Recorded == \A s \in Sessions : session[s] # Nothing => session[s] \in took[s]

\* Requests that did not overlap are one at a time.
Single == ~raced => \A c, d \in Choosers : Busy(c) /\ Busy(d) => c = d

\* The row says what the agent has, and the session it names is the only one.
Agreed ==
  /\ row.id # 0 => row.selection = session[row.id] /\ ~row.blocked
  /\ \A s \in Sessions : session[s] # Nothing => s = row.id

\* How far a request that nothing disturbs has come: nothing done yet, or all
\* but the row.
InStep(c) ==
  /\ Busy(c) => choice[c].heard
  /\ choice[c].pc \in {"list", "put", "set"} => choice[c].id = row.id
  /\ choice[c].pc \in {"create", "open", "block"} => row.id = 0
  /\ choice[c].pc \in {"read", "write"} =>
       /\ session[choice[c].id] = choice[c].want
       /\ \A s \in Sessions : session[s] # Nothing => s = choice[c].id
Undisturbed ==
  ~raced /\ ~torn =>
    /\ \A c \in Choosers : InStep(c)
    /\ (\A c \in Choosers : choice[c].pc \notin {"read", "write"}) => Agreed

RowInv == Shaped /\ (\A c \in Choosers : Sound(c)) /\ Recorded /\ RowTaken /\ Single /\ Undisturbed

USE DEF Automatic, NoPair

LEMMA FreeIsRequest == IsChoice(Free) /\ Free.pc = "rest"
BY DEF IsChoice, Free

LEMMA FreeIsSound ==
  ASSUME NEW c \in Choosers, choice'[c] = Free
  PROVE  Sound(c)' /\ InStep(c)'
BY DEF Sound, InStep, Busy, Free, RequestSteps

LEMMA ChoicesStart == SelectionsInit => RowInv
<1> SUFFICES ASSUME SelectionsInit PROVE RowInv
  OBVIOUS
<1>1. \A c \in Choosers : choice[c] = Free
  BY DEF SelectionsInit
<1>2. PICK at \in {0, 1} :
       /\ row = [NewRow EXCEPT !.id = at, !.selection = IF at = 0 THEN Nothing ELSE Selected(CHOOSE p \in ProfileIds : TRUE, Usual.default)]
       /\ session = [s \in Sessions |-> IF s = at THEN row.selection ELSE Nothing]
       /\ took = [s \in Sessions |-> {session[s]} \ {Nothing}]
  BY DEF SelectionsInit
<1>3. at # 0 => row.selection # Nothing
  <2>1. (CHOOSE p \in ProfileIds : TRUE) # Automatic
    BY SelectionsAssumption
  <2> QED BY <1>2, <2>1 DEF NewRow, Selected, Nothing
<1>4. row.id = at /\ (at = 0 => row.selection = Nothing) /\ ~row.blocked
  BY <1>2 DEF NewRow
<1>5. Shaped
  BY <1>1, <1>2, <1>4, SelectionsAssumption DEF SelectionsInit, Shaped, IsChoice, Free, NewRow
<1>6. \A c \in Choosers : Sound(c)
  BY <1>1 DEF Sound, Free, RequestSteps
<1>7. Recorded /\ RowTaken
  BY <1>2, <1>3, <1>4, SelectionsAssumption DEF Recorded, RowTaken
<1>8. Single /\ Undisturbed
  BY <1>1, <1>2, <1>4, SelectionsAssumption DEF Single, Undisturbed, InStep, Agreed, Busy, Free
<1> QED BY <1>5, <1>6, <1>7, <1>8 DEF RowInv

(* What the agent takes names a profile, so it is something.               *)
LEMMA TakenIsSomething ==
  ASSUME NEW s, AgentTakes(s)
  PROVE  s # Nothing
BY SelectionsAssumption DEF AgentTakes, Nothing, Selected

(* A step that leaves the agent, the row and the history alone and moves   *)
(* one request to where it is sound and in step.                           *)
LEMMA Moving ==
  ASSUME RowInv, NEW c \in Choosers, NEW r,
         choice' = [choice EXCEPT ![c] = r], IsChoice(r),
         UNCHANGED <<row, session, took>>, Sound(c)',
         raced => raced', torn => torn',
         ~raced' => r.pc = "rest" \/ Busy(c) \/ \A d \in Choosers : ~Busy(d),
         ~raced' /\ ~torn' => InStep(c)' /\ (choice[c].pc \in {"read", "write"} => r.pc \in {"read", "write"})
  PROVE  RowInv'
<1> USE DEF RowInv
<1>1. choice'[c] = r /\ \A d \in Choosers : d # c => choice'[d] = choice[d]
  BY DEF Shaped
<1>2. Shaped'
  BY <1>1 DEF Shaped, IsChoice
<1>3. \A d \in Choosers : Sound(d)'
  BY <1>1 DEF Sound
<1>4. Recorded' /\ RowTaken'
  BY DEF Recorded, RowTaken
<1>5. Single'
  BY <1>1 DEF Single, Busy
<1>6. Undisturbed'
  <2> SUFFICES ASSUME ~raced', ~torn' PROVE (\A d \in Choosers : InStep(d)') /\ ((\A d \in Choosers : choice'[d].pc \notin {"read", "write"}) => Agreed')
    BY DEF Undisturbed
  <2>1. \A d \in Choosers : InStep(d)'
    BY <1>1 DEF Undisturbed, InStep, Busy
  <2>2. ASSUME \A d \in Choosers : choice'[d].pc \notin {"read", "write"} PROVE Agreed'
    <3>1. \A d \in Choosers : choice[d].pc \notin {"read", "write"}
      BY <1>1, <2>2
    <3> QED BY <3>1 DEF Undisturbed, Agreed
  <2> QED BY <2>1, <2>2
<1> QED BY <1>2, <1>3, <1>4, <1>5, <1>6

LEMMA EnterStep ==
  ASSUME RowInv, NEW c \in Choosers, NEW r, Enters(c, r), UNCHANGED <<row, session, took, torn>>,
         IsChoice(r), r.heard,
         \/ r.pc = "list" /\ r.by = "page" /\ r.id = row.id
         \/ r.pc = "list" /\ r.by = "message" /\ r.id = 0 /\ row.id = 0
         \/ r.pc = "put" /\ r.id = row.id /\ row.id # 0
  PROVE  RowInv'
<1>1. choice' = [choice EXCEPT ![c] = r] /\ (~raced' => ~raced /\ \A d \in Choosers : ~Busy(d))
  BY DEF Enters, Busy, At
<1>2. choice'[c] = r
  BY <1>1 DEF RowInv, Shaped
<1>3. Sound(c)'
  BY <1>2 DEF Sound, RequestSteps, RowInv, Shaped
<1>4. InStep(c)'
  BY <1>2 DEF InStep, Busy
<1>5. ~raced' => choice[c].pc \notin {"read", "write"}
  BY <1>1 DEF Busy
<1> QED BY <1>1, <1>3, <1>4, <1>5, Moving

LEMMA ListStep ==
  ASSUME RowInv, NEW c \in Choosers, List(c)
  PROVE  RowInv'
<1> USE DEF RowInv, List, At
<1>1. CASE Finding(c) # Nothing
  <2> DEFINE r == [choice[c] EXCEPT !.want = Finding(c), !.by = "nobody", !.pc = IF choice[c].id = 0 THEN "create" ELSE "put"]
  <2>1. choice' = [choice EXCEPT ![c] = r]
    BY <1>1
  <2>2. choice'[c] = r
    BY <2>1 DEF Shaped
  <2>3. r.pc = (IF choice[c].id = 0 THEN "create" ELSE "put") /\ r.id = choice[c].id /\ r.heard = choice[c].heard /\ IsChoice(r)
    BY DEF Shaped, IsChoice
  <2> HIDE DEF r
  <2>4. Sound(c)'
    BY <2>2, <2>3 DEF Sound, RequestSteps
  <2>5. ~raced' /\ ~torn' => InStep(c)'
    BY <2>2, <2>3 DEF Undisturbed, InStep, Busy
  <2> QED BY <2>1, <2>3, <2>4, <2>5, Moving DEF Busy
<1>2. CASE Finding(c) = Nothing /\ choice[c].by = "page"
  <2>1. choice' = [choice EXCEPT ![c] = Free] /\ choice'[c] = Free
    BY <1>2 DEF Leaves, Shaped
  <2> QED BY <2>1, FreeIsSound, FreeIsRequest, Moving
<1>3. CASE Finding(c) = Nothing /\ choice[c].by = "message"
  <2> DEFINE r == [choice[c] EXCEPT !.pc = "block"]
  <2>1. choice' = [choice EXCEPT ![c] = r] /\ choice'[c] = r
    BY <1>3 DEF Goes, Shaped
  <2>2. r.pc = "block" /\ r.heard = choice[c].heard /\ IsChoice(r)
    BY DEF Shaped, IsChoice
  <2> HIDE DEF r
  <2>3. Sound(c)'
    BY <2>1, <2>2 DEF Sound, RequestSteps
  <2>4. ~raced' /\ ~torn' => InStep(c)'
    BY <1>3, <2>1, <2>2 DEF Undisturbed, InStep, Busy, Sound
  <2> QED BY <2>1, <2>2, <2>3, <2>4, Moving DEF Busy
<1> QED BY <1>1, <1>2, <1>3 DEF Sound

(* The request of c takes over what the agent has made of it.               *)
LEMMA BecomesStep ==
  ASSUME RowInv, NEW c \in Choosers, NEW id \in Sessions, NEW want, NEW r,
         Becomes(id, want), want # Nothing, choice' = [choice EXCEPT ![c] = r], IsChoice(r),
         UNCHANGED <<row, raced, torn>>,
         Busy(c), choice[c].pc \notin {"read", "write"},
         \/ r = Free /\ ~choice[c].heard
         \/ r.pc \in {"read", "write"} /\ r.id = id /\ r.want = want /\ r.heard = choice[c].heard,
         ~raced /\ ~torn /\ Agreed => \A s \in Sessions : session[s] # Nothing => s = id
  PROVE  RowInv'
<1> USE DEF RowInv
<1>1. /\ choice'[c] = r /\ \A d \in Choosers : d # c => choice'[d] = choice[d]
      /\ session'[id] = want /\ \A s \in Sessions : s # id => session'[s] = session[s]
      /\ want \in took'[id] /\ \A s \in Sessions : took[s] \subseteq took'[s]
  BY DEF Becomes, Shaped
<1>2. Shaped'
  BY <1>1 DEF Shaped, Becomes
<1>3. \A d \in Choosers : Sound(d)'
  BY <1>1, FreeIsSound DEF Sound, RequestSteps
<1>4. Recorded' /\ RowTaken'
  BY <1>1, <1>2 DEF Recorded, RowTaken, Shaped
<1>5. Single'
  BY <1>1 DEF Single, Busy
<1>6. Undisturbed'
  <2> SUFFICES ASSUME ~raced, ~torn PROVE (\A d \in Choosers : InStep(d)') /\ ((\A d \in Choosers : choice'[d].pc \notin {"read", "write"}) => Agreed')
    BY DEF Undisturbed
  <2>1. \A d \in Choosers : d # c => ~Busy(d)
    BY DEF Single
  <2>2. choice[c].heard /\ Agreed
    BY <2>1 DEF Undisturbed, InStep, Busy
  <2>3. InStep(c)' /\ choice'[c].pc \in {"read", "write"}
    BY <1>1, <2>2 DEF InStep, Busy
  <2>4. \A d \in Choosers : InStep(d)'
    BY <1>1, <2>1, <2>3 DEF InStep, Busy
  <2> QED BY <2>3, <2>4
<1> QED BY <1>2, <1>3, <1>4, <1>5, <1>6

LEMMA LeaveStep ==
  ASSUME RowInv, NEW c \in Choosers, Leaves(c), UNCHANGED <<row, session, took, raced>>,
         torn => torn', ~torn' => choice[c].pc \notin {"read", "write"}
  PROVE  RowInv'
<1>1. choice' = [choice EXCEPT ![c] = Free] /\ choice'[c] = Free
  BY DEF Leaves, RowInv, Shaped
<1> QED BY <1>1, FreeIsSound, FreeIsRequest, Moving

LEMMA ValidateStep ==
  ASSUME RowInv, NEW c \in Choosers, Validate(c)
  PROVE  RowInv'
<1> USE DEF Validate
<1>1. CASE ~AgentTakes(choice[c].want)
  BY <1>1, LeaveStep
<1>2. CASE AgentTakes(choice[c].want)
  <2> DEFINE r == [choice[c] EXCEPT !.pc = IF At(c, "put") THEN "set" ELSE "open"]
  <2>1. choice' = [choice EXCEPT ![c] = r] /\ choice'[c] = r
    BY <1>2 DEF Goes, RowInv, Shaped
  <2>2. /\ IsChoice(r) /\ r.id = choice[c].id /\ r.want = choice[c].want /\ r.heard = choice[c].heard
        /\ \/ choice[c].pc = "put" /\ r.pc = "set"
           \/ choice[c].pc = "create" /\ r.pc = "open"
    BY DEF RowInv, Shaped, IsChoice, At
  <2>3. r.want # Nothing
    BY <1>2, <2>2, TakenIsSomething
  <2> HIDE DEF r
  <2>4. Sound(c)'
    BY <2>1, <2>2, <2>3 DEF Sound, RequestSteps, RowInv
  <2>5. ~raced' /\ ~torn' => InStep(c)'
    BY <2>1, <2>2 DEF RowInv, Undisturbed, InStep, Busy
  <2> QED BY <2>1, <2>2, <2>4, <2>5, Moving DEF Busy
<1> QED BY <1>1, <1>2

LEMMA UpdateStep ==
  ASSUME RowInv, NEW c \in Choosers, UpdateSelection(c)
  PROVE  RowInv'
<1> USE DEF UpdateSelection, At
<1> DEFINE r == IF choice[c].heard THEN [choice[c] EXCEPT !.pc = "read"] ELSE Free
<1>1. Becomes(choice[c].id, choice[c].want) /\ choice' = [choice EXCEPT ![c] = r]
  BY DEF Goes, Leaves
<1>2. choice[c].id \in Sessions /\ choice[c].want # Nothing
  BY DEF RowInv, Sound
<1>3. IsChoice(r) /\ (choice[c].heard => r.pc = "read" /\ r.id = choice[c].id /\ r.want = choice[c].want /\ r.heard = choice[c].heard)
  BY FreeIsRequest DEF RowInv, Shaped, IsChoice
<1>4. ~raced /\ ~torn /\ Agreed => \A s \in Sessions : session[s] # Nothing => s = choice[c].id
  BY DEF Agreed, RowInv, Undisturbed, InStep
<1>5. ~choice[c].heard => r = Free
  OBVIOUS
<1> HIDE DEF r
<1> QED BY <1>1, <1>2, <1>3, <1>4, <1>5, BecomesStep DEF Busy, RowInv, Sound

LEMMA OpenStep ==
  ASSUME RowInv, NEW c \in Choosers, NEW id \in Sessions, AgentOpens(c, id)
  PROVE  RowInv'
<1> USE DEF AgentOpens, At
<1> DEFINE r == IF choice[c].heard THEN [choice[c] EXCEPT !.pc = "write", !.id = id] ELSE Free
<1>1. Becomes(id, choice[c].want) /\ choice' = [choice EXCEPT ![c] = r]
  BY DEF Leaves, RowInv, Shaped
<1>2. choice[c].want # Nothing
  BY DEF RowInv, Sound
<1>3. IsChoice(r) /\ (choice[c].heard => r.pc = "write" /\ r.id = id /\ r.want = choice[c].want /\ r.heard = choice[c].heard)
  BY FreeIsRequest DEF RowInv, Shaped, IsChoice
<1>4. ~raced /\ ~torn /\ Agreed => \A s \in Sessions : session[s] # Nothing => s = id
  BY SelectionsAssumption DEF Agreed, RowInv, Undisturbed, InStep
<1>5. ~choice[c].heard => r = Free
  OBVIOUS
<1> HIDE DEF r
<1> QED BY <1>1, <1>2, <1>3, <1>4, <1>5, BecomesStep DEF Busy

LEMMA ReadStep ==
  ASSUME RowInv, NEW c \in Choosers, ReadBack(c)
  PROVE  RowInv'
<1> USE DEF ReadBack, At
<1>1. CASE session[choice[c].id] = choice[c].want
  <2> DEFINE r == [choice[c] EXCEPT !.pc = "write"]
  <2>1. choice' = [choice EXCEPT ![c] = r] /\ choice'[c] = r
    BY <1>1 DEF Goes, RowInv, Shaped
  <2>2. IsChoice(r) /\ r.pc = "write" /\ r.id = choice[c].id /\ r.want = choice[c].want /\ r.heard = choice[c].heard
    BY DEF RowInv, Shaped, IsChoice
  <2> HIDE DEF r
  <2>3. choice[c].id \in Sessions /\ choice[c].want \in took[choice[c].id]
    BY <1>1 DEF RowInv, Sound, Recorded
  <2>4. Sound(c)'
    BY <2>1, <2>2, <2>3 DEF Sound, RequestSteps
  <2>5. ~raced /\ ~torn => InStep(c)'
    BY <2>1, <2>2 DEF RowInv, Undisturbed, InStep, Busy
  <2> QED BY <2>1, <2>2, <2>4, <2>5, Moving DEF Busy
<1>2. CASE session[choice[c].id] # choice[c].want
  \* The answer differs only when another request was there.
  <2>1. raced \/ torn
    BY <1>2 DEF RowInv, Undisturbed, InStep
  <2>2. choice' = [choice EXCEPT ![c] = Free] /\ choice'[c] = Free
    BY <1>2 DEF Leaves, RowInv, Shaped
  <2> QED BY <2>1, <2>2, FreeIsSound, FreeIsRequest, Moving
<1> QED BY <1>1, <1>2

LEMMA WriteStep ==
  ASSUME RowInv, NEW c \in Choosers, Write(c)
  PROVE  RowInv'
<1> USE DEF RowInv, Write, At
<1>1. /\ choice'[c] = Free /\ \A d \in Choosers : d # c => choice'[d] = choice[d]
      /\ row'.id = choice[c].id /\ row'.selection = choice[c].want /\ ~row'.blocked
      /\ choice[c].id \in Sessions /\ choice[c].want \in took[choice[c].id]
  BY DEF Leaves, Bind, Shaped, Sound
<1>2. Shaped'
  BY <1>1, FreeIsRequest DEF Shaped, Leaves, Bind
<1>3. \A d \in Choosers : Sound(d)'
  BY <1>1, FreeIsSound DEF Sound
<1>4. Recorded' /\ RowTaken'
  BY <1>1, SelectionsAssumption DEF Recorded, RowTaken
<1>5. Single'
  BY <1>1 DEF Single, Busy, Free
<1>6. Undisturbed'
  <2> SUFFICES ASSUME ~raced, ~torn PROVE (\A d \in Choosers : InStep(d)') /\ Agreed'
    BY DEF Undisturbed
  <2>1. \A d \in Choosers : d # c => ~Busy(d)
    BY DEF Single, Busy
  <2>2. \A d \in Choosers : InStep(d)'
    BY <1>1, <2>1, FreeIsSound DEF InStep, Busy
  <2>3. Agreed'
    BY <1>1 DEF Undisturbed, InStep, Agreed
  <2> QED BY <2>2, <2>3
<1> QED BY <1>2, <1>3, <1>4, <1>5, <1>6

LEMMA BlockStep ==
  ASSUME RowInv, NEW c \in Choosers, Block(c)
  PROVE  RowInv'
<1> USE DEF RowInv, Block, At
<1>1. /\ choice'[c] = Free /\ \A d \in Choosers : d # c => choice'[d] = choice[d]
      /\ row'.id = row.id /\ row'.selection = row.selection
  BY DEF Leaves, Shaped
<1>2. Shaped'
  BY <1>1, FreeIsRequest DEF Shaped, Leaves
<1>3. \A d \in Choosers : Sound(d)'
  BY <1>1, FreeIsSound DEF Sound
<1>4. Recorded' /\ RowTaken'
  BY <1>1 DEF Recorded, RowTaken
<1>5. Single'
  BY <1>1 DEF Single, Busy, Free
<1>6. Undisturbed'
  <2> SUFFICES ASSUME ~raced, ~torn PROVE (\A d \in Choosers : InStep(d)') /\ Agreed'
    BY DEF Undisturbed
  <2>1. \A d \in Choosers : d # c => ~Busy(d)
    BY DEF Single, Busy
  <2>2. \A d \in Choosers : InStep(d)'
    BY <1>1, <2>1, FreeIsSound DEF InStep, Busy
  <2>3. row.id = 0 /\ Agreed
    BY <2>1 DEF Undisturbed, InStep, Busy
  <2>4. Agreed'
    BY <1>1, <2>3 DEF Agreed
  <2> QED BY <2>2, <2>4
<1> QED BY <1>2, <1>3, <1>4, <1>5, <1>6

LEMMA CutStep ==
  ASSUME RowInv, NEW c \in Choosers, Cut(c)
  PROVE  RowInv'
<1> USE DEF Cut, At, AskingAgent
<1>1. CASE Leaves(c)
  BY <1>1, LeaveStep
<1>2. CASE choice[c].pc \in AskingAgent /\ choice' = [choice EXCEPT ![c].heard = FALSE]
  <2> DEFINE r == [choice[c] EXCEPT !.heard = FALSE]
  <2>1. choice' = [choice EXCEPT ![c] = r] /\ choice'[c] = r
    BY <1>2 DEF RowInv, Shaped
  <2>2. IsChoice(r) /\ r.pc = choice[c].pc /\ r.id = choice[c].id
    BY DEF RowInv, Shaped, IsChoice
  <2> HIDE DEF r
  <2>3. Sound(c)'
    BY <1>2, <2>1, <2>2 DEF Sound, RowInv
  <2> QED BY <1>2, <2>1, <2>2, <2>3, Moving DEF Busy
<1> QED BY <1>1, <1>2

LEMMA OthersStep ==
  ASSUME RowInv, UNCHANGED <<row, session, choice, took, raced, torn>>
  PROVE  RowInv'
BY DEF RowInv, Shaped, IsChoice, Sound, Recorded, RowTaken, Single, Undisturbed, InStep, Agreed, Busy

LEMMA ChoicesGo == RowInv /\ [SelectionsNext]_choiceVars => RowInv'
<1> SUFFICES ASSUME RowInv, [SelectionsNext]_choiceVars PROVE RowInv'
  OBVIOUS
<1>1. ASSUME NEW c \in Choosers, NEW want, Page(c, want) PROVE RowInv'
  BY <1>1, EnterStep DEF Page, IsChoice
<1>2. ASSUME NEW c \in Choosers, NEW want, Desktop(c, want) PROVE RowInv'
  BY <1>2, EnterStep DEF Desktop, IsChoice
<1>3. ASSUME NEW c \in Choosers, Message(c) PROVE RowInv'
  BY <1>3, EnterStep DEF Message, IsChoice
<1>4. CASE \E p \in ProfileIds : (\E d \in Declarations : PutProfile(p, d)) \/ DeleteProfile(p) \/ \E left \in Quotas : QuotaProbed(p, left)
  BY <1>4, OthersStep DEF PutProfile, DeleteProfile, QuotaProbed
<1>5. CASE UNCHANGED choiceVars
  BY <1>5, OthersStep DEF choiceVars
<1> QED
  BY <1>1, <1>2, <1>3, <1>4, <1>5, ListStep, BlockStep, ValidateStep, UpdateStep, OpenStep, ReadStep, WriteStep, CutStep DEF SelectionsNext

(* The row names a session and a selection the agent has taken, and when   *)
(* nothing overlapped and nothing was cut short it says at rest what its   *)
(* session has: of update_session_selection (admin.rs), the local client's *)
(* handler (http.rs) and ensure_binding_session (agent.rs).                *)
THEOREM RowIsHonest == SelectionsSpec => [](RowTaken /\ RowCurrent)
<1>1. RowInv => RowTaken /\ RowCurrent
  BY DEF RowInv, RowCurrent, Resting, At, Undisturbed, Agreed
<1> QED BY <1>1, ChoicesStart, ChoicesGo, PTL DEF SelectionsSpec

-----------------------------------------------------------------------------
Life == {"none", "starting", "ready", "ending", "exited"}
Children == [run : Life, fresh : BOOLEAN]
Phases == {"off", "connected", "gone", "ok", "error"}
Steps == {"select", "stopping", "gone", "drain", "spawn", "ready", "undo"}

LauncherTypes ==
  /\ current \in [Names -> Children] /\ next \in Children
  /\ pidFile \in [Names -> {"other", "current", "next"}]
  /\ main \in [pc : Steps, name : Names \cup {Nobody}, asked : BOOLEAN]
  /\ asker \in [Askers -> [phase : Phases, fresh : BOOLEAN]]
  /\ listener \in Askers \cup {Nobody} /\ requested \in BOOLEAN

Restarting == main.pc \in {"drain", "spawn", "ready", "undo"}

\* A replacement runs only while the one it replaces has ended.
OneAtATime ==
  /\ Restarting <=> main.name \in Names
  /\ main.pc \in {"spawn", "ready", "undo"} => current[main.name].run = "exited"
  /\ main.pc \notin {"ready", "undo"} => ~Alive(next)
  /\ main.pc = "gone" => \A n \in Names : current[n].run = "exited"

\* Whom a restart answers is known until it has, and the processes started for
\* it are fresh.
Served ==
  /\ main.asked => Restarting /\ listener # Nobody /\ ~requested
  /\ requested => listener # Nobody
  /\ listener # Nobody => asker[listener].phase # "off"
  /\ main.pc = "ready" => next.fresh
  /\ Restarting /\ main.name = "agent" => current["gateway"].fresh

\* Once the gateway has ended, its own client does not wait any more.
Quiet == \A c \in AdminAskers : asker[c].phase # "connected"
Deserted ==
  /\ current["gateway"].run \in {"none", "exited"} => Quiet
  /\ main.asked /\ main.name = "agent" => (listener \in AdminAskers => asker[listener].phase # "connected")

LauncherInv == LauncherTypes /\ OneAtATime /\ Served /\ Deserted /\ ReloadTold

USE LauncherAssumption DEF Names, Nobody, Life, Phases, Steps, Children, LauncherTypes, Child, NoChild, Alive, Waiting, Unasked, Restarting

LEMMA LauncherStarts == LauncherInit => LauncherInv
<1> SUFFICES ASSUME LauncherInit PROVE LauncherInv
  OBVIOUS
<1> USE DEF LauncherInit
<1>1. LauncherTypes /\ OneAtATime
  BY DEF OneAtATime
<1>2. Served /\ Deserted /\ ReloadTold
  BY DEF Served, Deserted, Quiet, ReloadTold
<1> QED BY <1>1, <1>2 DEF LauncherInv

(* What ends with the gateway, and how a child looks that is told to end. *)
LEMMA Terminating ==
  ASSUME NEW child \in Children
  PROVE  /\ Terminated(child) \in Children /\ Terminated(child).fresh = child.fresh
         /\ child.run \in {"none", "exited"} => Terminated(child) = child
         /\ Terminated(child).run \in {"none", "exited"} => Terminated(child) = child
BY DEF Terminated

LEMMA Leaving ==
  ASSUME LauncherTypes
  PROVE  /\ LeftAlone(asker) \in [Askers -> [phase : Phases, fresh : BOOLEAN]]
         /\ \A c \in AdminAskers : LeftAlone(asker)[c].phase # "connected"
         /\ \A c \in Askers : LeftAlone(asker)[c].fresh = asker[c].fresh /\ LeftAlone(asker)[c].phase \in {asker[c].phase, "gone"}
BY DEF LeftAlone

LEMMA Replacing ==
  ASSUME NEW S, NEW T, NEW f \in [S -> T], NEW x, NEW v \in T
  PROVE  [f EXCEPT ![x] = v] \in [S -> T]
OBVIOUS

LEMMA ReadyStep ==
  ASSUME LauncherInv, NEW n \in Names, ChildReady(n)
  PROVE  LauncherInv'
BY DEF LauncherInv, OneAtATime, Served, Deserted, Quiet, ReloadTold, ChildReady

LEMMA ExitStep ==
  ASSUME LauncherInv, NEW n \in Names, NEW from \in SUBSET {"starting", "ready", "ending"}, NEW cleared \in BOOLEAN, Exits(n, from, cleared)
  PROVE  LauncherInv'
<1> USE DEF LauncherInv, Exits
<1>1. LauncherTypes'
  BY Leaving
<1>2. /\ UNCHANGED <<main, listener, requested>>
      /\ \A m \in Names : current'[m].fresh = current[m].fresh /\ (current'[m] # current[m] => m = n /\ current'[m].run = "exited" /\ Alive(current[m]))
      /\ next'.fresh = next.fresh /\ (Alive(next') => Alive(next))
      /\ asker' = IF n = "gateway" THEN LeftAlone(asker) ELSE asker
  OBVIOUS
<1> HIDE DEF Exits
<1>3. OneAtATime'
  BY <1>1, <1>2 DEF OneAtATime
<1>4. Served'
  BY <1>1, <1>2, Leaving DEF Served
<1>5. Deserted'
  BY <1>1, <1>2, Leaving DEF Deserted, Quiet
<1>6. ReloadTold'
  BY <1>1, <1>2, Leaving DEF ReloadTold
<1> QED BY <1>1, <1>3, <1>4, <1>5, <1>6

LEMMA GoneStep ==
  ASSUME LauncherInv, Gone, pidFile' \in [Names -> {"other", "current", "next"}]
  PROVE  LauncherInv'
<1> USE DEF LauncherInv, Gone
<1>1. LauncherTypes'
  OBVIOUS
<1>2. OneAtATime'
  BY <1>1 DEF OneAtATime
<1>3. Served'
  BY <1>1 DEF Served, OneAtATime
<1>4. Deserted'
  BY <1>1 DEF Deserted, Quiet, OneAtATime, Served
<1>5. ReloadTold'
  BY <1>1 DEF ReloadTold, Deserted, Served
<1> QED BY <1>1, <1>2, <1>3, <1>4, <1>5

(* A restart begins with the gateway, for the client that asked. *)
LEMMA RestartStep ==
  ASSUME LauncherInv, main.pc = "select", NEW asked \in BOOLEAN, Restart(asked),
         asked => requested /\ requested' = FALSE, ~asked => UNCHANGED requested
  PROVE  LauncherInv'
<1> USE DEF LauncherInv, Restart
<1>1. LauncherTypes'
  <2>1. current' = [n \in Names |-> [(IF n = "gateway" THEN Terminated(current[n]) ELSE current[n]) EXCEPT !.fresh = FALSE]]
    OBVIOUS
  <2>2. \A child \in Children : [child EXCEPT !.fresh = FALSE] \in Children
    OBVIOUS
  <2>3. current' \in [Names -> Children]
    BY <2>1, <2>2, Terminating
  <2>4. main' \in [pc : Steps, name : Names \cup {Nobody}, asked : BOOLEAN]
    OBVIOUS
  <2>5. requested' \in BOOLEAN
    OBVIOUS
  <2> QED BY <2>3, <2>4, <2>5
<1>2. OneAtATime'
  BY <1>1, Terminating DEF OneAtATime
<1>3. Served'
  BY <1>1, Terminating DEF Served, OneAtATime
<1>4. Deserted'
  BY <1>1, Terminating DEF Deserted, Quiet, OneAtATime, Served
<1>5. ReloadTold'
  BY <1>1, Terminating DEF ReloadTold, Deserted, Served
<1> QED BY <1>1, <1>2, <1>3, <1>4, <1>5

(* Who is told "ok" is told of two fresh processes, and is not of the gateway. *)
LEMMA TellingStep ==
  ASSUME LauncherInv, Restarting, NEW said \in {"ok", "error"}, Tells(said), main' = Waiting, UNCHANGED requested,
         said = "ok" => main.name = "agent" /\ \A n \in Names : current'[n].fresh,
         current' \in [Names -> Children], next' \in Children, ~Alive(next'),
         pidFile' \in [Names -> {"other", "current", "next"}],
         current'["gateway"] = current["gateway"]
  PROVE  LauncherInv'
<1> USE DEF LauncherInv, Tells
<1>1. LauncherTypes'
  <2>1. asker' \in [Askers -> [phase : Phases, fresh : BOOLEAN]]
    <3>1. CASE main.asked
      <4> DEFINE fresh == \A n \in Names : current'[n].fresh
      <4> DEFINE heard == IF asker[listener].phase = "connected" THEN [phase |-> said, fresh |-> fresh] ELSE asker[listener]
      <4>1. asker' = [asker EXCEPT ![listener] = heard]
        BY <3>1
      <4>2. fresh \in BOOLEAN
        OBVIOUS
      <4> HIDE DEF fresh
      <4>3. listener \in Askers => heard \in [phase : Phases, fresh : BOOLEAN]
        BY <4>2
      <4> HIDE DEF heard
      <4> QED BY <4>1, <4>3
    <3>2. CASE ~main.asked
      BY <3>2
    <3> QED BY <3>1, <3>2
  <2>2. listener' \in Askers \cup {Nobody}
    OBVIOUS
  <2> QED BY <2>1, <2>2
<1>2. OneAtATime'
  BY <1>1 DEF OneAtATime
<1>3. Served'
  BY <1>1 DEF Served, OneAtATime
<1>4. Deserted'
  BY <1>1 DEF Deserted, Quiet, OneAtATime, Served
<1>5. ReloadTold'
  BY <1>1 DEF ReloadTold, Deserted, Served
<1> QED BY <1>1, <1>2, <1>3, <1>4, <1>5

LEMMA LauncherSteps ==
  ASSUME LauncherInv, [LauncherNext]_launcherVars
  PROVE  LauncherInv'
<1>1. CASE \E n \in Names : Respawn(n)
  BY <1>1 DEF LauncherInv, OneAtATime, Served, Deserted, Quiet, ReloadTold, Respawn, Selects
<1>2. CASE Shutdown
  BY <1>2, Terminating DEF LauncherInv, OneAtATime, Served, Deserted, Quiet, ReloadTold, Shutdown
<1>3. CASE Stopped
  BY <1>3, GoneStep DEF Stopped, LauncherInv
<1>4. CASE TakeReload
  BY <1>4, RestartStep DEF TakeReload, Selects
<1>5. CASE Hangup
  BY <1>5, RestartStep DEF Hangup
<1>6. CASE Drained
  BY <1>6 DEF LauncherInv, OneAtATime, Served, Deserted, Quiet, ReloadTold, Drained
<1>7. CASE DrainTimeout
  <2> USE <1>7 DEF LauncherInv, DrainTimeout, StartKill
  <2>1. LauncherTypes'
    <3>1. [current[main.name] EXCEPT !.run = "exited"] \in Children
      BY DEF OneAtATime
    <3>2. current' = [current EXCEPT ![main.name] = [current[main.name] EXCEPT !.run = "exited"]]
      OBVIOUS
    <3> DEFINE killed == [current[main.name] EXCEPT !.run = "exited"]
    <3>6. current' = [current EXCEPT ![main.name] = killed] /\ killed \in Children /\ current \in [Names -> Children]
      BY <3>1, <3>2
    <3> HIDE DEF killed
    <3>3. current' \in [Names -> Children]
      BY ONLY <3>6, Replacing
    <3>4. main' \in [pc : Steps, name : Names \cup {Nobody}, asked : BOOLEAN]
      OBVIOUS
    <3>5. asker' \in [Askers -> [phase : Phases, fresh : BOOLEAN]]
      BY Leaving
    <3> QED BY <3>3, <3>4, <3>5
  <2>2. OneAtATime'
    BY <2>1, Leaving DEF OneAtATime
  <2>3. Served'
    BY <2>1, Leaving DEF Served, OneAtATime
  <2>4. Deserted'
    BY <2>1, Leaving DEF Deserted, Quiet, OneAtATime, Served
  <2>5. ReloadTold'
    BY <2>1, Leaving DEF ReloadTold
  <2> QED BY <2>1, <2>2, <2>3, <2>4, <2>5
<1>8. CASE SpawnNext
  BY <1>8 DEF LauncherInv, OneAtATime, Served, Deserted, Quiet, ReloadTold, SpawnNext
<1>9. CASE NextReady
  <2>1. CASE main.name = "gateway"
    <3> USE <1>9, <2>1 DEF LauncherInv, NextReady
    <3>1. LauncherTypes'
      <4>1. current' = [current EXCEPT !["gateway"] = next, !["agent"] = Terminated(current["agent"])]
        OBVIOUS
      <4>2. current' \in [Names -> Children]
        BY <4>1, Terminating
      <4>3. main' = [main EXCEPT !.pc = "drain", !.name = "agent"]
        OBVIOUS
      <4>4. main' \in [pc : Steps, name : Names \cup {Nobody}, asked : BOOLEAN]
        BY <4>3
      <4> QED BY <4>2, <4>4
    <3>2. OneAtATime'
      BY <3>1, Terminating DEF OneAtATime
    <3>3. Served'
      <4>1. current'["gateway"] = next /\ next.fresh /\ main'.asked = main.asked
        BY DEF Served
      <4> QED BY <3>1, <4>1 DEF Served
    <3>4. Deserted'
      BY <3>1, Terminating DEF Deserted, Quiet, OneAtATime, Served
    <3>5. ReloadTold'
      BY <3>1, Terminating DEF ReloadTold
    <3> QED BY <3>1, <3>2, <3>3, <3>4, <3>5
  <2>2. CASE main.name = "agent"
    BY <1>9, <2>2, TellingStep DEF LauncherInv, OneAtATime, Served, NextReady
  <2> QED BY <1>9, <2>1, <2>2 DEF LauncherInv, OneAtATime, NextReady
<1>10. CASE NextLate
  BY <1>10, Terminating DEF LauncherInv, OneAtATime, Served, Deserted, Quiet, ReloadTold, NextLate
<1>11. CASE Undone
  BY <1>11, TellingStep DEF LauncherInv, OneAtATime, Served, Deserted, Quiet, ReloadTold, Undone
<1>12. CASE SpawnFails
  BY <1>12, TellingStep DEF LauncherInv, OneAtATime, Served, Deserted, Quiet, ReloadTold, SpawnFails
<1>13. CASE \E n \in Names : RespawnFails(n)
  BY <1>13, GoneStep DEF RespawnFails, LauncherInv
<1>14. CASE \E n \in Names : ChildReady(n)
  BY <1>14, ReadyStep
<1>15. CASE \E n \in Names : ChildStops(n)
  BY <1>15, ExitStep DEF ChildStops
<1>16. CASE \E n \in Names : \E cleared \in BOOLEAN : ChildExits(n, cleared)
  BY <1>16, ExitStep DEF ChildExits
<1>17. CASE \E sig \in {"term", "hup"} : Signal(sig)
  BY <1>17 DEF LauncherInv, OneAtATime, Served, Deserted, Quiet, ReloadTold, Signal
<1>18. CASE \E c \in Askers : AsksFor(c)
  <2> USE <1>18 DEF LauncherInv, AsksFor
  <2>1. LauncherTypes'
    <3>1. PICK c \in Askers : AsksFor(c)
      OBVIOUS
    <3>2. [asker[c] EXCEPT !.phase = "connected"] \in [phase : Phases, fresh : BOOLEAN]
      OBVIOUS
    <3>3. asker' = [asker EXCEPT ![c] = [asker[c] EXCEPT !.phase = "connected"]]
      BY <3>1
    <3> QED BY <3>1, <3>2, <3>3
  <2>2. OneAtATime'
    BY <2>1 DEF OneAtATime
  <2>3. Served'
    BY <2>1 DEF Served, OneAtATime
  <2>4. Deserted'
    BY <2>1 DEF Deserted, Quiet, OneAtATime, Served
  <2>5. ReloadTold'
    BY <2>1 DEF ReloadTold
  <2> QED BY <2>1, <2>2, <2>3, <2>4, <2>5
<1>19. CASE \E c \in Askers : Disconnects(c)
  BY <1>19 DEF LauncherInv, OneAtATime, Served, Deserted, Quiet, ReloadTold, Disconnects
<1>20. CASE \E c \in Askers : Listens(c)
  BY <1>20 DEF LauncherInv, OneAtATime, Served, Deserted, Quiet, ReloadTold, Listens
<1>21. CASE UNCHANGED launcherVars
  BY <1>21 DEF LauncherInv, OneAtATime, Served, Deserted, Quiet, ReloadTold, launcherVars
<1> QED BY <1>1, <1>2, <1>3, <1>4, <1>5, <1>6, <1>7, <1>8, <1>9, <1>10, <1>11, <1>12, <1>13, <1>14, <1>15, <1>16, <1>17, <1>18, <1>19, <1>20, <1>21 DEF LauncherNext, MainWorks

LEMMA LauncherKept == LauncherInv => LauncherHonest
BY DEF LauncherInv, OneAtATime, LauncherHonest, OneEach

(* Through every restart, exit, signal and client: of each name one process,  *)
(* none left behind, and "ok" means two new ones.                             *)
THEOREM LauncherIsHonest == LauncherSpec => []LauncherHonest
<1>1. LauncherInit => LauncherInv BY LauncherStarts
<1>2. LauncherInv /\ [LauncherNext]_launcherVars => LauncherInv' BY LauncherSteps
<1>3. LauncherInv => LauncherHonest BY LauncherKept
<1> QED BY <1>1, <1>2, <1>3, PTL DEF LauncherSpec
=============================================================================
