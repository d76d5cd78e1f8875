----------------------------- MODULE DurableLog -----------------------------
(***************************************************************************)
(* What the persistence of a session promises its one writer, without      *)
(* files: a batch is in the log entirely or not at all, an acknowledged    *)
(* batch stays, and a writer that lost track learns from a recovery what   *)
(* the log holds.                                                          *)
(***************************************************************************)
EXTENDS Sequences

CONSTANT Events

VARIABLES log,     \* the events that recovery would fold
          batch,   \* the batch being appended, <<>> once it is in the log
          writer,  \* ready, busy or unsure
          seen     \* the events the writer has folded

vars == <<log, batch, writer, seen>>

Init == log = <<>> /\ batch = <<>> /\ writer = "ready" /\ seen = <<>>

Begin ==
  /\ writer = "ready" /\ writer' = "busy"
  /\ batch' \in Seq(Events)
  /\ UNCHANGED <<log, seen>>

Commit ==
  /\ writer = "busy"
  /\ log' = log \o batch /\ batch' = <<>>
  /\ UNCHANGED <<writer, seen>>

Acknowledge ==
  /\ writer = "busy" /\ batch = <<>>
  /\ writer' = "ready" /\ seen' = log
  /\ UNCHANGED <<log, batch>>

\* A failed append may or may not have reached the log.
LoseTrack ==
  /\ writer' = "unsure" /\ batch' = <<>> /\ seen' = <<>>
  /\ UNCHANGED log

Recover ==
  /\ writer = "unsure" /\ writer' = "ready"
  /\ seen' = log
  /\ UNCHANGED <<log, batch>>

Next == Begin \/ Commit \/ Acknowledge \/ LoseTrack \/ Recover

Spec == Init /\ [][Next]_vars
=============================================================================
