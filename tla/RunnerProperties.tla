-------------------------- MODULE RunnerProperties --------------------------
(***************************************************************************)
(* What the runner promises, stated on its state alone.  Properties that   *)
(* need the past are in RunnerHistory.                                     *)
(***************************************************************************)
EXTENDS Runner

\* Every variable keeps its type, and a retry knows which step it retries.
TypeOK ==
  /\ IsState(s) /\ last \in {"finished", "other"}
  /\ pc \in PCs
  /\ snap \subseteq Calls
  /\ plan \in [purpose : Purposes \cup {"none"}, include : BOOLEAN]
  /\ pc = "backoff" => plan.purpose \in Purposes
  /\ batch \in [cancels : SUBSET Calls, rest : SUBSET Calls, asked : BOOLEAN]
  /\ exec \in [Calls -> TaskStates]
  /\ out \in [Calls -> Outcomes \cup {"none"}]
  /\ chan \subseteq Calls /\ orphans \subseteq Calls
  /\ crashes \in 0..MaxCrashes /\ failed \in 0..MaxFailures

-----------------------------------------------------------------------------
\* A call is declared interrupted only when no result of it is on its way: its
\* task has left the executor and the result channel does not hold it.  This
\* is what the order of run's loop is for: live calls are read first, the
\* channel is emptied next, while tasks finish at any moment.
NoFalseInterrupt ==
  [][\A c \in Calls :
       pc = "decide" /\ s.result[c] = "none" /\ s'.result[c] # "none"
         => exec[c] \in {"none", "gone"} /\ c \notin chan]_vars

\* No event the runner commits surprises the fold (no step inside a step, no
\* turn inside a turn, no second outcome of a step), and every result it
\* receives answers a pending call: state.rs would note either.  What the fold
\* does diagnose is a result of a tool that is not registered, and only that:
\* there is such a call, it was not rejected, and it has its result.
NoAnomaly ==
  /\ s.notices \subseteq {"info", "unknown"}
  /\ "unknown" \in s.notices =>
       \E c \in Calls : s.kind[c] = "unknown" /\ s.result[c] # "none"

\* A pending call is marked PendingSent exactly when the transcript already
\* answers it.  A marked call without an answer would leave the provider's
\* call open for ever, an unmarked one would be answered twice.
FreshIffUnanswered == \A c \in s.pending : c \in s.sent <=> c \notin s.open

\* A request on the conversation's transcript answers every call in it exactly
\* once, by a result or by a placeholder; only a call to `end' may be left, since
\* what it returned is dropped with the turn.
RequestsPaired ==
  /\ FreshIffUnanswered
  /\ s.step \in {"conversation", "handoff"} =>
       \A c \in s.open : s.kind[c] \in EndKinds /\ c \notin s.pending

\* The runner's own invariant failures are unreachable: a step starts and is
\* answered within a turn, an answer finds the step it belongs to, and what
\* belongs to a turn is gone with it.
NoInvariantFailure ==
  /\ pc \in {"backoff", "stream", "abort"} => s.on
  /\ pc \in {"stream", "abort"} => s.step # "none"
  /\ s.step # "none" \/ s.autoWait # {} \/ s.ctx # "none" => s.on

\* Once a cancellation is durable the turn starts no further request and ends
\* as cancelled, through results, crashes, failures and rebuilds.
CancelStands ==
  [][s.on /\ s.cancel =>
       /\ s'.on => s'.cancel /\ s'.step \in {s.step, "none"}
       /\ ~s'.on => s'.outcome = "cancelled"]_vars

\* The results that cancelled tools return later do not start a turn by
\* themselves: after a cancelled turn only an input or a notice does.  The late
\* result of a tool that is not registered brings a notice with it, the fold's
\* diagnosis, so that one does start a turn.
CancelledResultsWait ==
  [][~s.on /\ s.outcome = "cancelled" /\ s'.on
       => s.inputs # {} \/ s.notices # {}]_vars

\* A runner at rest owes nothing: no input is unread, also not one that came
\* in during a wait, no step is open, and for every call without a result one is
\* on its way to this very runner.
RestOwesNothing ==
  pc \in {"parked", "idle"} =>
    /\ s.inputs = {}
    /\ s.step = "none"
    /\ Unsettled(s) \subseteq (Live \ orphans) \cup chan

-----------------------------------------------------------------------------
\* What the documentation says and the code does not do; see the README.

\* docs/zork-agent-architecture.md 7.2: every recoverable sequence of events
\* projects to a transcript whose calls are all answered.
TranscriptPaired == s.step \in {"conversation", "handoff"} => s.open = {}

\* docs/zork-agent-architecture.md 10.3: a cancellation causes no request; a
\* new input may start a new turn.
CancelQuiet ==
  [][~s.on /\ s.outcome = "cancelled" /\ s'.on => s.inputs # {}]_vars

-----------------------------------------------------------------------------
OutOfService == pc \in {"down", "circuitOpen"}

\* Every input reaches a request to the provider, unless the client cancels
\* the turn that would have read it.
InputsReachProvider ==
  \A i \in Inputs : i \in s.inputs ~> i \notin s.inputs \/ s.cancel \/ OutOfService

\* Every call gets a result, across crashes of the process.
CallsSettle ==
  \A c \in Calls : c \in Unsettled(s) ~> c \notin Unsettled(s) \/ OutOfService

\* A durable cancellation ends the turn, and stopping does not wait for ever, not
\* even for a task that waits for room in the result channel.
CommandsComplete ==
  /\ s.cancel ~> ~s.on \/ OutOfService
  /\ pc = "stopping" ~> pc # "stopping"
=============================================================================
