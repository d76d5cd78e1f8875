---------------------------- MODULE SessionState ----------------------------
(***************************************************************************)
(* The durable state of one agent session and its fold: one operator per   *)
(* SessionEvent, from a state record to the next.  The runner persists a   *)
(* batch of events as one log line and then applies them in order, so a    *)
(* batch is a composition of these operators, and a state rebuilt from the *)
(* log after a crash is the state the runner had after its last append.    *)
(*                                                                         *)
(* Abstractions.  Inputs and invocations are numbered in the order their   *)
(* ULIDs are drawn.  A turn ID is needed only to tell the calls of the     *)
(* active turn from older ones: field `own' is the set of those calls.     *)
(* The entries of a generation are kept as the sets the decisions and the  *)
(* properties read (genInputs, genResults, open, latest).  A notice is     *)
(* "info", or "anomaly" when the fold diagnosed an impossible event, or    *)
(* "unknown" when it diagnosed the result of a tool that is not            *)
(* registered, or "stray" when a result matched no pending invocation.     *)
(* The built-in tools keep no state of their own, so the fold of a         *)
(* registered tool's result has nothing else to diagnose.  A deadline is   *)
(* known by whether the clock has reached it (autoDue, waitDue).           *)
(***************************************************************************)
EXTENDS Integers, FiniteSets, Sequences

CONSTANTS MaxInputs,  \* mailbox inputs that may arrive
          MaxCalls    \* tool invocations the model may issue

ASSUME BoundAssumption == MaxInputs \in Nat /\ MaxCalls \in Nat

Inputs == 1..MaxInputs
Calls == 1..MaxCalls
NoCall == 0   \* no invocation: the absent wait deadline

Purposes == {"conversation", "compaction", "handoff"}
IsContext(p) == p \in {"compaction", "handoff"}

\* What an invocation asks for: "work" is any tool without control meaning,
\* "unknown" a tool that is not registered, "ack" is
\* end(acknowledge_outstanding = true), "rejected" a malformed call to a tool
\* other than end, "handoff" the well-formed answer to a handoff, "refused" any
\* call of an answer to a handoff that is not that.
CallKinds == {"work", "unknown", "end", "ack", "wait", "cancel", "rejected",
              "handoff", "refused"}
EndKinds == {"end", "ack"}
Malformed == {"rejected", "refused"}
Outcomes == {"ok", "failed", "cancelled", "interrupted"}   \* timed out: failed
ProviderErrors == {"transient", "permanent", "overflow", "document"}

\* What each field holds.  A record of sets, and not a set of records, so that
\* a proof about an event needs the types of the fields it changes only.
FieldTypes ==
  [ \* mailbox and configuration
    inputs     |-> SUBSET Inputs,           \* unconsumed_inputs
    accepted   |-> 0..MaxInputs,            \* how many inputs the log holds
    strategy   |-> {"compaction", "handoff"},
    \* the active turn
    on         |-> BOOLEAN,                 \* active_turn.is_some()
    cancel     |-> BOOLEAN,                 \* cancel_requested
    failures   |-> Nat,                     \* consecutive_provider_failures
    retryOk    |-> BOOLEAN,                 \* provider_retry_allowed
    ctx        |-> Purposes \cup {"none"},  \* context.purpose
    attempts   |-> Nat,                     \* context.attempts
    ctl        |-> SUBSET Calls,            \* calls of the last document response
    outcome    |-> {"none", "finished", "failed", "cancelled"},
    failure    |-> ProviderErrors \cup {"none"},   \* last_step_failure.error
    failedAs   |-> Purposes,                \* last_step_failure.purpose
    \* the active step
    step       |-> Purposes \cup {"none"},
    consumed   |-> SUBSET Inputs,
    sameSel    |-> BOOLEAN,                 \* the step's selection is current
    \* invocations
    issued     |-> 0..MaxCalls,
    kind       |-> [Calls -> CallKinds \cup {"none"}],
    pending    |-> SUBSET Calls,            \* pending_tools
    sent       |-> SUBSET Calls,            \* delivery = PendingSent
    result     |-> [Calls -> Outcomes \cup {"none"}],
    own        |-> SUBSET Calls,            \* turn_id is the active turn's
    \* the generation sent to the provider
    latest     |-> SUBSET Calls,            \* calls of the last Assistant entry
    open       |-> SUBSET Calls,            \* provider calls without an answer
    genInputs  |-> SUBSET Inputs,
    genResults |-> SUBSET Calls,
    anchor     |-> BOOLEAN,                 \* token_anchor of this generation
    \* notices and deadlines
    notices    |-> SUBSET {"info", "anomaly", "unknown", "stray"},
    autoWait   |-> SUBSET Calls,
    autoDue    |-> BOOLEAN,
    wait       |-> Calls \cup {NoCall},     \* wait_deadline
    waitDue    |-> BOOLEAN ]

IsState(st) ==
  /\ st = [f \in DOMAIN FieldTypes |-> st[f]]
  /\ \A f \in DOMAIN FieldTypes : st[f] \in FieldTypes[f]

-----------------------------------------------------------------------------
\* The state after SessionCreated and ContextConfigured.
Created(strategy) ==
  [ inputs |-> {}, accepted |-> 0, strategy |-> strategy,
    on |-> FALSE, cancel |-> FALSE, failures |-> 0, retryOk |-> TRUE,
    ctx |-> "none", attempts |-> 0, ctl |-> {}, outcome |-> "none",
    failure |-> "none", failedAs |-> "conversation",
    step |-> "none", consumed |-> {}, sameSel |-> TRUE,
    issued |-> 0, kind |-> [c \in Calls |-> "none"], pending |-> {},
    sent |-> {}, result |-> [c \in Calls |-> "none"],
    own |-> {}, latest |-> {}, open |-> {},
    genInputs |-> {}, genResults |-> {}, anchor |-> FALSE, notices |-> {},
    autoWait |-> {}, autoDue |-> FALSE, wait |-> NoCall, waitDue |-> FALSE ]

Unsettled(st) == {c \in st.pending : st.result[c] = "none"}
Settled(st) == {c \in st.pending : st.result[c] # "none"}
Fresh(st) == st.pending \ st.sent

\* core_outstanding at a moment without an active step.
Outstanding(st) == Unsettled(st) # {} \/ st.inputs # {}

Note(ns, cond, n) == IF cond THEN ns \cup {n} ELSE ns

-----------------------------------------------------------------------------
\* Mailbox, configuration and turn events.

\* What a turn, a step and an automatic wait leave behind.
NoContext(st) == [st EXCEPT !.ctx = "none", !.attempts = 0, !.ctl = {},
                            !.failures = 0, !.retryOk = TRUE]
NoStep(st) == [st EXCEPT !.step = "none", !.consumed = {}, !.sameSel = TRUE]
NoAutoWait(st) == [st EXCEPT !.autoWait = {}, !.autoDue = FALSE]

\* Mutant: the input is numbered before it is counted.
InputAppendedLow(st) ==
  [st EXCEPT !.inputs = @ \cup {st.accepted}, !.accepted = @ + 1]

InputAppended(st) ==
  [st EXCEPT !.inputs = @ \cup {st.accepted + 1}, !.accepted = @ + 1]

\* same: the new selection is the one the active step was started with.
SelectionChanged(st, same) ==
  [st EXCEPT !.anchor = FALSE, !.sameSel = same \/ st.step = "none"]

ContextConfigured(st, strategy) == [st EXCEPT !.strategy = strategy]

TurnStarted(st) ==
  [NoContext(st) EXCEPT !.on = TRUE, !.cancel = FALSE, !.own = {},
                        !.outcome = "none", !.notices = Note(@, st.on, "anomaly")]

TurnCancelRequested(st) ==
  [st EXCEPT !.cancel = st.on, !.notices = Note(@, ~st.on, "anomaly")]

\* Mutant: no call outlives its turn.
SurvivesForeign(st) == st.pending \ st.own

\* Whatever an `end' returned is dropped with the turn it ended.
Survives(st) == {c \in st.pending : \/ st.result[c] = "none"
                                    \/ st.kind[c] \notin EndKinds}

TurnOver(st, outcome) ==
  [NoStep(NoContext(st)) EXCEPT
     !.on = FALSE, !.cancel = FALSE, !.own = {}, !.outcome = outcome,
     !.pending = Survives(st), !.sent = @ \cap Survives(st)]

\* Mutant: the turn ends and its automatic wait does not.
TurnFinishedWaiting(st, outcome) == TurnOver(st, outcome)

TurnFinished(st, outcome) == NoAutoWait(TurnOver(st, outcome))

-----------------------------------------------------------------------------
\* Provider steps.

\* planned_deliveries: results not yet told, and a placeholder for each call
\* that is still unanswered in the transcript.  Once a context operation is
\* under way only the calls of its own last answer are closed.
\* Mutant: no placeholders.
DeliverableSettled(st, include) == Settled(st)

Deliverable(st, include) ==
  {c \in st.pending : st.result[c] # "none" \/ (include /\ c \notin st.sent)}

Deliveries(st, purpose, include) ==
  IF st.ctx = "none" THEN Deliverable(st, include)
  ELSE IF purpose = "handoff" THEN Deliverable(st, include) \cap st.ctl
  ELSE {}

\* The calls marked PendingSent once `given' is in the transcript.
Answered(st, given, told) == st.sent \cup given

\* Mutant: a summariser counts as having been told.
StillPendingUntold(st, told, opensContext) == st.pending \ told

\* The request that opens a context operation takes no result off the books:
\* only the document can.
StillPending(st, told, opensContext) ==
  IF opensContext THEN st.pending ELSE st.pending \ told

StepStarted(st, purpose, include) ==
  LET opensContext == IsContext(purpose) /\ st.ctx = "none"
      consumed == IF purpose = "conversation" THEN st.inputs ELSE {}
      given == Deliveries(st, purpose, include)
      told == given \cap Settled(st)
      left == StillPending(st, told, opensContext)
  IN [st EXCEPT
        !.step = purpose, !.consumed = consumed, !.sameSel = TRUE,
        !.inputs = @ \ consumed, !.genInputs = @ \cup consumed,
        !.pending = left, !.sent = Answered(st, given, told) \cap left,
        !.open = @ \ (given \ st.sent), !.genResults = @ \cup told,
        !.wait = IF consumed = {} THEN @ ELSE NoCall,
        !.waitDue = @ /\ consumed = {},
        !.ctx = IF opensContext THEN purpose ELSE @,
        !.attempts = IF opensContext THEN 0 ELSE @,
        !.ctl = IF opensContext THEN {} ELSE @,
        !.failure = "none",
        !.notices = Note(IF purpose = "conversation" THEN {} ELSE @,
                         st.step # "none", "anomaly")]

\* Usage of a compaction, or reported under a selection that has since been
\* replaced, does not anchor the conversation.
Anchored(st, usage) ==
  st.anchor \/ (usage /\ st.step \in {"conversation", "handoff"} /\ st.sameSel)

Closed(st) == [NoStep(st) EXCEPT !.notices = Note(@, st.step = "none", "anomaly")]

\* The invocations an answer of n calls draws.
NewCalls(st, n) == (st.issued + 1)..(st.issued + n)

\* ks is the sequence of kinds of the calls in the answer.
StepCompleted(st, ks, usage) ==
  LET purpose == st.step
      batch == NewCalls(st, Len(ks))
  IN [Closed(st) EXCEPT
        !.anchor = Anchored(st, usage),
        !.latest = IF purpose = "compaction" THEN @ ELSE batch,
        !.open = @ \cup batch,
        !.attempts = IF IsContext(purpose) /\ st.ctx # "none" THEN @ + 1 ELSE @,
        !.ctl = IF purpose = "handoff" THEN batch ELSE @,
        !.issued = @ + Len(ks),
        !.kind = [c \in Calls |-> IF c \in batch THEN ks[c - st.issued] ELSE @[c]],
        !.pending = @ \cup batch, !.own = @ \cup batch,
        !.autoWait = IF purpose = "conversation" THEN batch ELSE {},
        !.autoDue = FALSE,
        !.failures = 0, !.retryOk = TRUE, !.failure = "none"]

\* Mutant: the inputs of a rejected request stay consumed.
RestoredNone(st, err) == st.inputs

\* A request the provider rejected as too large gives its inputs back.
Restored(st, err) ==
  IF err = "overflow" THEN st.inputs \cup st.consumed ELSE st.inputs

StepFailed(st, err, usage) ==
  LET bad == IsContext(st.step) /\ err = "document"
  IN [Closed(st) EXCEPT
        !.anchor = Anchored(st, usage),
        !.inputs = Restored(st, err),
        !.attempts = IF bad /\ st.ctx # "none" THEN @ + 1 ELSE @,
        !.failures = IF ~st.on THEN @ ELSE IF bad THEN 0 ELSE @ + 1,
        !.retryOk = IF ~st.on THEN @ ELSE bad \/ err # "permanent",
        !.failure = err,
        !.failedAs = IF st.step = "none" THEN "conversation" ELSE st.step,
        !.notices = @ \cup {"info"} \cup Note({}, st.step = "none", "anomaly")]

StepInterrupted(st, reason) ==
  [Closed(st) EXCEPT !.notices = @ \cup Note({}, st.step = "none", "anomaly")
                                   \cup Note({}, reason = "recovery", "info")]

-----------------------------------------------------------------------------
\* Tools and deadlines.

AutoWaitEnded(st, reason) ==
  [NoAutoWait(st) EXCEPT !.notices = Note(Note(@, st.autoWait = {}, "anomaly"),
                                          reason = "timedOut", "info")]

\* The target is what the model asked for: naming a call that is not pending
\* is the model's mistake, noted but no anomaly of the runtime.  The flag set
\* on a pending target is shown to clients and read by nothing else.
ToolCancelRequested(st, target) ==
  [st EXCEPT !.notices = Note(@, target \notin st.pending, "info")]

\* Mutant: rejected calls, whose names are as the model wrote them, are folded too.
DiagnosedRejected(st, c) == st.kind[c] \in {"unknown", "rejected"}

\* No compatibility logic is registered for a tool the model made up, so the
\* fold diagnoses its result, whatever the outcome, and keeps it all the same.
Diagnosed(st, c) == st.kind[c] = "unknown"

ToolResult(st, c, outcome) ==
  LET matches == c \in Unsettled(st)
      waits == st.kind[c] = "wait" /\ outcome = "ok"
  IN [st EXCEPT !.result[c] = IF matches THEN outcome ELSE @,
                !.notices = Note(Note(@, Diagnosed(st, c), "unknown"), ~matches, "stray"),
                !.wait = IF waits THEN c ELSE @,
                !.waitDue = @ /\ ~waits]

\* One batch of results, all of pending calls and none a successful wait.
ToolResults(st, outcomes) ==
  [st EXCEPT !.result = [c \in Calls |-> IF c \in DOMAIN outcomes /\ @[c] = "none"
                                           THEN outcomes[c] ELSE @[c]],
             !.notices = Note(@, \E c \in DOMAIN outcomes : Diagnosed(st, c), "unknown")]

DeadlineReached(st) ==
  [st EXCEPT !.wait = NoCall, !.waitDue = FALSE,
             !.notices = @ \cup IF st.wait = NoCall THEN {"anomaly"} ELSE {"info"}]

-----------------------------------------------------------------------------
\* The context exit, and faults.

ContextFailed(st) == [st EXCEPT !.notices = @ \cup {"info"}]

\* The calls still pending afterwards.  `carried' are those without a result
\* when the runner built the event; `kept' is what the retained suffix of the
\* old generation holds: inputs, results, and whether it reaches back to the
\* last Assistant entry.
Left(st, carried, kept) ==
  carried \cup {c \in st.pending : st.result[c] # "none" /\ c \notin kept.results}

ContextApplied(st, carried, kept) ==
  LET left == Left(st, carried, kept)
  IN [NoAutoWait(NoStep(NoContext(st))) EXCEPT
        !.pending = left, !.sent = left,
        !.genInputs = kept.inputs \ st.inputs, !.genResults = kept.results,
        !.open = IF kept.tail THEN @ ELSE {},
        !.latest = IF kept.tail THEN @ ELSE {},
        !.anchor = FALSE, !.failure = "none"]

RuntimeFault(st) == [st EXCEPT !.notices = @ \cup {"info"}]
=============================================================================
