---------------------------- MODULE RunnerProofs ----------------------------
(***************************************************************************)
(* What TLAPS proves of the runner's control, for every value of the       *)
(* constants: types, that no running call is declared interrupted, that    *)
(* steps happen within turns, that a cancellation stands, that the runner  *)
(* implements the session's contract, and what its history shows.  It      *)
(* begins with the fold: every event takes a well-typed state to a         *)
(* well-typed one.                                                         *)
(***************************************************************************)
EXTENDS RunnerContract, TLAPS

(* Each lemma types the values the event writes; the fields it does not    *)
(* write keep their type.                                                  *)
LEMMA CreatedType ==
  ASSUME NEW g \in {"compaction", "handoff"}
  PROVE  IsState(Created(g))
<1> DEFINE c == Created(g)
<1>1. /\ c.inputs \in FieldTypes.inputs /\ c.accepted \in FieldTypes.accepted
      /\ c.strategy \in FieldTypes.strategy /\ c.on \in FieldTypes.on
      /\ c.cancel \in FieldTypes.cancel /\ c.failures \in FieldTypes.failures
      /\ c.retryOk \in FieldTypes.retryOk /\ c.ctx \in FieldTypes.ctx
      /\ c.attempts \in FieldTypes.attempts /\ c.ctl \in FieldTypes.ctl
      /\ c.outcome \in FieldTypes.outcome /\ c.failure \in FieldTypes.failure
      /\ c.failedAs \in FieldTypes.failedAs /\ c.step \in FieldTypes.step
      /\ c.consumed \in FieldTypes.consumed
      /\ c.sameSel \in FieldTypes.sameSel /\ c.issued \in FieldTypes.issued
      /\ c.kind \in FieldTypes.kind /\ c.pending \in FieldTypes.pending
      /\ c.sent \in FieldTypes.sent /\ c.result \in FieldTypes.result
      /\ c.own \in FieldTypes.own /\ c.latest \in FieldTypes.latest
      /\ c.open \in FieldTypes.open /\ c.genInputs \in FieldTypes.genInputs
      /\ c.genResults \in FieldTypes.genResults
      /\ c.anchor \in FieldTypes.anchor /\ c.notices \in FieldTypes.notices
      /\ c.autoWait \in FieldTypes.autoWait
      /\ c.autoDue \in FieldTypes.autoDue /\ c.wait \in FieldTypes.wait
      /\ c.waitDue \in FieldTypes.waitDue
  BY BoundAssumption
     DEF Created, FieldTypes, Purposes, NoCall, Inputs, Calls
<1>2. DOMAIN c = DOMAIN FieldTypes /\ c = [f \in DOMAIN FieldTypes |-> c[f]]
  BY DEF Created, FieldTypes
<1>3. ASSUME NEW f \in DOMAIN FieldTypes
      PROVE  c[f] \in FieldTypes[f]
  <2>1. f \in {"inputs", "accepted", "strategy", "on", "cancel",
               "failures", "retryOk", "ctx", "attempts", "ctl", "outcome",
               "failure", "failedAs", "step", "consumed", "sameSel",
               "issued", "kind", "pending", "sent", "result", "own",
               "latest", "open", "genInputs", "genResults", "anchor",
               "notices", "autoWait", "autoDue", "wait", "waitDue"}
    BY <1>3 DEF FieldTypes
  <2> HIDE DEF c
  <2> QED BY <2>1, <1>1, Zenon
<1> QED BY <1>2, <1>3 DEF IsState

LEMMA NoContextType ==
  ASSUME NEW st, IsState(st)
  PROVE  IsState(NoContext(st))
<1>1. /\ "none" \in FieldTypes.ctx /\ 0 \in FieldTypes.attempts
      /\ {} \in FieldTypes.ctl /\ 0 \in FieldTypes.failures
      /\ TRUE \in FieldTypes.retryOk
  BY DEF FieldTypes
<1> QED BY <1>1 DEF IsState, NoContext

LEMMA NoStepType ==
  ASSUME NEW st, IsState(st)
  PROVE  IsState(NoStep(st))
<1>1. /\ "none" \in FieldTypes.step /\ {} \in FieldTypes.consumed
      /\ TRUE \in FieldTypes.sameSel
  BY DEF FieldTypes
<1> QED BY <1>1 DEF IsState, NoStep

LEMMA NoAutoWaitType ==
  ASSUME NEW st, IsState(st)
  PROVE  IsState(NoAutoWait(st))
<1>1. {} \in FieldTypes.autoWait /\ FALSE \in FieldTypes.autoDue
  BY DEF FieldTypes
<1> QED BY <1>1 DEF IsState, NoAutoWait

LEMMA InputAppendedType ==
  ASSUME NEW st, IsState(st), st.accepted < MaxInputs
  PROVE  IsState(InputAppended(st))
<1>1. /\ "accepted" \in DOMAIN FieldTypes /\ FieldTypes.accepted = 0..MaxInputs
      /\ "inputs" \in DOMAIN FieldTypes /\ FieldTypes.inputs = SUBSET (1..MaxInputs)
  BY DEF FieldTypes, Inputs
<1>2. /\ st.accepted + 1 \in FieldTypes.accepted
      /\ st.inputs \cup {st.accepted + 1} \in FieldTypes.inputs
  BY <1>1, BoundAssumption DEF IsState
<1> QED BY <1>2 DEF IsState, InputAppended

LEMMA SelectionChangedType ==
  ASSUME NEW st, IsState(st), NEW same \in BOOLEAN
  PROVE  IsState(SelectionChanged(st, same))
<1>1. /\ FALSE \in FieldTypes.anchor
      /\ (same \/ st.step = "none") \in FieldTypes.sameSel
  BY DEF FieldTypes
<1> QED BY <1>1 DEF IsState, SelectionChanged

LEMMA ContextConfiguredType ==
  ASSUME NEW st, IsState(st), NEW g \in {"compaction", "handoff"}
  PROVE  IsState(ContextConfigured(st, g))
<1>1. g \in FieldTypes.strategy
  BY DEF FieldTypes
<1> QED BY <1>1 DEF IsState, ContextConfigured

LEMMA NoteType ==
  ASSUME NEW ns \in FieldTypes.notices, NEW cond \in BOOLEAN,
         NEW n \in {"info", "anomaly", "unknown", "stray"}
  PROVE  Note(ns, cond, n) \in FieldTypes.notices
  BY DEF Note, FieldTypes

LEMMA TurnStartedType ==
  ASSUME NEW st, IsState(st)
  PROVE  IsState(TurnStarted(st))
<1>1. IsState(NoContext(st))
  BY NoContextType
<1>2. /\ TRUE \in FieldTypes.on /\ FALSE \in FieldTypes.cancel
      /\ {} \in FieldTypes.own /\ "none" \in FieldTypes.outcome
      /\ "notices" \in DOMAIN FieldTypes
      /\ "on" \in DOMAIN FieldTypes /\ FieldTypes.on = BOOLEAN
  BY DEF FieldTypes
<1>3. Note(NoContext(st).notices, st.on, "anomaly") \in FieldTypes.notices
  BY <1>1, <1>2, NoteType DEF IsState
<1> QED BY <1>1, <1>2, <1>3 DEF IsState, TurnStarted

LEMMA TurnCancelRequestedType ==
  ASSUME NEW st, IsState(st)
  PROVE  IsState(TurnCancelRequested(st))
<1>1. /\ FieldTypes.cancel = BOOLEAN /\ "notices" \in DOMAIN FieldTypes
      /\ "on" \in DOMAIN FieldTypes /\ FieldTypes.on = BOOLEAN
  BY DEF FieldTypes
<1>2. Note(st.notices, ~st.on, "anomaly") \in FieldTypes.notices
  BY <1>1, NoteType DEF IsState
<1> QED BY <1>1, <1>2 DEF IsState, TurnCancelRequested

LEMMA TurnFinishedType ==
  ASSUME NEW st, IsState(st), NEW o \in {"finished", "failed", "cancelled"}
  PROVE  IsState(TurnFinished(st, o))
<1>1. IsState(NoStep(NoContext(st)))
  BY NoStepType, NoContextType
<1>2. /\ "pending" \in DOMAIN FieldTypes /\ FieldTypes.pending = SUBSET Calls
      /\ "sent" \in DOMAIN FieldTypes /\ FieldTypes.sent = SUBSET Calls
      /\ FALSE \in FieldTypes.on /\ FALSE \in FieldTypes.cancel
      /\ {} \in FieldTypes.own /\ o \in FieldTypes.outcome
  BY DEF FieldTypes
<1>3. Survives(st) \in FieldTypes.pending
  BY <1>2 DEF IsState, Survives
<1>4. NoStep(NoContext(st)).sent \cap Survives(st) \in FieldTypes.sent
  BY <1>1, <1>2 DEF IsState
<1>5. IsState(TurnOver(st, o))
  BY <1>1, <1>2, <1>3, <1>4 DEF IsState, TurnOver
<1> QED BY <1>5, NoAutoWaitType DEF TurnFinished

LEMMA ClosedType ==
  ASSUME NEW st, IsState(st)
  PROVE  IsState(Closed(st))
<1>1. IsState(NoStep(st)) /\ "notices" \in DOMAIN FieldTypes
  BY NoStepType DEF FieldTypes
<1>2. Note(NoStep(st).notices, st.step = "none", "anomaly") \in FieldTypes.notices
  BY <1>1, NoteType DEF IsState
<1> QED BY <1>1, <1>2 DEF IsState, Closed

LEMMA StepInterruptedType ==
  ASSUME NEW st, IsState(st), NEW reason
  PROVE  IsState(StepInterrupted(st, reason))
<1>1. IsState(Closed(st))
  BY ClosedType
<1>2. "notices" \in DOMAIN FieldTypes
      /\ FieldTypes.notices = SUBSET {"info", "anomaly", "unknown", "stray"}
  BY DEF FieldTypes
<1>3. Closed(st).notices \cup Note({}, st.step = "none", "anomaly")
                         \cup Note({}, reason = "recovery", "info")
        \in FieldTypes.notices
  BY <1>1, <1>2 DEF IsState, Note
<1> QED BY <1>1, <1>3 DEF IsState, StepInterrupted

LEMMA AutoWaitEndedType ==
  ASSUME NEW st, IsState(st), NEW reason
  PROVE  IsState(AutoWaitEnded(st, reason))
<1>1. IsState(NoAutoWait(st)) /\ "notices" \in DOMAIN FieldTypes
  BY NoAutoWaitType DEF FieldTypes
<1>2. Note(Note(NoAutoWait(st).notices, st.autoWait = {}, "anomaly"),
           reason = "timedOut", "info") \in FieldTypes.notices
  BY <1>1, NoteType DEF IsState
<1> QED BY <1>1, <1>2 DEF IsState, AutoWaitEnded

LEMMA ToolCancelRequestedType ==
  ASSUME NEW st, IsState(st), NEW target
  PROVE  IsState(ToolCancelRequested(st, target))
<1>1. "notices" \in DOMAIN FieldTypes
  BY DEF FieldTypes
<1>2. Note(st.notices, target \notin st.pending, "info") \in FieldTypes.notices
  BY <1>1, NoteType DEF IsState
<1> QED BY <1>2 DEF IsState, ToolCancelRequested

LEMMA ToolResultType ==
  ASSUME NEW st, IsState(st), NEW c \in Calls, NEW o \in Outcomes \cup {"none"}
  PROVE  IsState(ToolResult(st, c, o))
<1> DEFINE matches == c \in Unsettled(st)
           waits == st.kind[c] = "wait" /\ o = "ok"
<1>1. /\ "result" \in DOMAIN FieldTypes
      /\ FieldTypes.result = [Calls -> Outcomes \cup {"none"}]
      /\ "notices" \in DOMAIN FieldTypes
      /\ "wait" \in DOMAIN FieldTypes /\ FieldTypes.wait = Calls \cup {NoCall}
      /\ "waitDue" \in DOMAIN FieldTypes /\ FieldTypes.waitDue = BOOLEAN
  BY DEF FieldTypes
<1>2. [st.result EXCEPT ![c] = IF matches THEN o ELSE st.result[c]]
        \in FieldTypes.result
  BY <1>1 DEF IsState
<1>3. /\ Note(Note(st.notices, Diagnosed(st, c), "unknown"), ~matches, "stray")
           \in FieldTypes.notices
      /\ (IF waits THEN c ELSE st.wait) \in FieldTypes.wait
      /\ (st.waitDue /\ ~waits) \in FieldTypes.waitDue
  BY <1>1, NoteType DEF IsState, Diagnosed
<1>4. ToolResult(st, c, o) =
        [st EXCEPT !.result = [st.result EXCEPT ![c] =
                                 IF matches THEN o ELSE st.result[c]],
                   !.notices = Note(Note(st.notices, Diagnosed(st, c), "unknown"),
                                    ~matches, "stray"),
                   !.wait = IF waits THEN c ELSE st.wait,
                   !.waitDue = st.waitDue /\ ~waits]
  BY <1>1 DEF IsState, ToolResult
<1> QED BY <1>2, <1>3, <1>4 DEF IsState

LEMMA ToolResultsType ==
  ASSUME NEW st, IsState(st), NEW outcomes,
         \A c \in DOMAIN outcomes : outcomes[c] \in Outcomes
  PROVE  IsState(ToolResults(st, outcomes))
<1>1. /\ "result" \in DOMAIN FieldTypes /\ "notices" \in DOMAIN FieldTypes
      /\ FieldTypes.result = [Calls -> Outcomes \cup {"none"}]
  BY DEF FieldTypes
<1>2. [c \in Calls |-> IF c \in DOMAIN outcomes /\ st.result[c] = "none"
                         THEN outcomes[c] ELSE st.result[c]]
        \in FieldTypes.result
  BY <1>1 DEF IsState
<1>3. Note(st.notices, \E c \in DOMAIN outcomes : Diagnosed(st, c), "unknown")
        \in FieldTypes.notices
  BY <1>1, NoteType DEF IsState
<1> QED BY <1>1, <1>2, <1>3 DEF IsState, ToolResults

LEMMA DeadlineReachedType ==
  ASSUME NEW st, IsState(st)
  PROVE  IsState(DeadlineReached(st))
<1>1. /\ NoCall \in FieldTypes.wait /\ FALSE \in FieldTypes.waitDue
      /\ "notices" \in DOMAIN FieldTypes
      /\ FieldTypes.notices = SUBSET {"info", "anomaly", "unknown", "stray"}
  BY DEF FieldTypes
<1>2. st.notices \cup (IF st.wait = NoCall THEN {"anomaly"} ELSE {"info"})
        \in FieldTypes.notices
  BY <1>1 DEF IsState
<1> QED BY <1>1, <1>2 DEF IsState, DeadlineReached

\* The two events that only leave a notice.
LEMMA NotedType ==
  ASSUME NEW st, IsState(st)
  PROVE  IsState(ContextFailed(st)) /\ IsState(RuntimeFault(st))
<1>1. /\ "notices" \in DOMAIN FieldTypes
      /\ FieldTypes.notices = SUBSET {"info", "anomaly", "unknown", "stray"}
  BY DEF FieldTypes
<1>2. st.notices \cup {"info"} \in FieldTypes.notices
  BY <1>1 DEF IsState
<1> QED BY <1>2 DEF IsState, ContextFailed, RuntimeFault

LEMMA DeliveriesType ==
  ASSUME NEW st, IsState(st), NEW purpose, NEW include
  PROVE  Deliveries(st, purpose, include) \subseteq st.pending
  BY DEF Deliveries, Deliverable

LEMMA StepStartedType ==
  ASSUME NEW st, IsState(st), NEW purpose \in Purposes, NEW include
  PROVE  IsState(StepStarted(st, purpose, include))
<1> DEFINE opensContext == IsContext(purpose) /\ st.ctx = "none"
           consumed == IF purpose = "conversation" THEN st.inputs ELSE {}
           given == Deliveries(st, purpose, include)
           told == given \cap Settled(st)
           left == StillPending(st, told, opensContext)
<1>1. /\ {"inputs", "pending", "sent", "open", "genInputs", "genResults", "wait",
          "waitDue", "ctx", "attempts", "ctl", "notices"} \subseteq DOMAIN FieldTypes
      /\ FieldTypes.inputs = SUBSET Inputs /\ FieldTypes.consumed = SUBSET Inputs
      /\ FieldTypes.genInputs = SUBSET Inputs
      /\ FieldTypes.pending = SUBSET Calls /\ FieldTypes.sent = SUBSET Calls
      /\ FieldTypes.open = SUBSET Calls /\ FieldTypes.genResults = SUBSET Calls
      /\ NoCall \in FieldTypes.wait /\ FieldTypes.waitDue = BOOLEAN
      /\ purpose \in FieldTypes.ctx /\ purpose \in FieldTypes.step
      /\ 0 \in FieldTypes.attempts /\ {} \in FieldTypes.ctl
      /\ TRUE \in FieldTypes.sameSel /\ "none" \in FieldTypes.failure
      /\ {} \in FieldTypes.notices
  BY DEF FieldTypes
<1>2. /\ st.inputs \subseteq Inputs /\ st.genInputs \subseteq Inputs
      /\ st.pending \subseteq Calls /\ st.sent \subseteq Calls
      /\ st.open \subseteq Calls /\ st.genResults \subseteq Calls
  BY <1>1 DEF IsState
<1>3. given \subseteq Calls /\ left \subseteq Calls
  BY <1>2, DeliveriesType DEF StillPending
<1>4. /\ consumed \in FieldTypes.consumed
      /\ st.inputs \ consumed \in FieldTypes.inputs
      /\ st.genInputs \cup consumed \in FieldTypes.genInputs
      /\ left \in FieldTypes.pending
      /\ Answered(st, given, told) \cap left \in FieldTypes.sent
      /\ st.open \ (given \ st.sent) \in FieldTypes.open
      /\ st.genResults \cup told \in FieldTypes.genResults
  BY <1>1, <1>2, <1>3
<1>5. /\ (IF consumed = {} THEN st.wait ELSE NoCall) \in FieldTypes.wait
      /\ (st.waitDue /\ consumed = {}) \in FieldTypes.waitDue
      /\ (IF opensContext THEN purpose ELSE st.ctx) \in FieldTypes.ctx
      /\ (IF opensContext THEN 0 ELSE st.attempts) \in FieldTypes.attempts
      /\ (IF opensContext THEN {} ELSE st.ctl) \in FieldTypes.ctl
  BY <1>1 DEF IsState
<1>6. Note(IF purpose = "conversation" THEN {} ELSE st.notices,
           st.step # "none", "anomaly") \in FieldTypes.notices
  BY <1>1, NoteType DEF IsState
<1> DEFINE half ==
             [st EXCEPT
                !.step = purpose, !.consumed = consumed, !.sameSel = TRUE,
                !.inputs = st.inputs \ consumed,
                !.genInputs = st.genInputs \cup consumed,
                !.pending = left, !.sent = Answered(st, given, told) \cap left,
                !.open = st.open \ (given \ st.sent)]
<1> HIDE DEF opensContext, consumed, given, told, left
<1>7. IsState(half)
  BY <1>1, <1>4 DEF IsState
<1> DEFINE most ==
             [half EXCEPT
                !.genResults = st.genResults \cup told,
                !.wait = IF consumed = {} THEN st.wait ELSE NoCall,
                !.waitDue = st.waitDue /\ consumed = {},
                !.ctx = IF opensContext THEN purpose ELSE st.ctx]
<1>8. StepStarted(st, purpose, include) =
        [most EXCEPT
           !.attempts = IF opensContext THEN 0 ELSE st.attempts,
           !.ctl = IF opensContext THEN {} ELSE st.ctl,
           !.failure = "none",
           !.notices = Note(IF purpose = "conversation" THEN {} ELSE st.notices,
                            st.step # "none", "anomaly")]
  BY DEF StepStarted, opensContext, consumed, given, told, left
<1> HIDE DEF half
<1>9. IsState(most)
  BY <1>1, <1>4, <1>5, <1>7 DEF IsState
<1> HIDE DEF most
<1>10. IsState([most EXCEPT
           !.attempts = IF opensContext THEN 0 ELSE st.attempts,
           !.ctl = IF opensContext THEN {} ELSE st.ctl,
           !.failure = "none",
           !.notices = Note(IF purpose = "conversation" THEN {} ELSE st.notices,
                            st.step # "none", "anomaly")])
  BY <1>1, <1>5, <1>6, <1>9 DEF IsState
<1> QED BY <1>8, <1>10, Zenon

LEMMA StepCompletedType ==
  ASSUME NEW st, IsState(st), NEW ks \in Seq(CallKinds),
         st.issued + Len(ks) <= MaxCalls, NEW usage \in BOOLEAN
  PROVE  IsState(StepCompleted(st, ks, usage))
<1> DEFINE some == NewCalls(st, Len(ks))
           base == Closed(st)
<1>1. /\ {"ctx", "attempts", "kind", "issued", "latest", "open", "pending", "own",
          "anchor", "step", "sameSel", "ctl"} \subseteq DOMAIN FieldTypes
      /\ FieldTypes.anchor = BOOLEAN /\ FieldTypes.attempts = Nat
      /\ FieldTypes.latest = SUBSET Calls /\ FieldTypes.open = SUBSET Calls
      /\ FieldTypes.ctl = SUBSET Calls /\ FieldTypes.pending = SUBSET Calls
      /\ FieldTypes.own = SUBSET Calls /\ FieldTypes.autoWait = SUBSET Calls
      /\ FieldTypes.issued = 0..MaxCalls
      /\ FieldTypes.kind = [Calls -> CallKinds \cup {"none"}]
      /\ FALSE \in FieldTypes.autoDue /\ 0 \in FieldTypes.failures
      /\ TRUE \in FieldTypes.retryOk /\ "none" \in FieldTypes.failure
      /\ FieldTypes.sameSel = BOOLEAN
  BY DEF FieldTypes
<1>2. IsState(base)
  BY ClosedType
<1>3. st.issued \in 0..MaxCalls /\ base.issued = st.issued
  <2>1. st.issued \in 0..MaxCalls
    BY <1>1 DEF IsState
  <2>2. base.issued = st.issued
    BY <1>1 DEF IsState, Closed, NoStep
  <2> QED BY <2>1, <2>2
<1>4. Len(ks) \in Nat /\ \A i \in 1..Len(ks) : ks[i] \in CallKinds
  OBVIOUS
<1>5. some \subseteq Calls
  BY <1>3, <1>4, BoundAssumption DEF NewCalls, Calls
<1>6. base.issued + Len(ks) \in FieldTypes.issued
  BY <1>1, <1>3, <1>4, BoundAssumption
<1>7. \A c \in some : ks[c - st.issued] \in CallKinds
  BY <1>3, <1>4, BoundAssumption DEF NewCalls
<1> HIDE DEF some, base
<1>8. [c \in Calls |-> IF c \in some THEN ks[c - st.issued] ELSE base.kind[c]]
        \in FieldTypes.kind
  <2>1. base.kind \in [Calls -> CallKinds \cup {"none"}]
    BY <1>1, <1>2 DEF IsState
  <2> QED BY <1>1, <1>7, <2>1
<1>9. /\ base.latest \subseteq Calls /\ base.open \subseteq Calls
      /\ base.ctl \subseteq Calls /\ base.pending \subseteq Calls
      /\ base.own \subseteq Calls /\ base.attempts \in Nat
  BY <1>1, <1>2 DEF IsState
<1>10. Anchored(st, usage) \in FieldTypes.anchor
  BY <1>1 DEF Anchored, IsState
<1>11. /\ (IF st.step = "compaction" THEN base.latest ELSE some) \in FieldTypes.latest
       /\ base.open \cup some \in FieldTypes.open
       /\ (IF IsContext(st.step) /\ st.ctx # "none" THEN base.attempts + 1
                                                   ELSE base.attempts) \in FieldTypes.attempts
       /\ (IF st.step = "handoff" THEN some ELSE base.ctl) \in FieldTypes.ctl
       /\ base.pending \cup some \in FieldTypes.pending
       /\ base.own \cup some \in FieldTypes.own
       /\ (IF st.step = "conversation" THEN some ELSE {}) \in FieldTypes.autoWait
  BY <1>1, <1>5, <1>9
<1> DEFINE half ==
      [base EXCEPT
         !.anchor = Anchored(st, usage),
         !.latest = IF st.step = "compaction" THEN base.latest ELSE some,
         !.open = base.open \cup some,
         !.attempts = IF IsContext(st.step) /\ st.ctx # "none" THEN base.attempts + 1
                                                           ELSE base.attempts,
         !.ctl = IF st.step = "handoff" THEN some ELSE base.ctl,
         !.issued = base.issued + Len(ks),
         !.kind = [c \in Calls |-> IF c \in some THEN ks[c - st.issued]
                                                  ELSE base.kind[c]]]
<1>12. IsState(half)
  BY <1>2, <1>6, <1>8, <1>10, <1>11 DEF IsState
<1>13. StepCompleted(st, ks, usage) =
         [half EXCEPT
            !.pending = base.pending \cup some, !.own = base.own \cup some,
            !.autoWait = IF st.step = "conversation" THEN some ELSE {},
            !.autoDue = FALSE,
            !.failures = 0, !.retryOk = TRUE, !.failure = "none"]
  BY DEF StepCompleted, base, some
<1> DEFINE waits == IF st.step = "conversation" THEN some ELSE {}
           pending == base.pending \cup some
           own == base.own \cup some
<1>14. pending \in FieldTypes.pending /\ own \in FieldTypes.own
       /\ waits \in FieldTypes.autoWait
  BY <1>11
<1> HIDE DEF half, waits, pending, own
<1>15. IsState([half EXCEPT !.pending = pending, !.own = own, !.autoWait = waits,
                            !.autoDue = FALSE])
  BY <1>1, <1>12, <1>14 DEF IsState
<1> DEFINE most == [half EXCEPT !.pending = pending, !.own = own, !.autoWait = waits,
                                !.autoDue = FALSE]
<1>16. StepCompleted(st, ks, usage) =
         [most EXCEPT !.failures = 0, !.retryOk = TRUE, !.failure = "none"]
  BY <1>13 DEF waits, pending, own
<1>17. IsState(most)
  BY <1>15
<1> HIDE DEF most
<1> QED BY <1>1, <1>16, <1>17 DEF IsState

LEMMA StepFailedType ==
  ASSUME NEW st, IsState(st), NEW err \in ProviderErrors, NEW usage \in BOOLEAN
  PROVE  IsState(StepFailed(st, err, usage))
<1> DEFINE base == Closed(st)
           bad == IsContext(st.step) /\ err = "document"
<1>1. /\ {"inputs", "consumed", "attempts", "failures", "retryOk", "step", "notices",
          "anchor", "sameSel"} \subseteq DOMAIN FieldTypes
      /\ FieldTypes.anchor = BOOLEAN /\ FieldTypes.attempts = Nat
      /\ FieldTypes.sameSel = BOOLEAN
      /\ FieldTypes.inputs = SUBSET Inputs /\ FieldTypes.consumed = SUBSET Inputs
      /\ FieldTypes.failures = Nat /\ FieldTypes.retryOk = BOOLEAN
      /\ err \in FieldTypes.failure
      /\ FieldTypes.failedAs = Purposes /\ FieldTypes.step = Purposes \cup {"none"}
      /\ "conversation" \in Purposes
      /\ FieldTypes.notices = SUBSET {"info", "anomaly", "unknown", "stray"}
  BY DEF FieldTypes, Purposes
<1>2. IsState(base)
  BY ClosedType
<1> HIDE DEF base
<1>3. /\ base.attempts \in Nat /\ base.failures \in Nat /\ base.retryOk \in BOOLEAN
      /\ base.notices \subseteq {"info", "anomaly", "unknown", "stray"}
  BY <1>1, <1>2 DEF IsState
<1>4. /\ Anchored(st, usage) \in FieldTypes.anchor
      /\ Restored(st, err) \in FieldTypes.inputs
      /\ (IF st.step = "none" THEN "conversation" ELSE st.step) \in FieldTypes.failedAs
  BY <1>1 DEF Anchored, Restored, IsState
<1> DEFINE attempts == IF bad /\ st.ctx # "none" THEN base.attempts + 1 ELSE base.attempts
           failures == IF ~st.on THEN base.failures
                       ELSE IF bad THEN 0 ELSE base.failures + 1
           retryOk == IF ~st.on THEN base.retryOk ELSE bad \/ err # "permanent"
           failedAs == IF st.step = "none" THEN "conversation" ELSE st.step
           notices == base.notices \cup {"info"} \cup Note({}, st.step = "none", "anomaly")
           half == [base EXCEPT !.anchor = Anchored(st, usage),
                                !.inputs = Restored(st, err),
                                !.attempts = attempts, !.failures = failures]
<1>5. /\ attempts \in FieldTypes.attempts /\ failures \in FieldTypes.failures
      /\ retryOk \in FieldTypes.retryOk /\ notices \in FieldTypes.notices
  <2>1. attempts \in FieldTypes.attempts /\ failures \in FieldTypes.failures
    BY <1>1, <1>3
  <2>2. retryOk \in FieldTypes.retryOk
    <3>1. (bad \/ err # "permanent") \in BOOLEAN
      OBVIOUS
    <3>2. retryOk = base.retryOk \/ retryOk = (bad \/ err # "permanent")
      BY Zenon
    <3> QED BY <1>1, <1>3, <3>1, <3>2
  <2>3. notices \in FieldTypes.notices
    BY <1>1, <1>3 DEF Note
  <2> QED BY <2>1, <2>2, <2>3
<1>6. failedAs \in FieldTypes.failedAs
  BY <1>4
<1>7. StepFailed(st, err, usage) =
        [half EXCEPT !.retryOk = retryOk, !.failure = err, !.failedAs = failedAs,
                     !.notices = notices]
  BY Zenon DEF StepFailed, base
<1> HIDE DEF bad, attempts, failures, retryOk, failedAs, notices
<1>8. IsState(half)
  BY <1>2, <1>4, <1>5 DEF IsState
<1> HIDE DEF half
<1> QED BY <1>1, <1>5, <1>6, <1>7, <1>8, ZenonT(40) DEF IsState

LEMMA ContextAppliedType ==
  ASSUME NEW st, IsState(st), NEW carried \in SUBSET Calls,
         NEW kept \in [inputs : SUBSET Inputs, results : SUBSET Calls, tail : BOOLEAN]
  PROVE  IsState(ContextApplied(st, carried, kept))
<1> DEFINE base == NoAutoWait(NoStep(NoContext(st)))
           left == Left(st, carried, kept)
<1>1. IsState(base)
  BY NoContextType, NoStepType, NoAutoWaitType
<1> HIDE DEF base
<1>2. /\ {"inputs", "pending", "open", "latest"} \subseteq DOMAIN FieldTypes
      /\ FieldTypes.pending = SUBSET Calls /\ FieldTypes.sent = SUBSET Calls
      /\ FieldTypes.open = SUBSET Calls /\ FieldTypes.latest = SUBSET Calls
      /\ FieldTypes.genInputs = SUBSET Inputs /\ FieldTypes.genResults = SUBSET Calls
      /\ FALSE \in FieldTypes.anchor /\ "none" \in FieldTypes.failure
  BY DEF FieldTypes
<1>3. left \in SUBSET Calls
  <2>1. st.pending \subseteq Calls
    BY <1>2 DEF IsState
  <2> QED BY <2>1 DEF Left
<1>4. /\ kept.inputs \ st.inputs \in FieldTypes.genInputs
      /\ kept.results \in FieldTypes.genResults
      /\ (IF kept.tail THEN base.open ELSE {}) \in FieldTypes.open
      /\ (IF kept.tail THEN base.latest ELSE {}) \in FieldTypes.latest
  BY <1>1, <1>2 DEF IsState
<1>5. ContextApplied(st, carried, kept) =
        [base EXCEPT
           !.pending = left, !.sent = left,
           !.genInputs = kept.inputs \ st.inputs, !.genResults = kept.results,
           !.open = IF kept.tail THEN base.open ELSE {},
           !.latest = IF kept.tail THEN base.latest ELSE {},
           !.anchor = FALSE, !.failure = "none"]
  BY DEF ContextApplied, base
<1> HIDE DEF left
<1> QED BY <1>1, <1>2, <1>3, <1>4, <1>5, ZenonT(40) DEF IsState

-----------------------------------------------------------------------------
USE DEF Logged

Endings == {"finished", "failed", "cancelled"}

\* A decision that leaves the turn by a step, an end or a context exit.
Proceeds(d) ==
  \/ d.act = "applyContext"
  \/ d.act = "finishTurn" /\ d.outcome \in Endings
  \/ d.act = "startStep" /\ d.purpose \in Purposes /\ d.include \in BOOLEAN

LEMMA Verdicts ==
  /\ \A p \in Purposes, b \in BOOLEAN : Proceeds(StartStep(p, b))
  /\ \A o \in Endings : Proceeds(FinishTurn(o))
  /\ \A p : Proceeds(ApplyContext(p))
  BY DEF StartStep, FinishTurn, ApplyContext, Proceeds

LEMMA Readings ==
  ASSUME NEW st, IsState(st)
  PROVE  /\ st.on \in BOOLEAN /\ st.cancel \in BOOLEAN /\ "conversation" \in Purposes
         /\ st.strategy \in Purposes /\ st.failedAs \in Purposes
         /\ st.ctx \in Purposes \cup {"none"} /\ st.step \in Purposes \cup {"none"}
         /\ st.pending \subseteq Calls
         /\ st.result \in [Calls -> Outcomes \cup {"none"}]
         /\ st.accepted \in 0..MaxInputs /\ st.issued \in 0..MaxCalls
         /\ st.genInputs \subseteq Inputs /\ st.genResults \subseteq Calls
<1>1. /\ {"on", "cancel", "strategy", "failedAs", "ctx", "step", "pending", "result",
          "accepted", "issued", "genInputs", "genResults"} \subseteq DOMAIN FieldTypes
      /\ FieldTypes.on = BOOLEAN /\ FieldTypes.cancel = BOOLEAN
      /\ FieldTypes.strategy \subseteq Purposes
      /\ FieldTypes.failedAs = Purposes
      /\ FieldTypes.ctx = Purposes \cup {"none"}
      /\ FieldTypes.step = Purposes \cup {"none"}
      /\ FieldTypes.pending = SUBSET Calls
      /\ FieldTypes.result = [Calls -> Outcomes \cup {"none"}]
      /\ FieldTypes.accepted = 0..MaxInputs /\ FieldTypes.issued = 0..MaxCalls
      /\ FieldTypes.genInputs = SUBSET Inputs /\ FieldTypes.genResults = SUBSET Calls
  BY DEF FieldTypes, Purposes
<1> QED BY <1>1 DEF IsState, Purposes

LEMMA RetryProceeds ==
  ASSUME NEW st, IsState(st)
  PROVE  Proceeds(RetryDecision(st))
<1> DEFINE purpose == IF st.ctx # "none" THEN st.ctx ELSE st.strategy
           again == IF st.ctx # "none" THEN st.ctx
                    ELSE IF st.failure # "none" THEN st.failedAs ELSE "conversation"
<1>1. purpose \in Purposes /\ again \in Purposes
  BY Readings
<1>2. RetryDecision(st) \in {StartStep(purpose, TRUE), ApplyContext(purpose),
                             FinishTurn("failed"), StartStep(again, TRUE)}
  BY DEF RetryDecision
<1> HIDE DEF purpose, again
<1> QED BY <1>1, <1>2, Verdicts DEF Endings

LEMMA ContextProceeds ==
  ASSUME NEW st, IsState(st), st.ctx # "none"
  PROVE  Proceeds(ContextDecision(st))
<1>1. st.ctx \in Purposes
  BY Readings
<1>2. ContextDecision(st) \in {ApplyContext(st.ctx), StartStep(st.ctx, TRUE)}
  BY DEF ContextDecision
<1> QED BY <1>1, <1>2, Verdicts

LEMMA ControlProceeds ==
  ASSUME NEW st
  PROVE  Proceeds(ControlDecision(st))
<1>1. ControlDecision(st) \in {FinishTurn("finished"), StartStep("conversation", TRUE)}
  BY DEF ControlDecision
<1> QED BY <1>1, Verdicts DEF Endings, Purposes

\* What a decision presupposes, and what its arguments can be.
LEMMA DecideMeans ==
  ASSUME NEW st, IsState(st), NEW live, NEW over, NEW d, d = Decide(st, live, over)
  PROVE  /\ st.on /\ st.cancel => \/ d.act \in {"interruptStep", "interruptTools"}
                                  \/ d.act = "finishTurn" /\ d.outcome = "cancelled"
         /\ d.act = "startStep" => /\ st.on /\ st.step = "none"
                                   /\ d.purpose \in Purposes /\ d.include \in BOOLEAN
         /\ d.act = "finishTurn" => st.on /\ d.outcome \in Endings
         /\ d.act = "startTurn" => ~st.on /\ st.step = "none" /\ Wakes(st)
<1> USE Readings
<1>1. CASE st.step # "none"
  BY <1>1 DEF Decide, Do
<1>2. CASE st.step = "none" /\ Lost(st, live) # {}
  BY <1>2 DEF Decide, Do
<1> DEFINE rest == st.step = "none" /\ Lost(st, live) = {}
<1>3. CASE rest /\ st.on /\ st.cancel
  BY <1>3 DEF Decide, FinishTurn, Endings
<1> DEFINE free == rest /\ ~(st.on /\ st.cancel)
<1>4. CASE free /\ st.autoWait # {}
  <2>1. d = AutoWaitDecision(st)
    BY <1>4 DEF Decide
  <2>2. d.act \in {"endAutoWait", "park"}
    BY <2>1 DEF AutoWaitDecision, EndAutoWait, Do
  <2> QED BY <1>4, <2>2
<1>5. CASE free /\ st.autoWait = {} /\ st.on /\ st.failures > 0
  <2>1. d = RetryDecision(st)
    BY <1>5 DEF Decide
  <2>2. Proceeds(d)
    BY <2>1, RetryProceeds
  <2> QED BY <1>5, <2>2 DEF Proceeds
<1> DEFINE calm == free /\ st.autoWait = {} /\ ~(st.on /\ st.failures > 0)
           quiet == st.inputs = {} /\ st.notices = {}
<1>6. CASE calm /\ st.wait # NoCall /\ (st.waitDue \/ quiet)
  <2>1. d = Do("reachDeadline") \/ d = Do("park")
    BY <1>6 DEF Decide
  <2> QED BY <1>6, <2>1 DEF Do
<1>7. CASE calm /\ ~(st.wait # NoCall /\ (st.waitDue \/ quiet)) /\ ~st.on
  <2>1. d = IF Wakes(st) THEN Do("startTurn") ELSE Do("park")
    BY <1>7 DEF Decide
  <2> QED BY <1>7, <2>1 DEF Do
<1>8. CASE calm /\ ~(st.wait # NoCall /\ (st.waitDue \/ quiet)) /\ st.on
  <2>1. st.ctx # "none" => d = ContextDecision(st)
    BY <1>8 DEF Decide
  <2>2. st.ctx = "none" => d \in {ControlDecision(st), StartStep(st.strategy, TRUE),
                                  StartStep("conversation", Fresh(st) # {})}
    BY <1>8 DEF Decide
  <2>3. Proceeds(d)
    <3>1. (Fresh(st) # {}) \in BOOLEAN
      OBVIOUS
    <3> QED BY <2>1, <2>2, <3>1, ContextProceeds, ControlProceeds, Verdicts
  <2> QED BY <1>8, <2>3 DEF Proceeds
<1> QED BY <1>1, <1>2, <1>3, <1>4, <1>5, <1>6, <1>7, <1>8

-----------------------------------------------------------------------------
\* Type correctness, one lemma for each part of the next-state relation.

LEMMA ReceiverGoneType ==
  ASSUME TypeOK, ReceiverGone
  PROVE  /\ exec' \in [Calls -> TaskStates] /\ out' \in [Calls -> Outcomes \cup {"none"}]
         /\ chan' \subseteq Calls /\ orphans' \subseteq Calls
  BY DEF TypeOK, ReceiverGone, Live

LEMMA GotoType ==
  ASSUME TypeOK, NEW p \in PCs, Goto(p)
  PROVE  /\ pc' \in PCs /\ snap' \subseteq Calls
         /\ plan' \in [purpose : Purposes \cup {"none"}, include : BOOLEAN]
         /\ batch' \in [cancels : SUBSET Calls, rest : SUBSET Calls, asked : BOOLEAN]
         /\ pc' = p
  BY DEF TypeOK, Goto, NoPlan, NoBatch

LEMMA SignalledType ==
  ASSUME TypeOK, NEW cs
  PROVE  Signalled(cs) \in [Calls -> TaskStates]
  BY DEF TypeOK, Signalled, TaskStates

LEMMA ClientType ==
  ASSUME TypeOK, Client \/ Stop \/ Stopped \/ Reopen
  PROVE  TypeOK'
<1> USE RunnerAssumption DEF PCs
<1>1. AfterCommand \in PCs /\ (AfterCommand = "backoff" => pc = "backoff")
  BY DEF TypeOK, AfterCommand
<1>2. CASE Input
  <2>1. IsState(s')
    <3>1. s.accepted < MaxInputs /\ s' = InputAppended(s)
      BY <1>2 DEF Input
    <3> QED BY <3>1, InputAppendedType DEF TypeOK
  <2> QED BY <1>1, <1>2, <2>1 DEF TypeOK, Input, Handled, tools, faults
<1>3. CASE SetSelection
  <2>1. IsState(s')
    <3>1. PICK same \in BOOLEAN : s' = SelectionChanged(s, same)
      BY <1>3 DEF SetSelection
    <3> QED BY <3>1, SelectionChangedType DEF TypeOK
  <2> QED BY <1>1, <1>3, <2>1 DEF TypeOK, SetSelection, Handled, tools, faults
<1>4. ASSUME NEW g \in Strategies, SetContext(g) PROVE TypeOK'
  <2>1. IsState(s')
    BY <1>4, ContextConfiguredType DEF TypeOK, SetContext
  <2> QED BY <1>1, <1>4, <2>1 DEF TypeOK, SetContext, Handled, tools, faults
<1>5. CASE CancelTurn
  <2>1. IsState(s')
    BY <1>5, TurnCancelRequestedType DEF TypeOK, CancelTurn
  <2>2. exec' \in [Calls -> TaskStates]
    BY <1>5, SignalledType DEF CancelTurn
  <2>3. /\ pc' \in PCs /\ snap' \subseteq Calls
        /\ plan' \in [purpose : Purposes \cup {"none"}, include : BOOLEAN]
        /\ pc' = "backoff" => plan'.purpose \in Purposes
        /\ batch' \in [cancels : SUBSET Calls, rest : SUBSET Calls, asked : BOOLEAN]
    <3>1. TurnLeft
      BY <1>5 DEF CancelTurn
    <3>2. \/ Goto("abort") \/ Goto("drain")
          \/ pc' = AfterCommand /\ UNCHANGED <<snap, plan, batch>>
      BY <3>1 DEF TurnLeft
    <3> QED BY <1>1, <3>2, GotoType DEF TypeOK
  <2> QED BY <1>5, <2>1, <2>2, <2>3 DEF TypeOK, CancelTurn, faults
<1>6. CASE Stop
  <2>1. exec' \in [Calls -> TaskStates]
    BY <1>6, SignalledType DEF Stop
  <2>2. Goto("stopping") /\ "stopping" \in PCs
    BY <1>6 DEF Stop
  <2> QED BY <1>6, <2>1, <2>2, GotoType DEF TypeOK, Stop, faults
<1>7. CASE Stopped
  BY <1>7, ReceiverGoneType DEF TypeOK, Stopped, faults
<1>8. CASE Reopen
  BY <1>8 DEF TypeOK, Reopen, tools, faults
<1> QED BY <1>2, <1>3, <1>4, <1>5, <1>6, <1>7, <1>8 DEF Client

LEMMA CommitType ==
  ASSUME TypeOK, NEW next, IsState(next), Commit(next)
  PROVE  TypeOK'
<1>1. Goto("drain") /\ "drain" \in PCs
  BY DEF Commit, PCs
<1> QED BY <1>1, GotoType DEF TypeOK, Commit, tools, faults

LEMMA ActType ==
  ASSUME TypeOK, Act
  PROVE  TypeOK'
<1>1. PICK over \in {FALSE, s.anchor} : Carry(Decide(s, snap, over))
  BY DEF Act
<1> DEFINE d == Decide(s, snap, over)
<1>2. /\ d.act = "startStep" => d.purpose \in Purposes /\ d.include \in BOOLEAN
      /\ d.act = "finishTurn" => d.outcome \in Endings
  BY DecideMeans DEF TypeOK
<1>3. Carry(d) /\ IsState(s)
  BY <1>1 DEF TypeOK
<1> HIDE DEF d
<1>4. CASE InterruptStep(d)
  BY <1>3, <1>4, StepInterruptedType, CommitType DEF InterruptStep
<1>5. CASE InterruptTools(d)
  <2> DEFINE o == [c \in Lost(s, snap) |->
                     IF s.kind[c] \in Malformed THEN "failed" ELSE "interrupted"]
  <2>1. \A c \in DOMAIN o : o[c] \in Outcomes
    BY DEF Outcomes
  <2>2. Commit(ToolResults(s, o))
    BY <1>5 DEF InterruptTools
  <2> HIDE DEF o
  <2> QED BY <1>3, <2>1, <2>2, ToolResultsType, CommitType
<1>6. CASE StartTurn(d)
  BY <1>3, <1>6, TurnStartedType, CommitType DEF StartTurn
<1>7. CASE LeaveAutoWait(d)
  BY <1>3, <1>7, AutoWaitEndedType, CommitType DEF LeaveAutoWait
<1>8. CASE EndTurn(d)
  <2>1. IsState(s')
    BY <1>2, <1>3, <1>8, TurnFinishedType DEF EndTurn, Endings
  <2>2. Goto("drain") /\ "drain" \in PCs /\ last' \in {"finished", "other"}
    BY <1>8 DEF EndTurn, PCs
  <2> QED BY <1>8, <2>1, <2>2, GotoType DEF EndTurn, TypeOK, tools, faults
<1>9. CASE ReachDeadline(d)
  BY <1>3, <1>9, DeadlineReachedType, CommitType DEF ReachDeadline
<1>10. CASE GiveUpContext(d)
  <2>1. Unsettled(s) \in SUBSET Calls
    BY <1>3, Readings DEF Unsettled
  <2>2. Nothing \in [inputs : SUBSET Inputs, results : SUBSET Calls, tail : BOOLEAN]
    BY DEF Nothing
  <2>3. IsState(ContextApplied(ContextFailed(s), Unsettled(s), Nothing))
    BY <1>3, <2>1, <2>2, NotedType, ContextAppliedType
  <2> QED BY <1>10, <2>3, CommitType DEF GiveUpContext
<1>11. CASE BeginStep(d)
  <2>1. d.purpose \in Purposes /\ d.include \in BOOLEAN
    BY <1>2, <1>11 DEF BeginStep
  <2>2. CASE s.failures > 0 /\ s.failure # "overflow"
    BY <1>11, <2>1, <2>2 DEF BeginStep, TypeOK, PCs, tools, faults
  <2>3. CASE ~(s.failures > 0 /\ s.failure # "overflow")
    <3>1. IsState(s')
      BY <1>3, <1>11, <2>1, <2>3, StepStartedType DEF BeginStep
    <3>2. Goto("stream") /\ "stream" \in PCs
      BY <1>11, <2>3 DEF BeginStep, PCs
    <3> QED BY <1>11, <3>1, <3>2, GotoType DEF BeginStep, TypeOK, tools, faults
  <2> QED BY <2>2, <2>3
<1>12. CASE Park(d)
  <2>1. CASE FullyIdle
    <3>1. Goto("idle") /\ ReceiverGone /\ "idle" \in PCs
      BY <1>12, <2>1 DEF Park, PCs
    <3> QED BY <1>12, <3>1, GotoType, ReceiverGoneType DEF Park, TypeOK, faults
  <2>2. CASE ~FullyIdle
    <3>1. Goto("parked") /\ "parked" \in PCs
      BY <1>12, <2>2 DEF Park, PCs
    <3> QED BY <1>12, <2>2, <3>1, GotoType DEF Park, TypeOK, tools, faults
  <2> QED BY <2>1, <2>2
<1> QED BY <1>3, <1>4, <1>5, <1>6, <1>7, <1>8, <1>9, <1>10, <1>11, <1>12 DEF Carry

LEMMA RunnerStepType ==
  ASSUME TypeOK, RunnerStep
  PROVE  TypeOK'
<1>0. IsState(s)
  BY DEF TypeOK
<1>1. CASE AbortStep
  <2>1. IsState(s')
    BY <1>0, <1>1, StepInterruptedType DEF AbortStep
  <2>2. Goto("drain") /\ "drain" \in PCs
    BY <1>1 DEF AbortStep, PCs
  <2> QED BY <1>1, <2>1, <2>2, GotoType DEF AbortStep, TypeOK, tools, faults
<1>2. CASE Snapshot
  BY <1>2 DEF Snapshot, Live, TypeOK, PCs, tools, faults
<1>3. CASE Collected
  BY <1>3 DEF Collected, TypeOK, PCs, tools, faults
<1>4. CASE Act
  BY <1>4, ActType
<1>5. CASE RetryStep
  <2>1. Goto("stream") /\ "stream" \in PCs
    BY <1>5 DEF RetryStep, PCs
  <2>2. IsState(s')
    BY <1>0, <1>5, StepStartedType DEF RetryStep, TypeOK
  <2> QED BY <1>5, <2>1, <2>2, GotoType DEF RetryStep, TypeOK, tools, faults
<1>6. CASE AnswerToolCancel
  <2>1. PICK c \in NextCancel :
          LET left == batch.cancels \ {c}
          IN /\ s' = ToolResult(s, c, "ok")
             /\ IF left = {} THEN Goto("drain") /\ exec' = Dispatched(batch.rest)
                ELSE /\ batch' = [batch EXCEPT !.cancels = left, !.asked = FALSE]
                     /\ UNCHANGED <<pc, snap, plan, exec>>
    BY <1>6 DEF AnswerToolCancel
  <2>2. c \in Calls /\ "ok" \in Outcomes /\ "drain" \in PCs
    BY DEF NextCancel, TypeOK, Outcomes, PCs
  <2>3. IsState(s')
    BY <1>0, <2>1, <2>2, ToolResultType
  <2>4. Dispatched(batch.rest) \in [Calls -> TaskStates]
    BY DEF Dispatched, TypeOK, TaskStates
  <2>5. CASE batch.cancels \ {c} = {}
    BY <1>6, <2>1, <2>2, <2>3, <2>4, <2>5, GotoType DEF AnswerToolCancel, TypeOK, faults
  <2>6. CASE batch.cancels \ {c} # {}
    <3>1. batch' = [batch EXCEPT !.cancels = batch.cancels \ {c}, !.asked = FALSE]
          /\ UNCHANGED <<pc, snap, plan, exec>>
      BY <2>1, <2>6
    <3>2. batch' \in [cancels : SUBSET Calls, rest : SUBSET Calls, asked : BOOLEAN]
      BY <3>1 DEF TypeOK
    <3> QED BY <1>6, <2>3, <3>1, <3>2 DEF AnswerToolCancel, TypeOK, faults
  <2> QED BY <2>5, <2>6
<1>7. ASSUME NEW target \in 0..MaxCalls, RequestToolCancel(target) PROVE TypeOK'
  <2>1. IsState(s')
    BY <1>0, <1>7, ToolCancelRequestedType DEF RequestToolCancel
  <2>2. exec' \in [Calls -> TaskStates]
    BY <1>7, SignalledType DEF RequestToolCancel
  <2> QED BY <1>7, <2>1, <2>2 DEF RequestToolCancel, TypeOK, faults
<1>8. ASSUME NEW c \in Calls, TakeResult(c) PROVE TypeOK'
  <2>1. out[c] \in Outcomes \cup {"none"}
    BY DEF TypeOK
  <2>2. IsState(s')
    BY <1>0, <1>8, <2>1, ToolResultType DEF TakeResult
  <2> QED BY <1>8, <2>2 DEF TakeResult, TypeOK, PCs, faults
<1> QED BY <1>1, <1>2, <1>3, <1>4, <1>5, <1>6, <1>7, <1>8 DEF RunnerStep

LEMMA AnswerType ==
  ASSUME TypeOK, Answer
  PROVE  TypeOK'
<1>1. PICK ks \in KindSeqs, usage \in Usages :
        s.issued + Len(ks) <= MaxCalls /\ CompleteStep(ks, usage)
  BY DEF Answer
<1> DEFINE calls == NewCalls(s, Len(ks))
           cancels == {c \in calls : ks[c - s.issued] = "cancel"}
<1>2. ks \in Seq(CallKinds) /\ usage \in BOOLEAN
  <2>1. PICK n \in 0..MaxBatch : ks \in [1..n -> Kinds]
    BY DEF KindSeqs
  <2>2. ks \in Seq(Kinds) /\ Kinds \subseteq CallKinds /\ Usages \subseteq BOOLEAN
    BY <2>1, RunnerAssumption
  <2> QED BY <2>2
<1>3. IsState(s) /\ IsState(s')
  BY <1>1, <1>2, StepCompletedType DEF TypeOK, CompleteStep
<1>4. calls \subseteq Calls
  <2>1. s.issued \in 0..MaxCalls /\ Len(ks) \in Nat
    BY <1>2, <1>3, Readings
  <2> QED BY <1>1, <2>1, BoundAssumption DEF NewCalls, Calls
<1>5. Dispatched(calls) \in [Calls -> TaskStates]
  BY DEF Dispatched, TypeOK, TaskStates
<1>6. CASE cancels = {}
  <2>1. Goto("drain") /\ exec' = Dispatched(calls) /\ "drain" \in PCs
    BY <1>1, <1>6 DEF CompleteStep, PCs
  <2> QED BY <1>1, <1>3, <1>5, <2>1, GotoType DEF CompleteStep, TypeOK, faults
<1>7. CASE cancels # {}
  <2>1. /\ pc' = "control" /\ UNCHANGED <<snap, plan, exec>> /\ "control" \in PCs
        /\ batch' = [cancels |-> cancels, rest |-> calls \ cancels, asked |-> FALSE]
    BY <1>1, <1>7 DEF CompleteStep, PCs
  <2>2. cancels \subseteq Calls /\ calls \ cancels \subseteq Calls
    BY <1>4
  <2> HIDE DEF calls, cancels
  <2> QED BY <1>1, <1>3, <2>1, <2>2 DEF CompleteStep, TypeOK, faults
<1> QED BY <1>6, <1>7

Kept == [inputs : SUBSET Inputs, results : SUBSET Calls, tail : BOOLEAN]

\* What an accepted document commits, and that it commits well-typed states.
LEMMA DocumentDone ==
  ASSUME TypeOK, Document
  PROVE  \E ks \in Seq(CallKinds), usage \in BOOLEAN, kept \in Kept :
           /\ IsState(StepCompleted(s, ks, usage))
           /\ Commit(ContextApplied(StepCompleted(s, ks, usage), Unsettled(s), kept))
<1>1. Usages \subseteq BOOLEAN /\ IsState(s)
  BY RunnerAssumption DEF TypeOK
<1>2. ASSUME NEW usage \in Usages, NEW i \in SUBSET s.genInputs,
             NEW r \in SUBSET s.genResults, NEW tail \in BOOLEAN,
             Summarised(usage, [inputs |-> i, results |-> r, tail |-> tail])
      PROVE  \E kept \in Kept :
               /\ IsState(StepCompleted(s, <<>>, usage))
               /\ Commit(ContextApplied(StepCompleted(s, <<>>, usage), Unsettled(s), kept))
  <2>1. [inputs |-> i, results |-> r, tail |-> tail] \in Kept
    BY <1>1, Readings DEF Kept
  <2>2. <<>> \in Seq(CallKinds) /\ s.issued + Len(<<>>) <= MaxCalls
    BY <1>1, Readings, BoundAssumption
  <2>3. IsState(StepCompleted(s, <<>>, usage))
    BY <1>1, <2>2, StepCompletedType
  <2> QED BY <1>2, <2>1, <2>3 DEF Summarised
<1>3. ASSUME NEW usage \in Usages, HandedOff(usage)
      PROVE  \E kept \in Kept :
               /\ IsState(StepCompleted(s, <<"handoff">>, usage))
               /\ Commit(ContextApplied(StepCompleted(s, <<"handoff">>, usage),
                                        Unsettled(s), kept))
  <2>1. Nothing \in Kept
    BY DEF Nothing, Kept
  <2>2. <<"handoff">> \in Seq(CallKinds) /\ s.issued + Len(<<"handoff">>) <= MaxCalls
    <3>1. s.issued < MaxCalls /\ s.issued \in 0..MaxCalls
      BY <1>1, <1>3, Readings DEF HandedOff
    <3>2. "handoff" \in CallKinds
      BY DEF CallKinds
    <3> QED BY <3>1, <3>2, BoundAssumption
  <2>3. IsState(StepCompleted(s, <<"handoff">>, usage))
    BY <1>1, <2>2, StepCompletedType
  <2> QED BY <1>3, <2>1, <2>3 DEF HandedOff
<1>4. <<>> \in Seq(CallKinds) /\ <<"handoff">> \in Seq(CallKinds)
  BY DEF CallKinds
<1> QED BY <1>1, <1>2, <1>3, <1>4 DEF Document

LEMMA DocumentType ==
  ASSUME TypeOK, Document
  PROVE  TypeOK'
<1>1. Unsettled(s) \in SUBSET Calls
  BY Readings DEF TypeOK, Unsettled
<1>2. PICK ks \in Seq(CallKinds), usage \in BOOLEAN, kept \in Kept :
        /\ IsState(StepCompleted(s, ks, usage))
        /\ Commit(ContextApplied(StepCompleted(s, ks, usage), Unsettled(s), kept))
  BY DocumentDone
<1>3. IsState(ContextApplied(StepCompleted(s, ks, usage), Unsettled(s), kept))
  BY <1>1, <1>2, ContextAppliedType DEF Kept
<1> QED BY <1>2, <1>3, CommitType

\* What an answer that is no document commits.
LEMMA NoDocumentDone ==
  ASSUME TypeOK, NoDocument
  PROVE  \E ks \in Seq(CallKinds), usage \in BOOLEAN : \E o :
           /\ IsState(StepCompleted(s, ks, usage))
           /\ DOMAIN o \subseteq Calls /\ \A c \in DOMAIN o : o[c] \in Outcomes
           /\ \/ Commit(ContextApplied(ContextFailed(StepCompleted(s, ks, usage)),
                                       Unsettled(s), Nothing))
              \/ Commit(ToolResults(StepCompleted(s, ks, usage), o))
<1>1. PICK n \in 0..MaxBatch, usage \in Usages :
        s.issued + n <= MaxCalls /\ BadDocument(n, usage)
  BY DEF NoDocument
<1> DEFINE ks == [i \in 1..n |-> "refused"]
           o == [c \in NewCalls(s, n) |-> "failed"]
<1>2. usage \in BOOLEAN /\ IsState(s)
  BY RunnerAssumption DEF TypeOK
<1>3. ks \in Seq(CallKinds) /\ Len(ks) = n
  BY RunnerAssumption DEF CallKinds
<1>4. DOMAIN o \subseteq Calls /\ \A c \in DOMAIN o : o[c] \in Outcomes
  <2>1. s.issued \in 0..MaxCalls
    BY <1>2, Readings
  <2>2. NewCalls(s, n) \subseteq Calls
    BY <1>1, <2>1, BoundAssumption, RunnerAssumption DEF NewCalls, Calls
  <2> QED BY <2>2 DEF Outcomes
<1>5. \/ Commit(ContextApplied(ContextFailed(StepCompleted(s, ks, usage)),
                               Unsettled(s), Nothing))
      \/ Commit(ToolResults(StepCompleted(s, ks, usage), o))
  BY <1>1 DEF BadDocument
<1> HIDE DEF ks, o
<1>6. IsState(StepCompleted(s, ks, usage))
  BY <1>1, <1>2, <1>3, StepCompletedType
<1> QED BY <1>2, <1>3, <1>4, <1>5, <1>6

LEMMA NoDocumentType ==
  ASSUME TypeOK, NoDocument
  PROVE  TypeOK'
<1>0. PICK ks \in Seq(CallKinds), usage \in BOOLEAN : \E o :
        /\ IsState(StepCompleted(s, ks, usage))
        /\ \A c \in DOMAIN o : o[c] \in Outcomes
        /\ \/ Commit(ContextApplied(ContextFailed(StepCompleted(s, ks, usage)),
                                    Unsettled(s), Nothing))
           \/ Commit(ToolResults(StepCompleted(s, ks, usage), o))
  BY NoDocumentDone
<1>1. PICK o :
        /\ IsState(StepCompleted(s, ks, usage))
        /\ \A c \in DOMAIN o : o[c] \in Outcomes
        /\ \/ Commit(ContextApplied(ContextFailed(StepCompleted(s, ks, usage)),
                                    Unsettled(s), Nothing))
           \/ Commit(ToolResults(StepCompleted(s, ks, usage), o))
  BY <1>0
<1> DEFINE done == StepCompleted(s, ks, usage)
<1>2. Unsettled(s) \in SUBSET Calls /\ Nothing \in Kept
  BY Readings DEF TypeOK, Unsettled, Nothing, Kept
<1>3. IsState(done) /\ \A c \in DOMAIN o : o[c] \in Outcomes
  BY <1>1
<1> HIDE DEF done
<1>4. IsState(ContextApplied(ContextFailed(done), Unsettled(s), Nothing))
  BY <1>2, <1>3, NotedType, ContextAppliedType DEF Kept
<1>5. IsState(ToolResults(done, o))
  BY <1>3, ToolResultsType
<1> QED BY <1>1, <1>4, <1>5, CommitType DEF done

LEMMA FailureType ==
  ASSUME TypeOK, Failure
  PROVE  TypeOK'
<1>1. PICK err \in ProviderErrors, usage \in Usages : FailStep(err, usage)
  BY DEF Failure
<1>2. Usages \subseteq BOOLEAN /\ IsState(s)
  BY RunnerAssumption DEF TypeOK
<1>3. IsState(s')
  BY <1>1, <1>2, StepFailedType DEF FailStep
<1>4. Goto("drain") /\ "drain" \in PCs
  BY <1>1 DEF FailStep, PCs
<1> QED BY <1>1, <1>3, <1>4, GotoType DEF FailStep, TypeOK, tools, faults

LEMMA ToolStepType ==
  ASSUME TypeOK, ToolStep
  PROVE  TypeOK'
<1>1. ASSUME NEW c \in Calls, ToolReturns(c) PROVE TypeOK'
  <2>1. PICK o \in Returns(c) : out' = [out EXCEPT ![c] = o]
    BY <1>1 DEF ToolReturns
  <2>2. o \in Outcomes
    BY DEF Returns, Outcomes
  <2> QED BY <1>1, <2>1, <2>2 DEF ToolReturns, TypeOK, TaskStates, faults
<1>2. ASSUME NEW c \in Calls, ToolSends(c) PROVE TypeOK'
  BY <1>2 DEF ToolSends, TypeOK, TaskStates, faults
<1>3. ASSUME NEW c \in Calls, ToolLeaves(c) PROVE TypeOK'
  BY <1>3 DEF ToolLeaves, TypeOK, TaskStates, faults
<1> QED BY <1>1, <1>2, <1>3 DEF ToolStep

LEMMA ClockType ==
  ASSUME TypeOK, Clock
  PROVE  TypeOK'
<1>1. TRUE \in FieldTypes.autoDue /\ TRUE \in FieldTypes.waitDue
  BY DEF FieldTypes
<1>2. CASE AutoWaitExpires
  <2>1. IsState(s')
    BY <1>1, <1>2 DEF AutoWaitExpires, TypeOK, IsState
  <2> QED BY <1>2, <2>1 DEF AutoWaitExpires, TypeOK, tools, faults
<1>3. CASE WaitExpires
  <2>1. IsState(s')
    BY <1>1, <1>3 DEF WaitExpires, TypeOK, IsState
  <2> QED BY <1>3, <2>1 DEF WaitExpires, TypeOK, tools, faults
<1>4. CASE DeadlineWake
  <2>1. Goto("drain") /\ "drain" \in PCs
    BY <1>4 DEF DeadlineWake, PCs
  <2> QED BY <1>4, <2>1, GotoType DEF DeadlineWake, TypeOK, tools, faults
<1> QED BY <1>2, <1>3, <1>4 DEF Clock

LEMMA FaultType ==
  ASSUME TypeOK, Crash \/ RunnerFails \/ \E open \in BOOLEAN : Rebuild(open)
  PROVE  TypeOK'
<1>1. CASE Crash
  <2>1. PICK p \in {"idle", "drain"} : Goto(p)
    BY <1>1 DEF Crash
  <2>2. crashes' \in 0..MaxCrashes /\ p \in PCs /\ p # "backoff"
    BY <1>1, RunnerAssumption DEF Crash, TypeOK, PCs
  <2> QED BY <1>1, <2>1, <2>2, GotoType DEF Crash, TypeOK, TaskStates
<1>2. CASE RunnerFails
  <2>1. Goto("failed") /\ "failed" \in PCs /\ ReceiverGone
    BY <1>2 DEF RunnerFails, PCs
  <2>2. failed' \in 0..MaxFailures
    BY <1>2, RunnerAssumption DEF RunnerFails, TypeOK
  <2> QED BY <1>2, <2>1, <2>2, GotoType, ReceiverGoneType DEF RunnerFails, TypeOK
<1>3. ASSUME NEW open \in BOOLEAN, Rebuild(open) PROVE TypeOK'
  <2>1. IsState(s')
    BY <1>3, NotedType DEF Rebuild, TypeOK
  <2>2. pc' \in PCs /\ pc' # "backoff"
    BY <1>3 DEF Rebuild, PCs
  <2> QED BY <1>3, <2>1, <2>2 DEF Rebuild, TypeOK, tools, faults
<1> QED BY <1>1, <1>2, <1>3

LEMMA TypeStep ==
  ASSUME TypeOK, [Next]_vars
  PROVE  TypeOK'
<1>1. CASE UNCHANGED vars
  BY <1>1 DEF TypeOK, vars
<1>2. CASE Next
  BY <1>2, ClientType, RunnerStepType, AnswerType, DocumentType, NoDocumentType,
     FailureType, ToolStepType, ClockType, FaultType DEF Next, Provider
<1> QED BY <1>1, <1>2

LEMMA TypeInit == Init => TypeOK
<1> SUFFICES ASSUME Init PROVE TypeOK
  OBVIOUS
<1>1. PICK g \in Strategies : s = Created(g)
  BY DEF Init
<1>2. IsState(s)
  BY <1>1, CreatedType, RunnerAssumption
<1> QED BY <1>2, RunnerAssumption
        DEF Init, TypeOK, PCs, NoPlan, NoBatch, TaskStates, Outcomes

\* Every variable keeps its type, for any number of inputs, calls, crashes and
\* failures.
THEOREM TypeCorrect == Spec => []TypeOK
<1> QED BY TypeInit, TypeStep, PTL DEF Spec

-----------------------------------------------------------------------------
\* No call is declared interrupted while a result of it is on its way.

Quiet(c) == exec[c] \in {"none", "gone"}

\* What the loop has established about the calls it did not see live: their
\* tasks are over, and once the channel has been emptied it does not hold
\* their results either.
Watch ==
  /\ pc = "collect" => \A c \in Unsettled(s) \ snap : Quiet(c)
  /\ pc = "decide" => \A c \in Unsettled(s) \ snap : Quiet(c) /\ c \notin chan

\* A decision leaves the decision point.
LEMMA ActLeaves ==
  ASSUME Act
  PROVE  pc' \notin {"collect", "decide"}
<1>1. PICK over \in {FALSE, s.anchor} : Carry(Decide(s, snap, over))
  BY DEF Act
<1> DEFINE d == Decide(s, snap, over)
<1> HIDE DEF d
<1>2. Carry(d)
  BY <1>1 DEF d
<1> QED BY <1>2 DEF Carry, InterruptStep, InterruptTools, StartTurn, LeaveAutoWait,
                    EndTurn, ReachDeadline, GiveUpContext, BeginStep, Park,
                    Commit, Goto

LEMMA WatchInit == Init => Watch
  BY DEF Init, Watch

LEMMA WatchStep ==
  ASSUME TypeOK, Watch, [Next]_vars
  PROVE  Watch'
<1> DEFINE away == pc' \notin {"collect", "decide"}
<1>0. away => Watch'
  BY DEF Watch
<1>1. CASE UNCHANGED vars
  BY <1>1 DEF vars, Watch, Quiet, Unsettled
<1>2. CASE Client \/ Stop \/ Stopped \/ Reopen
  <2>1. Receiving => AfterCommand \notin {"collect", "decide"}
    BY DEF Receiving, AfterCommand
  <2>2. CancelTurn => away
    BY <2>1 DEF CancelTurn, TurnLeft, Goto
  <2> QED BY <1>0, <1>2, <2>1, <2>2
          DEF Client, Input, SetSelection, SetContext, Handled, Stop, Stopped,
              Reopen, Goto
<1>3. CASE Snapshot
  <2>1. Unsettled(s) \subseteq Calls
    BY Readings DEF Unsettled, TypeOK
  <2>2. \A c \in Calls \ Live : Quiet(c)
    BY DEF Live, Quiet, TypeOK, TaskStates
  <2>3. pc' = "collect" /\ snap' = Live /\ s' = s /\ exec' = exec
    BY <1>3 DEF Snapshot, tools
  <2> QED BY <2>1, <2>2, <2>3 DEF Watch, Quiet
<1>4. CASE Collected
  BY <1>4 DEF Collected, Watch, Quiet, Unsettled, tools
<1>5. CASE Act
  BY <1>0, <1>5, ActLeaves
<1>6. CASE AbortStep \/ RetryStep \/ AnswerToolCancel
           \/ \E target \in 0..MaxCalls : RequestToolCancel(target)
  BY <1>0, <1>6 DEF AbortStep, RetryStep, AnswerToolCancel, RequestToolCancel, Goto
<1>7. ASSUME NEW c \in Calls, TakeResult(c) PROVE Watch'
  <2>1. pc' \in {pc, "drain"} /\ pc # "decide"
    BY <1>7 DEF TakeResult
  <2>2. Unsettled(s') \subseteq Unsettled(s)
    <3>1. s' = ToolResult(s, c, out[c]) /\ IsState(s)
      BY <1>7 DEF TakeResult, TypeOK
    <3>2. s'.pending = s.pending
          /\ \A d \in Calls : s'.result[d] = "none" => s.result[d] = "none"
      BY <3>1, Readings DEF ToolResult, IsState, FieldTypes, Unsettled
    <3> QED BY <3>1, <3>2, Readings DEF Unsettled
  <2>3. snap' = snap /\ exec' = exec
    BY <1>7 DEF TakeResult
  <2> QED BY <2>1, <2>2, <2>3 DEF Watch, Quiet
<1>8. CASE Provider
  BY <1>0, <1>8 DEF Provider, Answer, CompleteStep, Document, Summarised, HandedOff,
                    NoDocument, BadDocument, Failure, FailStep, Commit, Goto
<1>9. ASSUME NEW c \in Calls, ToolReturns(c) \/ ToolSends(c) \/ ToolLeaves(c)
      PROVE  Watch'
  <2>1. ~Quiet(c) /\ UNCHANGED <<s, pc, snap>> /\ chan' \subseteq chan \cup {c}
    BY <1>9 DEF ToolReturns, ToolSends, ToolLeaves, Quiet
  <2>2. \A d \in Calls \ {c} : exec'[d] = exec[d]
    BY <1>9 DEF ToolReturns, ToolSends, ToolLeaves, TypeOK
  <2>3. Unsettled(s) \subseteq Calls /\ Unsettled(s') = Unsettled(s)
    BY <2>1, Readings DEF Unsettled, TypeOK
  <2> QED BY <2>1, <2>2, <2>3 DEF Watch, Quiet
<1>10. CASE Clock
  <2>1. CASE AutoWaitExpires \/ WaitExpires
    <3>1. s'.pending = s.pending /\ s'.result = s.result
      BY <2>1 DEF AutoWaitExpires, WaitExpires, TypeOK, IsState, FieldTypes
    <3> QED BY <2>1, <3>1
            DEF AutoWaitExpires, WaitExpires, Watch, Quiet, Unsettled, tools
  <2>2. CASE DeadlineWake
    BY <1>0, <2>2 DEF DeadlineWake, Goto
  <2> QED BY <1>10, <2>1, <2>2 DEF Clock
<1>11. CASE Crash \/ RunnerFails \/ \E open \in BOOLEAN : Rebuild(open)
  BY <1>0, <1>11 DEF Crash, RunnerFails, Rebuild, Goto
<1> QED BY <1>1, <1>2, <1>3, <1>4, <1>5, <1>6, <1>7, <1>8, <1>9, <1>10, <1>11
        DEF Next, RunnerStep, ToolStep

\* What ends a step, a turn or a wait, or begins one, leaves the results alone.
LEMMA ResultsStand ==
  ASSUME NEW st, IsState(st), NEW a, NEW b
  PROVE  /\ StepInterrupted(st, a).result = st.result
         /\ TurnStarted(st).result = st.result
         /\ AutoWaitEnded(st, a).result = st.result
         /\ TurnFinished(st, a).result = st.result
         /\ DeadlineReached(st).result = st.result
         /\ ContextFailed(st).result = st.result
         /\ ContextApplied(st, a, b).result = st.result
         /\ StepStarted(st, a, b).result = st.result
<1>1. "result" \in DOMAIN st
  BY DEF IsState, FieldTypes
<1>2. StepInterrupted(st, a).result = st.result
  BY <1>1 DEF StepInterrupted, Closed, NoStep
<1>3. TurnStarted(st).result = st.result
  BY <1>1 DEF TurnStarted, NoContext
<1>4. AutoWaitEnded(st, a).result = st.result
  BY <1>1 DEF AutoWaitEnded, NoAutoWait
<1>5. TurnFinished(st, a).result = st.result
  BY <1>1 DEF TurnFinished, TurnOver, NoAutoWait, NoStep, NoContext
<1>6. DeadlineReached(st).result = st.result /\ ContextFailed(st).result = st.result
  BY <1>1 DEF DeadlineReached, ContextFailed
<1>7. ContextApplied(st, a, b).result = st.result
  BY <1>1 DEF ContextApplied, NoAutoWait, NoStep, NoContext
<1>8. StepStarted(st, a, b).result = st.result
  BY <1>1 DEF StepStarted
<1> QED BY <1>2, <1>3, <1>4, <1>5, <1>6, <1>7, <1>8

\* Of the steps taken at the decision point only InterruptTools gives a call a
\* result, and only to calls the loop did not see live.
LEMMA OnlyTheLost ==
  ASSUME TypeOK, Watch, [Next]_vars, NEW c \in Calls,
         pc = "decide", s.result[c] = "none", s'.result[c] # "none"
  PROVE  Quiet(c) /\ c \notin chan
<1> SUFFICES c \in Unsettled(s) \ snap
  BY DEF Watch
<1>0. IsState(s)
  BY DEF TypeOK
<1>1. CASE UNCHANGED s
  BY <1>1
<1>2. CASE Act
  <2>1. PICK over \in {FALSE, s.anchor} : Carry(Decide(s, snap, over))
    BY <1>2 DEF Act
  <2> DEFINE d == Decide(s, snap, over)
  <2> HIDE DEF d
  <2>2. Carry(d)
    BY <2>1 DEF d
  <2>3. CASE InterruptTools(d)
    <3> DEFINE o == [x \in Lost(s, snap) |->
                       IF s.kind[x] \in Malformed THEN "failed" ELSE "interrupted"]
    <3>1. s' = ToolResults(s, o) /\ DOMAIN o = Lost(s, snap)
      BY <2>3 DEF InterruptTools, Commit
    <3> HIDE DEF o
    <3>2. c \in Lost(s, snap)
      <4>1. "result" \in DOMAIN s
        BY <1>0 DEF IsState, FieldTypes
      <4>2. s'.result = [x \in Calls |-> IF x \in DOMAIN o /\ s.result[x] = "none"
                                           THEN o[x] ELSE s.result[x]]
        BY <3>1, <4>1 DEF ToolResults
      <4> QED BY <3>1, <4>2
    <3> QED BY <3>2 DEF Lost
  <2>4. CASE ~InterruptTools(d)
    <3>1. s'.result = s.result
      <4>1. CASE InterruptStep(d) \/ StartTurn(d) \/ LeaveAutoWait(d)
        BY <1>0, <4>1, ResultsStand DEF InterruptStep, StartTurn, LeaveAutoWait, Commit
      <4>2. CASE EndTurn(d)
        BY <1>0, <4>2, ResultsStand DEF EndTurn, Commit
      <4>3. CASE ReachDeadline(d) \/ Park(d)
        BY <1>0, <4>3, ResultsStand DEF ReachDeadline, Park, Commit
      <4>4. CASE GiveUpContext(d)
        <5>1. IsState(ContextFailed(s))
          BY <1>0, NotedType
        <5>2. s' = ContextApplied(ContextFailed(s), Unsettled(s), Nothing)
          BY <4>4 DEF GiveUpContext, Commit
        <5> QED BY <1>0, <5>1, <5>2, ResultsStand
      <4>5. CASE BeginStep(d)
        BY <1>0, <4>5, ResultsStand DEF BeginStep
      <4> QED BY <2>2, <2>4, <4>1, <4>2, <4>3, <4>4, <4>5 DEF Carry
    <3> QED BY <3>1
  <2> QED BY <2>3, <2>4
<1>3. CASE AutoWaitExpires \/ WaitExpires
  <2>1. s'.result = s.result
    BY <1>0, <1>3 DEF AutoWaitExpires, WaitExpires, IsState, FieldTypes
  <2> QED BY <2>1
<1> QED
  <2>1. UNCHANGED s \/ Act \/ AutoWaitExpires \/ WaitExpires
    BY DEF Next, vars, Client, Input, SetSelection, CancelTurn, SetContext, Receiving,
       Stop, Stopped, Reopen, RunnerStep, AbortStep, Snapshot, Collected, RetryStep,
       AnswerToolCancel, RequestToolCancel, TakeResult, Provider, Answer, Document,
       NoDocument, Failure, CompleteStep, Summarised, HandedOff, BadDocument, FailStep,
       ToolStep, ToolReturns, ToolSends, ToolLeaves, Clock, DeadlineWake, Crash,
       RunnerFails, Rebuild
  <2> QED BY <2>1, <1>1, <1>2, <1>3

\* A call is declared interrupted only when its task has left the executor and
\* the channel does not hold its result: no interleaving of tools with the
\* loop makes the runner overwrite a real outcome.
THEOREM NeverFalselyInterrupted == Spec => NoFalseInterrupt
<1>1. Init => TypeOK /\ Watch
  BY TypeInit, WatchInit
<1>2. TypeOK /\ Watch /\ [Next]_vars => TypeOK' /\ Watch'
  BY TypeStep, WatchStep
<1>3. TypeOK /\ Watch /\ [Next]_vars =>
        [\A c \in Calls :
           pc = "decide" /\ s.result[c] = "none" /\ s'.result[c] # "none"
             => exec[c] \in {"none", "gone"} /\ c \notin chan]_vars
  BY OnlyTheLost DEF Quiet
<1> QED BY <1>1, <1>2, <1>3, PTL DEF Spec, NoFalseInterrupt

-----------------------------------------------------------------------------
\* Steps happen within turns, and a cancellation stands until its turn has
\* ended as cancelled.

SameTurn(st, next) ==
  next.on = st.on /\ next.cancel = st.cancel /\ next.outcome = st.outcome

SameWork(st, next) ==
  next.step = st.step /\ next.ctx = st.ctx /\ next.autoWait = st.autoWait

\* An event that changes neither the turn nor what is under way in it.
Aside(st, next) == SameTurn(st, next) /\ SameWork(st, next)

LEMMA AsideEvents ==
  ASSUME NEW st, IsState(st), NEW g, NEW c, NEW o, NEW same
  PROVE  /\ Aside(st, InputAppended(st)) /\ Aside(st, SelectionChanged(st, same))
         /\ Aside(st, ContextConfigured(st, g)) /\ Aside(st, ToolCancelRequested(st, c))
         /\ Aside(st, ToolResult(st, c, o)) /\ Aside(st, ToolResults(st, o))
         /\ Aside(st, DeadlineReached(st)) /\ Aside(st, ContextFailed(st))
         /\ Aside(st, RuntimeFault(st))
<1> USE DEF IsState, FieldTypes, Aside, SameTurn, SameWork
<1>1. Aside(st, InputAppended(st)) BY DEF InputAppended
<1>2. Aside(st, SelectionChanged(st, same)) BY DEF SelectionChanged
<1>3. Aside(st, ContextConfigured(st, g)) BY DEF ContextConfigured
<1>4. Aside(st, ToolCancelRequested(st, c)) BY DEF ToolCancelRequested
<1>5. Aside(st, ToolResult(st, c, o)) BY DEF ToolResult
<1>6. Aside(st, ToolResults(st, o)) BY DEF ToolResults
<1>7. Aside(st, DeadlineReached(st)) BY DEF DeadlineReached
<1>8. Aside(st, ContextFailed(st)) BY DEF ContextFailed
<1>9. Aside(st, RuntimeFault(st)) BY DEF RuntimeFault
<1> QED BY <1>1, <1>2, <1>3, <1>4, <1>5, <1>6, <1>7, <1>8, <1>9

\* The events that close a step or a wait stay within the turn.
LEMMA ClosingEvents ==
  ASSUME NEW st, IsState(st), NEW a, NEW b
  PROVE  /\ LET next == StepInterrupted(st, a) IN
              /\ SameTurn(st, next) /\ next.step = "none"
              /\ next.ctx = st.ctx /\ next.autoWait = st.autoWait
         /\ LET next == StepFailed(st, a, b) IN
              /\ SameTurn(st, next) /\ next.step = "none"
              /\ next.ctx = st.ctx /\ next.autoWait = st.autoWait
         /\ LET next == StepCompleted(st, a, b) IN
              /\ SameTurn(st, next) /\ next.step = "none" /\ next.ctx = st.ctx
         /\ LET next == AutoWaitEnded(st, a) IN
              /\ SameTurn(st, next) /\ next.step = st.step
              /\ next.ctx = st.ctx /\ next.autoWait = {}
         /\ LET next == ContextApplied(st, a, b) IN
              /\ SameTurn(st, next) /\ next.step = "none"
              /\ next.ctx = "none" /\ next.autoWait = {}
<1> USE DEF IsState, FieldTypes, SameTurn, Closed, NoStep
<1>1. LET next == StepInterrupted(st, a) IN
        /\ SameTurn(st, next) /\ next.step = "none"
        /\ next.ctx = st.ctx /\ next.autoWait = st.autoWait
  BY DEF StepInterrupted
<1>2. LET next == StepFailed(st, a, b) IN
        /\ SameTurn(st, next) /\ next.step = "none"
        /\ next.ctx = st.ctx /\ next.autoWait = st.autoWait
  BY DEF StepFailed
<1>3. LET next == StepCompleted(st, a, b) IN
        /\ SameTurn(st, next) /\ next.step = "none" /\ next.ctx = st.ctx
  BY DEF StepCompleted
<1>4. LET next == AutoWaitEnded(st, a) IN
        /\ SameTurn(st, next) /\ next.step = st.step
        /\ next.ctx = st.ctx /\ next.autoWait = {}
  BY DEF AutoWaitEnded, NoAutoWait
<1>5. LET next == ContextApplied(st, a, b) IN
        /\ SameTurn(st, next) /\ next.step = "none"
        /\ next.ctx = "none" /\ next.autoWait = {}
  BY DEF ContextApplied, NoAutoWait, NoContext
<1> QED BY <1>1, <1>2, <1>3, <1>4, <1>5

LEMMA StepOpens ==
  ASSUME NEW st, IsState(st), NEW p, NEW b
  PROVE  SameTurn(st, StepStarted(st, p, b)) /\ StepStarted(st, p, b).step = p
  BY DEF StepStarted, IsState, FieldTypes, SameTurn

LEMMA TurnOpens ==
  ASSUME NEW st, IsState(st)
  PROVE  LET next == TurnStarted(st) IN
         next.on /\ ~next.cancel /\ next.outcome = "none" /\ next.step = st.step
  BY DEF TurnStarted, NoContext, IsState, FieldTypes

LEMMA CancelAsked ==
  ASSUME NEW st, IsState(st)
  PROVE  LET next == TurnCancelRequested(st) IN
         /\ next.on = st.on /\ next.cancel = st.on /\ next.outcome = st.outcome
         /\ SameWork(st, next)
  BY DEF TurnCancelRequested, IsState, FieldTypes, SameWork

LEMMA TurnCloses ==
  ASSUME NEW st, IsState(st), NEW o
  PROVE  LET next == TurnFinished(st, o) IN
         /\ ~next.on /\ ~next.cancel /\ next.outcome = o
         /\ next.step = "none" /\ next.ctx = "none" /\ next.autoWait = {}
  BY DEF TurnFinished, TurnOver, NoAutoWait, NoStep, NoContext, IsState, FieldTypes

-----------------------------------------------------------------------------
\* What a request presupposes: its turn is active and not cancelled.
TurnInv ==
  /\ NoInvariantFailure
  /\ pc \in {"backoff", "stream"} => ~s.cancel

AtWork == {"backoff", "stream", "abort"}

LEMMA AsideStep ==
  ASSUME TurnInv, Aside(s, s'), pc' = pc \/ pc' \notin AtWork
  PROVE  TurnInv'
  BY DEF TurnInv, NoInvariantFailure, Aside, SameTurn, SameWork, AtWork

\* A step that ends what is under way leaves a turn without open work, or a
\* turn that goes on.
LEMMA ClosingStep ==
  ASSUME TurnInv, SameTurn(s, s'), s'.step = "none", pc' \notin AtWork,
         \/ s.on
         \/ s'.ctx \in {s.ctx, "none"} /\ s'.autoWait \in {s.autoWait, {}}
  PROVE  TurnInv'
  BY DEF TurnInv, NoInvariantFailure, SameTurn, AtWork

LEMMA TurnInvInit == Init => TurnInv
<1> SUFFICES ASSUME Init PROVE TurnInv
  OBVIOUS
<1>1. s.step = "none" /\ s.autoWait = {} /\ s.ctx = "none" /\ pc = "drain"
  BY DEF Init, Created
<1> QED BY <1>1 DEF TurnInv, NoInvariantFailure

LEMMA ClientTurn ==
  ASSUME TypeOK, TurnInv, Client \/ Stop \/ Stopped \/ Reopen
  PROVE  TurnInv'
<1>0. IsState(s) /\ (Receiving => AfterCommand = pc \/ AfterCommand = "drain")
  BY DEF TypeOK, Receiving, AfterCommand
<1>1. CASE Input \/ SetSelection \/ \E g \in Strategies : SetContext(g)
  <2>1. Aside(s, s')
    BY <1>0, <1>1, AsideEvents DEF Input, SetSelection, SetContext
  <2>2. pc' = pc \/ pc' = "drain"
    BY <1>0, <1>1 DEF Input, SetSelection, SetContext, Handled
  <2> QED BY <2>1, <2>2, AsideStep DEF AtWork
<1>2. CASE CancelTurn
  <2>1. s'.on = s.on /\ SameWork(s, s')
    BY <1>0, <1>2, CancelAsked DEF CancelTurn, SameWork
  <2>2. pc' \in {"drain", "abort"} /\ (pc' = "abort" => pc = "stream")
    BY <1>2 DEF CancelTurn, TurnLeft, Goto, Receiving, AfterCommand
  <2> QED BY <2>1, <2>2 DEF TurnInv, NoInvariantFailure, SameWork
<1>3. CASE Stop \/ Stopped \/ Reopen
  <2>1. s' = s /\ pc' \in {"stopping", "down", "drain"}
    BY <1>3 DEF Stop, Stopped, Reopen, Goto
  <2> QED BY <2>1, AsideStep DEF Aside, SameTurn, SameWork, AtWork
<1> QED BY <1>1, <1>2, <1>3 DEF Client

LEMMA ActTurn ==
  ASSUME TypeOK, TurnInv, Act
  PROVE  TurnInv'
<1>1. PICK over \in {FALSE, s.anchor} : Carry(Decide(s, snap, over))
  BY DEF Act
<1> DEFINE d == Decide(s, snap, over)
<1>2. /\ d.act = "startStep" => s.on /\ ~(s.on /\ s.cancel) /\ d.purpose \in Purposes
      /\ Carry(d) /\ IsState(s)
  BY <1>1, DecideMeans DEF TypeOK
<1> HIDE DEF d
<1>3. CASE InterruptStep(d)
  BY <1>2, <1>3, ClosingEvents, ClosingStep DEF InterruptStep, Commit, Goto, AtWork
<1>4. CASE InterruptTools(d) \/ ReachDeadline(d)
  <2>1. Aside(s, s') /\ pc' = "drain"
    BY <1>2, <1>4, AsideEvents DEF InterruptTools, ReachDeadline, Commit, Goto
  <2> QED BY <2>1, AsideStep DEF AtWork
<1>5. CASE StartTurn(d)
  <2>1. s'.on /\ pc' = "drain"
    BY <1>2, <1>5, TurnOpens DEF StartTurn, Commit, Goto
  <2> QED BY <2>1 DEF TurnInv, NoInvariantFailure
<1>6. CASE LeaveAutoWait(d)
  <2>1. /\ SameTurn(s, s') /\ s'.step = s.step /\ s'.ctx = s.ctx
        /\ s'.autoWait = {} /\ pc' = "drain"
    BY <1>2, <1>6, ClosingEvents DEF LeaveAutoWait, Commit, Goto
  <2> QED BY <2>1 DEF TurnInv, NoInvariantFailure, SameTurn
<1>7. CASE EndTurn(d)
  <2>1. s'.step = "none" /\ s'.ctx = "none" /\ s'.autoWait = {} /\ pc' = "drain"
    <3>1. PICK o : s' = TurnFinished(s, o) /\ pc' = "drain"
      BY <1>7 DEF EndTurn, Goto
    <3> QED BY <1>2, <3>1, TurnCloses
  <2> QED BY <2>1 DEF TurnInv, NoInvariantFailure
<1>8. CASE GiveUpContext(d)
  <2>1. IsState(ContextFailed(s)) /\ Aside(s, ContextFailed(s))
    BY <1>2, NotedType, AsideEvents
  <2>2. /\ SameTurn(s, s') /\ s'.step = "none" /\ s'.ctx = "none"
        /\ s'.autoWait = {} /\ pc' = "drain"
    BY <1>8, <2>1, ClosingEvents
       DEF GiveUpContext, Commit, Goto, Aside, SameTurn
  <2> QED BY <2>2, ClosingStep DEF AtWork
<1>9. CASE BeginStep(d)
  <2>1. s.on /\ ~s.cancel /\ d.purpose \in Purposes
    BY <1>2, <1>9 DEF BeginStep
  <2>2. CASE s.failures > 0 /\ s.failure # "overflow"
    BY <1>9, <2>1, <2>2 DEF BeginStep, TurnInv, NoInvariantFailure
  <2>3. CASE ~(s.failures > 0 /\ s.failure # "overflow")
    <3>1. SameTurn(s, s') /\ s'.step = d.purpose /\ pc' = "stream"
      <4>1. s' = StepStarted(s, d.purpose, d.include) /\ pc' = "stream"
        BY <1>9, <2>3 DEF BeginStep, Goto
      <4> QED BY <1>2, <4>1, StepOpens
    <3> QED BY <2>1, <3>1 DEF TurnInv, NoInvariantFailure, SameTurn, Purposes
  <2> QED BY <2>2, <2>3
<1>10. CASE Park(d)
  <2>1. s' = s /\ pc' \in {"idle", "parked"}
    BY <1>10 DEF Park, Goto
  <2> QED BY <2>1, AsideStep DEF Aside, SameTurn, SameWork, AtWork
<1> QED BY <1>2, <1>3, <1>4, <1>5, <1>6, <1>7, <1>8, <1>9, <1>10 DEF Carry

\* Every outcome of a request closes its step within the turn.
LEMMA ProviderCloses ==
  ASSUME TypeOK, TurnInv, Provider
  PROVE  s.on /\ SameTurn(s, s') /\ s'.step = "none" /\ pc' \notin AtWork
<1>0. IsState(s) /\ pc = "stream" /\ s.on
  BY DEF Provider, Answer, CompleteStep, Document, Summarised, HandedOff, NoDocument,
         BadDocument, Failure, FailStep, TypeOK, TurnInv, NoInvariantFailure
<1>1. CASE Answer
  <2>1. PICK ks \in KindSeqs, usage \in Usages : CompleteStep(ks, usage)
    BY <1>1 DEF Answer
  <2>2. SameTurn(s, s') /\ s'.step = "none"
    BY <1>0, <2>1, ClosingEvents DEF CompleteStep
  <2>3. pc' \in {"drain", "control"}
    BY <2>1 DEF CompleteStep, Goto
  <2> QED BY <1>0, <2>2, <2>3 DEF AtWork
<1>2. CASE Document
  <2>1. PICK ks \in Seq(CallKinds), usage \in BOOLEAN, kept \in Kept :
          /\ IsState(StepCompleted(s, ks, usage))
          /\ Commit(ContextApplied(StepCompleted(s, ks, usage), Unsettled(s), kept))
    BY <1>2, DocumentDone
  <2>2. SameTurn(s, StepCompleted(s, ks, usage))
    BY <1>0, ClosingEvents
  <2>3. s' = ContextApplied(StepCompleted(s, ks, usage), Unsettled(s), kept)
        /\ pc' = "drain"
    BY <2>1 DEF Commit, Goto
  <2>4. SameTurn(s, s') /\ s'.step = "none"
    BY <2>1, <2>2, <2>3, ClosingEvents DEF SameTurn
  <2> QED BY <1>0, <2>3, <2>4 DEF AtWork
<1>3. CASE NoDocument
  <2>0. PICK ks \in Seq(CallKinds), usage \in BOOLEAN : \E o :
          /\ IsState(StepCompleted(s, ks, usage))
          /\ \/ Commit(ContextApplied(ContextFailed(StepCompleted(s, ks, usage)),
                                      Unsettled(s), Nothing))
             \/ Commit(ToolResults(StepCompleted(s, ks, usage), o))
    BY <1>3, NoDocumentDone
  <2>1. PICK o :
          /\ IsState(StepCompleted(s, ks, usage))
          /\ \/ Commit(ContextApplied(ContextFailed(StepCompleted(s, ks, usage)),
                                      Unsettled(s), Nothing))
             \/ Commit(ToolResults(StepCompleted(s, ks, usage), o))
    BY <2>0
  <2> DEFINE done == StepCompleted(s, ks, usage)
  <2>2. SameTurn(s, done) /\ done.step = "none" /\ pc' = "drain" /\ IsState(done)
    BY <1>0, <2>1, ClosingEvents DEF Commit, Goto
  <2>3. \/ s' = ContextApplied(ContextFailed(done), Unsettled(s), Nothing)
        \/ s' = ToolResults(done, o)
    BY <2>1 DEF Commit
  <2> HIDE DEF done
  <2>4. SameTurn(done, ContextFailed(done)) /\ IsState(ContextFailed(done))
    BY <2>2, AsideEvents, NotedType DEF Aside
  <2>5. SameTurn(s, s') /\ s'.step = "none"
    <3>1. CASE s' = ContextApplied(ContextFailed(done), Unsettled(s), Nothing)
      BY <2>2, <2>4, <3>1, ClosingEvents DEF SameTurn
    <3>2. CASE s' = ToolResults(done, o)
      BY <2>2, <3>2, AsideEvents DEF Aside, SameTurn, SameWork
    <3> QED BY <2>3, <3>1, <3>2
  <2> QED BY <1>0, <2>2, <2>5 DEF AtWork
<1>4. CASE Failure
  <2>1. PICK err \in ProviderErrors, usage \in Usages : FailStep(err, usage)
    BY <1>4 DEF Failure
  <2>2. SameTurn(s, s') /\ s'.step = "none" /\ pc' = "drain"
    BY <1>0, <2>1, ClosingEvents DEF FailStep, Goto
  <2> QED BY <1>0, <2>2 DEF AtWork
<1> QED BY <1>1, <1>2, <1>3, <1>4 DEF Provider

LEMMA ProviderTurn ==
  ASSUME TypeOK, TurnInv, Provider
  PROVE  TurnInv'
  BY ProviderCloses, ClosingStep

LEMMA RunnerTurn ==
  ASSUME TypeOK, TurnInv, RunnerStep
  PROVE  TurnInv'
<1>0. IsState(s)
  BY DEF TypeOK
<1>1. CASE AbortStep
  <2>1. s.on /\ SameTurn(s, s') /\ s'.step = "none" /\ pc' = "drain"
    BY <1>0, <1>1, ClosingEvents DEF AbortStep, Goto, TurnInv, NoInvariantFailure
  <2> QED BY <2>1, ClosingStep DEF AtWork
<1>2. CASE Snapshot \/ Collected
  <2>1. s' = s /\ pc' \in {"collect", "decide"}
    BY <1>2 DEF Snapshot, Collected
  <2> QED BY <2>1, AsideStep DEF Aside, SameTurn, SameWork, AtWork
<1>3. CASE Act
  BY <1>3, ActTurn
<1>4. CASE RetryStep
  <2>1. s.on /\ ~s.cancel /\ plan.purpose \in Purposes
    BY <1>4 DEF RetryStep, TypeOK, TurnInv, NoInvariantFailure
  <2>2. s' = StepStarted(s, plan.purpose, plan.include) /\ pc' = "stream"
    BY <1>4 DEF RetryStep, Goto
  <2>3. SameTurn(s, s') /\ s'.step = plan.purpose
    BY <1>0, <2>2, StepOpens
  <2> QED BY <2>1, <2>2, <2>3 DEF TurnInv, NoInvariantFailure, SameTurn, Purposes
<1>5. CASE AnswerToolCancel
  <2>1. Aside(s, s')
    BY <1>0, <1>5, AsideEvents DEF AnswerToolCancel
  <2>2. pc' = pc \/ pc' = "drain"
    BY <1>5 DEF AnswerToolCancel, Goto
  <2> QED BY <2>1, <2>2, AsideStep DEF AtWork
<1>6. CASE \E target \in 0..MaxCalls : RequestToolCancel(target)
  <2>1. Aside(s, s') /\ pc' = pc
    BY <1>0, <1>6, AsideEvents DEF RequestToolCancel
  <2> QED BY <2>1, AsideStep
<1>7. CASE \E c \in Calls : TakeResult(c)
  <2>1. Aside(s, s')
    BY <1>0, <1>7, AsideEvents DEF TakeResult
  <2>2. pc' = pc \/ pc' = "drain"
    BY <1>7 DEF TakeResult
  <2> QED BY <2>1, <2>2, AsideStep DEF AtWork
<1> QED BY <1>1, <1>2, <1>3, <1>4, <1>5, <1>6, <1>7 DEF RunnerStep

LEMMA OtherTurn ==
  ASSUME TypeOK, TurnInv,
         ToolStep \/ Clock \/ Crash \/ RunnerFails \/ \E open \in BOOLEAN : Rebuild(open)
  PROVE  TurnInv'
<1>0. IsState(s)
  BY DEF TypeOK
<1>1. CASE ToolStep
  <2>1. s' = s /\ pc' = pc
    BY <1>1 DEF ToolStep, ToolReturns, ToolSends, ToolLeaves
  <2> QED BY <2>1, AsideStep DEF Aside, SameTurn, SameWork
<1>2. CASE AutoWaitExpires \/ WaitExpires
  <2>1. Aside(s, s') /\ pc' = pc
    BY <1>0, <1>2 DEF AutoWaitExpires, WaitExpires, IsState, FieldTypes, Aside,
                      SameTurn, SameWork
  <2> QED BY <2>1, AsideStep
<1>3. CASE DeadlineWake \/ Crash \/ RunnerFails
  <2>1. s' = s /\ pc' \in {"drain", "failed", "idle"}
    BY <1>3 DEF DeadlineWake, Crash, RunnerFails, Goto
  <2> QED BY <2>1, AsideStep DEF Aside, SameTurn, SameWork, AtWork
<1>4. CASE \E open \in BOOLEAN : Rebuild(open)
  <2>1. Aside(s, s') /\ pc' \in {"circuitOpen", "drain"}
    BY <1>0, <1>4, AsideEvents DEF Rebuild
  <2> QED BY <2>1, AsideStep DEF AtWork
<1> QED BY <1>1, <1>2, <1>3, <1>4 DEF Clock

LEMMA TurnInvStep ==
  ASSUME TypeOK, TurnInv, [Next]_vars
  PROVE  TurnInv'
<1>1. CASE UNCHANGED vars
  BY <1>1, AsideStep DEF vars, Aside, SameTurn, SameWork
<1>2. CASE Next
  BY <1>2, ClientTurn, RunnerTurn, ProviderTurn, OtherTurn DEF Next
<1> QED BY <1>1, <1>2

\* The runner's own invariant failures are unreachable, whatever clients, tools,
\* the provider and faults do.
THEOREM InvariantsNeverFail == Spec => []NoInvariantFailure
<1>1. Init => TypeOK /\ TurnInv
  BY TypeInit, TurnInvInit
<1>2. TypeOK /\ TurnInv /\ [Next]_vars => TypeOK' /\ TurnInv'
  BY TypeStep, TurnInvStep
<1>3. TurnInv => NoInvariantFailure
  BY DEF TurnInv
<1> QED BY <1>1, <1>2, <1>3, PTL DEF Spec

-----------------------------------------------------------------------------
\* A step that neither opens nor ends a turn, takes no cancellation back, and
\* opens no request in a cancelled turn.
Steady ==
  /\ s'.on = s.on /\ s'.outcome = s.outcome
  /\ s.cancel => s'.cancel /\ s'.step \in {s.step, "none"}

LEMMA WithinTurn ==
  ASSUME SameTurn(s, s'), s'.step \in {s.step, "none"}
  PROVE  Steady
  BY DEF SameTurn, Steady

LEMMA SteadyAside ==
  ASSUME Aside(s, s')
  PROVE  Steady
  BY WithinTurn DEF Aside, SameWork

\* Only decisions open and end turns.
LEMMA SteadyOutsideDecisions ==
  ASSUME TypeOK, TurnInv, [Next]_vars, ~Act
  PROVE  Steady
<1>0. IsState(s)
  BY DEF TypeOK
<1>1. CASE UNCHANGED s
  BY <1>1, SteadyAside DEF Aside, SameTurn, SameWork
<1>2. CASE Input \/ SetSelection \/ \E g \in Strategies : SetContext(g)
  <2>1. Aside(s, s')
    BY <1>0, <1>2, AsideEvents DEF Input, SetSelection, SetContext
  <2> QED BY <2>1, SteadyAside
<1>3. CASE CancelTurn
  BY <1>0, <1>1, <1>3, CancelAsked DEF CancelTurn, Steady, SameWork
<1>4. CASE Provider
  BY <1>4, ProviderCloses, WithinTurn
<1>5. CASE AbortStep
  <2>1. SameTurn(s, s') /\ s'.step = "none"
    BY <1>0, <1>5, ClosingEvents DEF AbortStep
  <2> QED BY <2>1, WithinTurn
<1>6. CASE RetryStep
  <2>1. ~s.cancel
    BY <1>6 DEF RetryStep, TurnInv
  <2>2. SameTurn(s, s')
    BY <1>0, <1>6, StepOpens DEF RetryStep
  <2> QED BY <2>1, <2>2 DEF SameTurn, Steady
<1>7. CASE AnswerToolCancel
  BY <1>0, <1>7, AsideEvents, SteadyAside DEF AnswerToolCancel
<1>8. ASSUME NEW target \in 0..MaxCalls, RequestToolCancel(target) PROVE Steady
  BY <1>0, <1>8, AsideEvents, SteadyAside DEF RequestToolCancel
<1>9. ASSUME NEW c \in Calls, TakeResult(c) PROVE Steady
  BY <1>0, <1>9, AsideEvents, SteadyAside DEF TakeResult
<1>10. CASE AutoWaitExpires \/ WaitExpires
  <2>1. Aside(s, s')
    BY <1>0, <1>10 DEF AutoWaitExpires, WaitExpires, IsState, FieldTypes, Aside,
                      SameTurn, SameWork
  <2> QED BY <2>1, SteadyAside
<1>11. CASE \E open \in BOOLEAN : Rebuild(open)
  BY <1>0, <1>11, AsideEvents, SteadyAside DEF Rebuild
<1>12. CASE \/ Stop \/ Stopped \/ Reopen \/ Snapshot \/ Collected
            \/ ToolStep \/ DeadlineWake \/ Crash \/ RunnerFails
  <2>1. UNCHANGED s
    BY <1>12 DEF Stop, Stopped, Reopen, Snapshot, Collected, ToolStep, ToolReturns,
                 ToolSends, ToolLeaves, DeadlineWake, Crash, RunnerFails
  <2> QED BY <1>1, <2>1
<1>13. CASE UNCHANGED vars
  BY <1>1, <1>13 DEF vars
<1> QED BY <1>2, <1>3, <1>4, <1>5, <1>6, <1>7, <1>8, <1>9, <1>10, <1>11, <1>12, <1>13
        DEF Next, Client, RunnerStep, Clock

\* What a cancelled turn does at the decision point.
LEMMA CancelStandsStep ==
  ASSUME TypeOK, TurnInv, [Next]_vars, s.on, s.cancel
  PROVE  /\ s'.on => s'.cancel /\ s'.step \in {s.step, "none"}
         /\ ~s'.on => s'.outcome = "cancelled"
<1>0. IsState(s)
  BY DEF TypeOK
<1>1. CASE ~Act
  BY <1>1, SteadyOutsideDecisions DEF Steady
<1>2. CASE Act
  <2>1. PICK over \in {FALSE, s.anchor} : Carry(Decide(s, snap, over))
    BY <1>2 DEF Act
  <2> DEFINE d == Decide(s, snap, over)
  <2>2. /\ Carry(d)
        /\ \/ d.act \in {"interruptStep", "interruptTools"}
           \/ d.act = "finishTurn" /\ d.outcome = "cancelled"
    BY <1>0, <2>1, DecideMeans
  <2> HIDE DEF d
  <2>3. \/ InterruptStep(d) \/ InterruptTools(d)
        \/ EndTurn(d) /\ d.outcome = "cancelled"
    BY <2>2 DEF Carry, InterruptStep, InterruptTools, StartTurn, LeaveAutoWait,
                EndTurn, ReachDeadline, GiveUpContext, BeginStep, Park
  <2>4. CASE InterruptStep(d)
    <3>1. SameTurn(s, s') /\ s'.step = "none"
      BY <1>0, <2>4, ClosingEvents DEF InterruptStep, Commit
    <3> QED BY <3>1, WithinTurn DEF Steady
  <2>5. CASE InterruptTools(d)
    <3>1. Steady
      BY <1>0, <2>5, AsideEvents, SteadyAside DEF InterruptTools, Commit
    <3> QED BY <3>1 DEF Steady
  <2>6. CASE EndTurn(d) /\ d.outcome = "cancelled"
    <3>1. PICK o : s' = TurnFinished(s, o) /\ o = "cancelled"
      BY <2>6 DEF EndTurn
    <3> QED BY <1>0, <3>1, TurnCloses
  <2> QED BY <2>3, <2>4, <2>5, <2>6
<1> QED BY <1>1, <1>2

\* Turns open at the decision point only, and there only what wakes an idle
\* session opens one.
LEMMA TurnOpensStep ==
  ASSUME TypeOK, TurnInv, [Next]_vars, ~s.on, s'.on
  PROVE  Wakes(s)
<1>0. IsState(s)
  BY DEF TypeOK
<1>1. Act
  BY SteadyOutsideDecisions DEF Steady
<1>2. PICK over \in {FALSE, s.anchor} : Carry(Decide(s, snap, over))
  BY <1>1 DEF Act
<1> DEFINE d == Decide(s, snap, over)
<1>3. Carry(d) /\ (d.act = "startTurn" => Wakes(s)) /\ (d.act = "startStep" => s.on)
      /\ (d.act = "finishTurn" => s.on)
  BY <1>0, <1>2, DecideMeans
<1> HIDE DEF d
<1>4. CASE InterruptStep(d)
  <2>1. s' = StepInterrupted(s, "recovery")
    BY <1>4 DEF InterruptStep, Commit
  <2>2. SameTurn(s, s')
    BY <1>0, <2>1, ClosingEvents
  <2> QED BY <2>2 DEF SameTurn
<1>5. CASE InterruptTools(d) \/ ReachDeadline(d)
  BY <1>0, <1>5, AsideEvents DEF InterruptTools, ReachDeadline, Commit, Aside, SameTurn
<1>6. CASE LeaveAutoWait(d)
  <2>1. s' = AutoWaitEnded(s, d.reason)
    BY <1>6 DEF LeaveAutoWait, Commit
  <2>2. SameTurn(s, s')
    BY <1>0, <2>1, ClosingEvents
  <2> QED BY <2>2 DEF SameTurn
<1>7. CASE GiveUpContext(d)
  <2>1. IsState(ContextFailed(s)) /\ Aside(s, ContextFailed(s))
    BY <1>0, NotedType, AsideEvents
  <2> QED BY <1>7, <2>1, ClosingEvents DEF GiveUpContext, Commit, Aside, SameTurn
<1>8. CASE StartTurn(d) \/ EndTurn(d) \/ BeginStep(d)
  BY <1>3, <1>8 DEF StartTurn, EndTurn, BeginStep
<1>9. CASE Park(d)
  BY <1>9 DEF Park
<1> QED BY <1>3, <1>4, <1>5, <1>6, <1>7, <1>8, <1>9 DEF Carry

\* A durable cancellation is final: no step of any part of the system takes it
\* back, starts a request under it, or ends its turn as anything but cancelled.
THEOREM CancellationStands == Spec => CancelStands
<1>1. Init => TypeOK /\ TurnInv
  BY TypeInit, TurnInvInit
<1>2. TypeOK /\ TurnInv /\ [Next]_vars => TypeOK' /\ TurnInv'
  BY TypeStep, TurnInvStep
<1>3. TypeOK /\ TurnInv /\ [Next]_vars =>
        [s.on /\ s.cancel =>
           /\ s'.on => s'.cancel /\ s'.step \in {s.step, "none"}
           /\ ~s'.on => s'.outcome = "cancelled"]_vars
  BY CancelStandsStep
<1> QED BY <1>1, <1>2, <1>3, PTL DEF Spec, CancelStands

\* Results that come in after a cancellation never start a turn by themselves; what
\* the fold reports of the result of an unregistered tool is a notice, and may.
THEOREM LateResultsWait == Spec => CancelledResultsWait
<1>1. Init => TypeOK /\ TurnInv
  BY TypeInit, TurnInvInit
<1>2. TypeOK /\ TurnInv /\ [Next]_vars => TypeOK' /\ TurnInv'
  BY TypeStep, TurnInvStep
<1>3. TypeOK /\ TurnInv /\ [Next]_vars =>
        [~s.on /\ s.outcome = "cancelled" /\ s'.on
           => s.inputs # {} \/ s.notices # {}]_vars
  BY TurnOpensStep DEF Wakes
<1> QED BY <1>1, <1>2, <1>3, PTL DEF Spec, CancelledResultsWait

(***************************************************************************)
(* The calls of a session.  First the books the runner keeps of them:      *)
(* which are pending and which the transcript answers, so that every       *)
(* request on it is whole.  Then the tasks it has given away: where the    *)
(* result of each call is, so that no event surprises the fold, and a      *)
(* runner at rest has nothing left to do.                                  *)
(***************************************************************************)

\* Every call in the books has been issued, and no other has a result.
Known(st) ==
  /\ st.pending \cup st.open \cup st.sent \cup st.ctl \subseteq 1..st.issued
  /\ \A c \in Calls : st.result[c] # "none" => c <= st.issued

\* A pending call is marked exactly when the transcript answers it.
Marked(st) == \A c \in st.pending : c \in st.sent <=> c \notin st.open

\* An open call that is not pending was dropped with the turn it ended.
Closable(st) == \A c \in st.open \ st.pending : st.kind[c] \in EndKinds

\* A step belongs to the context operation under way, if one is.
Sense(st) ==
  /\ st.ctx # "conversation"
  /\ st.step = "conversation" => st.ctx = "none"
  /\ IsContext(st.step) => st.ctx = st.step

\* The calls that still want an answer: none while a request is out, and while
\* a context operation is under way only those of its own last answer.
Owed(st) == st.open \cap st.pending
AnswersOwed(st) ==
  /\ st.step # "none" => Owed(st) = {}
  /\ st.ctx # "none" => Owed(st) \subseteq st.ctl
  /\ st.ctx = "compaction" => Owed(st) = {}

Paired(st) ==
  Known(st) /\ Marked(st) /\ Closable(st) /\ Sense(st) /\ AnswersOwed(st)

SameBooks(st, next) ==
  /\ next.pending = st.pending /\ next.sent = st.sent /\ next.open = st.open
  /\ next.issued = st.issued /\ next.kind = st.kind /\ next.ctl = st.ctl

LEMMA Ledger ==
  ASSUME NEW st, IsState(st)
  PROVE  /\ st.pending \subseteq Calls /\ st.open \subseteq Calls
         /\ st.sent \subseteq Calls /\ st.ctl \subseteq Calls
         /\ st.genResults \subseteq Calls /\ st.issued \in 0..MaxCalls
         /\ st.kind \in [Calls -> CallKinds \cup {"none"}]
         /\ st.result \in [Calls -> Outcomes \cup {"none"}]
         /\ st.notices \subseteq {"info", "anomaly", "unknown", "stray"}
<1>1. /\ {"pending", "open", "sent", "ctl", "genResults", "issued", "kind", "result",
          "notices"} \subseteq DOMAIN FieldTypes
      /\ FieldTypes.pending = SUBSET Calls /\ FieldTypes.open = SUBSET Calls
      /\ FieldTypes.sent = SUBSET Calls /\ FieldTypes.ctl = SUBSET Calls
      /\ FieldTypes.genResults = SUBSET Calls /\ FieldTypes.issued = 0..MaxCalls
      /\ FieldTypes.kind = [Calls -> CallKinds \cup {"none"}]
      /\ FieldTypes.result = [Calls -> Outcomes \cup {"none"}]
      /\ FieldTypes.notices = SUBSET {"info", "anomaly", "unknown", "stray"}
  BY DEF FieldTypes
<1> QED BY <1>1 DEF IsState

\* An event that leaves the books alone, except that it may close the step or
\* give results to issued calls, keeps them right.
LEMMA PairedKept ==
  ASSUME NEW st, NEW next, Paired(st), SameBooks(st, next),
         next.ctx = st.ctx, next.step = st.step \/ next.step = "none",
         \A c \in Calls : next.result[c] # "none" => c <= st.issued
  PROVE  Paired(next)
<1>1. Known(next) /\ Marked(next) /\ Closable(next)
  BY DEF Paired, SameBooks, Known, Marked, Closable
<1>2. Sense(next) /\ AnswersOwed(next)
  BY DEF Paired, SameBooks, Sense, AnswersOwed, Owed, IsContext
<1> QED BY <1>1, <1>2 DEF Paired

\* The events that write neither a book nor a result.
LEMMA BookAside ==
  ASSUME NEW st, IsState(st), NEW g, NEW c, NEW same, NEW a, NEW b
  PROVE  LET Leaves(next) == SameBooks(st, next) /\ next.result = st.result IN
         /\ Leaves(InputAppended(st)) /\ Leaves(SelectionChanged(st, same))
         /\ Leaves(ContextConfigured(st, g)) /\ Leaves(ToolCancelRequested(st, c))
         /\ Leaves(DeadlineReached(st)) /\ Leaves(ContextFailed(st))
         /\ Leaves(RuntimeFault(st)) /\ Leaves(TurnCancelRequested(st))
         /\ Leaves(AutoWaitEnded(st, a)) /\ Leaves(StepInterrupted(st, a))
         /\ Leaves(StepFailed(st, a, b))
<1> DEFINE Leaves(next) == SameBooks(st, next) /\ next.result = st.result
<1> USE DEF IsState, FieldTypes, SameBooks
<1>1. Leaves(InputAppended(st)) /\ Leaves(SelectionChanged(st, same))
  BY DEF InputAppended, SelectionChanged
<1>2. Leaves(ContextConfigured(st, g)) /\ Leaves(ToolCancelRequested(st, c))
  BY DEF ContextConfigured, ToolCancelRequested
<1>3. Leaves(DeadlineReached(st)) /\ Leaves(ContextFailed(st))
  BY DEF DeadlineReached, ContextFailed
<1>4. Leaves(RuntimeFault(st)) /\ Leaves(TurnCancelRequested(st))
  BY DEF RuntimeFault, TurnCancelRequested
<1>5. Leaves(AutoWaitEnded(st, a)) /\ Leaves(StepInterrupted(st, a))
  BY DEF AutoWaitEnded, NoAutoWait, StepInterrupted, Closed, NoStep
<1>6. Leaves(StepFailed(st, a, b))
  BY DEF StepFailed, Closed, NoStep
<1> QED BY <1>1, <1>2, <1>3, <1>4, <1>5, <1>6

\* The events that only give results.
LEMMA BookResults ==
  ASSUME NEW st, IsState(st), NEW c, NEW o
  PROVE  /\ SameBooks(st, ToolResult(st, c, o)) /\ SameBooks(st, ToolResults(st, o))
         /\ \A d \in Calls :
              /\ ToolResult(st, c, o).result[d]
                   = IF d = c /\ c \in Unsettled(st) THEN o ELSE st.result[d]
              /\ ToolResults(st, o).result[d]
                   = IF d \in DOMAIN o /\ st.result[d] = "none" THEN o[d] ELSE st.result[d]
<1>1. SameBooks(st, ToolResult(st, c, o)) /\ SameBooks(st, ToolResults(st, o))
  BY DEF ToolResult, ToolResults, IsState, FieldTypes, SameBooks
<1>2. ASSUME NEW d \in Calls
      PROVE  ToolResult(st, c, o).result[d]
               = IF d = c /\ c \in Unsettled(st) THEN o ELSE st.result[d]
  <2>1. ToolResult(st, c, o).result
          = [st.result EXCEPT ![c] = IF c \in Unsettled(st) THEN o ELSE @]
    BY DEF ToolResult, IsState, FieldTypes
  <2> QED BY <2>1, Ledger DEF Unsettled
<1>3. ASSUME NEW d \in Calls
      PROVE  ToolResults(st, o).result[d]
               = IF d \in DOMAIN o /\ st.result[d] = "none" THEN o[d] ELSE st.result[d]
  BY DEF ToolResults, IsState, FieldTypes
<1> QED BY <1>1, <1>2, <1>3


LEMMA TurnStartedPaired ==
  ASSUME NEW st, IsState(st), Paired(st), st.step = "none"
  PROVE  Paired(TurnStarted(st))
<1> DEFINE next == TurnStarted(st)
<1>1. /\ next.pending = st.pending /\ next.sent = st.sent /\ next.open = st.open
      /\ next.issued = st.issued /\ next.kind = st.kind /\ next.result = st.result
      /\ next.ctl = {} /\ next.ctx = "none" /\ next.step = "none"
  BY DEF TurnStarted, NoContext, IsState, FieldTypes
<1> HIDE DEF next
<1>2. Known(next) /\ Marked(next) /\ Closable(next)
  BY <1>1 DEF Paired, Known, Marked, Closable
<1> QED BY <1>1, <1>2 DEF Paired, Sense, AnswersOwed, IsContext, next

\* What a turn leaves behind when it ends.
LEMMA TurnFinishedBooks ==
  ASSUME NEW st, IsState(st), NEW o
  PROVE  LET next == TurnFinished(st, o) IN
         /\ next.pending = Survives(st) /\ next.sent = st.sent \cap Survives(st)
         /\ next.open = st.open /\ next.issued = st.issued /\ next.kind = st.kind
         /\ next.result = st.result /\ next.ctl = {} /\ next.ctx = "none"
         /\ next.step = "none" /\ next.notices = st.notices
         /\ next.genResults = st.genResults
  BY DEF TurnFinished, TurnOver, NoAutoWait, NoStep, NoContext, IsState, FieldTypes

LEMMA TurnFinishedPaired ==
  ASSUME NEW st, IsState(st), Paired(st), NEW o
  PROVE  Paired(TurnFinished(st, o))
<1> DEFINE next == TurnFinished(st, o)
<1>1. /\ next.pending = Survives(st) /\ next.sent = st.sent \cap Survives(st)
      /\ next.open = st.open /\ next.issued = st.issued /\ next.kind = st.kind
      /\ next.result = st.result /\ next.ctl = {} /\ next.ctx = "none"
      /\ next.step = "none"
  BY TurnFinishedBooks
<1>2. Survives(st) \subseteq st.pending
      /\ \A c \in st.pending \ Survives(st) : st.kind[c] \in EndKinds
  BY DEF Survives
<1> HIDE DEF next
<1>3. Known(next) /\ Marked(next) /\ Closable(next)
  BY <1>1, <1>2 DEF Paired, Known, Marked, Closable
<1> QED BY <1>1, <1>3 DEF Paired, Sense, AnswersOwed, IsContext, next

\* What a request must be given: all that is still open if it is to continue
\* the transcript of a context operation, and whatever is unanswered otherwise.
Entitled(st, p, b) ==
  /\ p \in Purposes /\ (b \/ Fresh(st) = {})
  /\ st.ctx # "none" => p = st.ctx /\ b

\* Whether a request opens a context operation, and the results it tells.
Opens(st, p) == IsContext(p) /\ st.ctx = "none"
Told(st, p, b) == Deliveries(st, p, b) \cap Settled(st)

\* What the books hold once a request has been sent.
LEMMA StepStartedBooks ==
  ASSUME NEW st, IsState(st), NEW p, NEW b,
         NEW next, next = StepStarted(st, p, b), NEW given, given = Deliveries(st, p, b),
         NEW told, told = Told(st, p, b)
  PROVE  /\ next.pending = st.pending \ (IF Opens(st, p) THEN {} ELSE told)
         /\ next.sent = (st.sent \cup given) \cap next.pending
         /\ next.open = st.open \ (given \ st.sent)
         /\ next.issued = st.issued /\ next.kind = st.kind
         /\ next.result = st.result /\ next.step = p
         /\ next.ctx = (IF Opens(st, p) THEN p ELSE st.ctx)
         /\ next.ctl = (IF Opens(st, p) THEN {} ELSE st.ctl)
         /\ next.genResults = st.genResults \cup told
         /\ st.step = "none" => next.notices \subseteq st.notices
<1>1. /\ next.pending = StillPending(st, told, Opens(st, p))
      /\ next.sent = Answered(st, given, told) \cap StillPending(st, told, Opens(st, p))
      /\ next.open = st.open \ (given \ st.sent)
      /\ next.issued = st.issued /\ next.kind = st.kind
      /\ next.result = st.result /\ next.step = p
      /\ next.genResults = st.genResults \cup told
  BY DEF StepStarted, IsState, FieldTypes, Opens, Told
<1>2. /\ next.ctx = (IF Opens(st, p) THEN p ELSE st.ctx)
      /\ next.ctl = (IF Opens(st, p) THEN {} ELSE st.ctl)
  BY DEF StepStarted, IsState, FieldTypes, Opens
<1>3. next.notices = Note(IF p = "conversation" THEN {} ELSE st.notices,
                          st.step # "none", "anomaly")
  BY DEF StepStarted, IsState, FieldTypes
<1>4. st.step = "none" => next.notices \subseteq st.notices
  BY <1>3 DEF Note
<1>5. /\ next.pending = st.pending \ (IF Opens(st, p) THEN {} ELSE told)
      /\ next.sent = (st.sent \cup given) \cap next.pending
  BY <1>1 DEF StillPending, Answered
<1> QED BY <1>1, <1>2, <1>4, <1>5

\* A request that is given what it must answers every pending call.
LEMMA StepStartedPaired ==
  ASSUME NEW st, IsState(st), Paired(st), NEW p, NEW b, Entitled(st, p, b),
         NEW next, next = StepStarted(st, p, b)
  PROVE  Paired(next)
<1> SUFFICES ASSUME NEW given, given = Deliveries(st, p, b),
                    NEW told, told = Told(st, p, b)
             PROVE  Paired(next)
  OBVIOUS
<1>1. /\ next.pending = st.pending \ (IF Opens(st, p) THEN {} ELSE told)
      /\ next.sent = (st.sent \cup given) \cap next.pending
      /\ next.open = st.open \ (given \ st.sent)
      /\ next.issued = st.issued /\ next.kind = st.kind
      /\ next.result = st.result /\ next.step = p
      /\ next.ctx = (IF Opens(st, p) THEN p ELSE st.ctx)
      /\ next.ctl = (IF Opens(st, p) THEN {} ELSE st.ctl)
  BY StepStartedBooks
<1>2. given \subseteq st.pending /\ told \subseteq given
  BY DEF Deliveries, Deliverable, Told
<1>3. Owed(st) \subseteq given
  <2>1. CASE st.ctx = "none"
    <3>1. given = Deliverable(st, b)
      BY <2>1 DEF Deliveries
    <3>2. \A c \in Owed(st) : c \notin st.sent
      BY DEF Owed, Paired, Marked
    <3>3. \A c \in Owed(st) : b
      BY <3>2 DEF Owed, Entitled, Fresh
    <3> QED BY <3>1, <3>2, <3>3 DEF Deliverable, Owed
  <2>2. CASE st.ctx # "none" /\ p = "handoff"
    <3>1. given = Deliverable(st, b) \cap st.ctl /\ b
      BY <2>2 DEF Deliveries, Entitled
    <3>2. Owed(st) \subseteq st.ctl /\ \A c \in Owed(st) : c \notin st.sent
      BY <2>2 DEF Paired, AnswersOwed, Owed, Marked
    <3> QED BY <3>1, <3>2 DEF Deliverable, Owed
  <2>3. CASE st.ctx # "none" /\ p # "handoff"
    <3>1. st.ctx = "compaction"
      BY <2>3 DEF Entitled, Purposes, Paired, Sense
    <3> QED BY <3>1 DEF Paired, AnswersOwed
  <2> QED BY <2>1, <2>2, <2>3
<1>4. next.pending \subseteq st.pending /\ st.pending \ next.pending \subseteq told
  BY <1>1
<1>5. Known(next)
  BY <1>1, <1>2, <1>4 DEF Paired, Known
<1>6. Marked(next)
  BY <1>1, <1>2, <1>4 DEF Paired, Marked
<1>7. Closable(next)
  <2>1. ASSUME NEW c \in next.open \ next.pending
        PROVE  st.kind[c] \in EndKinds
    <3>1. CASE c \in st.pending
      <4>1. c \in given /\ c \in st.open
        BY <1>1, <1>2, <1>4, <2>1, <3>1
      <4>2. c \notin st.sent
        BY <3>1, <4>1 DEF Paired, Marked
      <4> QED BY <1>1, <2>1, <4>1, <4>2
    <3>2. CASE c \notin st.pending
      BY <1>1, <2>1, <3>2 DEF Paired, Closable
    <3> QED BY <3>1, <3>2
  <2> QED BY <1>1, <2>1 DEF Closable
<1>8. Owed(next) = {}
  <2>1. ASSUME NEW c \in next.open \cap next.pending
        PROVE  FALSE
    <3>1. c \in Owed(st)
      BY <1>1, <1>4, <2>1 DEF Owed
    <3>2. c \in given /\ c \notin st.sent
      BY <1>3, <3>1 DEF Owed, Paired, Marked
    <3> QED BY <1>1, <2>1, <3>2
  <2> QED BY <2>1 DEF Owed
<1>9. Sense(next)
  BY <1>1 DEF Paired, Sense, Entitled, Purposes, IsContext, Opens
<1> QED BY <1>5, <1>6, <1>7, <1>8, <1>9 DEF Paired, AnswersOwed

\* What the books hold once a request has been answered.
LEMMA StepCompletedBooks ==
  ASSUME NEW st, IsState(st), NEW ks, NEW usage,
         NEW next, next = StepCompleted(st, ks, usage),
         NEW new, new = NewCalls(st, Len(ks))
  PROVE  /\ next.pending = st.pending \cup new /\ next.open = st.open \cup new
         /\ next.issued = st.issued + Len(ks) /\ next.sent = st.sent
         /\ next.result = st.result /\ next.genResults = st.genResults
         /\ next.ctx = st.ctx /\ next.step = "none"
         /\ st.step = "handoff" => next.ctl = new
         /\ st.step # "handoff" => next.ctl = st.ctl
         /\ \A c \in Calls \ new : next.kind[c] = st.kind[c]
         /\ \A c \in Calls \cap new : next.kind[c] = ks[c - st.issued]
         /\ st.step # "none" => next.notices = st.notices
<1>1. /\ next.pending = st.pending \cup new /\ next.open = st.open \cup new
      /\ next.issued = st.issued + Len(ks) /\ next.sent = st.sent
      /\ next.result = st.result /\ next.genResults = st.genResults
      /\ next.ctx = st.ctx /\ next.step = "none"
  BY DEF StepCompleted, Closed, NoStep, IsState, FieldTypes
<1>2. /\ st.step = "handoff" => next.ctl = new
      /\ st.step # "handoff" => next.ctl = st.ctl
  BY DEF StepCompleted, Closed, NoStep, IsState, FieldTypes
<1>3. next.kind = [c \in Calls |-> IF c \in new THEN ks[c - st.issued] ELSE st.kind[c]]
  BY DEF StepCompleted, Closed, NoStep, IsState, FieldTypes
<1>4. next.notices = Note(st.notices, st.step = "none", "anomaly")
  BY DEF StepCompleted, Closed, NoStep, IsState, FieldTypes
<1>5. st.step # "none" => next.notices = st.notices
  BY <1>4 DEF Note
<1> QED BY <1>1, <1>2, <1>3, <1>5

LEMMA NewCallsFresh ==
  ASSUME NEW st, IsState(st), NEW n \in Nat, NEW c \in NewCalls(st, n)
  PROVE  c \in Nat /\ c > st.issued /\ c <= st.issued + n
  BY Ledger, BoundAssumption DEF NewCalls

\* An answer's calls are all open, and its step answered every earlier one.
LEMMA StepCompletedPaired ==
  ASSUME NEW st, IsState(st), Paired(st), NEW ks \in Seq(CallKinds), NEW usage,
         st.step # "none", st.step = "compaction" => Len(ks) = 0,
         NEW next, next = StepCompleted(st, ks, usage)
  PROVE  Paired(next) /\ Owed(next) = NewCalls(st, Len(ks))
<1> DEFINE new == NewCalls(st, Len(ks))
<1>0. Len(ks) \in Nat /\ st.issued \in 0..MaxCalls
  BY Ledger
<1>1. /\ next.pending = st.pending \cup new /\ next.open = st.open \cup new
      /\ next.issued = st.issued + Len(ks) /\ next.sent = st.sent
      /\ next.result = st.result /\ next.ctx = st.ctx /\ next.step = "none"
      /\ st.step = "handoff" => next.ctl = new
      /\ st.step # "handoff" => next.ctl = st.ctl
      /\ \A c \in Calls \ new : next.kind[c] = st.kind[c]
  BY StepCompletedBooks
<1>2. \A c \in new : c \in Nat /\ c > st.issued /\ c <= next.issued
  BY <1>0, <1>1, NewCallsFresh
<1>3. /\ st.pending \cup st.open \cup st.sent \cup st.ctl \subseteq 1..st.issued
      /\ \A c \in Calls : st.result[c] # "none" => c <= st.issued
  BY DEF Paired, Known
<1>4. \A c \in 1..st.issued : c \notin new
  BY <1>0, <1>2
<1>5. 1..st.issued \subseteq 1..next.issued /\ \A c \in Calls : c <= st.issued => c <= next.issued
  BY <1>0, <1>1, BoundAssumption DEF Calls
<1>6. new \subseteq 1..next.issued
  BY <1>0, <1>1, <1>2
<1>7. new = {} \/ st.step # "compaction"
  BY <1>0, BoundAssumption DEF NewCalls
<1> HIDE DEF new
<1>8. Known(next)
  BY <1>1, <1>3, <1>5, <1>6 DEF Known
<1>9. Marked(next)
  BY <1>1, <1>3, <1>4 DEF Paired, Marked
<1>10. Closable(next)
  <2>1. \A c \in next.open \ next.pending : c \in st.open \ st.pending /\ c \notin new
    BY <1>1
  <2>2. st.open \subseteq Calls
    BY Ledger
  <2> QED BY <1>1, <2>1, <2>2 DEF Paired, Closable
<1>11. Owed(next) = new
  <2>1. Owed(st) = {}
    BY DEF Paired, AnswersOwed
  <2>2. \A c \in new : c \notin st.open /\ c \notin st.pending
    BY <1>3, <1>4
  <2> QED BY <1>1, <2>1, <2>2 DEF Owed
<1>12. Sense(next)
  BY <1>1 DEF Paired, Sense, IsContext
<1>13. AnswersOwed(next)
  <2>1. st.ctx # "none" => st.ctx = st.step /\ st.step \in {"handoff", "compaction"}
    BY Readings DEF Paired, Sense, IsContext, Purposes
  <2> QED BY <1>1, <1>7, <1>11, <2>1 DEF AnswersOwed
<1> QED BY <1>8, <1>9, <1>10, <1>11, <1>12, <1>13 DEF Paired, new

\* What a context exit leaves in the books.
LEMMA ContextAppliedBooks ==
  ASSUME NEW st, IsState(st), NEW carried, NEW kept,
         NEW next, next = ContextApplied(st, carried, kept)
  PROVE  /\ next.pending = Left(st, carried, kept) /\ next.sent = next.pending
         /\ next.issued = st.issued /\ next.kind = st.kind
         /\ next.result = st.result /\ next.ctl = {} /\ next.ctx = "none"
         /\ next.step = "none" /\ next.notices = st.notices
         /\ next.genResults = kept.results
         /\ kept.tail => next.open = st.open
         /\ ~kept.tail => next.open = {}
  BY DEF ContextApplied, NoAutoWait, NoStep, NoContext, IsState, FieldTypes

LEMMA ContextAppliedPaired ==
  ASSUME NEW st, IsState(st), Paired(st), NEW carried \in SUBSET st.pending, NEW kept,
         kept.tail => Owed(st) = {},
         NEW next, next = ContextApplied(st, carried, kept)
  PROVE  Paired(next)
<1>1. /\ next.pending = Left(st, carried, kept) /\ next.sent = next.pending
      /\ next.issued = st.issued /\ next.kind = st.kind
      /\ next.result = st.result /\ next.ctl = {} /\ next.ctx = "none"
      /\ next.step = "none"
      /\ kept.tail => next.open = st.open
      /\ ~kept.tail => next.open = {}
  BY ContextAppliedBooks
<1>2. Left(st, carried, kept) \subseteq st.pending
  BY DEF Left
<1>3. Known(next)
  BY <1>1, <1>2 DEF Paired, Known
<1>4. next.open \cap next.pending = {}
  BY <1>1, <1>2 DEF Owed
<1>5. Closable(next)
  BY <1>1, <1>2 DEF Paired, Closable, Owed
<1> QED BY <1>1, <1>3, <1>4, <1>5 DEF Paired, Marked, Sense, AnswersOwed, Owed, IsContext

-----------------------------------------------------------------------------
\* Every request that is decided on is entitled to what it has to answer, and a
\* retry is told to include all of it.
LEMMA DecideEntitles ==
  ASSUME NEW st, IsState(st), NEW live, NEW over, NEW d, d = Decide(st, live, over),
         d.act = "startStep"
  PROVE  /\ Entitled(st, d.purpose, d.include)
         /\ st.failures > 0 => d.include
         /\ st.step = "none" /\ st.on
<1>0. st.on /\ st.step = "none" /\ d.purpose \in Purposes /\ d.include \in BOOLEAN
  BY DecideMeans
<1> DEFINE Good == d = StartStep(d.purpose, TRUE) /\ (st.ctx # "none" => d.purpose = st.ctx)
<1>1. Good => Entitled(st, d.purpose, d.include) /\ d.include
  BY <1>0 DEF StartStep, Entitled
<1>2. CASE st.failures > 0
  <2>1. d = RetryDecision(st)
    BY <1>0, <1>2 DEF Decide, AutoWaitDecision, Do, FinishTurn, EndAutoWait
  <2> DEFINE purpose == IF st.ctx # "none" THEN st.ctx ELSE st.strategy
             again == IF st.ctx # "none" THEN st.ctx
                      ELSE IF st.failure # "none" THEN st.failedAs ELSE "conversation"
  <2>2. \/ d = StartStep(purpose, TRUE) /\ st.ctx = "none"
        \/ d = StartStep(again, TRUE)
        \/ d \in {ApplyContext(purpose), FinishTurn("failed")}
    BY <2>1 DEF RetryDecision
  <2>3. st.ctx # "none" => again = st.ctx
    OBVIOUS
  <2> HIDE DEF purpose, again
  <2>4. Good
    BY <2>2, <2>3 DEF StartStep, ApplyContext, FinishTurn
  <2> QED BY <1>0, <1>1, <2>4
<1>3. CASE ~(st.failures > 0) /\ st.ctx # "none"
  <2>1. d = ContextDecision(st)
    BY <1>0, <1>3 DEF Decide, AutoWaitDecision, Do, FinishTurn, EndAutoWait
  <2>2. Good
    BY <2>1 DEF ContextDecision, StartStep, ApplyContext
  <2> QED BY <1>0, <1>1, <1>3, <2>2
<1>4. CASE ~(st.failures > 0) /\ st.ctx = "none"
  <2>1. d \in {ControlDecision(st), StartStep(st.strategy, TRUE),
               StartStep("conversation", Fresh(st) # {})}
    BY <1>0, <1>4 DEF Decide, AutoWaitDecision, Do, FinishTurn, EndAutoWait
  <2>2. d.include = TRUE \/ d.include = (Fresh(st) # {})
    <3>1. d \in {FinishTurn("finished"), StartStep("conversation", TRUE),
                 StartStep(st.strategy, TRUE), StartStep("conversation", Fresh(st) # {})}
      BY <2>1 DEF ControlDecision
    <3> QED BY <3>1 DEF StartStep, FinishTurn
  <2> QED BY <1>0, <1>4, <2>2 DEF Entitled
<1> QED BY <1>2, <1>3, <1>4

\* A retry that waits has its step to start from, and all of it to answer.
PlanWaits ==
  pc = "backoff" => /\ plan.include /\ s.step = "none" /\ plan.purpose \in Purposes
                    /\ s.ctx # "none" => plan.purpose = s.ctx

PairInv == Paired(s) /\ PlanWaits

LEMMA PairedMeans == ASSUME PairInv PROVE RequestsPaired
  BY DEF PairInv, Paired, Marked, Closable, AnswersOwed, Owed, RequestsPaired,
         FreshIffUnanswered

LEMMA PairInvInit == Init => PairInv
<1> SUFFICES ASSUME Init PROVE PairInv
  OBVIOUS
<1>1. /\ s.pending = {} /\ s.open = {} /\ s.sent = {} /\ s.ctl = {}
      /\ s.ctx = "none" /\ s.step = "none" /\ pc = "drain"
      /\ \A c \in Calls : s.result[c] = "none"
  BY DEF Init, Created
<1> QED BY <1>1 DEF PairInv, PlanWaits, Paired, Known, Marked, Closable, Sense,
                    AnswersOwed, Owed, IsContext

\* Steps that leave the books and the runner's plan alone.
LEMMA PairAside ==
  ASSUME PairInv, SameBooks(s, s'), s'.ctx = s.ctx,
         s'.step = s.step \/ (s'.step = "none" /\ pc' # "backoff"),
         pc' # "backoff" \/ UNCHANGED <<pc, plan>>,
         \A c \in Calls : s'.result[c] # "none" => c <= s.issued
  PROVE  PairInv'
<1>1. Paired(s')
  BY PairedKept DEF PairInv
<1> QED BY <1>1 DEF PairInv, PlanWaits

LEMMA ClientPair ==
  ASSUME TypeOK, PairInv, Client \/ Stop \/ Stopped \/ Reopen
  PROVE  PairInv'
<1>0. IsState(s) /\ \A c \in Calls : s.result[c] # "none" => c <= s.issued
  BY DEF TypeOK, PairInv, Paired, Known
<1>1. AfterCommand \in {pc, "drain"}
  BY DEF AfterCommand
<1>2. CASE Input \/ SetSelection \/ \E g \in Strategies : SetContext(g)
  <2>1. SameBooks(s, s') /\ s'.result = s.result /\ Aside(s, s')
    BY <1>0, <1>2, BookAside, AsideEvents DEF Input, SetSelection, SetContext
  <2>2. pc' # "backoff" \/ UNCHANGED <<pc, plan>>
    BY <1>1, <1>2 DEF Input, SetSelection, SetContext, Handled
  <2> QED BY <1>0, <2>1, <2>2, PairAside DEF Aside, SameWork
<1>3. CASE CancelTurn
  <2>1. SameBooks(s, s') /\ s'.result = s.result /\ SameWork(s, s')
    BY <1>0, <1>3, BookAside, CancelAsked DEF CancelTurn, SameBooks, SameWork
  <2>2. pc' # "backoff" \/ UNCHANGED <<pc, plan>>
    BY <1>1, <1>3 DEF CancelTurn, TurnLeft, Goto
  <2> QED BY <1>0, <2>1, <2>2, PairAside DEF SameWork
<1>4. CASE Stop \/ Stopped \/ Reopen
  <2>1. s' = s /\ pc' # "backoff"
    BY <1>4 DEF Stop, Stopped, Reopen, Goto
  <2> QED BY <2>1 DEF PairInv, PlanWaits
<1> QED BY <1>2, <1>3, <1>4 DEF Client

\* The calls a document carries over are pending in the state it is applied to.
LEMMA UnsettledPending ==
  ASSUME NEW st
  PROVE  Unsettled(st) \subseteq st.pending /\ Settled(st) \subseteq st.pending
  BY DEF Unsettled, Settled

LEMMA ActPair ==
  ASSUME TypeOK, PairInv, Act
  PROVE  PairInv'
<1>1. PICK over \in {FALSE, s.anchor} : Carry(Decide(s, snap, over))
  BY DEF Act
<1> DEFINE d == Decide(s, snap, over)
<1>2. /\ d.act = "startStep" => /\ Entitled(s, d.purpose, d.include)
                                /\ s.failures > 0 => d.include
                                /\ s.step = "none" /\ d.purpose \in Purposes
      /\ d.act = "startTurn" => s.step = "none"
      /\ Carry(d) /\ IsState(s)
  BY <1>1, DecideEntitles, DecideMeans DEF TypeOK
<1> HIDE DEF d
<1>3. Paired(s) /\ \A c \in Calls : s.result[c] # "none" => c <= s.issued
  BY DEF PairInv, Paired, Known
<1>4. CASE InterruptStep(d)
  <2>1. s' = StepInterrupted(s, "recovery") /\ pc' = "drain"
    BY <1>4 DEF InterruptStep, Commit, Goto
  <2>2. SameBooks(s, s') /\ s'.result = s.result
    BY <1>2, <2>1, BookAside
  <2>3. s'.ctx = s.ctx /\ s'.step = "none"
    BY <1>2, <2>1, ClosingEvents
  <2> QED BY <1>3, <2>1, <2>2, <2>3, PairAside
<1>5. CASE InterruptTools(d)
  <2> DEFINE o == [c \in Lost(s, snap) |->
                     IF s.kind[c] \in Malformed THEN "failed" ELSE "interrupted"]
  <2>1. s' = ToolResults(s, o) /\ pc' = "drain" /\ DOMAIN o = Lost(s, snap)
    BY <1>5 DEF InterruptTools, Commit, Goto
  <2> HIDE DEF o
  <2>2. SameBooks(s, s') /\ Aside(s, s')
    BY <1>2, <2>1, BookResults, AsideEvents
  <2>3. \A c \in Calls : s'.result[c] # "none" => c <= s.issued
    <3>1. \A c \in Lost(s, snap) : c <= s.issued
      BY <1>2, Ledger DEF Lost, Unsettled, PairInv, Paired, Known
    <3> QED BY <1>2, <1>3, <2>1, <3>1, BookResults
  <2> QED BY <2>1, <2>2, <2>3, PairAside DEF Aside, SameWork
<1>6. CASE StartTurn(d)
  <2>1. s' = TurnStarted(s) /\ pc' = "drain" /\ s.step = "none"
    BY <1>2, <1>6 DEF StartTurn, Commit, Goto
  <2> QED BY <1>2, <1>3, <2>1, TurnStartedPaired DEF PairInv, PlanWaits
<1>7. CASE LeaveAutoWait(d) \/ ReachDeadline(d)
  <2>1. SameBooks(s, s') /\ s'.result = s.result /\ pc' = "drain"
    BY <1>2, <1>7, BookAside DEF LeaveAutoWait, ReachDeadline, Commit, Goto
  <2>2. s'.ctx = s.ctx /\ s'.step = s.step
    BY <1>2, <1>7, ClosingEvents, AsideEvents
       DEF LeaveAutoWait, ReachDeadline, Commit, Aside, SameWork
  <2> QED BY <1>3, <2>1, <2>2, PairAside
<1>8. CASE EndTurn(d)
  <2>1. s' = TurnFinished(s, d.outcome) /\ pc' = "drain"
    BY <1>8 DEF EndTurn, Goto
  <2> QED BY <1>2, <1>3, <2>1, TurnFinishedPaired DEF PairInv, PlanWaits
<1>9. CASE GiveUpContext(d)
  <2> DEFINE told == ContextFailed(s)
  <2>1. s' = ContextApplied(told, Unsettled(s), Nothing) /\ pc' = "drain"
    BY <1>9 DEF GiveUpContext, Commit, Goto
  <2>2. IsState(told) /\ SameBooks(s, told) /\ told.result = s.result /\ Aside(s, told)
    BY <1>2, NotedType, BookAside, AsideEvents
  <2> HIDE DEF told
  <2>3. Paired(told) /\ Unsettled(s) \in SUBSET told.pending
    BY <1>3, <2>2, PairedKept, UnsettledPending DEF Aside, SameWork, SameBooks
  <2>4. ~Nothing.tail
    BY DEF Nothing
  <2> QED BY <2>1, <2>2, <2>3, <2>4, ContextAppliedPaired DEF PairInv, PlanWaits
<1>10. CASE BeginStep(d)
  <2>0. Entitled(s, d.purpose, d.include) /\ (s.failures > 0 => d.include)
        /\ s.step = "none" /\ d.purpose \in Purposes
    BY <1>2, <1>10 DEF BeginStep
  <2>1. CASE s.failures > 0 /\ s.failure # "overflow"
    <3>1. s' = s /\ plan' = [purpose |-> d.purpose, include |-> d.include]
      BY <1>10, <2>1 DEF BeginStep
    <3> QED BY <2>0, <2>1, <3>1 DEF PairInv, PlanWaits, Entitled
  <2>2. CASE ~(s.failures > 0 /\ s.failure # "overflow")
    <3>1. s' = StepStarted(s, d.purpose, d.include) /\ pc' = "stream"
      BY <1>10, <2>2 DEF BeginStep, Goto
    <3> QED BY <1>2, <1>3, <2>0, <3>1, StepStartedPaired DEF PairInv, PlanWaits
  <2> QED BY <2>1, <2>2
<1>11. CASE Park(d)
  <2>1. s' = s /\ pc' # "backoff"
    BY <1>11 DEF Park, Goto
  <2> QED BY <2>1 DEF PairInv, PlanWaits
<1> QED BY <1>2, <1>4, <1>5, <1>6, <1>7, <1>8, <1>9, <1>10, <1>11 DEF Carry

LEMMA CompletedKeeps ==
  ASSUME NEW st, IsState(st), NEW ks, NEW usage
  PROVE  /\ st.pending \subseteq StepCompleted(st, ks, usage).pending
         /\ StepCompleted(st, ks, usage).result = st.result
  BY StepCompletedBooks

\* An answer that is no document closes its own calls, or all of them.
LEMMA NoDocumentPair ==
  ASSUME TypeOK, TurnInv, PairInv, NoDocument
  PROVE  Paired(s')
<1>1. PICK n \in 0..MaxBatch, usage \in Usages :
        s.issued + n <= MaxCalls /\ BadDocument(n, usage)
  BY DEF NoDocument
<1> DEFINE ks == [i \in 1..n |-> "refused"]
           done == StepCompleted(s, ks, usage)
           o == [c \in NewCalls(s, n) |-> "failed"]
<1>2. /\ IsState(s) /\ Paired(s) /\ s.step # "none" /\ usage \in BOOLEAN /\ n \in Nat
      /\ ks \in Seq(CallKinds) /\ Len(ks) = n /\ (s.step = "compaction" => Len(ks) = 0)
  BY <1>1, RunnerAssumption
     DEF BadDocument, TypeOK, TurnInv, NoInvariantFailure, PairInv, CallKinds
<1>3. s' = ContextApplied(ContextFailed(done), Unsettled(s), Nothing) \/ s' = ToolResults(done, o)
  BY <1>1 DEF BadDocument, Commit
<1>4. DOMAIN o = NewCalls(s, n)
  OBVIOUS
<1> HIDE DEF ks, o
<1>5. IsState(done) /\ Paired(done) /\ s.pending \subseteq done.pending
  BY <1>1, <1>2, StepCompletedType, StepCompletedPaired, CompletedKeeps
<1>6. done.issued = s.issued + n
  BY <1>2, StepCompletedBooks
<1> HIDE DEF done
<1>7. CASE s' = ContextApplied(ContextFailed(done), Unsettled(s), Nothing)
  <2> DEFINE told == ContextFailed(done)
  <2>1. IsState(told) /\ SameBooks(done, told) /\ told.result = done.result /\ Aside(done, told)
    BY <1>5, NotedType, BookAside, AsideEvents
  <2> HIDE DEF told
  <2>2. Paired(told)
    BY <1>5, <2>1, PairedKept DEF Aside, SameWork, Paired, Known
  <2>3. Unsettled(s) \in SUBSET told.pending /\ ~Nothing.tail
    BY <1>5, <2>1, UnsettledPending DEF SameBooks, Nothing
  <2> QED BY <1>7, <2>1, <2>2, <2>3, ContextAppliedPaired DEF told
<1>8. CASE s' = ToolResults(done, o)
  <2>1. SameBooks(done, s') /\ Aside(done, s')
    BY <1>5, <1>8, BookResults, AsideEvents
  <2>2. ASSUME NEW c \in Calls, s'.result[c] # "none" PROVE c <= done.issued
    <3>1. CASE c \in NewCalls(s, n)
      BY <1>2, <1>6, <3>1, NewCallsFresh
    <3>2. CASE c \notin NewCalls(s, n)
      BY <1>4, <1>5, <1>8, <2>2, <3>2, BookResults DEF Paired, Known
    <3> QED BY <3>1, <3>2
  <2> QED BY <1>5, <2>1, <2>2, PairedKept DEF Aside, SameWork
<1> QED BY <1>3, <1>7, <1>8

LEMMA ProviderPair ==
  ASSUME TypeOK, TurnInv, PairInv, Provider
  PROVE  PairInv'
<1>0. /\ IsState(s) /\ Paired(s) /\ pc = "stream" /\ s.step # "none"
      /\ \A c \in Calls : s.result[c] # "none" => c <= s.issued
  BY DEF Provider, Answer, CompleteStep, Document, Summarised, HandedOff, NoDocument,
         BadDocument, Failure, FailStep, TypeOK, TurnInv, NoInvariantFailure,
         PairInv, Paired, Known
<1>1. pc' # "backoff"
  BY ProviderCloses DEF AtWork
<1>2. CASE Answer
  <2>1. PICK ks \in KindSeqs, usage \in Usages : CompleteStep(ks, usage)
    BY <1>2 DEF Answer
  <2>2. ks \in Seq(CallKinds)
    BY RunnerAssumption DEF KindSeqs
  <2>3. s' = StepCompleted(s, ks, usage) /\ s.step = "conversation"
    BY <2>1 DEF CompleteStep
  <2> QED BY <1>0, <1>1, <2>2, <2>3, StepCompletedPaired DEF PairInv, PlanWaits
<1>3. ASSUME NEW usage \in Usages, NEW i \in SUBSET s.genInputs,
             NEW r \in SUBSET s.genResults, NEW tail \in BOOLEAN,
             Summarised(usage, [inputs |-> i, results |-> r, tail |-> tail])
      PROVE  PairInv'
  <2> DEFINE done == StepCompleted(s, <<>>, usage)
             kept == [inputs |-> i, results |-> r, tail |-> tail]
  <2>1. s' = ContextApplied(done, Unsettled(s), kept)
    BY <1>3 DEF Summarised, Commit
  <2>2. IsState(done) /\ <<>> \in Seq(CallKinds) /\ Len(<<>>) = 0
    <3>1. <<>> \in Seq(CallKinds) /\ s.issued + Len(<<>>) <= MaxCalls /\ usage \in BOOLEAN
      BY <1>0, Readings, BoundAssumption, RunnerAssumption
    <3> QED BY <1>0, <3>1, StepCompletedType
  <2>3. Paired(done) /\ Owed(done) = NewCalls(s, 0) /\ s.pending \subseteq done.pending
    BY <1>0, <2>2, StepCompletedPaired, CompletedKeeps
  <2>4. NewCalls(s, 0) = {}
    BY <1>0, Readings, BoundAssumption DEF NewCalls
  <2> HIDE DEF done, kept
  <2> QED BY <1>1, <2>1, <2>2, <2>3, <2>4, UnsettledPending, ContextAppliedPaired
          DEF PairInv, PlanWaits
<1>4. ASSUME NEW usage \in Usages, HandedOff(usage) PROVE PairInv'
  <2> DEFINE done == StepCompleted(s, <<"handoff">>, usage)
  <2>1. s' = ContextApplied(done, Unsettled(s), Nothing) /\ s.step = "handoff"
    BY <1>4 DEF HandedOff, Commit
  <2>2. IsState(done) /\ <<"handoff">> \in Seq(CallKinds)
    <3>1. <<"handoff">> \in Seq(CallKinds) /\ usage \in BOOLEAN
          /\ s.issued + Len(<<"handoff">>) <= MaxCalls
      BY <1>0, <1>4, Readings, BoundAssumption, RunnerAssumption DEF CallKinds, HandedOff
    <3> QED BY <1>0, <3>1, StepCompletedType
  <2>3. Paired(done) /\ s.pending \subseteq done.pending
    BY <1>0, <2>1, <2>2, StepCompletedPaired, CompletedKeeps
  <2>4. ~Nothing.tail
    BY DEF Nothing
  <2> HIDE DEF done
  <2> QED BY <1>1, <2>1, <2>2, <2>3, <2>4, UnsettledPending, ContextAppliedPaired
          DEF PairInv, PlanWaits
<1>5. CASE Failure
  <2>1. PICK err \in ProviderErrors, usage \in Usages : FailStep(err, usage)
    BY <1>5 DEF Failure
  <2>2. s' = StepFailed(s, err, usage)
    BY <2>1 DEF FailStep
  <2>3. SameBooks(s, s') /\ s'.result = s.result /\ s'.ctx = s.ctx /\ s'.step = "none"
    BY <1>0, <2>2, BookAside, ClosingEvents
  <2> QED BY <1>0, <1>1, <2>3, PairAside
<1>6. CASE NoDocument
  BY <1>1, <1>6, NoDocumentPair DEF PairInv, PlanWaits
<1> QED BY <1>2, <1>3, <1>4, <1>5, <1>6 DEF Provider, Document

LEMMA ResultPair ==
  ASSUME TypeOK, PairInv, NEW c, NEW o, s' = ToolResult(s, c, o),
         pc' # "backoff" \/ UNCHANGED <<pc, plan>>
  PROVE  PairInv'
<1>0. IsState(s) /\ Paired(s)
  BY DEF TypeOK, PairInv
<1>1. SameBooks(s, s') /\ Aside(s, s')
  BY <1>0, BookResults, AsideEvents
<1>2. \A x \in Calls : s'.result[x] # "none" => x <= s.issued
  <2>1. c \in Unsettled(s) => c <= s.issued
    BY <1>0, Ledger DEF Unsettled, Paired, Known
  <2> QED BY <1>0, <2>1, BookResults DEF Paired, Known
<1> QED BY <1>1, <1>2, PairAside DEF Aside, SameWork

LEMMA RunnerPair ==
  ASSUME TypeOK, TurnInv, PairInv, RunnerStep
  PROVE  PairInv'
<1>0. /\ IsState(s) /\ Paired(s)
      /\ \A c \in Calls : s.result[c] # "none" => c <= s.issued
  BY DEF TypeOK, PairInv, Paired, Known
<1>1. CASE AbortStep
  <2>1. s' = StepInterrupted(s, "cancelled") /\ pc' = "drain"
    BY <1>1 DEF AbortStep, Goto
  <2>2. SameBooks(s, s') /\ s'.result = s.result /\ s'.ctx = s.ctx /\ s'.step = "none"
    BY <1>0, <2>1, BookAside, ClosingEvents
  <2> QED BY <1>0, <2>1, <2>2, PairAside
<1>2. CASE Snapshot \/ Collected
  BY <1>2 DEF Snapshot, Collected, PairInv, PlanWaits
<1>3. CASE Act
  BY <1>3, ActPair
<1>4. CASE RetryStep
  <2>1. s' = StepStarted(s, plan.purpose, plan.include) /\ pc' = "stream"
    BY <1>4 DEF RetryStep, Goto
  <2>2. Entitled(s, plan.purpose, plan.include)
    BY <1>4 DEF RetryStep, PairInv, PlanWaits, Entitled
  <2> QED BY <1>0, <2>1, <2>2, StepStartedPaired DEF PairInv, PlanWaits
<1>5. CASE AnswerToolCancel
  <2>1. PICK c \in NextCancel : s' = ToolResult(s, c, "ok")
    BY <1>5 DEF AnswerToolCancel
  <2>2. pc' # "backoff"
    BY <1>5 DEF AnswerToolCancel, Goto
  <2> QED BY <2>1, <2>2, ResultPair
<1>6. ASSUME NEW target \in 0..MaxCalls, RequestToolCancel(target) PROVE PairInv'
  <2>1. SameBooks(s, s') /\ s'.result = s.result /\ Aside(s, s') /\ pc' = "control"
    BY <1>0, <1>6, BookAside, AsideEvents DEF RequestToolCancel
  <2> QED BY <1>0, <2>1, PairAside DEF Aside, SameWork
<1>7. ASSUME NEW c \in Calls, TakeResult(c) PROVE PairInv'
  <2>1. s' = ToolResult(s, c, out[c]) /\ UNCHANGED plan /\ (pc' = pc \/ pc' = "drain")
    BY <1>7 DEF TakeResult
  <2> QED BY <2>1, ResultPair
<1> QED BY <1>1, <1>2, <1>3, <1>4, <1>5, <1>6, <1>7 DEF RunnerStep

LEMMA OtherPair ==
  ASSUME TypeOK, PairInv,
         ToolStep \/ Clock \/ Crash \/ RunnerFails \/ \E open \in BOOLEAN : Rebuild(open)
  PROVE  PairInv'
<1>0. IsState(s) /\ \A c \in Calls : s.result[c] # "none" => c <= s.issued
  BY DEF TypeOK, PairInv, Paired, Known
<1>1. CASE ToolStep
  BY <1>1 DEF ToolStep, ToolReturns, ToolSends, ToolLeaves, PairInv, PlanWaits
<1>2. CASE AutoWaitExpires \/ WaitExpires
  <2>1. SameBooks(s, s') /\ s'.result = s.result /\ SameWork(s, s') /\ UNCHANGED <<pc, plan>>
    BY <1>0, <1>2 DEF AutoWaitExpires, WaitExpires, IsState, FieldTypes, SameBooks, SameWork
  <2> QED BY <1>0, <2>1, PairAside DEF SameWork
<1>3. CASE DeadlineWake \/ Crash \/ RunnerFails
  <2>1. s' = s /\ pc' # "backoff"
    BY <1>3 DEF DeadlineWake, Crash, RunnerFails, Goto
  <2> QED BY <2>1 DEF PairInv, PlanWaits
<1>4. ASSUME NEW open \in BOOLEAN, Rebuild(open) PROVE PairInv'
  <2>1. SameBooks(s, s') /\ s'.result = s.result /\ Aside(s, s') /\ pc' # "backoff"
    BY <1>0, <1>4, BookAside, AsideEvents DEF Rebuild
  <2> QED BY <1>0, <2>1, PairAside DEF Aside, SameWork
<1> QED BY <1>1, <1>2, <1>3, <1>4 DEF Clock

LEMMA PairInvStep ==
  ASSUME TypeOK, TurnInv, PairInv, [Next]_vars
  PROVE  PairInv'
<1>1. CASE UNCHANGED vars
  BY <1>1 DEF vars, PairInv, PlanWaits
<1> QED BY <1>1, ClientPair, RunnerPair, ProviderPair, OtherPair DEF Next

\* Every request on the conversation's transcript answers each of its calls
\* exactly once, by a result or by a placeholder, whatever failed, was cancelled,
\* interrupted or compacted before it.
THEOREM RequestsAreWhole == Spec => []RequestsPaired
<1>1. Init => TypeOK /\ TurnInv /\ PairInv
  BY TypeInit, TurnInvInit, PairInvInit
<1>2. TypeOK /\ TurnInv /\ PairInv /\ [Next]_vars => TypeOK' /\ TurnInv' /\ PairInv'
  BY TypeStep, TurnInvStep, PairInvStep
<1>3. PairInv => RequestsPaired
  BY PairedMeans
<1> QED BY <1>1, <1>2, <1>3, PTL DEF Spec

-----------------------------------------------------------------------------
\* Where the result of each call is.

\* A task that has not handed over its result yet.
Busy(c) == exec[c] \in {"running", "signalled", "ready"}

\* Tasks belong to issued calls.  What a task returns, and what the channel
\* holds, is the result of a call that waits for one, unless nobody listens.
Routed ==
  /\ \A c \in Calls : exec[c] # "none" => c <= s.issued
  /\ \A c \in Calls : Busy(c) /\ c \notin orphans => c \in Unsettled(s)
  /\ \A c \in Calls : exec[c] = "ready" /\ c \notin orphans => out[c] # "none"
  /\ \A c \in chan : /\ c \in Unsettled(s) /\ c \notin orphans
                     /\ out[c] # "none" /\ exec[c] \in {"sent", "gone"}
  /\ orphans \subseteq Live

\* The calls of an answer that are not dispatched yet wait for their results.
Undispatched ==
  pc = "control" =>
    \A c \in batch.cancels \cup batch.rest : c \in Unsettled(s) /\ exec[c] = "none"

\* No call is both carried out by the runner and given to a task.
Apart == pc = "control" => batch.cancels \cap batch.rest = {}

TaskInv == Routed /\ Undispatched /\ Apart

LEMMA SameDebts ==
  ASSUME NEW st, NEW next, IsState(st), SameBooks(st, next), next.result = st.result
  PROVE  Unsettled(next) = Unsettled(st)
  BY Ledger DEF SameBooks, Unsettled

\* Neither the start of a request nor the end of a turn nor a context exit
\* takes a call without a result off the books.
LEMMA DebtsStand ==
  ASSUME NEW st, IsState(st), NEW p, NEW b, NEW o, NEW kept
  PROVE  /\ Unsettled(StepStarted(st, p, b)) = Unsettled(st)
         /\ Unsettled(TurnFinished(st, o)) = Unsettled(st)
         /\ Unsettled(TurnStarted(st)) = Unsettled(st)
<1>1. Unsettled(StepStarted(st, p, b)) = Unsettled(st)
  <2> SUFFICES ASSUME NEW next, next = StepStarted(st, p, b)
               PROVE  Unsettled(next) = Unsettled(st)
    OBVIOUS
  <2> DEFINE left == st.pending \ (IF Opens(st, p) THEN {} ELSE Told(st, p, b))
  <2>1. next.pending = left /\ next.result = st.result
    BY StepStartedBooks
  <2>2. left \subseteq st.pending /\ \A c \in Unsettled(st) : c \in left
    BY DEF Unsettled, Told, Settled
  <2> QED BY <2>1, <2>2 DEF Unsettled
<1>2. Unsettled(TurnFinished(st, o)) = Unsettled(st)
  <2>1. TurnFinished(st, o).pending = Survives(st)
        /\ TurnFinished(st, o).result = st.result
    BY TurnFinishedBooks
  <2> QED BY <2>1 DEF Unsettled, Survives
<1>3. Unsettled(TurnStarted(st)) = Unsettled(st)
  <2>1. TurnStarted(st).pending = st.pending /\ TurnStarted(st).result = st.result
    BY DEF TurnStarted, NoContext, IsState, FieldTypes
  <2> QED BY <2>1 DEF Unsettled
<1> QED BY <1>1, <1>2, <1>3

LEMMA DebtsCarried ==
  ASSUME NEW st, IsState(st), NEW carried, NEW kept,
         \A c \in carried : st.result[c] = "none"
  PROVE  Unsettled(ContextApplied(st, carried, kept)) = carried
<1> SUFFICES ASSUME NEW next, next = ContextApplied(st, carried, kept)
             PROVE  Unsettled(next) = carried
  OBVIOUS
<1>1. next.pending = Left(st, carried, kept) /\ next.result = st.result
  BY ContextAppliedBooks
<1> QED BY <1>1 DEF Unsettled, Left

\* An answer adds its calls, and only those, to what is owed.
LEMMA DebtsAdded ==
  ASSUME NEW st, IsState(st), Paired(st), NEW ks \in Seq(CallKinds), NEW usage,
         st.issued + Len(ks) <= MaxCalls
  PROVE  Unsettled(StepCompleted(st, ks, usage)) = Unsettled(st) \cup NewCalls(st, Len(ks))
<1> SUFFICES ASSUME NEW next, next = StepCompleted(st, ks, usage),
                    NEW new, new = NewCalls(st, Len(ks))
             PROVE  Unsettled(next) = Unsettled(st) \cup new
  OBVIOUS
<1>1. next.pending = st.pending \cup new /\ next.result = st.result
  BY StepCompletedBooks
<1>2. \A c \in new : c \in Calls /\ ~(c <= st.issued)
  BY Ledger, NewCallsFresh, BoundAssumption DEF Calls
<1>3. \A c \in new : st.result[c] = "none"
  BY <1>2 DEF Paired, Known
<1> QED BY <1>1, <1>3 DEF Unsettled

\* A step that neither starts, ends nor hears a task, and that settles only
\* calls whose result is not on its way.
LEMMA TaskAside ==
  ASSUME TypeOK, TaskInv, IsState(s'), s.issued <= s'.issued,
         NEW cs, exec' = exec \/ exec' = Signalled(cs), UNCHANGED <<out, chan, orphans>>,
         \A c \in Unsettled(s) \ Unsettled(s') : Quiet(c) /\ c \notin chan,
         pc' # "control" \/ UNCHANGED <<pc, batch.cancels, batch.rest, Unsettled(s)>>
  PROVE  TaskInv'
<1>0. /\ exec \in [Calls -> TaskStates] /\ chan \subseteq Calls /\ orphans \subseteq Calls
      /\ batch.cancels \subseteq Calls /\ batch.rest \subseteq Calls
      /\ s.issued \in Nat /\ s'.issued \in Nat
  BY Ledger, BoundAssumption DEF TypeOK
<1>1. ASSUME NEW c \in Calls
      PROVE  /\ exec'[c] = exec[c] \/ (exec[c] = "running" /\ exec'[c] = "signalled")
             /\ Busy(c)' <=> Busy(c)
             /\ c \in Live' <=> c \in Live
  <2>1. exec'[c] = exec[c] \/ (exec[c] = "running" /\ exec'[c] = "signalled")
    BY <1>0 DEF Signalled
  <2> QED BY <1>0, <2>1 DEF Busy, Live
<1>2. \A c \in Calls : exec'[c] # "none" => c <= s'.issued
  BY <1>0, <1>1 DEF TaskInv, Routed, Calls
<1>3. \A c \in Calls : Busy(c)' /\ c \notin orphans' => c \in Unsettled(s')
  BY <1>1 DEF TaskInv, Routed, Busy, Quiet
<1>4. \A c \in Calls : exec'[c] = "ready" /\ c \notin orphans' => out'[c] # "none"
  BY <1>1 DEF TaskInv, Routed
<1>5. \A c \in chan' : /\ c \in Unsettled(s') /\ c \notin orphans'
                       /\ out'[c] # "none" /\ exec'[c] \in {"sent", "gone"}
  BY <1>0, <1>1 DEF TaskInv, Routed
<1>6. orphans' \subseteq Live'
  BY <1>0, <1>1 DEF TaskInv, Routed
<1>7. Routed'
  BY <1>2, <1>3, <1>4, <1>5, <1>6 DEF Routed
<1>8. Undispatched' /\ Apart'
  <2>1. CASE pc' # "control"
    BY <2>1 DEF Undispatched, Apart
  <2>2. CASE UNCHANGED <<pc, batch.cancels, batch.rest, Unsettled(s)>>
    BY <1>0, <1>1, <2>2 DEF TaskInv, Undispatched, Apart
  <2> QED BY <2>1, <2>2
<1> QED BY <1>7, <1>8 DEF TaskInv

\* No result can come any more: nobody listens, or the process is gone.
LEMMA TaskDropped ==
  ASSUME TypeOK, TaskInv, s' = s \/ (Unsettled(s') = Unsettled(s) /\ s'.issued = s.issued),
         pc' # "control",
         \/ ReceiverGone
         \/ /\ exec' = [c \in Calls |-> IF c \in Live THEN "gone" ELSE exec[c]]
            /\ chan' = {} /\ orphans' = {}
  PROVE  TaskInv'
<1>1. Undispatched' /\ Apart' /\ s'.issued = s.issued /\ chan' = {}
  BY DEF Undispatched, Apart, ReceiverGone
<1>2. CASE ReceiverGone
  <2>1. exec' = exec /\ orphans' = Live /\ Live' = Live
    BY <1>2 DEF ReceiverGone, Live
  <2>2. \A c \in Calls : Busy(c)' \/ exec'[c] = "ready" => c \in orphans'
    BY <2>1 DEF Busy, Live
  <2> QED BY <1>1, <2>1, <2>2 DEF TaskInv, Routed
<1>3. CASE /\ exec' = [c \in Calls |-> IF c \in Live THEN "gone" ELSE exec[c]]
           /\ chan' = {} /\ orphans' = {}
  <2>1. \A c \in Calls : ~Busy(c)' /\ exec'[c] # "ready"
    BY <1>3 DEF Busy, Live
  <2>2. \A c \in Calls : exec'[c] # "none" => exec[c] # "none"
    BY <1>3 DEF Live
  <2> QED BY <1>1, <1>3, <2>1, <2>2 DEF TaskInv, Routed
<1> QED BY <1>2, <1>3

LEMMA ToolTasks ==
  ASSUME TypeOK, TaskInv, ToolStep
  PROVE  TaskInv'
<1> USE DEF TaskInv, Routed, Undispatched, Apart
<1>0. /\ exec \in [Calls -> TaskStates] /\ out \in [Calls -> Outcomes \cup {"none"}]
      /\ chan \subseteq Calls /\ orphans \subseteq Calls
      /\ batch.cancels \subseteq Calls /\ batch.rest \subseteq Calls
  BY DEF TypeOK
<1>1. ASSUME NEW c \in Calls, ToolReturns(c) PROVE TaskInv'
  <2>1. /\ exec[c] \in {"running", "signalled"} /\ exec' = [exec EXCEPT ![c] = "ready"]
        /\ UNCHANGED <<s, pc, batch, chan, orphans>>
        /\ \A d \in Calls \ {c} : out'[d] = out[d]
        /\ out'[c] # "none"
    BY <1>0, <1>1 DEF ToolReturns, Returns
  <2> QED BY <1>0, <2>1 DEF Busy, Live
<1>2. ASSUME NEW c \in Calls, ToolSends(c) PROVE TaskInv'
  <2>1. /\ exec[c] = "ready" /\ exec' = [exec EXCEPT ![c] = "sent"]
        /\ UNCHANGED <<s, pc, batch, orphans>>
        /\ \/ chan' = chan /\ out' = [out EXCEPT ![c] = "none"]
           \/ chan' = chan \cup {c} /\ out' = out /\ c \notin orphans
    BY <1>2 DEF ToolSends, Unheard
  <2>2. c \notin chan
    BY <2>1
  <2> QED BY <1>0, <2>1, <2>2 DEF Busy, Live
<1>3. ASSUME NEW c \in Calls, ToolLeaves(c) PROVE TaskInv'
  <2>1. /\ exec[c] = "sent" /\ exec' = [exec EXCEPT ![c] = "gone"]
        /\ orphans' = orphans \ {c} /\ UNCHANGED <<s, pc, batch, out, chan>>
    BY <1>3 DEF ToolLeaves
  <2> QED BY <1>0, <2>1 DEF Busy, Live
<1> QED BY <1>1, <1>2, <1>3 DEF ToolStep

LEMMA ClientTasks ==
  ASSUME TypeOK, TypeOK', TaskInv, Client \/ Stop \/ Stopped \/ Reopen
  PROVE  TaskInv'
<1>0. IsState(s) /\ IsState(s') /\ s.issued \in Nat
  BY Ledger, BoundAssumption DEF TypeOK
<1>1. pc' # "control"
  BY DEF Client, Input, SetSelection, CancelTurn, SetContext, Receiving, Handled,
         AfterCommand, TurnLeft, Stop, Stopped, Reopen, Goto
<1>2. CASE Client \/ Stop \/ Reopen
  <2>1. SameBooks(s, s') /\ s'.result = s.result
    <3>1. s' = s => SameBooks(s, s') /\ s'.result = s.result
      BY DEF SameBooks
    <3> QED BY <1>0, <1>2, <3>1, BookAside
            DEF Client, Input, SetSelection, CancelTurn, SetContext, Stop, Reopen
  <2>2. Unsettled(s') = Unsettled(s) /\ s.issued <= s'.issued
    BY <1>0, <2>1, SameDebts DEF SameBooks
  <2>3. UNCHANGED <<out, chan, orphans>>
    BY <1>2 DEF Client, Input, SetSelection, CancelTurn, SetContext, Stop, Reopen, tools
  <2>4. \E cs : exec' = exec \/ exec' = Signalled(cs)
    BY <1>2 DEF Client, Input, SetSelection, CancelTurn, SetContext, Stop, Reopen, tools
  <2>5. PICK cs : exec' = exec \/ exec' = Signalled(cs)
    BY <2>4
  <2> QED BY <1>0, <1>1, <2>2, <2>3, <2>5, TaskAside
<1>3. CASE Stopped
  BY <1>1, <1>3, TaskDropped DEF Stopped
<1> QED BY <1>2, <1>3

\* What a decision other than to give lost calls up leaves owed.
LEMMA ActDebts ==
  ASSUME TypeOK, Act
  PROVE  /\ s'.issued = s.issued /\ pc' # "control"
         /\ Unsettled(s') \subseteq Unsettled(s)
         /\ \A c \in Unsettled(s) \ Unsettled(s') : c \in Unsettled(s) \ snap
         /\ UNCHANGED tools \/ (s' = s /\ ReceiverGone)
<1>1. PICK over \in {FALSE, s.anchor} : Carry(Decide(s, snap, over))
  BY DEF Act
<1> DEFINE d == Decide(s, snap, over)
<1> HIDE DEF d
<1>2. Carry(d) /\ IsState(s)
  BY <1>1 DEF d, TypeOK
<1> DEFINE Stands == s'.issued = s.issued /\ Unsettled(s') = Unsettled(s)
<1>3. pc' # "control"
  BY <1>2, ActLeaves DEF Carry, InterruptStep, InterruptTools, StartTurn, LeaveAutoWait,
                    EndTurn, ReachDeadline, GiveUpContext, BeginStep, Park,
                    Commit, Goto
<1>4. CASE InterruptStep(d) \/ LeaveAutoWait(d) \/ ReachDeadline(d)
  <2>1. SameBooks(s, s') /\ s'.result = s.result
    BY <1>2, <1>4, BookAside DEF InterruptStep, LeaveAutoWait, ReachDeadline, Commit
  <2>2. Stands
    BY <1>2, <2>1, SameDebts DEF SameBooks
  <2>3. UNCHANGED tools
    BY <1>4 DEF InterruptStep, LeaveAutoWait, ReachDeadline, Commit
  <2> QED BY <1>3, <2>2, <2>3
<1>5. CASE InterruptTools(d)
  <2> DEFINE o == [c \in Lost(s, snap) |->
                     IF s.kind[c] \in Malformed THEN "failed" ELSE "interrupted"]
  <2>1. s' = ToolResults(s, o) /\ UNCHANGED tools /\ DOMAIN o = Lost(s, snap)
    BY <1>5 DEF InterruptTools, Commit
  <2> HIDE DEF o
  <2>2. /\ SameBooks(s, s')
        /\ \A c \in Calls : c \notin Lost(s, snap) => s'.result[c] = s.result[c]
        /\ \A c \in Calls : s'.result[c] = "none" => s.result[c] = "none"
    <3>1. \A c \in Lost(s, snap) : o[c] # "none"
      BY DEF o
    <3> QED BY <1>2, <2>1, <3>1, BookResults, ZenonT(40)
  <2>3. Unsettled(s) \subseteq Calls
    BY <1>2, Readings DEF Unsettled
  <2>4. \A c \in Unsettled(s) \ Unsettled(s') : c \in Lost(s, snap)
    BY <2>2, <2>3 DEF SameBooks, Unsettled
  <2>5. Unsettled(s') \subseteq Unsettled(s)
    BY <1>2, <2>2, Readings DEF SameBooks, Unsettled
  <2> QED BY <1>3, <2>1, <2>2, <2>4, <2>5 DEF SameBooks, Lost
<1>6. CASE StartTurn(d)
  <2>1. s' = TurnStarted(s) /\ UNCHANGED tools
    BY <1>6 DEF StartTurn, Commit
  <2>2. TurnStarted(s).issued = s.issued
    BY <1>2 DEF TurnStarted, NoContext, IsState, FieldTypes
  <2> QED BY <1>2, <1>3, <2>1, <2>2, DebtsStand
<1>7. CASE EndTurn(d)
  <2>1. s' = TurnFinished(s, d.outcome) /\ UNCHANGED tools
    BY <1>7 DEF EndTurn
  <2> QED BY <1>2, <1>3, <2>1, DebtsStand, TurnFinishedBooks
<1>8. CASE GiveUpContext(d)
  <2> DEFINE told == ContextFailed(s)
  <2>1. s' = ContextApplied(told, Unsettled(s), Nothing) /\ UNCHANGED tools
    BY <1>8 DEF GiveUpContext, Commit
  <2>2. IsState(told) /\ told.issued = s.issued /\ told.result = s.result
    BY <1>2, NotedType, BookAside DEF SameBooks
  <2> HIDE DEF told
  <2>3. \A c \in Unsettled(s) : told.result[c] = "none"
    BY <2>2 DEF Unsettled
  <2>4. Unsettled(s') = Unsettled(s)
    BY <2>1, <2>2, <2>3, DebtsCarried
  <2>5. s'.issued = s.issued
    BY <2>1, <2>2, ContextAppliedBooks
  <2> QED BY <1>3, <2>1, <2>4, <2>5
<1>9. CASE BeginStep(d)
  <2>1. UNCHANGED tools
    BY <1>9 DEF BeginStep
  <2>2. CASE s' = s
    BY <1>3, <2>1, <2>2
  <2>3. CASE s' = StepStarted(s, d.purpose, d.include)
    BY <1>2, <1>3, <2>1, <2>3, DebtsStand, StepStartedBooks
  <2> QED BY <1>9, <2>2, <2>3 DEF BeginStep
<1>10. CASE Park(d)
  BY <1>3, <1>10 DEF Park
<1> QED BY <1>2, <1>4, <1>5, <1>6, <1>7, <1>8, <1>9, <1>10 DEF Carry

LEMMA ActTasks ==
  ASSUME TypeOK, TypeOK', TaskInv, Watch, Act
  PROVE  TaskInv'
<1>1. /\ s'.issued = s.issued /\ pc' # "control"
      /\ \A c \in Unsettled(s) \ Unsettled(s') : c \in Unsettled(s) \ snap
      /\ UNCHANGED tools \/ (s' = s /\ ReceiverGone)
  BY ActDebts
<1>2. pc = "decide" /\ IsState(s') /\ s.issued \in Nat
  BY Ledger, BoundAssumption DEF TypeOK, Act
<1>3. \A c \in Unsettled(s) \ Unsettled(s') : Quiet(c) /\ c \notin chan
  BY <1>1, <1>2 DEF Watch
<1>4. CASE UNCHANGED tools
  <2>1. UNCHANGED <<exec, out, chan, orphans>> /\ s.issued <= s'.issued
    BY <1>1, <1>2, <1>4 DEF tools
  <2> QED BY <1>1, <1>2, <1>3, <2>1, TaskAside
<1>5. CASE s' = s /\ ReceiverGone
  BY <1>1, <1>5, TaskDropped
<1> QED BY <1>1, <1>4, <1>5

LEMMA AnswerTasks ==
  ASSUME TypeOK, TypeOK', PairInv, TaskInv, Answer
  PROVE  TaskInv'
<1>1. PICK ks \in KindSeqs, usage \in Usages :
        s.issued + Len(ks) <= MaxCalls /\ CompleteStep(ks, usage)
  BY DEF Answer
<1> DEFINE new == NewCalls(s, Len(ks))
           cancels == {c \in new : ks[c - s.issued] = "cancel"}
<1>2. /\ IsState(s) /\ Paired(s) /\ s.issued \in Nat
      /\ exec \in [Calls -> TaskStates] /\ chan \subseteq Calls /\ orphans \subseteq Calls
  BY Ledger, BoundAssumption DEF TypeOK, PairInv
<1>3. ks \in Seq(CallKinds) /\ Len(ks) \in Nat
  BY RunnerAssumption DEF KindSeqs
<1>4. /\ s' = StepCompleted(s, ks, usage) /\ UNCHANGED <<out, chan, orphans>>
      /\ \/ exec' = Dispatched(new) /\ pc' = "drain"
         \/ /\ exec' = exec
            /\ batch' = [cancels |-> cancels, rest |-> new \ cancels, asked |-> FALSE]
  BY <1>1 DEF CompleteStep, Goto
<1>5. Unsettled(s') = Unsettled(s) \cup new /\ s'.issued = s.issued + Len(ks)
  BY <1>1, <1>2, <1>3, <1>4, DebtsAdded, StepCompletedBooks
<1>6. \A c \in new : c \in Nat /\ c > s.issued /\ c <= s'.issued /\ c \in Calls
  BY <1>1, <1>2, <1>3, <1>5, NewCallsFresh, BoundAssumption DEF Calls
<1>7. cancels \subseteq new
  OBVIOUS
<1> HIDE DEF new, cancels
<1>8. \A c \in new : exec[c] = "none"
  BY <1>2, <1>6 DEF TaskInv, Routed
<1>9. \A c \in Calls : exec[c] # "none" => c <= s'.issued
  BY <1>2, <1>3, <1>5 DEF TaskInv, Routed, Calls
<1>10. CASE exec' = Dispatched(new) /\ pc' = "drain"
  <2>1. \A c \in Calls : exec'[c] = IF c \in new THEN "running" ELSE exec[c]
    BY <1>10 DEF Dispatched
  <2>2. Routed'
    BY <1>2, <1>4, <1>5, <1>6, <1>8, <1>9, <2>1 DEF TaskInv, Routed, Busy, Live
  <2> QED BY <1>10, <2>2 DEF TaskInv, Undispatched, Apart
<1>11. CASE /\ exec' = exec
            /\ batch' = [cancels |-> cancels, rest |-> new \ cancels, asked |-> FALSE]
  <2>1. Routed'
    BY <1>2, <1>4, <1>5, <1>9, <1>11 DEF TaskInv, Routed, Busy, Live
  <2>2. Undispatched' /\ Apart'
    BY <1>5, <1>7, <1>8, <1>11 DEF Undispatched, Apart
  <2> QED BY <2>1, <2>2 DEF TaskInv
<1> QED BY <1>4, <1>10, <1>11

\* An answer to a context request leaves what is owed as it was.
LEMMA DocumentDebts ==
  ASSUME TypeOK, PairInv, Document \/ NoDocument
  PROVE  /\ Unsettled(s') = Unsettled(s) /\ s.issued <= s'.issued
         /\ UNCHANGED tools /\ pc' = "drain"
<1>0. IsState(s) /\ Paired(s) /\ s.issued \in Nat /\ Unsettled(s) \subseteq Calls
  BY Ledger, BoundAssumption DEF TypeOK, PairInv, Unsettled
<1>1. CASE Document
  <2>1. PICK ks \in Seq(CallKinds), usage \in BOOLEAN, kept \in Kept :
          /\ IsState(StepCompleted(s, ks, usage))
          /\ Commit(ContextApplied(StepCompleted(s, ks, usage), Unsettled(s), kept))
    BY <1>1, DocumentDone
  <2> DEFINE done == StepCompleted(s, ks, usage)
  <2>2. done.result = s.result /\ done.issued = s.issued + Len(ks) /\ IsState(done)
    BY <1>0, <2>1, StepCompletedBooks
  <2>3. s' = ContextApplied(done, Unsettled(s), kept) /\ UNCHANGED tools /\ pc' = "drain"
    BY <2>1 DEF Commit, Goto
  <2> HIDE DEF done
  <2>4. \A c \in Unsettled(s) : done.result[c] = "none"
    BY <2>2 DEF Unsettled
  <2> QED BY <1>0, <2>2, <2>3, <2>4, DebtsCarried, ContextAppliedBooks
<1>2. CASE NoDocument
  <2>1. PICK n \in 0..MaxBatch, usage \in Usages :
          s.issued + n <= MaxCalls /\ BadDocument(n, usage)
    BY <1>2 DEF NoDocument
  <2> DEFINE ks == [i \in 1..n |-> "refused"]
             done == StepCompleted(s, ks, usage)
             o == [c \in NewCalls(s, n) |-> "failed"]
  <2>2. ks \in Seq(CallKinds) /\ Len(ks) = n /\ n \in Nat /\ usage \in BOOLEAN
    BY RunnerAssumption DEF CallKinds
  <2>3. /\ \/ s' = ContextApplied(ContextFailed(done), Unsettled(s), Nothing)
           \/ s' = ToolResults(done, o)
        /\ UNCHANGED tools /\ pc' = "drain"
    BY <2>1 DEF BadDocument, Commit, Goto
  <2>4. DOMAIN o = NewCalls(s, n) /\ \A c \in NewCalls(s, n) : o[c] = "failed"
    OBVIOUS
  <2> HIDE DEF ks, o
  <2>5. done.result = s.result /\ done.issued = s.issued + n /\ IsState(done)
    BY <1>0, <2>1, <2>2, StepCompletedType, StepCompletedBooks
  <2>6. Unsettled(done) = Unsettled(s) \cup NewCalls(s, n)
    BY <1>0, <2>1, <2>2, DebtsAdded
  <2>7. \A c \in NewCalls(s, n) : c \notin Unsettled(s)
    <3>1. \A c \in NewCalls(s, n) : ~(c <= s.issued)
      BY <1>0, <2>2, NewCallsFresh
    <3> QED BY <1>0, <3>1 DEF Unsettled, Paired, Known
  <2> HIDE DEF done
  <2>8. CASE s' = ContextApplied(ContextFailed(done), Unsettled(s), Nothing)
    <3> DEFINE told == ContextFailed(done)
    <3>1. IsState(told) /\ told.issued = done.issued /\ told.result = done.result
      BY <2>5, NotedType, BookAside DEF SameBooks
    <3> HIDE DEF told
    <3>2. \A c \in Unsettled(s) : told.result[c] = "none"
      BY <2>5, <3>1 DEF Unsettled
    <3>3. Unsettled(s') = Unsettled(s) /\ s'.issued = told.issued
      BY <2>8, <3>1, <3>2, DebtsCarried, ContextAppliedBooks DEF told
    <3> QED BY <1>0, <2>2, <2>3, <2>5, <3>1, <3>3
  <2>9. CASE s' = ToolResults(done, o)
    <3>1. SameBooks(done, s')
          /\ \A c \in Calls : s'.result[c] = IF c \in NewCalls(s, n) /\ done.result[c] = "none"
                                             THEN o[c] ELSE done.result[c]
      BY <2>4, <2>5, <2>9, BookResults
    <3>2. \A c \in Calls : c \in Unsettled(s') <=> c \in Unsettled(done) \ NewCalls(s, n)
      BY <2>4, <3>1 DEF SameBooks, Unsettled
    <3>3. Unsettled(s') \subseteq Calls
      BY <2>5, <3>1, Ledger DEF SameBooks, Unsettled
    <3> QED BY <1>0, <2>2, <2>3, <2>5, <2>6, <2>7, <3>1, <3>2, <3>3 DEF SameBooks
  <2> QED BY <2>3, <2>8, <2>9
<1> QED BY <1>1, <1>2

LEMMA ProviderTasks ==
  ASSUME TypeOK, TypeOK', PairInv, TaskInv, Provider
  PROVE  TaskInv'
<1>0. IsState(s) /\ IsState(s') /\ s.issued \in Nat
  BY Ledger, BoundAssumption DEF TypeOK
<1>1. CASE Answer
  BY <1>1, AnswerTasks
<1>2. CASE Document \/ NoDocument
  <2>1. /\ Unsettled(s') = Unsettled(s) /\ s.issued <= s'.issued /\ pc' = "drain"
        /\ UNCHANGED <<exec, out, chan, orphans>>
    BY <1>2, DocumentDebts DEF tools
  <2> QED BY <1>0, <2>1, TaskAside
<1>3. CASE Failure
  <2>1. PICK err \in ProviderErrors, usage \in Usages : s' = StepFailed(s, err, usage)
    BY <1>3 DEF Failure, FailStep
  <2>2. SameBooks(s, s') /\ s'.result = s.result
    BY <1>0, <2>1, BookAside
  <2>3. Unsettled(s') = Unsettled(s) /\ s.issued <= s'.issued
    BY <1>0, <2>2, SameDebts DEF SameBooks
  <2>4. UNCHANGED <<exec, out, chan, orphans>> /\ pc' = "drain"
    BY <1>3 DEF Failure, FailStep, Goto, tools
  <2> QED BY <1>0, <2>3, <2>4, TaskAside
<1> QED BY <1>1, <1>2, <1>3 DEF Provider

\* The result of a call settles it and nothing else.
LEMMA ResultDebts ==
  ASSUME NEW st, IsState(st), NEW c \in Unsettled(st), NEW o, o # "none",
         NEW next, next = ToolResult(st, c, o)
  PROVE  Unsettled(next) = Unsettled(st) \ {c} /\ next.issued = st.issued
<1>1. SameBooks(st, next) /\ Unsettled(st) \subseteq Calls /\ Unsettled(next) \subseteq Calls
  BY BookResults, Ledger DEF SameBooks, Unsettled
<1>2. \A d \in Calls : next.result[d] = IF d = c THEN o ELSE st.result[d]
  BY BookResults
<1> QED BY <1>1, <1>2 DEF SameBooks, Unsettled

LEMMA AnswerCancelTasks ==
  ASSUME TypeOK, PairInv, TaskInv, AnswerToolCancel
  PROVE  TaskInv'
<1>1. PICK c \in NextCancel :
        /\ s' = ToolResult(s, c, "ok")
        /\ \/ batch.cancels \ {c} = {} /\ pc' = "drain" /\ exec' = Dispatched(batch.rest)
           \/ /\ batch' = [batch EXCEPT !.cancels = batch.cancels \ {c}, !.asked = FALSE]
              /\ UNCHANGED <<pc, exec>>
  BY DEF AnswerToolCancel, Goto
<1>2. /\ pc = "control" /\ UNCHANGED <<out, chan, orphans>>
      /\ IsState(s) /\ Unsettled(s) \subseteq 1..s.issued /\ s.issued \in Nat
      /\ exec \in [Calls -> TaskStates] /\ chan \subseteq Calls /\ orphans \subseteq Calls
      /\ batch.cancels \subseteq Calls /\ batch.rest \subseteq Calls
  BY Ledger, BoundAssumption
     DEF AnswerToolCancel, TypeOK, PairInv, Paired, Known, Unsettled
<1>3. /\ c \in batch.cancels /\ c \notin batch.rest
      /\ \A d \in batch.cancels \cup batch.rest : d \in Unsettled(s) /\ exec[d] = "none"
  BY <1>2 DEF NextCancel, TaskInv, Undispatched, Apart
<1>4. Unsettled(s') = Unsettled(s) \ {c} /\ s'.issued = s.issued
  BY <1>1, <1>2, <1>3, ResultDebts
<1>5. CASE pc' = "drain" /\ exec' = Dispatched(batch.rest)
  <2>1. \A d \in Calls : exec'[d] = IF d \in batch.rest THEN "running" ELSE exec[d]
    BY <1>5 DEF Dispatched
  <2>2. \A d \in batch.rest : d <= s.issued
    BY <1>2, <1>3
  <2>3. Routed'
    BY <1>2, <1>3, <1>4, <2>1, <2>2 DEF TaskInv, Routed, Busy, Live
  <2> QED BY <1>5, <2>3 DEF TaskInv, Undispatched, Apart
<1>6. CASE /\ batch' = [batch EXCEPT !.cancels = batch.cancels \ {c}, !.asked = FALSE]
           /\ UNCHANGED <<pc, exec>>
  <2>1. Routed'
    BY <1>2, <1>3, <1>4, <1>6 DEF TaskInv, Routed, Busy, Live
  <2>2. batch'.cancels = batch.cancels \ {c} /\ batch'.rest = batch.rest
    BY <1>6 DEF TypeOK
  <2>3. Undispatched' /\ Apart'
    BY <1>2, <1>3, <1>4, <1>6, <2>2 DEF TaskInv, Undispatched, Apart
  <2> QED BY <2>1, <2>3 DEF TaskInv
<1> QED BY <1>1, <1>5, <1>6

LEMMA RunnerTasks ==
  ASSUME TypeOK, TypeOK', PairInv, TaskInv, Watch, RunnerStep
  PROVE  TaskInv'
<1>0. IsState(s) /\ IsState(s') /\ s.issued \in Nat
  BY Ledger, BoundAssumption DEF TypeOK
<1>1. CASE AbortStep
  <2>1. s' = StepInterrupted(s, "cancelled") /\ pc' = "drain"
        /\ UNCHANGED <<exec, out, chan, orphans>>
    BY <1>1 DEF AbortStep, Goto, tools
  <2>2. SameBooks(s, s') /\ s'.result = s.result
    BY <1>0, <2>1, BookAside
  <2>3. Unsettled(s') = Unsettled(s) /\ s.issued <= s'.issued
    BY <1>0, <2>2, SameDebts DEF SameBooks
  <2> QED BY <1>0, <2>1, <2>3, TaskAside
<1>2. CASE Snapshot \/ Collected
  <2>1. s' = s /\ pc' # "control" /\ UNCHANGED <<exec, out, chan, orphans>>
    BY <1>2 DEF Snapshot, Collected, tools
  <2>2. s.issued <= s'.issued
    BY <1>0, <2>1
  <2> QED BY <1>0, <2>1, <2>2, TaskAside
<1>3. CASE Act
  BY <1>3, ActTasks
<1>4. CASE RetryStep
  <2>1. s' = StepStarted(s, plan.purpose, plan.include) /\ pc' = "stream"
        /\ UNCHANGED <<exec, out, chan, orphans>>
    BY <1>4 DEF RetryStep, Goto, tools
  <2>2. Unsettled(s') = Unsettled(s) /\ s.issued <= s'.issued
    BY <1>0, <2>1, DebtsStand, StepStartedBooks
  <2> QED BY <1>0, <2>1, <2>2, TaskAside
<1>5. CASE AnswerToolCancel
  BY <1>5, AnswerCancelTasks
<1>6. ASSUME NEW target \in 0..MaxCalls, RequestToolCancel(target) PROVE TaskInv'
  <2>1. /\ s' = ToolCancelRequested(s, target) /\ exec' = Signalled({target})
        /\ batch' = [batch EXCEPT !.asked = TRUE] /\ UNCHANGED <<pc, out, chan, orphans>>
    BY <1>6 DEF RequestToolCancel
  <2>2. UNCHANGED <<batch.cancels, batch.rest>>
    BY <2>1 DEF TypeOK
  <2>3. SameBooks(s, s') /\ s'.result = s.result
    BY <1>0, <2>1, BookAside
  <2>4. Unsettled(s') = Unsettled(s) /\ s.issued <= s'.issued
    BY <1>0, <2>3, SameDebts DEF SameBooks
  <2>5. UNCHANGED Unsettled(s)
    BY <2>4 DEF Unsettled
  <2> QED BY <1>0, <2>1, <2>2, <2>4, <2>5, TaskAside
<1>7. ASSUME NEW c \in Calls, TakeResult(c) PROVE TaskInv'
  <2>1. /\ c \in chan /\ s' = ToolResult(s, c, out[c]) /\ chan' = chan \ {c}
        /\ out' = [out EXCEPT ![c] = "none"] /\ pc' # "control"
        /\ UNCHANGED <<exec, orphans>>
    BY <1>7 DEF TakeResult
  <2>2. Unsettled(s') = Unsettled(s) \ {c} /\ s'.issued = s.issued
    BY <1>0, <2>1, ResultDebts DEF TaskInv, Routed
  <2>3. /\ exec \in [Calls -> TaskStates] /\ chan \subseteq Calls /\ orphans \subseteq Calls
        /\ out \in [Calls -> Outcomes \cup {"none"}]
    BY DEF TypeOK
  <2>4. Routed'
    BY <2>1, <2>2, <2>3 DEF TaskInv, Routed, Busy, Live
  <2> QED BY <2>1, <2>4 DEF TaskInv, Undispatched, Apart
<1> QED BY <1>1, <1>2, <1>3, <1>4, <1>5, <1>6, <1>7 DEF RunnerStep

LEMMA OtherTasks ==
  ASSUME TypeOK, TypeOK', TaskInv,
         Clock \/ Crash \/ RunnerFails \/ \E open \in BOOLEAN : Rebuild(open)
  PROVE  TaskInv'
<1>0. IsState(s) /\ IsState(s') /\ s.issued \in Nat
  BY Ledger, BoundAssumption DEF TypeOK
<1>1. CASE AutoWaitExpires \/ WaitExpires
  <2>1. SameBooks(s, s') /\ s'.result = s.result
        /\ UNCHANGED <<pc, batch, exec, out, chan, orphans>>
    BY <1>0, <1>1 DEF AutoWaitExpires, WaitExpires, IsState, FieldTypes, SameBooks, tools
  <2>2. Unsettled(s') = Unsettled(s) /\ s.issued <= s'.issued
    BY <1>0, <2>1, SameDebts DEF SameBooks
  <2>3. UNCHANGED Unsettled(s)
    BY <2>2 DEF Unsettled
  <2> QED BY <1>0, <2>1, <2>2, <2>3, TaskAside
<1>2. CASE DeadlineWake
  <2>1. s' = s /\ pc' # "control" /\ UNCHANGED <<exec, out, chan, orphans>>
    BY <1>2 DEF DeadlineWake, Goto, tools
  <2>2. s.issued <= s'.issued
    BY <1>0, <2>1
  <2> QED BY <1>0, <2>1, <2>2, TaskAside
<1>3. CASE Crash \/ RunnerFails
  <2>1. s' = s /\ pc' # "control"
    BY <1>3 DEF Crash, RunnerFails, Goto
  <2> QED BY <1>3, <2>1, TaskDropped DEF Crash, RunnerFails
<1>4. ASSUME NEW open \in BOOLEAN, Rebuild(open) PROVE TaskInv'
  <2>1. s' = RuntimeFault(s) /\ pc' # "control" /\ UNCHANGED <<exec, out, chan, orphans>>
    BY <1>4 DEF Rebuild, tools
  <2>2. SameBooks(s, s') /\ s'.result = s.result
    BY <1>0, <2>1, BookAside
  <2>3. Unsettled(s') = Unsettled(s) /\ s.issued <= s'.issued
    BY <1>0, <2>2, SameDebts DEF SameBooks
  <2> QED BY <1>0, <2>1, <2>3, TaskAside
<1> QED BY <1>1, <1>2, <1>3, <1>4 DEF Clock

LEMMA TaskInvInit == Init => TaskInv
  BY DEF Init, TaskInv, Routed, Undispatched, Apart, Busy, Live

LEMMA TaskInvStep ==
  ASSUME TypeOK, PairInv, TaskInv, Watch, [Next]_vars
  PROVE  TaskInv'
<1>0. TypeOK'
  BY TypeStep
<1>1. CASE UNCHANGED vars
  BY <1>1 DEF vars, TaskInv, Routed, Undispatched, Apart, Busy, Live, Unsettled
<1> QED BY <1>0, <1>1, ClientTasks, RunnerTasks, ProviderTasks, ToolTasks, OtherTasks DEF Next

-----------------------------------------------------------------------------
\* No event surprises the fold.

\* A call of a tool that is not registered has had its result.
Named(st) == \E c \in Calls : st.kind[c] = "unknown" /\ st.result[c] # "none"

Calm(st) ==
  /\ st.notices \subseteq {"info", "unknown"}
  /\ "unknown" \in st.notices => Named(st)

\* An event that adds no notice but "info", and takes back neither the kind of a
\* call that has a result nor the result.
LEMMA CalmKept ==
  ASSUME NEW st, Calm(st), NEW next, next.notices \subseteq st.notices \cup {"info"},
         \A c \in Calls : st.result[c] # "none"
                          => next.kind[c] = st.kind[c] /\ next.result[c] # "none"
  PROVE  Calm(next)
<1>1. Named(st) => Named(next)
  BY DEF Named
<1> QED BY <1>1 DEF Calm

\* What the events that write no book note.
LEMMA CalmNotes ==
  ASSUME NEW st, IsState(st), NEW g, NEW c, NEW o, NEW same, NEW b
  PROVE  LET More(next) == next.notices \subseteq st.notices \cup {"info"} IN
         /\ More(InputAppended(st)) /\ More(SelectionChanged(st, same))
         /\ More(ContextConfigured(st, g)) /\ More(ToolCancelRequested(st, c))
         /\ More(ContextFailed(st)) /\ More(RuntimeFault(st))
         /\ ~st.on => More(TurnStarted(st))
         /\ st.on => More(TurnCancelRequested(st))
         /\ st.step # "none" => More(StepInterrupted(st, o)) /\ More(StepFailed(st, o, b))
         /\ st.autoWait # {} => More(AutoWaitEnded(st, o))
         /\ st.wait # NoCall => More(DeadlineReached(st))
<1> DEFINE More(next) == next.notices \subseteq st.notices \cup {"info"}
<1> USE DEF IsState, FieldTypes
<1>1. More(InputAppended(st)) /\ More(SelectionChanged(st, same))
  BY DEF InputAppended, SelectionChanged
<1>2. More(ContextConfigured(st, g))
  BY DEF ContextConfigured
<1>3. More(ContextFailed(st)) /\ More(RuntimeFault(st))
  BY DEF ContextFailed, RuntimeFault
<1>4. More(ToolCancelRequested(st, c))
  BY DEF ToolCancelRequested, Note
<1>5. ~st.on => More(TurnStarted(st))
  BY DEF TurnStarted, NoContext, Note
<1>6. st.on => More(TurnCancelRequested(st))
  BY DEF TurnCancelRequested, Note
<1>7. st.step # "none" => More(StepInterrupted(st, o)) /\ More(StepFailed(st, o, b))
  <2>1. /\ StepInterrupted(st, o).notices
             = Closed(st).notices \cup Note({}, st.step = "none", "anomaly")
                                  \cup Note({}, o = "recovery", "info")
        /\ StepFailed(st, o, b).notices
             = Closed(st).notices \cup {"info"} \cup Note({}, st.step = "none", "anomaly")
        /\ Closed(st).notices = Note(st.notices, st.step = "none", "anomaly")
    BY DEF StepInterrupted, StepFailed, Closed, NoStep
  <2> QED BY <2>1 DEF Note
<1>8. st.autoWait # {} => More(AutoWaitEnded(st, o))
  <2>1. AutoWaitEnded(st, o).notices
          = Note(Note(st.notices, st.autoWait = {}, "anomaly"), o = "timedOut", "info")
    BY DEF AutoWaitEnded, NoAutoWait
  <2> QED BY <2>1 DEF Note
<1>9. st.wait # NoCall => More(DeadlineReached(st))
  BY DEF DeadlineReached
<1> QED BY <1>1, <1>2, <1>3, <1>4, <1>5, <1>6, <1>7, <1>8, <1>9

\* What each event presupposes.
LEMMA CalmEvents ==
  ASSUME NEW st, IsState(st), Calm(st), NEW g, NEW c, NEW o, NEW same, NEW b
  PROVE  /\ Calm(InputAppended(st)) /\ Calm(SelectionChanged(st, same))
         /\ Calm(ContextConfigured(st, g)) /\ Calm(ToolCancelRequested(st, c))
         /\ Calm(ContextFailed(st)) /\ Calm(RuntimeFault(st))
         /\ ~st.on => Calm(TurnStarted(st))
         /\ st.on => Calm(TurnCancelRequested(st))
         /\ st.step # "none" => Calm(StepInterrupted(st, o)) /\ Calm(StepFailed(st, o, b))
         /\ st.autoWait # {} => Calm(AutoWaitEnded(st, o))
         /\ st.wait # NoCall => Calm(DeadlineReached(st))
<1>1. ASSUME NEW next, SameBooks(st, next), next.result = st.result,
             next.notices \subseteq st.notices \cup {"info"}
      PROVE  Calm(next)
  BY <1>1, CalmKept DEF SameBooks
<1>2. /\ Calm(InputAppended(st)) /\ Calm(SelectionChanged(st, same))
      /\ Calm(ContextConfigured(st, g)) /\ Calm(ToolCancelRequested(st, c))
      /\ Calm(ContextFailed(st)) /\ Calm(RuntimeFault(st))
  BY <1>1, BookAside, CalmNotes
<1>3. /\ st.on => Calm(TurnCancelRequested(st))
      /\ st.step # "none" => Calm(StepInterrupted(st, o)) /\ Calm(StepFailed(st, o, b))
  BY <1>1, BookAside, CalmNotes
<1>4. /\ st.autoWait # {} => Calm(AutoWaitEnded(st, o))
      /\ st.wait # NoCall => Calm(DeadlineReached(st))
  BY <1>1, BookAside, CalmNotes
<1>5. ~st.on => Calm(TurnStarted(st))
  <2>1. TurnStarted(st).kind = st.kind /\ TurnStarted(st).result = st.result
    BY DEF TurnStarted, NoContext, IsState, FieldTypes
  <2> QED BY <2>1, CalmNotes, CalmKept
<1> QED BY <1>2, <1>3, <1>4, <1>5

\* A result that a call waits for is diagnosed only if the call is of a tool that
\* is not registered, and is recorded as well.
LEMMA CalmResult ==
  ASSUME NEW st, IsState(st), Calm(st), NEW c \in Unsettled(st), NEW o, o # "none"
  PROVE  Calm(ToolResult(st, c, o))
<1> DEFINE next == ToolResult(st, c, o)
<1>1. next.kind = st.kind /\ c \in Calls
  BY BookResults, Ledger DEF SameBooks, Unsettled
<1>2. \A d \in Calls : next.result[d] = IF d = c THEN o ELSE st.result[d]
  BY BookResults
<1>3. next.notices = Note(Note(st.notices, Diagnosed(st, c), "unknown"), FALSE, "stray")
  BY DEF ToolResult, IsState, FieldTypes
<1> SUFFICES Calm(next)
  OBVIOUS
<1> HIDE DEF next
<1>4. CASE Diagnosed(st, c)
  <2>1. Named(next)
    BY <1>1, <1>2, <1>4 DEF Named, Diagnosed
  <2> QED BY <1>3, <2>1 DEF Calm, Note
<1>5. CASE ~Diagnosed(st, c)
  <2>1. next.notices = st.notices
    BY <1>3, <1>5 DEF Note
  <2> QED BY <1>1, <1>2, <2>1, CalmKept
<1> QED BY <1>4, <1>5

LEMMA CalmResults ==
  ASSUME NEW st, IsState(st), Calm(st), NEW o, DOMAIN o \subseteq Calls,
         \A c \in DOMAIN o : o[c] \in Outcomes
  PROVE  Calm(ToolResults(st, o))
<1> DEFINE next == ToolResults(st, o)
<1>1. next.kind = st.kind
  BY BookResults DEF SameBooks
<1>2. \A d \in Calls : next.result[d] = IF d \in DOMAIN o /\ st.result[d] = "none"
                                        THEN o[d] ELSE st.result[d]
  BY BookResults
<1>3. next.notices = Note(st.notices, \E c \in DOMAIN o : Diagnosed(st, c), "unknown")
  BY DEF ToolResults, IsState, FieldTypes
<1>4. \A c \in DOMAIN o : next.result[c] # "none"
  BY <1>2 DEF Outcomes
<1> SUFFICES Calm(next)
  OBVIOUS
<1> HIDE DEF next
<1>5. CASE \E c \in DOMAIN o : Diagnosed(st, c)
  <2>1. Named(next)
    BY <1>1, <1>4, <1>5 DEF Named, Diagnosed
  <2> QED BY <1>3, <2>1 DEF Calm, Note
<1>6. CASE ~\E c \in DOMAIN o : Diagnosed(st, c)
  <2>1. next.notices = st.notices
    BY <1>3, <1>6 DEF Note
  <2> QED BY <1>1, <1>2, <2>1, CalmKept
<1> QED BY <1>5, <1>6

LEMMA DecideGrounds ==
  ASSUME NEW st, IsState(st), NEW live, NEW over, NEW d, d = Decide(st, live, over)
  PROVE  /\ d.act = "interruptStep" => st.step # "none"
         /\ d.act = "endAutoWait" => st.autoWait # {}
         /\ d.act = "reachDeadline" => st.wait # NoCall
<1> DEFINE Others == {"startStep", "finishTurn", "applyContext"}
<1>1. RetryDecision(st).act \in Others
  BY RetryProceeds DEF Proceeds
<1>2. st.ctx # "none" => ContextDecision(st).act \in Others
  BY ContextProceeds DEF Proceeds
<1>3. ControlDecision(st).act \in Others
  BY ControlProceeds DEF Proceeds
<1>4. \/ d = Do("interruptStep") /\ st.step # "none"
      \/ d = Do("reachDeadline") /\ st.wait # NoCall
      \/ d = AutoWaitDecision(st) /\ st.autoWait # {}
      \/ d \in {Do("interruptTools"), Do("park"), Do("startTurn"), FinishTurn("cancelled"),
                RetryDecision(st), ControlDecision(st), StartStep(st.strategy, TRUE),
                StartStep("conversation", Fresh(st) # {})}
      \/ d = ContextDecision(st) /\ st.ctx # "none"
  BY DEF Decide
<1>5. AutoWaitDecision(st).act \in {"endAutoWait", "park"}
  BY DEF AutoWaitDecision, EndAutoWait, Do
<1> QED BY <1>1, <1>2, <1>3, <1>4, <1>5 DEF Do, FinishTurn, StartStep

\* A request that opens in a quiet session and its outcome are no surprise.
LEMMA CalmRequests ==
  ASSUME NEW st, IsState(st), Calm(st), NEW p, NEW b, NEW o, NEW carried, NEW kept
  PROVE  /\ st.step = "none" => Calm(StepStarted(st, p, b))
         /\ Calm(TurnFinished(st, o)) /\ Calm(ContextApplied(st, carried, kept))
<1>1. st.step = "none" => Calm(StepStarted(st, p, b))
  <2>1. /\ StepStarted(st, p, b).kind = st.kind /\ StepStarted(st, p, b).result = st.result
        /\ st.step = "none" => StepStarted(st, p, b).notices \subseteq st.notices
    BY StepStartedBooks
  <2> QED BY <2>1, CalmKept
<1>2. Calm(TurnFinished(st, o))
  <2>1. /\ TurnFinished(st, o).kind = st.kind /\ TurnFinished(st, o).result = st.result
        /\ TurnFinished(st, o).notices = st.notices
    BY TurnFinishedBooks
  <2> QED BY <2>1, CalmKept
<1>3. Calm(ContextApplied(st, carried, kept))
  <2> DEFINE next == ContextApplied(st, carried, kept)
  <2>1. next.kind = st.kind /\ next.result = st.result /\ next.notices = st.notices
    BY ContextAppliedBooks
  <2> QED BY <2>1, CalmKept
<1> QED BY <1>1, <1>2, <1>3

\* The calls of an answer are new: none of them has a result.
LEMMA CalmAnswers ==
  ASSUME NEW st, IsState(st), Paired(st), Calm(st), NEW ks, Len(ks) \in Nat, NEW usage,
         st.step # "none"
  PROVE  Calm(StepCompleted(st, ks, usage))
<1> DEFINE next == StepCompleted(st, ks, usage)
           new == NewCalls(st, Len(ks))
<1>1. /\ next.result = st.result /\ next.notices = st.notices
      /\ \A c \in Calls \ new : next.kind[c] = st.kind[c]
  BY StepCompletedBooks
<1>2. \A c \in Calls : st.result[c] # "none" => c \notin new
  <2>1. \A c \in Calls : st.result[c] # "none" => c <= st.issued
    BY DEF Paired, Known
  <2>2. \A c \in new : c \in Nat /\ c > st.issued
    BY NewCallsFresh
  <2>3. st.issued \in Nat
    BY Ledger, BoundAssumption
  <2> QED BY <2>1, <2>2, <2>3 DEF Calls
<1> QED BY <1>1, <1>2, CalmKept

LEMMA ActCalm ==
  ASSUME TypeOK, Calm(s), Act
  PROVE  Calm(s')
<1>1. PICK over \in {FALSE, s.anchor} : Carry(Decide(s, snap, over))
  BY DEF Act
<1> DEFINE d == Decide(s, snap, over)
<1>2. /\ d.act = "interruptStep" => s.step # "none"
      /\ d.act = "endAutoWait" => s.autoWait # {}
      /\ d.act = "reachDeadline" => s.wait # NoCall
      /\ d.act = "startTurn" => ~s.on
      /\ d.act = "startStep" => s.step = "none"
      /\ Carry(d) /\ IsState(s)
  BY <1>1, DecideGrounds, DecideMeans DEF TypeOK
<1> HIDE DEF d
<1>3. CASE InterruptStep(d) \/ StartTurn(d) \/ LeaveAutoWait(d) \/ ReachDeadline(d)
  BY <1>2, <1>3, CalmEvents
     DEF InterruptStep, StartTurn, LeaveAutoWait, ReachDeadline, Commit
<1>8. CASE InterruptTools(d)
  <2> DEFINE o == [c \in Lost(s, snap) |->
                     IF s.kind[c] \in Malformed THEN "failed" ELSE "interrupted"]
  <2>1. s' = ToolResults(s, o)
    BY <1>8 DEF InterruptTools, Commit
  <2>2. DOMAIN o \subseteq Calls /\ \A c \in DOMAIN o : o[c] \in Outcomes
    BY <1>2, Ledger DEF Lost, Unsettled, Outcomes
  <2> QED BY <1>2, <2>1, <2>2, CalmResults
<1>4. CASE EndTurn(d)
  BY <1>2, <1>4, CalmRequests DEF EndTurn
<1>5. CASE GiveUpContext(d)
  <2>1. s' = ContextApplied(ContextFailed(s), Unsettled(s), Nothing)
    BY <1>5 DEF GiveUpContext, Commit
  <2>2. IsState(ContextFailed(s)) /\ Calm(ContextFailed(s))
    BY <1>2, NotedType, CalmEvents
  <2> QED BY <2>1, <2>2, CalmRequests
<1>6. CASE BeginStep(d)
  <2>1. s' = s \/ s' = StepStarted(s, d.purpose, d.include)
    BY <1>6 DEF BeginStep
  <2> QED BY <1>2, <1>6, <2>1, CalmRequests DEF BeginStep
<1>7. CASE Park(d)
  BY <1>7 DEF Park
<1> QED BY <1>2, <1>3, <1>4, <1>5, <1>6, <1>7, <1>8 DEF Carry

LEMMA ProviderCalm ==
  ASSUME TypeOK, TurnInv, PairInv, Calm(s), Provider
  PROVE  Calm(s')
<1>0. IsState(s) /\ Paired(s) /\ s.step # "none"
  BY DEF PairInv, Provider, Answer, CompleteStep, Document, Summarised, HandedOff, NoDocument,
         BadDocument, Failure, FailStep, TypeOK, TurnInv, NoInvariantFailure
<1>1. CASE Failure
  BY <1>0, <1>1, CalmEvents DEF Failure, FailStep
<1>4. CASE Answer
  <2>1. PICK ks \in KindSeqs, usage \in Usages : CompleteStep(ks, usage)
    BY <1>4 DEF Answer
  <2>2. Len(ks) \in Nat
    BY RunnerAssumption DEF KindSeqs
  <2> QED BY <1>0, <2>1, <2>2, CalmAnswers DEF CompleteStep
<1>2. CASE Document
  <2>1. PICK ks \in Seq(CallKinds), usage \in BOOLEAN, kept \in Kept :
          /\ IsState(StepCompleted(s, ks, usage))
          /\ Commit(ContextApplied(StepCompleted(s, ks, usage), Unsettled(s), kept))
    BY <1>2, DocumentDone
  <2>2. Calm(StepCompleted(s, ks, usage))
    BY <1>0, CalmAnswers
  <2> QED BY <2>1, <2>2, CalmRequests DEF Commit
<1>3. CASE NoDocument
  <2>0. PICK ks \in Seq(CallKinds), usage \in BOOLEAN : \E o :
          /\ IsState(StepCompleted(s, ks, usage))
          /\ DOMAIN o \subseteq Calls /\ \A c \in DOMAIN o : o[c] \in Outcomes
          /\ \/ Commit(ContextApplied(ContextFailed(StepCompleted(s, ks, usage)),
                                      Unsettled(s), Nothing))
             \/ Commit(ToolResults(StepCompleted(s, ks, usage), o))
    BY <1>3, NoDocumentDone
  <2> DEFINE done == StepCompleted(s, ks, usage)
  <2>1. /\ IsState(done) /\ Calm(done)
        /\ \E o : /\ DOMAIN o \subseteq Calls /\ \A c \in DOMAIN o : o[c] \in Outcomes
                  /\ \/ s' = ContextApplied(ContextFailed(done), Unsettled(s), Nothing)
                     \/ s' = ToolResults(done, o)
    BY <1>0, <2>0, CalmAnswers DEF Commit
  <2> HIDE DEF done
  <2>2. IsState(ContextFailed(done)) /\ Calm(ContextFailed(done))
    BY <2>1, NotedType, CalmEvents
  <2>3. Calm(ContextApplied(ContextFailed(done), Unsettled(s), Nothing))
    BY <2>2, CalmRequests
  <2> QED BY <2>1, <2>3, CalmResults
<1> QED BY <1>1, <1>2, <1>3, <1>4 DEF Provider

LEMMA CalmStep ==
  ASSUME TypeOK, TurnInv, PairInv, TaskInv, Calm(s), [Next]_vars
  PROVE  Calm(s')
<1>0. IsState(s)
  BY DEF TypeOK
<1>1. CASE UNCHANGED s
  BY <1>1
<1>2. CASE Input \/ SetSelection \/ (\E g \in Strategies : SetContext(g)) \/ CancelTurn
  BY <1>0, <1>2, CalmEvents DEF Input, SetSelection, SetContext, CancelTurn
<1>3. CASE Act
  BY <1>3, ActCalm
<1>4. CASE Provider
  BY <1>4, ProviderCalm
<1>5. CASE AbortStep
  BY <1>0, <1>5, CalmEvents DEF AbortStep, TurnInv, NoInvariantFailure
<1>6. CASE RetryStep
  <2>1. s' = StepStarted(s, plan.purpose, plan.include) /\ s.step = "none"
    BY <1>6 DEF RetryStep, PairInv, PlanWaits
  <2> QED BY <1>0, <2>1, CalmRequests
<1>7. CASE AnswerToolCancel
  <2>1. PICK c \in NextCancel : s' = ToolResult(s, c, "ok")
    BY <1>7 DEF AnswerToolCancel
  <2>2. c \in Unsettled(s)
    BY <1>7, <2>1 DEF AnswerToolCancel, NextCancel, TaskInv, Undispatched
  <2> QED BY <1>0, <2>1, <2>2, CalmResult
<1>8. CASE \E c \in Calls : TakeResult(c)
  <2>1. PICK c \in chan : s' = ToolResult(s, c, out[c])
    BY <1>8 DEF TakeResult
  <2>2. c \in Unsettled(s) /\ out[c] # "none"
    BY <2>1 DEF TaskInv, Routed
  <2> QED BY <1>0, <2>1, <2>2, CalmResult
<1>9. CASE (\E target \in 0..MaxCalls : RequestToolCancel(target))
           \/ \E open \in BOOLEAN : Rebuild(open)
  BY <1>0, <1>9, CalmEvents DEF RequestToolCancel, Rebuild
<1>10. CASE AutoWaitExpires \/ WaitExpires
  <2>1. s'.notices = s.notices /\ s'.kind = s.kind /\ s'.result = s.result
    BY <1>0, <1>10 DEF AutoWaitExpires, WaitExpires, IsState, FieldTypes
  <2> QED BY <2>1, CalmKept
<1> QED
  <2>1. \/ UNCHANGED s \/ Act \/ Provider \/ AutoWaitExpires \/ WaitExpires
        \/ Input \/ SetSelection \/ (\E g \in Strategies : SetContext(g)) \/ CancelTurn
        \/ AbortStep \/ RetryStep \/ AnswerToolCancel \/ (\E c \in Calls : TakeResult(c))
        \/ (\E target \in 0..MaxCalls : RequestToolCancel(target))
        \/ \E open \in BOOLEAN : Rebuild(open)
    BY DEF Next, vars, Client, Stop, Stopped, Reopen, RunnerStep, Snapshot, Collected,
           ToolStep, ToolReturns, ToolSends, ToolLeaves, Clock, DeadlineWake, Crash,
           RunnerFails
  <2> QED BY <2>1, <1>1, <1>2, <1>3, <1>4, <1>5, <1>6, <1>7, <1>8, <1>9, <1>10

\* No event the runner commits is one its fold calls impossible, and every result
\* it takes answers a call that waits for one: through cancellations, crashes,
\* failures and rebuilds, and whatever order tools finish in.  The fold diagnoses
\* the results of tools that are not registered, and it diagnoses nothing else.
THEOREM NothingSurprises == Spec => []NoAnomaly
<1> DEFINE Inv == TypeOK /\ TurnInv /\ PairInv /\ TaskInv /\ Watch /\ Calm(s)
<1>1. Init => Inv
  <2>1. Init => Calm(s)
    BY DEF Init, Created, Calm
  <2> QED BY <2>1, TypeInit, TurnInvInit, PairInvInit, TaskInvInit, WatchInit
<1>2. Inv /\ [Next]_vars => Inv'
  <2>1. TypeOK /\ TurnInv /\ PairInv /\ TaskInv /\ Calm(s) /\ [Next]_vars => Calm(s)'
    BY CalmStep DEF Calm, Named
  <2> QED BY <2>1, TypeStep, TurnInvStep, PairInvStep, TaskInvStep, WatchStep
<1>3. Inv => NoAnomaly
  BY DEF Calm, Named, NoAnomaly
<1> QED BY <1>1, <1>2, <1>3, PTL DEF Spec

-----------------------------------------------------------------------------
\* A runner at rest owes nothing.

\* Every step but an answer of the conversation.
NoAnswer ==
  \/ Client \/ Stop \/ Stopped \/ Reopen \/ RunnerStep
  \/ Document \/ NoDocument \/ Failure \/ ToolStep \/ Clock
  \/ Crash \/ RunnerFails \/ \E open \in BOOLEAN : Rebuild(open)

\* Only an answer adds to what is owed.
LEMMA OnlyAnswersOwe ==
  ASSUME TypeOK, PairInv, TaskInv, NoAnswer
  PROVE  Unsettled(s') \subseteq Unsettled(s)
<1>0. IsState(s)
  BY DEF TypeOK
<1>1. CASE UNCHANGED s
  BY <1>1
<1>2. CASE SameBooks(s, s') /\ s'.result = s.result
  BY <1>0, <1>2, SameDebts
<1>3. CASE Input \/ SetSelection \/ (\E g \in Strategies : SetContext(g)) \/ CancelTurn
  BY <1>0, <1>1, <1>2, <1>3, BookAside DEF Input, SetSelection, SetContext, CancelTurn
<1>4. CASE Act
  BY <1>4, ActDebts
<1>5. CASE Document \/ NoDocument
  BY <1>5, DocumentDebts
<1>6. CASE Failure \/ AbortStep
  BY <1>0, <1>2, <1>6, BookAside DEF Failure, FailStep, AbortStep
<1>7. CASE RetryStep
  BY <1>0, <1>7, DebtsStand DEF RetryStep
<1>8. CASE AnswerToolCancel
  <2>1. PICK c \in NextCancel : s' = ToolResult(s, c, "ok")
    BY <1>8 DEF AnswerToolCancel
  <2>2. c \in Unsettled(s)
    BY <1>8, <2>1 DEF AnswerToolCancel, NextCancel, TaskInv, Undispatched
  <2> QED BY <1>0, <2>1, <2>2, ResultDebts
<1>9. CASE \E c \in Calls : TakeResult(c)
  <2>1. PICK c \in chan : s' = ToolResult(s, c, out[c])
    BY <1>9 DEF TakeResult
  <2>2. c \in Unsettled(s) /\ out[c] # "none"
    BY <2>1 DEF TaskInv, Routed
  <2> QED BY <1>0, <2>1, <2>2, ResultDebts
<1>10. CASE (\E target \in 0..MaxCalls : RequestToolCancel(target))
            \/ \E open \in BOOLEAN : Rebuild(open)
  <2>1. (\E target : s' = ToolCancelRequested(s, target)) \/ s' = RuntimeFault(s)
    BY <1>10 DEF RequestToolCancel, Rebuild
  <2> QED BY <1>0, <1>2, <2>1, BookAside
<1>11. CASE AutoWaitExpires \/ WaitExpires
  <2>1. SameBooks(s, s') /\ s'.result = s.result
    BY <1>0, <1>11 DEF AutoWaitExpires, WaitExpires, IsState, FieldTypes, SameBooks
  <2> QED BY <1>2, <2>1
<1> QED
  <2>1. \/ UNCHANGED s \/ Act \/ Document \/ NoDocument \/ Failure \/ AutoWaitExpires
        \/ WaitExpires \/ Input \/ SetSelection \/ (\E g \in Strategies : SetContext(g))
        \/ CancelTurn \/ AbortStep \/ RetryStep \/ AnswerToolCancel
        \/ (\E c \in Calls : TakeResult(c))
        \/ (\E target \in 0..MaxCalls : RequestToolCancel(target))
        \/ \E open \in BOOLEAN : Rebuild(open)
    BY DEF NoAnswer, Client, Stop, Stopped, Reopen, RunnerStep, Snapshot, Collected,
           ToolStep, ToolReturns, ToolSends, ToolLeaves, Clock, DeadlineWake,
           Crash, RunnerFails
  <2> QED BY <2>1, <1>1, <1>3, <1>4, <1>5, <1>6, <1>7, <1>8, <1>9, <1>10, <1>11

\* As long as no runner has failed, the task of a call without a result is one
\* this runner listens to; a result that was sent is in the channel; and a call
\* seen live at the start of the loop is live or in the channel.
Tracked ==
  /\ failed = 0 => orphans \cap Unsettled(s) = {}
  /\ pc # "stopping" =>
       \A c \in Unsettled(s) : exec[c] = "sent" /\ c \notin orphans => c \in chan
  /\ failed = 0 /\ pc \in {"collect", "decide"} =>
       Unsettled(s) \cap snap \subseteq Live \cup chan

\* A step by which no result is sent or taken, and no task leaves.
LEMMA TrackedAside ==
  ASSUME TypeOK, TaskInv, Tracked,
         \A c \in Calls : /\ exec'[c] = "sent" => exec[c] = "sent"
                          /\ c \in Live => c \in Live',
         UNCHANGED <<chan, orphans, failed>>,
         \A c \in Unsettled(s') \ Unsettled(s) : c \in Calls /\ exec[c] = "none",
         pc' = "stopping" \/ pc # "stopping",
         \/ pc' \notin {"collect", "decide"}
         \/ Unsettled(s') \subseteq Unsettled(s) /\ snap' = Live'
         \/ /\ Unsettled(s') \subseteq Unsettled(s)
            /\ pc \in {"collect", "decide"} /\ snap' = snap
  PROVE  Tracked'
<1>0. Unsettled(s) \subseteq Calls /\ chan \subseteq Calls
  BY Ledger DEF TypeOK, Unsettled
<1>1. failed = 0 => orphans \cap Unsettled(s') = {}
  BY DEF Tracked, TaskInv, Routed, Live
<1>2. pc' # "stopping" =>
        \A c \in Unsettled(s') : exec'[c] = "sent" /\ c \notin orphans => c \in chan
  BY <1>0 DEF Tracked
<1>3. failed = 0 /\ pc' \in {"collect", "decide"} =>
        Unsettled(s') \cap snap' \subseteq Live' \cup chan
  <2>1. CASE Unsettled(s') \subseteq Unsettled(s) /\ snap' = Live'
    BY <2>1
  <2>2. CASE /\ Unsettled(s') \subseteq Unsettled(s)
             /\ pc \in {"collect", "decide"} /\ snap' = snap
    BY <1>0, <2>2 DEF Tracked
  <2> QED BY <2>1, <2>2
<1> QED BY <1>1, <1>2, <1>3 DEF Tracked

LEMMA SignalsAside ==
  ASSUME TypeOK, NEW cs, exec' = exec \/ exec' = Signalled(cs)
  PROVE  \A c \in Calls : /\ exec'[c] = "sent" => exec[c] = "sent"
                          /\ c \in Live => c \in Live'
<1> SUFFICES ASSUME NEW c \in Calls
             PROVE  (exec'[c] = "sent" => exec[c] = "sent") /\ (c \in Live => c \in Live')
  OBVIOUS
<1>1. exec'[c] = exec[c] \/ (exec[c] = "running" /\ exec'[c] = "signalled")
  BY DEF Signalled, TypeOK
<1> QED BY <1>1 DEF Live

LEMMA ToolTracked ==
  ASSUME TypeOK, TaskInv, Tracked, ToolStep
  PROVE  Tracked'
<1>0. /\ exec \in [Calls -> TaskStates] /\ chan \subseteq Calls /\ orphans \subseteq Calls
      /\ Unsettled(s) \subseteq Calls
  BY Ledger DEF TypeOK, Unsettled
<1>1. ASSUME NEW c \in Calls, ToolReturns(c) PROVE Tracked'
  <2>1. /\ exec[c] \in {"running", "signalled"} /\ exec' = [exec EXCEPT ![c] = "ready"]
        /\ UNCHANGED <<s, pc, snap, chan, orphans, failed>>
    BY <1>1 DEF ToolReturns, faults
  <2> QED BY <1>0, <2>1 DEF Tracked, Live
<1>2. ASSUME NEW c \in Calls, ToolSends(c) PROVE Tracked'
  <2>1. /\ exec[c] = "ready" /\ exec' = [exec EXCEPT ![c] = "sent"]
        /\ UNCHANGED <<s, pc, snap, orphans, failed>>
        /\ \/ chan' = chan /\ (c \in orphans \/ pc = "stopping")
           \/ chan' = chan \cup {c}
    BY <1>2 DEF ToolSends, Unheard, faults
  <2> QED BY <1>0, <2>1 DEF Tracked, Live
<1>3. ASSUME NEW c \in Calls, ToolLeaves(c) PROVE Tracked'
  <2>1. /\ exec[c] = "sent" /\ exec' = [exec EXCEPT ![c] = "gone"]
        /\ orphans' = orphans \ {c} /\ UNCHANGED <<s, pc, snap, chan, failed>>
    BY <1>3 DEF ToolLeaves, faults
  <2> QED BY <1>0, <2>1 DEF Tracked, Live
<1> QED BY <1>1, <1>2, <1>3 DEF ToolStep

\* Losing the receiver costs nothing while no runner has failed: it is dropped
\* when nothing is owed, or when every task has left.
LEMMA ParkDrops ==
  ASSUME TypeOK, Act, ~UNCHANGED tools
  PROVE  s' = s /\ ReceiverGone /\ pc' = "idle" /\ Unsettled(s) = {}
<1>1. PICK over \in {FALSE, s.anchor} : Carry(Decide(s, snap, over))
  BY DEF Act
<1> DEFINE d == Decide(s, snap, over)
<1> HIDE DEF d
<1>2. Park(d)
  BY <1>1 DEF d, Carry, InterruptStep, InterruptTools, StartTurn, LeaveAutoWait, EndTurn,
              ReachDeadline, GiveUpContext, BeginStep, Park, Commit
<1>3. FullyIdle /\ Goto("idle") /\ ReceiverGone /\ s' = s
  BY <1>2 DEF Park
<1>4. Unsettled(s) = {}
  BY <1>3 DEF FullyIdle, Unsettled
<1> QED BY <1>3, <1>4 DEF Goto

LEMMA DroppedTracked ==
  ASSUME TypeOK, TaskInv, Tracked, s' = s, chan' = {},
         pc' \notin {"collect", "decide"},
         \/ orphans' = Live /\ exec' = exec /\ (Unsettled(s) = {} \/ Live = {} \/ failed' # 0)
         \/ orphans' = {} /\ \A c \in Calls : exec'[c] # "sent"
  PROVE  Tracked'
<1>0. Unsettled(s) \subseteq Calls
  BY Ledger DEF TypeOK, Unsettled
<1>1. CASE orphans' = Live /\ exec' = exec
           /\ (Unsettled(s) = {} \/ Live = {} \/ failed' # 0)
  BY <1>0, <1>1 DEF Tracked, Live
<1>2. CASE orphans' = {} /\ \A c \in Calls : exec'[c] # "sent"
  BY <1>0, <1>2 DEF Tracked
<1> QED BY <1>1, <1>2

LEMMA TrackedStep ==
  ASSUME TypeOK, PairInv, TaskInv, Tracked, [Next]_vars
  PROVE  Tracked'
<1> DEFINE Away == pc' \notin {"collect", "decide"} /\ (pc' = "stopping" \/ pc # "stopping")
           Owes == \A c \in Unsettled(s') \ Unsettled(s) : c \in Calls /\ exec[c] = "none"
           Still == \A c \in Calls : /\ exec'[c] = "sent" => exec[c] = "sent"
                                     /\ c \in Live => c \in Live'
<1>0. /\ IsState(s) /\ Unsettled(s) \subseteq Calls /\ exec \in [Calls -> TaskStates]
      /\ NoAnswer => Unsettled(s') \subseteq Unsettled(s) /\ Owes
      /\ exec' = exec => Still
  BY OnlyAnswersOwe, Ledger DEF TypeOK, Unsettled, Live
<1>1. CASE UNCHANGED vars
  BY <1>1 DEF vars, Tracked, Live
<1>2. CASE Client \/ Stop \/ Reopen
  <2>1. Away /\ UNCHANGED <<chan, orphans, failed>>
    BY <1>2 DEF Client, Input, SetSelection, CancelTurn, SetContext, Receiving, Handled,
                AfterCommand, TurnLeft, Stop, Reopen, Goto, tools, faults
  <2>2. \E cs : exec' = exec \/ exec' = Signalled(cs)
    BY <1>2 DEF Client, Input, SetSelection, CancelTurn, SetContext, Stop, Reopen, tools
  <2>3. Still
    BY <2>2, SignalsAside
  <2> QED BY <1>0, <1>2, <2>1, <2>3, TrackedAside DEF NoAnswer
<1>3. CASE Stopped \/ Crash \/ RunnerFails
  <2>1. /\ s' = s /\ chan' = {} /\ pc' \notin {"collect", "decide"}
        /\ \/ orphans' = Live /\ exec' = exec /\ (Live = {} \/ failed' # 0)
           \/ orphans' = {} /\ \A c \in Calls : exec'[c] # "sent"
    <3>1. CASE Stopped
      BY <3>1 DEF Stopped, ReceiverGone
    <3>2. CASE Crash
      BY <3>2 DEF Crash, Goto, Live
    <3>3. CASE RunnerFails
      <4>1. failed' # 0
        BY <3>3, RunnerAssumption DEF RunnerFails, TypeOK
      <4> QED BY <3>3, <4>1 DEF RunnerFails, ReceiverGone, Goto
    <3> QED BY <1>3, <3>1, <3>2, <3>3
  <2> QED BY <2>1, DroppedTracked
<1>4. CASE Snapshot \/ Collected
  <2>1. s' = s /\ UNCHANGED <<exec, chan, orphans, failed>> /\ Live' = Live
    BY <1>4 DEF Snapshot, Collected, tools, faults, Live
  <2>2. (pc = "drain" /\ snap' = Live) \/ (pc = "collect" /\ snap' = snap)
    BY <1>4 DEF Snapshot, Collected
  <2> QED BY <1>0, <2>1, <2>2, TrackedAside
<1>5. CASE Act
  <2>1. pc = "decide" /\ UNCHANGED failed /\ pc' \notin {"collect", "decide"}
    <3>1. PICK over \in {FALSE, s.anchor} : Carry(Decide(s, snap, over))
      BY <1>5 DEF Act
    <3> DEFINE d == Decide(s, snap, over)
    <3> HIDE DEF d
    <3>2. UNCHANGED failed
      BY <3>1 DEF d, Carry, InterruptStep, InterruptTools, StartTurn, LeaveAutoWait,
                  EndTurn, ReachDeadline, GiveUpContext, BeginStep, Park, Commit, faults
    <3> QED BY <1>5, <3>2, ActLeaves DEF Act
  <2>2. CASE UNCHANGED tools
    BY <1>0, <1>5, <2>1, <2>2, TrackedAside DEF NoAnswer, RunnerStep, tools
  <2>3. CASE ~UNCHANGED tools
    BY <1>5, <2>1, <2>3, ParkDrops, DroppedTracked DEF ReceiverGone
  <2> QED BY <2>2, <2>3
<1>6. CASE AbortStep \/ RetryStep
  <2>1. Away /\ UNCHANGED <<exec, chan, orphans, failed>>
    BY <1>6 DEF AbortStep, RetryStep, Goto, tools, faults
  <2> QED BY <1>0, <1>6, <2>1, TrackedAside DEF NoAnswer, RunnerStep
<1>7. CASE AnswerToolCancel
  <2>1. Away /\ UNCHANGED <<chan, orphans, failed>>
    BY <1>7 DEF AnswerToolCancel, Goto, faults
  <2>2. exec' = exec \/ exec' = Dispatched(batch.rest)
    BY <1>7 DEF AnswerToolCancel
  <2>3. \A c \in batch.rest : exec[c] = "none"
    BY <1>7 DEF AnswerToolCancel, TaskInv, Undispatched
  <2>4. Still
    BY <1>0, <2>2, <2>3 DEF Dispatched, Live
  <2> QED BY <1>0, <1>7, <2>1, <2>4, TrackedAside DEF NoAnswer, RunnerStep
<1>8. CASE \E target \in 0..MaxCalls : RequestToolCancel(target)
  <2>1. PICK target \in 0..MaxCalls : RequestToolCancel(target)
    BY <1>8
  <2>2. Away /\ UNCHANGED <<chan, orphans, failed>> /\ exec' = Signalled({target})
    BY <2>1 DEF RequestToolCancel, faults
  <2>3. Still
    BY <2>2, SignalsAside
  <2> QED BY <1>0, <1>8, <2>2, <2>3, TrackedAside DEF NoAnswer, RunnerStep
<1>9. ASSUME NEW c \in Calls, TakeResult(c) PROVE Tracked'
  <2>1. /\ c \in chan /\ chan' = chan \ {c} /\ s' = ToolResult(s, c, out[c])
        /\ UNCHANGED <<exec, orphans, snap, failed>> /\ pc # "stopping"
        /\ pc' = pc \/ pc' = "drain"
    BY <1>9 DEF TakeResult, faults
  <2>2. Unsettled(s') = Unsettled(s) \ {c}
    BY <1>0, <2>1, ResultDebts DEF TaskInv, Routed
  <2> QED BY <1>0, <2>1, <2>2 DEF Tracked, Live
<1>10. CASE Answer
  <2>1. PICK ks \in KindSeqs, usage \in Usages :
          s.issued + Len(ks) <= MaxCalls /\ CompleteStep(ks, usage)
    BY <1>10 DEF Answer
  <2> DEFINE new == NewCalls(s, Len(ks))
  <2>2. ks \in Seq(CallKinds) /\ Len(ks) \in Nat
    BY RunnerAssumption DEF KindSeqs
  <2>3. /\ s' = StepCompleted(s, ks, usage) /\ UNCHANGED <<chan, orphans, failed>>
        /\ exec' = exec \/ exec' = Dispatched(new)
        /\ Away
    BY <2>1 DEF CompleteStep, Goto, faults
  <2>4. Unsettled(s') = Unsettled(s) \cup new
    BY <1>0, <2>1, <2>2, <2>3, DebtsAdded DEF PairInv
  <2>5. \A c \in new : c \in Calls /\ ~(c <= s.issued)
    BY <1>0, <2>1, <2>2, Ledger, NewCallsFresh, BoundAssumption DEF Calls
  <2> HIDE DEF new
  <2>6. \A c \in new : c \in Calls /\ exec[c] = "none"
    BY <1>0, <2>5 DEF TaskInv, Routed
  <2>7. Still
    BY <1>0, <2>3, <2>6 DEF Dispatched, Live
  <2>8. Owes
    BY <2>4, <2>6
  <2> QED BY <2>3, <2>7, <2>8, TrackedAside
<1>11. CASE Document \/ NoDocument \/ Failure
  <2>1. Away /\ UNCHANGED <<exec, chan, orphans, failed>>
    BY <1>11 DEF Document, Summarised, HandedOff, NoDocument, BadDocument, Failure,
                 FailStep, Commit, Goto, tools, faults
  <2> QED BY <1>0, <1>11, <2>1, TrackedAside DEF NoAnswer
<1>12. CASE ToolStep
  BY <1>12, ToolTracked
<1>13. CASE Clock \/ \E open \in BOOLEAN : Rebuild(open)
  <2>1. /\ UNCHANGED <<exec, chan, orphans, failed>>
        /\ Away \/ UNCHANGED <<pc, snap>>
    BY <1>13 DEF Clock, AutoWaitExpires, WaitExpires, DeadlineWake, Rebuild, Goto, tools,
                 faults
  <2>2. CASE Away
    BY <1>0, <1>13, <2>1, <2>2, TrackedAside DEF NoAnswer
  <2>3. CASE UNCHANGED <<pc, snap>>
    <3>1. Unsettled(s') \subseteq Unsettled(s)
      BY <1>0, <1>13 DEF NoAnswer
    <3> QED BY <2>1, <2>3, <3>1 DEF Tracked, Live
  <2> QED BY <2>1, <2>2, <2>3
<1> QED BY <1>1, <1>2, <1>3, <1>4, <1>5, <1>6, <1>7, <1>8, <1>9, <1>10, <1>11, <1>12,
           <1>13 DEF Next, RunnerStep, Provider

\* A runner parks only when there is nothing for it to do but wait.
LEMMA ParkMeans ==
  ASSUME NEW st, IsState(st), NEW live, NEW over, NEW d, d = Decide(st, live, over),
         d.act = "park"
  PROVE  /\ st.step = "none" /\ Unsettled(st) \subseteq live
         /\ st.inputs = {}
<1> DEFINE Others == {"startStep", "finishTurn", "applyContext"}
<1>1. RetryDecision(st).act \in Others /\ ControlDecision(st).act \in Others
      /\ (st.ctx # "none" => ContextDecision(st).act \in Others)
  BY RetryProceeds, ContextProceeds, ControlProceeds DEF Proceeds
<1>2. st.step = "none" /\ Lost(st, live) = {}
  BY DEF Decide, Do
<1>3. ASSUME st.autoWait # {}, AutoWaitDecision(st).act = "park" PROVE st.inputs = {}
  BY <1>3 DEF AutoWaitDecision, EndAutoWait, Do
<1>4. CASE st.inputs # {}
  <2>1. \/ d = AutoWaitDecision(st) /\ st.autoWait # {}
        \/ d = Do("park") /\ ~Wakes(st)
        \/ d \in {Do("startTurn"), Do("reachDeadline"), FinishTurn("cancelled"),
                  RetryDecision(st), ControlDecision(st), StartStep(st.strategy, TRUE),
                  StartStep("conversation", Fresh(st) # {})}
        \/ d = ContextDecision(st) /\ st.ctx # "none"
    BY <1>2, <1>4 DEF Decide
  <2>2. ~Wakes(st)
    BY <1>1, <1>3, <1>4, <2>1 DEF Do, FinishTurn, StartStep
  <2> QED BY <1>4, <2>2 DEF Wakes
<1> QED BY <1>2, <1>4 DEF Lost

\* A turn finishes with nothing outstanding, or on an acknowledgement.
LEMMA FinishMeans ==
  ASSUME NEW st, IsState(st), NEW live, NEW over, NEW d, d = Decide(st, live, over),
         d.act = "finishTurn", d.outcome = "finished"
  PROVE  ~Outstanding(st) \/ \E c \in Calls : st.kind[c] = "ack"
<1>1. \/ d \in {Do("interruptStep"), Do("interruptTools"), Do("park"), Do("reachDeadline"),
                Do("startTurn"), FinishTurn("cancelled"), AutoWaitDecision(st),
                RetryDecision(st), StartStep(st.strategy, TRUE),
                StartStep("conversation", Fresh(st) # {})}
      \/ d = ContextDecision(st)
      \/ d = ControlDecision(st)
  BY DEF Decide
<1>2. RetryDecision(st) # d
  <2>1. \E p, q : RetryDecision(st) \in
           {StartStep(p, TRUE), ApplyContext(p), FinishTurn("failed"), StartStep(q, TRUE)}
    BY DEF RetryDecision
  <2> QED BY <2>1 DEF StartStep, ApplyContext, FinishTurn
<1>3. AutoWaitDecision(st).act # "finishTurn" /\ ContextDecision(st).act # "finishTurn"
  BY DEF AutoWaitDecision, ContextDecision, EndAutoWait, Do, ApplyContext, StartStep
<1>4. d = ControlDecision(st)
  BY <1>1, <1>2, <1>3 DEF Do, FinishTurn, StartStep
<1>5. ~Outstanding(st) \/ \E c \in Ended(st) : st.kind[c] = "ack"
  BY <1>4 DEF ControlDecision, StartStep
<1>6. Ended(st) \subseteq Calls
  BY Ledger DEF Ended
<1> QED BY <1>5, <1>6

\* The kinds of calls that can have been issued.
KindsKnown == \A c \in Calls : s.kind[c] \in Kinds \cup {"handoff", "refused", "none"}

LEMMA KindsAdded ==
  ASSUME NEW st, IsState(st), NEW ks, NEW usage, Len(ks) \in Nat,
         \A i \in 1..Len(ks) : ks[i] \in Kinds \cup {"handoff", "refused"},
         \A c \in Calls : st.kind[c] \in Kinds \cup {"handoff", "refused", "none"}
  PROVE  \A c \in Calls : StepCompleted(st, ks, usage).kind[c]
                            \in Kinds \cup {"handoff", "refused", "none"}
<1> SUFFICES ASSUME NEW c \in Calls, NEW next, next = StepCompleted(st, ks, usage),
                    NEW new, new = NewCalls(st, Len(ks))
             PROVE  next.kind[c] \in Kinds \cup {"handoff", "refused", "none"}
  OBVIOUS
<1>1. CASE c \in new
  <2>1. next.kind[c] = ks[c - st.issued]
    BY <1>1, StepCompletedBooks
  <2>2. c - st.issued \in 1..Len(ks)
    BY <1>1, Ledger, BoundAssumption DEF NewCalls
  <2> QED BY <2>1, <2>2
<1>2. CASE c \notin new
  BY <1>2, StepCompletedBooks
<1> QED BY <1>1, <1>2

\* What a document commits: no calls, or the one call that carries it.
LEMMA DocumentIs ==
  ASSUME TypeOK, Document
  PROVE  \E ks, usage, kept :
           /\ s' = ContextApplied(StepCompleted(s, ks, usage), Unsettled(s), kept)
           /\ IsState(StepCompleted(s, ks, usage)) /\ Len(ks) \in Nat
           /\ \A i \in 1..Len(ks) : ks[i] = "handoff"
<1>0. IsState(s) /\ s.issued \in 0..MaxCalls
  BY Readings DEF TypeOK
<1>1. ASSUME NEW usage \in Usages, NEW i \in SUBSET s.genInputs,
             NEW r \in SUBSET s.genResults, NEW tail \in BOOLEAN,
             Summarised(usage, [inputs |-> i, results |-> r, tail |-> tail])
      PROVE  \E kept :
               /\ s' = ContextApplied(StepCompleted(s, <<>>, usage), Unsettled(s), kept)
               /\ IsState(StepCompleted(s, <<>>, usage))
  <2>1. <<>> \in Seq(CallKinds) /\ s.issued + Len(<<>>) <= MaxCalls /\ usage \in BOOLEAN
    BY <1>0, BoundAssumption, RunnerAssumption
  <2>2. IsState(StepCompleted(s, <<>>, usage))
    BY <1>0, <2>1, StepCompletedType
  <2> QED BY <1>1, <2>2 DEF Summarised, Commit
<1>2. ASSUME NEW usage \in Usages, HandedOff(usage)
      PROVE  /\ s' = ContextApplied(StepCompleted(s, <<"handoff">>, usage), Unsettled(s), Nothing)
             /\ IsState(StepCompleted(s, <<"handoff">>, usage))
  <2>1. /\ <<"handoff">> \in Seq(CallKinds) /\ usage \in BOOLEAN
        /\ s.issued + Len(<<"handoff">>) <= MaxCalls
    BY <1>0, <1>2, BoundAssumption, RunnerAssumption DEF CallKinds, HandedOff
  <2>2. IsState(StepCompleted(s, <<"handoff">>, usage))
    BY <1>0, <2>1, StepCompletedType
  <2> QED BY <1>2, <2>2 DEF HandedOff, Commit
<1>3. Len(<<>>) \in Nat /\ \A i \in 1..Len(<<>>) : <<>>[i] = "handoff"
  OBVIOUS
<1>4. Len(<<"handoff">>) \in Nat /\ \A i \in 1..Len(<<"handoff">>) : <<"handoff">>[i] = "handoff"
  OBVIOUS
<1> QED BY <1>1, <1>2, <1>3, <1>4 DEF Document

LEMMA KindsKnownStep ==
  ASSUME TypeOK, KindsKnown, [Next]_vars
  PROVE  KindsKnown'
<1>0. IsState(s)
  BY DEF TypeOK
<1>1. CASE s'.kind = s.kind
  BY <1>1 DEF KindsKnown
<1>2. CASE Client \/ AbortStep \/ Failure \/ (\E open \in BOOLEAN : Rebuild(open))
           \/ \E target \in 0..MaxCalls : RequestToolCancel(target)
  <2>1. SameBooks(s, s') \/ s' = s
    <3>1. CASE Client
      BY <1>0, <3>1, BookAside DEF Client, Input, SetSelection, CancelTurn, SetContext
    <3>2. CASE AbortStep \/ Failure
      BY <1>0, <3>2, BookAside DEF AbortStep, Failure, FailStep
    <3>3. CASE (\E open \in BOOLEAN : Rebuild(open))
               \/ \E target \in 0..MaxCalls : RequestToolCancel(target)
      <4>1. (\E target : s' = ToolCancelRequested(s, target)) \/ s' = RuntimeFault(s)
        BY <3>3 DEF Rebuild, RequestToolCancel
      <4> QED BY <1>0, <4>1, BookAside
    <3> QED BY <1>2, <3>1, <3>2, <3>3
  <2> QED BY <1>1, <2>1 DEF SameBooks
<1>3. CASE Act
  <2>1. PICK over \in {FALSE, s.anchor} : Carry(Decide(s, snap, over))
    BY <1>3 DEF Act
  <2> DEFINE d == Decide(s, snap, over)
  <2> HIDE DEF d
  <2>2. Carry(d)
    BY <2>1 DEF d
  <2>3. CASE InterruptStep(d) \/ LeaveAutoWait(d) \/ ReachDeadline(d)
    <3>1. SameBooks(s, s')
      BY <1>0, <2>3, BookAside DEF InterruptStep, LeaveAutoWait, ReachDeadline, Commit
    <3> QED BY <1>1, <3>1 DEF SameBooks
  <2>4. CASE InterruptTools(d)
    <3>1. SameBooks(s, s')
      BY <1>0, <2>4, BookResults DEF InterruptTools, Commit
    <3> QED BY <1>1, <3>1 DEF SameBooks
  <2>5. CASE StartTurn(d) \/ EndTurn(d)
    <3>1. TurnStarted(s).kind = s.kind
      BY <1>0 DEF TurnStarted, NoContext, IsState, FieldTypes
    <3> QED BY <1>0, <1>1, <2>5, <3>1, TurnFinishedBooks DEF StartTurn, EndTurn, Commit
  <2>6. CASE GiveUpContext(d)
    <3>1. s' = ContextApplied(ContextFailed(s), Unsettled(s), Nothing)
          /\ IsState(ContextFailed(s)) /\ SameBooks(s, ContextFailed(s))
      BY <1>0, <2>6, NotedType, BookAside DEF GiveUpContext, Commit
    <3> QED BY <1>1, <3>1, ContextAppliedBooks DEF SameBooks
  <2>7. CASE BeginStep(d) \/ Park(d)
    <3>1. s' = s \/ s' = StepStarted(s, d.purpose, d.include)
      BY <2>7 DEF BeginStep, Park
    <3> QED BY <1>0, <1>1, <3>1, StepStartedBooks
  <2> QED BY <2>2, <2>3, <2>4, <2>5, <2>6, <2>7 DEF Carry
<1>4. CASE RetryStep
  BY <1>0, <1>1, <1>4, StepStartedBooks DEF RetryStep
<1>5. CASE AnswerToolCancel \/ \E c \in Calls : TakeResult(c)
  <2>1. \E c, o : s' = ToolResult(s, c, o)
    BY <1>5 DEF AnswerToolCancel, TakeResult
  <2> QED BY <1>0, <1>1, <2>1, BookResults DEF SameBooks
<1>6. CASE Answer
  <2>1. PICK ks \in KindSeqs, usage \in Usages : CompleteStep(ks, usage)
    BY <1>6 DEF Answer
  <2>2. Len(ks) \in Nat /\ \A i \in 1..Len(ks) : ks[i] \in Kinds
    BY RunnerAssumption DEF KindSeqs
  <2> QED BY <1>0, <2>1, <2>2, KindsAdded DEF CompleteStep, KindsKnown
<1>7. CASE Document
  <2>1. PICK ks, usage, kept :
          /\ s' = ContextApplied(StepCompleted(s, ks, usage), Unsettled(s), kept)
          /\ IsState(StepCompleted(s, ks, usage)) /\ Len(ks) \in Nat
          /\ \A i \in 1..Len(ks) : ks[i] = "handoff"
    BY <1>7, DocumentIs
  <2>2. s'.kind = StepCompleted(s, ks, usage).kind
    BY <2>1, ContextAppliedBooks
  <2> QED BY <1>0, <2>1, <2>2, KindsAdded DEF KindsKnown
<1>8. CASE NoDocument
  <2>1. PICK n \in 0..MaxBatch, usage \in Usages :
          s.issued + n <= MaxCalls /\ BadDocument(n, usage)
    BY <1>8 DEF NoDocument
  <2> DEFINE ks == [i \in 1..n |-> "refused"]
             done == StepCompleted(s, ks, usage)
             o == [c \in NewCalls(s, n) |-> "failed"]
  <2>2. /\ ks \in Seq(CallKinds) /\ Len(ks) = n /\ n \in Nat /\ usage \in BOOLEAN
        /\ \A i \in 1..Len(ks) : ks[i] = "refused"
    BY RunnerAssumption DEF CallKinds
  <2>3. \/ s' = ContextApplied(ContextFailed(done), Unsettled(s), Nothing)
        \/ s' = ToolResults(done, o)
    BY <2>1 DEF BadDocument, Commit
  <2> HIDE DEF ks, o
  <2>4. IsState(done)
    BY <1>0, <2>1, <2>2, StepCompletedType
  <2>5. \A c \in Calls : done.kind[c] \in Kinds \cup {"handoff", "refused", "none"}
    BY <1>0, <2>2, KindsAdded DEF KindsKnown
  <2> HIDE DEF done
  <2>6. IsState(ContextFailed(done)) /\ SameBooks(done, ContextFailed(done))
    BY <2>4, NotedType, BookAside
  <2>7. s'.kind = done.kind
    <3>1. CASE s' = ContextApplied(ContextFailed(done), Unsettled(s), Nothing)
      <4>1. s'.kind = ContextFailed(done).kind
        BY <2>6, <3>1, ContextAppliedBooks
      <4> QED BY <2>6, <4>1 DEF SameBooks
    <3>2. CASE s' = ToolResults(done, o)
      BY <2>4, <3>2, BookResults DEF SameBooks
    <3> QED BY <2>3, <3>1, <3>2
  <2> QED BY <2>5, <2>7 DEF KindsKnown
<1>9. CASE AutoWaitExpires \/ WaitExpires
  <2>1. s'.kind = s.kind
    BY <1>0, <1>9 DEF AutoWaitExpires, WaitExpires, IsState, FieldTypes
  <2> QED BY <1>1, <2>1
<1>10. CASE UNCHANGED s
  BY <1>1, <1>10
<1> QED
  <2>1. \/ UNCHANGED s \/ Client \/ AbortStep \/ Failure \/ Act \/ RetryStep
        \/ (\E open \in BOOLEAN : Rebuild(open))
        \/ (\E target \in 0..MaxCalls : RequestToolCancel(target))
        \/ AnswerToolCancel \/ (\E c \in Calls : TakeResult(c))
        \/ Answer \/ Document \/ NoDocument \/ AutoWaitExpires \/ WaitExpires
    BY DEF Next, vars, Stop, Stopped, Reopen, RunnerStep, Snapshot, Collected, Provider,
           ToolStep, ToolReturns, ToolSends, ToolLeaves, Clock, DeadlineWake, Crash,
           RunnerFails
  <2> QED BY <2>1, <1>2, <1>3, <1>4, <1>5, <1>6, <1>7, <1>8, <1>9, <1>10

\* A log that ends with a finished turn leaves no work, unless the model had it
\* finish with work outstanding.
LastMeans ==
  last = "finished" => s.step = "none" /\ ("ack" \notin Kinds => ~Outstanding(s))

LEMMA FinishedOutstanding ==
  ASSUME NEW st, IsState(st), NEW o
  PROVE  Outstanding(TurnFinished(st, o)) <=> Outstanding(st)
<1>1. TurnFinished(st, o).inputs = st.inputs
  BY DEF TurnFinished, TurnOver, NoAutoWait, NoStep, NoContext, IsState, FieldTypes
<1> QED BY <1>1, DebtsStand DEF Outstanding

LEMMA LastMeansStep ==
  ASSUME TypeOK, KindsKnown, LastMeans, [Next]_vars
  PROVE  LastMeans'
<1>0. IsState(s)
  BY DEF TypeOK
<1>1. CASE last' = "other"
  BY <1>1 DEF LastMeans
<1>2. CASE last' = last /\ s' = s
  BY <1>2 DEF LastMeans, Outstanding, Unsettled
<1>3. CASE Act
  <2>1. PICK over \in {FALSE, s.anchor} : Carry(Decide(s, snap, over))
    BY <1>3 DEF Act
  <2> DEFINE d == Decide(s, snap, over)
  <2>2. /\ Carry(d)
        /\ d.act = "finishTurn" /\ d.outcome = "finished"
             => ~Outstanding(s) \/ \E c \in Calls : s.kind[c] = "ack"
    BY <1>0, <2>1, FinishMeans
  <2> HIDE DEF d
  <2>3. CASE EndTurn(d)
    <3>1. s' = TurnFinished(s, d.outcome)
          /\ last' = IF d.outcome = "finished" THEN "finished" ELSE "other"
      BY <2>3 DEF EndTurn
    <3>2. s'.step = "none" /\ (Outstanding(s') <=> Outstanding(s))
      BY <1>0, <3>1, FinishedOutstanding, TurnCloses
    <3>3. (\E c \in Calls : s.kind[c] = "ack") => "ack" \in Kinds
      BY DEF KindsKnown
    <3>4. d.outcome = "finished" => ~Outstanding(s) \/ "ack" \in Kinds
      BY <2>2, <2>3, <3>3 DEF EndTurn
    <3>5. Outstanding(s') = Outstanding(s)'
      BY DEF Outstanding, Unsettled
    <3> QED BY <3>1, <3>2, <3>4, <3>5 DEF LastMeans
  <2>4. CASE ~EndTurn(d)
    <3>1. last' = "other" \/ (last' = last /\ s' = s)
      BY <2>2, <2>4 DEF Carry, InterruptStep, InterruptTools, StartTurn, LeaveAutoWait,
                        ReachDeadline, GiveUpContext, BeginStep, Park, Commit
    <3> QED BY <1>1, <1>2, <3>1
  <2> QED BY <2>3, <2>4
<1>4. CASE AutoWaitExpires \/ WaitExpires
  <2>1. /\ last' = last /\ s'.step = s.step /\ s'.inputs = s.inputs
        /\ s'.pending = s.pending /\ s'.result = s.result
    BY <1>0, <1>4 DEF AutoWaitExpires, WaitExpires, IsState, FieldTypes
  <2> QED BY <2>1 DEF LastMeans, Outstanding, Unsettled
<1> QED
  <2>1. Act \/ AutoWaitExpires \/ WaitExpires \/ last' = "other" \/ (last' = last /\ s' = s)
    BY DEF Next, vars, Client, Input, SetSelection, CancelTurn, SetContext, Stop, Stopped,
           Reopen, RunnerStep, AbortStep, Snapshot, Collected, RetryStep, AnswerToolCancel,
           RequestToolCancel, TakeResult, Provider, Answer, CompleteStep, Document,
           Summarised, HandedOff, NoDocument, BadDocument, Failure, FailStep, Commit,
           ToolStep, ToolReturns, ToolSends, ToolLeaves, Clock, DeadlineWake, Crash,
           RunnerFails, Rebuild
  <2> QED BY <2>1, <1>1, <1>2, <1>3, <1>4

Trusted == failed = 0 /\ (crashes = 0 \/ "ack" \notin Kinds)
Rested == Trusted => RestOwesNothing

\* A step to a parked or idle runner that was not at rest is a decision or a
\* crash; what happens around a runner at rest is tools and time.
LEMMA RestedStep ==
  ASSUME TypeOK, TaskInv, Tracked, LastMeans, Rested, [Next]_vars
  PROVE  Rested'
<1> SUFFICES ASSUME Trusted', pc' \in {"parked", "idle"}
             PROVE  /\ s'.inputs = {}
                    /\ s'.step = "none"
                    /\ Unsettled(s') \subseteq (Live' \ orphans') \cup chan'
  BY DEF Rested, RestOwesNothing, Unsettled
<1>0. /\ IsState(s) /\ Unsettled(s) \subseteq Calls /\ exec \in [Calls -> TaskStates]
      /\ chan \subseteq Calls /\ orphans \subseteq Calls
  BY Ledger DEF TypeOK, Unsettled
<1>1. ASSUME crashes' = crashes, failed' = failed, pc' = pc
      PROVE  /\ s.inputs = {}
             /\ s.step = "none" /\ failed = 0
             /\ Unsettled(s) \subseteq (Live \ orphans) \cup chan
  BY <1>1 DEF Trusted, Rested, RestOwesNothing
<1>2. CASE UNCHANGED vars
  BY <1>1, <1>2 DEF vars, Live, Unsettled
<1>3. CASE Act
  <2>1. PICK over \in {FALSE, s.anchor} : Carry(Decide(s, snap, over))
    BY <1>3 DEF Act
  <2> DEFINE d == Decide(s, snap, over)
  <2>2. /\ Carry(d) /\ pc = "decide"
        /\ d.act = "park" =>
             /\ s.step = "none" /\ Unsettled(s) \subseteq snap
             /\ s.inputs = {}
    BY <1>0, <1>3, <2>1, ParkMeans DEF Act
  <2> HIDE DEF d
  <2>3. Park(d)
    BY <2>2 DEF Carry, InterruptStep, InterruptTools, StartTurn, LeaveAutoWait, EndTurn,
                ReachDeadline, GiveUpContext, BeginStep, Commit, Goto
  <2>4. s' = s /\ failed' = failed /\ d.act = "park"
    BY <2>3 DEF Park, faults
  <2>5. Unsettled(s) \subseteq (Live \ orphans) \cup chan
    BY <1>0, <2>2, <2>4 DEF Tracked, Trusted
  <2>6. CASE UNCHANGED tools
    BY <2>2, <2>4, <2>5, <2>6 DEF tools, Live
  <2>7. CASE ~UNCHANGED tools
    BY <1>3, <2>2, <2>4, <2>7, ParkDrops
  <2> QED BY <2>6, <2>7
<1>4. CASE Crash
  <2>1. pc' = "idle" => last = "finished"
    BY <1>4 DEF Crash, Goto
  <2>2. pc' = "idle" /\ s' = s /\ crashes' # 0
    BY <1>4, RunnerAssumption DEF Crash, Goto, TypeOK
  <2> QED BY <2>1, <2>2 DEF LastMeans, Outstanding, Trusted
<1>5. CASE ToolStep
  <2>0. crashes' = crashes /\ failed' = failed /\ pc' = pc /\ s' = s
    BY <1>5 DEF ToolStep, ToolReturns, ToolSends, ToolLeaves, faults
  <2>1. /\ s.inputs = {}
        /\ s.step = "none" /\ pc # "stopping"
        /\ Unsettled(s) \subseteq (Live \ orphans) \cup chan
    BY <1>1, <2>0
  <2>2. ASSUME NEW c \in Calls, ToolReturns(c) \/ ToolSends(c) \/ ToolLeaves(c)
        PROVE  Unsettled(s) \subseteq (Live' \ orphans') \cup chan'
    <3>1. CASE ToolReturns(c)
      BY <1>0, <2>1, <3>1 DEF ToolReturns, Live
    <3>2. CASE ToolSends(c)
      BY <1>0, <2>1, <3>2 DEF ToolSends, Live, Unheard
    <3>3. CASE ToolLeaves(c)
      BY <1>0, <2>1, <3>3 DEF ToolLeaves, Live, Tracked
    <3> QED BY <2>2, <3>1, <3>2, <3>3
  <2> QED BY <1>5, <2>0, <2>1, <2>2 DEF ToolStep
<1>6. CASE AutoWaitExpires \/ WaitExpires
  <2>1. /\ UNCHANGED <<pc, exec, chan, orphans, crashes, failed>>
        /\ s'.inputs = s.inputs /\ s'.wait = s.wait /\ s'.autoWait = s.autoWait
        /\ s'.step = s.step /\ s'.pending = s.pending /\ s'.result = s.result
    BY <1>0, <1>6 DEF AutoWaitExpires, WaitExpires, IsState, FieldTypes, tools, faults
  <2> QED BY <1>1, <2>1 DEF Unsettled, Live
<1> QED
  <2>1. Act \/ Crash \/ ToolStep \/ AutoWaitExpires \/ WaitExpires \/ UNCHANGED vars
    BY DEF Next, Client, Input, SetSelection, CancelTurn, SetContext, Handled, Receiving,
           AfterCommand, TurnLeft, Stop, Stopped, Reopen, RunnerStep, AbortStep, Snapshot,
           Collected, RetryStep, AnswerToolCancel, RequestToolCancel, TakeResult, Provider,
           Answer, CompleteStep, Document, Summarised, HandedOff, NoDocument, BadDocument,
           Failure, FailStep, Commit, Clock, DeadlineWake, RunnerFails, Rebuild, Goto
  <2> QED BY <2>1, <1>2, <1>3, <1>4, <1>5, <1>6

\* A runner at rest owes nothing: no input is unread, no step is open, and the
\* result of every call without one is on its way to it.  Not so after a runner
\* failed with tasks that outlive it, nor when a turn that was ended with work
\* outstanding is the last thing the log of a killed process holds.
THEOREM NothingOwedAtRest ==
  Spec => [](failed = 0 /\ (crashes = 0 \/ "ack" \notin Kinds) => RestOwesNothing)
<1> DEFINE Inv == /\ TypeOK /\ TurnInv /\ PairInv /\ TaskInv /\ Watch
                  /\ Tracked /\ KindsKnown /\ LastMeans /\ Rested
<1>1. Init => Inv
  <2>1. Init => Tracked /\ KindsKnown /\ LastMeans /\ Rested
    BY DEF Init, Created, Tracked, KindsKnown, LastMeans, Rested, RestOwesNothing,
           Unsettled
  <2> QED BY <2>1, TypeInit, TurnInvInit, PairInvInit, TaskInvInit, WatchInit
<1>2. Inv /\ [Next]_vars => Inv'
  BY TypeStep, TurnInvStep, PairInvStep, TaskInvStep, WatchStep, TrackedStep,
     KindsKnownStep, LastMeansStep, RestedStep
<1>3. Inv => (failed = 0 /\ (crashes = 0 \/ "ack" \notin Kinds) => RestOwesNothing)
  BY DEF Rested, Trusted
<1> QED BY <1>1, <1>2, <1>3, PTL DEF Spec
-----------------------------------------------------------------------------
(* That the runner implements the session's contract, and what its       *)
(* history shows.                                                          *)
USE DEF Logged

\* What the contract sees of a session: each input, each call, and the turn.
Letter(st, i) == IF i > st.accepted THEN "unsent"
                 ELSE IF i \in st.inputs THEN "waiting" ELSE "read"
Status(st, c) == IF c > st.issued THEN "unused"
                 ELSE IF c \in Unsettled(st) THEN "open"
                 ELSE IF c \in Settled(st) THEN "settled" ELSE "closed"
TurnOf(st) == IF ~st.on THEN "off" ELSE IF st.cancel THEN "cancelling" ELSE "on"

SameMail(st, next) == \A i \in Inputs : Letter(next, i) = Letter(st, i)
SameCalls(st, next) == \A c \in Calls : Status(next, c) = Status(st, c)

\* A step that shows in nothing the contract sees.
LEMMA Unseen ==
  ASSUME SameMail(s, s'), SameTurn(s, s'), SameCalls(s, s')
  PROVE  UNCHANGED Contract!vars
<1>1. UNCHANGED [i \in Inputs |-> IF i > s.accepted THEN "unsent"
                                  ELSE IF i \in s.inputs THEN "waiting" ELSE "read"]
  BY DEF SameMail, Letter
<1>2. UNCHANGED [c \in Calls |-> IF c > s.issued THEN "unused"
                                 ELSE IF c \in Unsettled(s) THEN "open"
                                 ELSE IF c \in Settled(s) THEN "settled" ELSE "closed"]
  BY DEF SameCalls, Status, Unsettled, Settled
<1>3. UNCHANGED <<IF ~s.on THEN "off" ELSE IF s.cancel THEN "cancelling" ELSE "on", s.outcome>>
  BY DEF SameTurn
<1> QED BY <1>1, <1>2, <1>3 DEF Contract!vars

LEMMA AsSettle ==
  ASSUME SameMail(s, s'), SameTurn(s, s'), NEW cs \in SUBSET Calls,
         \A c \in cs : Status(s, c) = "open",
         \A c \in Calls : Status(s', c) = IF c \in cs THEN "settled" ELSE Status(s, c)
  PROVE  Contract!Settle
<1>1. UNCHANGED [i \in Inputs |-> IF i > s.accepted THEN "unsent"
                                  ELSE IF i \in s.inputs THEN "waiting" ELSE "read"]
  BY DEF SameMail, Letter
<1>3. UNCHANGED <<IF ~s.on THEN "off" ELSE IF s.cancel THEN "cancelling" ELSE "on", s.outcome>>
  BY DEF SameTurn
<1> QED BY <1>1, <1>3 DEF Contract!Settle, Contract!At, Contract!Becomes, Status, Unsettled, Settled

\* The other steps, each as what it changes of the three views.
LEMMA AsAccept ==
  ASSUME SameTurn(s, s'), SameCalls(s, s'), NEW i \in Inputs, Letter(s, i) = "unsent",
         \A j \in Inputs : Letter(s', j) = IF j = i THEN "waiting" ELSE Letter(s, j)
  PROVE  Contract!Accept
<1>2. UNCHANGED [c \in Calls |-> IF c > s.issued THEN "unused"
                                 ELSE IF c \in Unsettled(s) THEN "open"
                                 ELSE IF c \in Settled(s) THEN "settled" ELSE "closed"]
  BY DEF SameCalls, Status, Unsettled, Settled
<1>3. UNCHANGED <<IF ~s.on THEN "off" ELSE IF s.cancel THEN "cancelling" ELSE "on", s.outcome>>
  BY DEF SameTurn
<1> QED BY <1>2, <1>3 DEF Contract!Accept, Contract!At, Contract!Becomes, Letter

LEMMA AsBegin ==
  ASSUME SameMail(s, s'), SameCalls(s, s'), ~s.on, s'.on, ~s'.cancel, s'.outcome = "none"
  PROVE  Contract!Begin
<1>1. UNCHANGED [i \in Inputs |-> IF i > s.accepted THEN "unsent"
                                  ELSE IF i \in s.inputs THEN "waiting" ELSE "read"]
  BY DEF SameMail, Letter
<1>2. UNCHANGED [c \in Calls |-> IF c > s.issued THEN "unused"
                                 ELSE IF c \in Unsettled(s) THEN "open"
                                 ELSE IF c \in Settled(s) THEN "settled" ELSE "closed"]
  BY DEF SameCalls, Status, Unsettled, Settled
<1> QED BY <1>1, <1>2 DEF Contract!Begin

LEMMA AsAskCancel ==
  ASSUME SameMail(s, s'), SameCalls(s, s'), s.on, ~s.cancel,
         s'.on, s'.cancel, s'.outcome = s.outcome
  PROVE  Contract!AskCancel
<1>1. UNCHANGED [i \in Inputs |-> IF i > s.accepted THEN "unsent"
                                  ELSE IF i \in s.inputs THEN "waiting" ELSE "read"]
  BY DEF SameMail, Letter
<1>2. UNCHANGED [c \in Calls |-> IF c > s.issued THEN "unused"
                                 ELSE IF c \in Unsettled(s) THEN "open"
                                 ELSE IF c \in Settled(s) THEN "settled" ELSE "closed"]
  BY DEF SameCalls, Status, Unsettled, Settled
<1> QED BY <1>1, <1>2 DEF Contract!AskCancel

LEMMA AsRequest ==
  ASSUME SameTurn(s, s'), s.on, ~s.cancel,
         \/ SameMail(s, s')
         \/ \A i \in Inputs :
              Letter(s', i) = IF Letter(s, i) = "waiting" THEN "read" ELSE Letter(s, i),
         NEW told \in SUBSET Calls, \A c \in told : Status(s, c) = "settled",
         \A c \in Calls : Status(s', c) = IF c \in told THEN "closed" ELSE Status(s, c)
  PROVE  Contract!Request
<1> DEFINE box == [i \in Inputs |-> IF i > s.accepted THEN "unsent"
                                    ELSE IF i \in s.inputs THEN "waiting" ELSE "read"]
           book == [c \in Calls |-> IF c > s.issued THEN "unused"
                                    ELSE IF c \in Unsettled(s) THEN "open"
                                    ELSE IF c \in Settled(s) THEN "settled" ELSE "closed"]
           turn == IF ~s.on THEN "off" ELSE IF s.cancel THEN "cancelling" ELSE "on"
<1>1. \A i \in Inputs : box[i] = Letter(s, i) /\ box'[i] = Letter(s', i)
  BY DEF Letter
<1>2. box' = box \/ box' = Contract!Becomes(box, Contract!At(box, "waiting"), "read")
  <2>1. CASE SameMail(s, s')
    BY <2>1, <1>1 DEF SameMail
  <2>2. CASE \A i \in Inputs :
               Letter(s', i) = IF Letter(s, i) = "waiting" THEN "read" ELSE Letter(s, i)
    BY <2>2, <1>1 DEF Contract!Becomes, Contract!At
  <2> QED BY <2>1, <2>2
<1>3. told \in SUBSET Contract!At(book, "settled") /\ book' = Contract!Becomes(book, told, "closed")
  BY DEF Contract!Becomes, Contract!At, Status, Unsettled, Settled
<1>4. turn = "on" /\ UNCHANGED <<turn, s.outcome>>
  BY DEF SameTurn
<1> QED BY <1>2, <1>3, <1>4 DEF Contract!Request

LEMMA AsGiveBack ==
  ASSUME SameTurn(s, s'), SameCalls(s, s'), s.on, ~s.cancel,
         NEW back \in SUBSET Inputs, \A i \in back : Letter(s, i) = "read",
         \A i \in Inputs : Letter(s', i) = IF i \in back THEN "waiting" ELSE Letter(s, i)
  PROVE  Contract!GiveBack
<1>2. UNCHANGED [c \in Calls |-> IF c > s.issued THEN "unused"
                                 ELSE IF c \in Unsettled(s) THEN "open"
                                 ELSE IF c \in Settled(s) THEN "settled" ELSE "closed"]
  BY DEF SameCalls, Status, Unsettled, Settled
<1>3. UNCHANGED <<IF ~s.on THEN "off" ELSE IF s.cancel THEN "cancelling" ELSE "on", s.outcome>>
  BY DEF SameTurn
<1> QED BY <1>2, <1>3 DEF Contract!GiveBack, Contract!At, Contract!Becomes, Letter

LEMMA AsAnswer ==
  ASSUME SameMail(s, s'), SameTurn(s, s'), s.on, ~s.cancel,
         NEW new \in SUBSET Calls, \A c \in new : Status(s, c) = "unused",
         NEW told \in SUBSET Calls, \A c \in told : Status(s, c) = "settled",
         NEW v \in {"open", "settled", "closed"},
         \A c \in Calls : Status(s', c) = IF c \in new THEN v
                                          ELSE IF c \in told THEN "closed" ELSE Status(s, c)
  PROVE  Contract!Answer
<1> DEFINE book == [c \in Calls |-> IF c > s.issued THEN "unused"
                                    ELSE IF c \in Unsettled(s) THEN "open"
                                    ELSE IF c \in Settled(s) THEN "settled" ELSE "closed"]
           turn == IF ~s.on THEN "off" ELSE IF s.cancel THEN "cancelling" ELSE "on"
<1>1. UNCHANGED [i \in Inputs |-> IF i > s.accepted THEN "unsent"
                                  ELSE IF i \in s.inputs THEN "waiting" ELSE "read"]
  BY DEF SameMail, Letter
<1>2. \A c \in Calls : book[c] = Status(s, c) /\ book'[c] = Status(s', c)
  BY DEF Status, Unsettled, Settled
<1>3. /\ told \in SUBSET Contract!At(book, "settled")
      /\ new \in SUBSET Contract!At(book, "unused")
      /\ book' = Contract!Becomes(Contract!Becomes(book, told, "closed"), new, v)
  BY <1>2 DEF Contract!Becomes, Contract!At
<1>4. turn = "on" /\ UNCHANGED <<turn, s.outcome>>
  BY DEF SameTurn
<1>5. \E n \in SUBSET Contract!At(book, "unused"), d \in SUBSET Contract!At(book, "settled"),
         w \in {"open", "settled", "closed"} :
        book' = Contract!Becomes(Contract!Becomes(book, d, "closed"), n, w)
  <2> HIDE DEF book
  <2> QED BY <1>3
<1> QED BY ONLY <1>1, <1>5, <1>4 DEF Contract!Answer

LEMMA AsEnd ==
  ASSUME SameMail(s, s'), s.on, s.cancel \in BOOLEAN, ~s'.on,
         s'.outcome \in {"finished", "failed", "cancelled"},
         s'.outcome = "cancelled" <=> s.cancel,
         NEW moot \in SUBSET Calls, \A c \in moot : Status(s, c) = "settled",
         \A c \in Calls : Status(s', c) = IF c \in moot THEN "closed" ELSE Status(s, c)
  PROVE  Contract!End
<1> DEFINE book == [c \in Calls |-> IF c > s.issued THEN "unused"
                                    ELSE IF c \in Unsettled(s) THEN "open"
                                    ELSE IF c \in Settled(s) THEN "settled" ELSE "closed"]
           turn == IF ~s.on THEN "off" ELSE IF s.cancel THEN "cancelling" ELSE "on"
<1>1. UNCHANGED [i \in Inputs |-> IF i > s.accepted THEN "unsent"
                                  ELSE IF i \in s.inputs THEN "waiting" ELSE "read"]
  BY DEF SameMail, Letter
<1>2. \A c \in Calls : book[c] = Status(s, c) /\ book'[c] = Status(s', c)
  BY DEF Status, Unsettled, Settled
<1>3. /\ moot \in SUBSET Contract!At(book, "settled")
      /\ book' = Contract!Becomes(book, moot, "closed")
  BY <1>2 DEF Contract!Becomes, Contract!At
<1>4. /\ turn # "off" /\ turn' = "off"
      /\ s'.outcome \in IF turn = "cancelling" THEN {"cancelled"} ELSE {"finished", "failed"}
  OBVIOUS
<1> QED BY <1>1, <1>3, <1>4 DEF Contract!End

-----------------------------------------------------------------------------
\* What the events do to the mailbox.

\* Only inputs that have been accepted are unread or being read.
Mail(st) == st.inputs \cup st.consumed \subseteq 1..st.accepted

MailAside(st, next) ==
  /\ next.inputs = st.inputs /\ next.accepted = st.accepted
  /\ next.consumed \in {st.consumed, {}}

LEMMA Mailbox ==
  ASSUME NEW st, IsState(st)
  PROVE  st.inputs \subseteq Inputs /\ st.consumed \subseteq Inputs /\ st.accepted \in Nat
<1>1. st.accepted \in Nat
  BY Readings, BoundAssumption
<1>2. st.inputs \subseteq Inputs /\ st.consumed \subseteq Inputs
  <2>1. /\ {"inputs", "consumed"} \subseteq DOMAIN FieldTypes
        /\ FieldTypes.inputs = SUBSET Inputs /\ FieldTypes.consumed = SUBSET Inputs
    BY DEF FieldTypes
  <2> QED BY <2>1 DEF IsState
<1> QED BY <1>1, <1>2

LEMMA MailEvents ==
  ASSUME NEW st, IsState(st), NEW g, NEW c, NEW same, NEW a, NEW b
  PROVE  /\ MailAside(st, SelectionChanged(st, same)) /\ MailAside(st, ContextConfigured(st, g))
         /\ MailAside(st, ToolCancelRequested(st, c)) /\ MailAside(st, ToolResult(st, c, a))
         /\ MailAside(st, ToolResults(st, a)) /\ MailAside(st, DeadlineReached(st))
         /\ MailAside(st, ContextFailed(st)) /\ MailAside(st, RuntimeFault(st))
         /\ MailAside(st, TurnCancelRequested(st)) /\ MailAside(st, AutoWaitEnded(st, a))
         /\ MailAside(st, StepInterrupted(st, a)) /\ MailAside(st, StepCompleted(st, a, b))
         /\ MailAside(st, TurnStarted(st)) /\ MailAside(st, TurnFinished(st, a))
         /\ MailAside(st, ContextApplied(st, a, b))
<1> USE DEF IsState, FieldTypes, MailAside
<1>1. MailAside(st, SelectionChanged(st, same)) /\ MailAside(st, ContextConfigured(st, g))
  BY DEF SelectionChanged, ContextConfigured
<1>2. MailAside(st, ToolCancelRequested(st, c)) /\ MailAside(st, ToolResult(st, c, a))
  BY DEF ToolCancelRequested, ToolResult
<1>3. MailAside(st, ToolResults(st, a)) /\ MailAside(st, DeadlineReached(st))
  BY DEF ToolResults, DeadlineReached
<1>4. MailAside(st, ContextFailed(st)) /\ MailAside(st, RuntimeFault(st))
  BY DEF ContextFailed, RuntimeFault
<1>5. MailAside(st, TurnCancelRequested(st)) /\ MailAside(st, AutoWaitEnded(st, a))
  BY DEF TurnCancelRequested, AutoWaitEnded, NoAutoWait
<1>6. MailAside(st, StepInterrupted(st, a)) /\ MailAside(st, StepCompleted(st, a, b))
  BY DEF StepInterrupted, StepCompleted, Closed, NoStep
<1>7. MailAside(st, TurnStarted(st)) /\ MailAside(st, TurnFinished(st, a))
  BY DEF TurnStarted, TurnFinished, TurnOver, NoAutoWait, NoStep, NoContext
<1>8. MailAside(st, ContextApplied(st, a, b))
  BY DEF ContextApplied, NoAutoWait, NoStep, NoContext
<1> QED BY <1>1, <1>2, <1>3, <1>4, <1>5, <1>6, <1>7, <1>8

LEMMA MailArrives ==
  ASSUME NEW st, IsState(st), NEW next, next = InputAppended(st)
  PROVE  /\ next.inputs = st.inputs \cup {st.accepted + 1}
         /\ next.accepted = st.accepted + 1 /\ next.consumed = st.consumed
  BY DEF InputAppended, IsState, FieldTypes

LEMMA MailTaken ==
  ASSUME NEW st, IsState(st), NEW p, NEW b, NEW next, next = StepStarted(st, p, b)
  PROVE  /\ next.accepted = st.accepted
         /\ p = "conversation" => next.inputs = {} /\ next.consumed = st.inputs
         /\ p # "conversation" => next.inputs = st.inputs /\ next.consumed = {}
<1>1. next.accepted = st.accepted
  BY DEF StepStarted, IsState, FieldTypes
<1>2. next.consumed = IF p = "conversation" THEN st.inputs ELSE {}
  BY DEF StepStarted, IsState, FieldTypes
<1>3. next.inputs = st.inputs \ (IF p = "conversation" THEN st.inputs ELSE {})
  BY DEF StepStarted, IsState, FieldTypes
<1> QED BY <1>1, <1>2, <1>3

LEMMA MailBack ==
  ASSUME NEW st, IsState(st), NEW e, NEW u, NEW next, next = StepFailed(st, e, u)
  PROVE  /\ next.accepted = st.accepted /\ next.consumed = {}
         /\ next.inputs = Restored(st, e)
  BY DEF StepFailed, Closed, NoStep, IsState, FieldTypes

LEMMA MailKept ==
  ASSUME NEW st, NEW next, Mail(st), MailAside(st, next)
  PROVE  Mail(next) /\ SameMail(st, next)
  BY DEF Mail, MailAside, SameMail, Letter

-----------------------------------------------------------------------------
\* Every step is one of the contract's, or shows in nothing.

Shown == Mail(s') /\ [Contract!Next]_(Contract!vars)

SameSheet(st, next) ==
  next.issued = st.issued /\ next.pending = st.pending /\ next.result = st.result

LEMMA SheetKept ==
  ASSUME NEW st, NEW next, SameSheet(st, next)
  PROVE  SameCalls(st, next)
  BY DEF SameSheet, SameCalls, Status, Unsettled, Settled

LEMMA ShownQuietly ==
  ASSUME Mail(s), MailAside(s, s'), SameTurn(s, s'), SameSheet(s, s')
  PROVE  Shown
  BY MailKept, SheetKept, Unseen DEF Shown

LEMMA ShownUnchanged ==
  ASSUME Mail(s), s' = s
  PROVE  Shown
  BY ShownQuietly DEF MailAside, SameTurn, SameSheet

LEMMA ShownInput ==
  ASSUME TypeOK, Mail(s), s.accepted < MaxInputs, s' = InputAppended(s)
  PROVE  Shown
<1>0. IsState(s) /\ s.accepted \in Nat /\ s.inputs \subseteq Inputs /\ s.consumed \subseteq Inputs
  BY Mailbox DEF TypeOK
<1> DEFINE i == s.accepted + 1
<1>1. /\ s'.inputs = s.inputs \cup {i} /\ s'.accepted = i /\ s'.consumed = s.consumed
  BY <1>0, MailArrives
<1>2. SameTurn(s, s') /\ SameCalls(s, s')
  BY <1>0, AsideEvents, BookAside, SheetKept DEF Aside, SameBooks, SameSheet
<1>3. i \in Inputs /\ i \notin s.inputs
  BY <1>0, BoundAssumption DEF Mail, Inputs
<1>4. Letter(s, i) = "unsent"
  BY <1>0 DEF Letter
<1>5. ASSUME NEW j \in Inputs
      PROVE  Letter(s', j) = IF j = i THEN "waiting" ELSE Letter(s, j)
  <2>1. j \in Nat /\ (j > i <=> j > s.accepted /\ j # i)
    BY <1>0, BoundAssumption DEF Inputs
  <2>2. i > i <=> FALSE
    BY <1>0
  <2> HIDE DEF i
  <2> QED BY <1>1, <2>1, <2>2 DEF Letter
<1>6. Mail(s')
  <2>1. 1..s.accepted \subseteq 1..i /\ i \in 1..i
    BY <1>0
  <2> HIDE DEF i
  <2> QED BY <1>1, <2>1 DEF Mail
<1> QED BY <1>2, <1>3, <1>4, <1>5, <1>6, AsAccept DEF Shown, Contract!Next

LEMMA ClientShown ==
  ASSUME TypeOK, Mail(s), Client
  PROVE  Shown
<1>0. IsState(s)
  BY DEF TypeOK
<1>1. CASE Input
  BY <1>1, ShownInput DEF Input
<1>2. CASE SetSelection \/ \E g \in Strategies : SetContext(g)
  <2>1. MailAside(s, s') /\ SameTurn(s, s') /\ SameSheet(s, s')
    BY <1>0, <1>2, MailEvents, AsideEvents, BookAside
       DEF SetSelection, SetContext, Aside, SameBooks, SameSheet
  <2> QED BY <2>1, ShownQuietly
<1>3. CASE CancelTurn /\ s.on
  <2>1. s' = TurnCancelRequested(s)
    BY <1>3 DEF CancelTurn
  <2>2. /\ MailAside(s, s') /\ SameSheet(s, s')
        /\ s'.on = s.on /\ s'.cancel = s.on /\ s'.outcome = s.outcome
    BY <1>0, <2>1, MailEvents, CancelAsked, BookAside DEF SameBooks, SameSheet
  <2>3. CASE s.cancel
    BY <1>0, <1>3, <2>2, <2>3, Readings, ShownQuietly DEF SameTurn
  <2>4. CASE ~s.cancel
    BY <1>0, <1>3, <2>2, <2>4, Readings, MailKept, SheetKept, AsAskCancel
       DEF Shown, Contract!Next
  <2> QED BY <2>3, <2>4
<1>4. CASE CancelTurn /\ ~s.on
  BY <1>4, ShownUnchanged DEF CancelTurn
<1> QED BY <1>1, <1>2, <1>3, <1>4 DEF Client

\* Results: of a call that waits for one, or of calls that will never have one.
LEMMA ShownSettled ==
  ASSUME TypeOK, Paired(s), Mail(s), MailAside(s, s'), SameTurn(s, s'), SameBooks(s, s'),
         NEW cs \in SUBSET Unsettled(s),
         \A c \in Calls : c \in cs => s'.result[c] # "none",
         \A c \in Calls : c \notin cs => s'.result[c] = s.result[c]
  PROVE  Shown
<1>0. Unsettled(s) \subseteq Calls /\ \A c \in Unsettled(s) : ~(c > s.issued)
  <2>1. IsState(s) /\ s.issued \in Nat
    BY Ledger, BoundAssumption DEF TypeOK
  <2>2. Unsettled(s) \subseteq 1..s.issued
    BY DEF Paired, Known, Unsettled
  <2> QED BY <2>1, <2>2, Ledger DEF Unsettled
<1>1. \A c \in cs : Status(s, c) = "open"
  BY <1>0 DEF Status
<1>2. \A c \in Calls : Status(s', c) = IF c \in cs THEN "settled" ELSE Status(s, c)
  BY <1>0 DEF Status, SameBooks, Unsettled, Settled
<1> QED BY <1>0, <1>1, <1>2, MailKept, AsSettle DEF Shown, Contract!Next

LEMMA ShownResult ==
  ASSUME TypeOK, Paired(s), Mail(s), NEW c \in Unsettled(s), NEW o, o # "none",
         s' = ToolResult(s, c, o)
  PROVE  Shown
<1>0. IsState(s)
  BY DEF TypeOK
<1>1. MailAside(s, s') /\ SameTurn(s, s') /\ SameBooks(s, s')
  BY <1>0, MailEvents, AsideEvents, BookResults DEF Aside
<1>2. \A d \in Calls : s'.result[d] = IF d = c /\ c \in Unsettled(s) THEN o ELSE s.result[d]
  BY <1>0, BookResults
<1>3. /\ {c} \in SUBSET Unsettled(s)
      /\ \A d \in Calls : d \in {c} => s'.result[d] # "none"
      /\ \A d \in Calls : d \notin {c} => s'.result[d] = s.result[d]
  BY <1>2
<1> QED BY ONLY TypeOK, Paired(s), Mail(s), <1>1, <1>3, ShownSettled

\* A request, of a turn that is not cancelled.
LEMMA ShownStep ==
  ASSUME TypeOK, Paired(s), Mail(s), s.on, ~s.cancel, NEW p, NEW b,
         s' = StepStarted(s, p, b)
  PROVE  Shown
<1>0. IsState(s) /\ s.inputs \subseteq Inputs /\ s.accepted \in Nat /\ s.pending \subseteq Calls
  BY Mailbox, Ledger DEF TypeOK
<1> DEFINE taken == IF Opens(s, p) THEN {} ELSE Told(s, p, b)
<1>1. /\ s'.pending = s.pending \ taken /\ s'.issued = s.issued /\ s'.result = s.result
      /\ SameTurn(s, s')
  BY <1>0, StepStartedBooks, StepOpens
<1>2. taken \subseteq Settled(s)
  BY DEF Told
<1> HIDE DEF taken
<1>3. taken \in SUBSET Calls /\ \A c \in taken : Status(s, c) = "settled"
  <2>1. \A c \in Settled(s) : ~(c > s.issued) /\ c \notin Unsettled(s)
    <3>1. s.issued \in Nat /\ Settled(s) \subseteq 1..s.issued
      BY <1>0, Ledger, BoundAssumption DEF Paired, Known, Settled
    <3> QED BY <3>1 DEF Settled, Unsettled
  <2> QED BY <1>0, <1>2, <2>1 DEF Status, Settled
<1>4. \A c \in Calls : Status(s', c) = IF c \in taken THEN "closed" ELSE Status(s, c)
  BY <1>1, <1>2, <1>3 DEF Status, Unsettled, Settled
<1>5. CASE p = "conversation"
  <2>1. s'.accepted = s.accepted /\ s'.inputs = {} /\ s'.consumed = s.inputs
    BY <1>0, <1>5, MailTaken
  <2>2. \A i \in Inputs :
          Letter(s', i) = IF Letter(s, i) = "waiting" THEN "read" ELSE Letter(s, i)
    BY <2>1 DEF Letter
  <2>3. Mail(s')
    BY <2>1 DEF Mail
  <2> QED BY <1>1, <1>3, <1>4, <2>2, <2>3, AsRequest DEF Shown, Contract!Next
<1>6. CASE p # "conversation"
  <2>1. MailAside(s, s')
    BY <1>0, <1>6, MailTaken DEF MailAside
  <2> QED BY <1>1, <1>3, <1>4, <2>1, MailKept, AsRequest DEF Shown, Contract!Next
<1> QED BY <1>5, <1>6

LEMMA RunnerShown ==
  ASSUME TypeOK, TurnInv, PairInv, TaskInv, Mail(s),
         \/ AbortStep \/ Snapshot \/ Collected \/ RetryStep \/ AnswerToolCancel
         \/ (\E target \in 0..MaxCalls : RequestToolCancel(target))
         \/ \E c \in Calls : TakeResult(c)
  PROVE  Shown
<1>0. IsState(s) /\ Paired(s)
  BY DEF TypeOK, PairInv
<1>1. CASE AbortStep \/ \E target \in 0..MaxCalls : RequestToolCancel(target)
  <2>1. CASE AbortStep
    <3>1. s' = StepInterrupted(s, "cancelled")
      BY <2>1 DEF AbortStep
    <3> QED BY <1>0, <3>1, MailEvents, ClosingEvents, BookAside, ShownQuietly
            DEF SameBooks, SameSheet
  <2>2. CASE \E target \in 0..MaxCalls : RequestToolCancel(target)
    <3>1. PICK target : s' = ToolCancelRequested(s, target)
      BY <2>2 DEF RequestToolCancel
    <3> QED BY <1>0, <3>1, MailEvents, AsideEvents, BookAside, ShownQuietly
            DEF Aside, SameBooks, SameSheet
  <2> QED BY <1>1, <2>1, <2>2
<1>2. CASE Snapshot \/ Collected
  BY <1>2, ShownUnchanged DEF Snapshot, Collected
<1>3. CASE RetryStep
  BY <1>0, <1>3, ShownStep DEF RetryStep, TurnInv, NoInvariantFailure
<1>4. CASE AnswerToolCancel
  <2>1. PICK c \in NextCancel : s' = ToolResult(s, c, "ok")
    BY <1>4 DEF AnswerToolCancel
  <2>2. c \in Unsettled(s)
    BY <1>4, <2>1 DEF AnswerToolCancel, NextCancel, TaskInv, Undispatched
  <2> QED BY <1>0, <2>1, <2>2, ShownResult
<1>5. CASE \E c \in Calls : TakeResult(c)
  <2>1. PICK c \in chan : s' = ToolResult(s, c, out[c])
    BY <1>5 DEF TakeResult
  <2>2. c \in Unsettled(s) /\ out[c] # "none"
    BY <2>1 DEF TaskInv, Routed
  <2> QED BY <1>0, <2>1, <2>2, ShownResult
<1> QED BY <1>1, <1>2, <1>3, <1>4, <1>5

\* A turn ends as cancelled only if that was asked.
LEMMA CancelledIsAsked ==
  ASSUME NEW st, IsState(st), NEW live, NEW over, NEW d, d = Decide(st, live, over),
         d.act = "finishTurn", d.outcome = "cancelled"
  PROVE  st.cancel
<1>1. \/ d \in {Do("interruptStep"), Do("interruptTools"), Do("park"), Do("reachDeadline"),
                Do("startTurn"), AutoWaitDecision(st), RetryDecision(st),
                StartStep(st.strategy, TRUE), StartStep("conversation", Fresh(st) # {}),
                ContextDecision(st), ControlDecision(st)}
      \/ st.cancel
  BY DEF Decide
<1>2. AutoWaitDecision(st).act # "finishTurn" /\ ContextDecision(st).act # "finishTurn"
  BY DEF AutoWaitDecision, ContextDecision, EndAutoWait, Do, ApplyContext, StartStep
<1>3. RetryDecision(st) # d
  <2>1. \E p, q : RetryDecision(st) \in
           {StartStep(p, TRUE), ApplyContext(p), FinishTurn("failed"), StartStep(q, TRUE)}
    BY DEF RetryDecision
  <2> QED BY <2>1 DEF StartStep, ApplyContext, FinishTurn
<1>4. ControlDecision(st) # d
  BY DEF ControlDecision, StartStep, FinishTurn
<1> QED BY <1>1, <1>2, <1>3, <1>4 DEF Do, StartStep

\* The calls of an answer were unused.
LEMMA AnswerDraws ==
  ASSUME NEW st, IsState(st), Paired(st), NEW n \in Nat, st.issued + n <= MaxCalls
  PROVE  /\ NewCalls(st, n) \subseteq Calls
         /\ \A c \in NewCalls(st, n) :
              c > st.issued /\ ~(c > st.issued + n) /\ c \notin st.pending /\ st.result[c] = "none"
         /\ \A c \in Calls \ NewCalls(st, n) : c > st.issued + n <=> c > st.issued
<1>0. st.issued \in Nat /\ st.issued \in 0..MaxCalls /\ st.pending \subseteq 1..st.issued
      /\ st.result \in [Calls -> Outcomes \cup {"none"}]
  BY Ledger, BoundAssumption DEF Paired, Known
<1>1. NewCalls(st, n) \subseteq Calls
  BY <1>0, BoundAssumption DEF NewCalls, Calls
<1>2. ASSUME NEW c \in NewCalls(st, n)
      PROVE  c > st.issued /\ ~(c > st.issued + n) /\ c \notin st.pending /\ st.result[c] = "none"
  <2>1. c \in Nat /\ c > st.issued /\ c <= st.issued + n
    BY NewCallsFresh
  <2>2. ~(c <= st.issued)
    BY <1>0, <2>1
  <2> QED BY <1>0, <1>1, <2>1, <2>2 DEF Paired, Known
<1>3. ASSUME NEW c \in Calls \ NewCalls(st, n)
      PROVE  c > st.issued + n <=> c > st.issued
  BY <1>0, BoundAssumption DEF NewCalls, Calls
<1> QED BY <1>1, <1>2, <1>3

\* A context exit after an answer of n calls.
LEMMA ShownExit ==
  ASSUME TypeOK, Paired(s), Mail(s), s.on, ~s.cancel,
         NEW n \in Nat, s.issued + n <= MaxCalls, NEW done, IsState(done),
         MailAside(s, done), SameTurn(s, done),
         done.pending = s.pending \cup NewCalls(s, n), done.result = s.result,
         done.issued = s.issued + n,
         NEW kept, s' = ContextApplied(done, Unsettled(s), kept)
  PROVE  Shown
<1>0. IsState(s) /\ s.pending \subseteq Calls /\ s.issued \in Nat
  BY Ledger, BoundAssumption DEF TypeOK
<1> DEFINE new == NewCalls(s, n)
           told == Settled(s) \cap kept.results
<1>1. /\ s'.pending = Left(done, Unsettled(s), kept) /\ s'.issued = done.issued
      /\ s'.result = s.result /\ MailAside(done, s') /\ SameTurn(done, s')
  BY ContextAppliedBooks, MailEvents, ClosingEvents
<1>2. /\ new \subseteq Calls
      /\ \A c \in new : c > s.issued /\ ~(c > s.issued + n) /\ c \notin s.pending
                        /\ s.result[c] = "none"
      /\ \A c \in Calls \ new : c > s.issued + n <=> c > s.issued
  BY <1>0, AnswerDraws
<1> HIDE DEF new
<1>3. \A c : c \in s'.pending <=> c \in s.pending \ told
  BY <1>1, <1>2 DEF Left, Unsettled, Settled, new
<1>4. told \in SUBSET Calls /\ \A c \in told : Status(s, c) = "settled"
  <2>1. s.pending \subseteq 1..s.issued
    BY DEF Paired, Known
  <2>2. \A c \in s.pending : ~(c > s.issued)
    BY <1>0, <2>1
  <2> QED BY <1>0, <2>2 DEF Status, Settled, Unsettled
<1>5. \A c \in new : Status(s, c) = "unused"
  BY <1>2 DEF Status
<1>6. ASSUME NEW c \in Calls
      PROVE  Status(s', c) = IF c \in new THEN "closed"
                             ELSE IF c \in told THEN "closed" ELSE Status(s, c)
  <2>1. CASE c \in new
    BY <1>1, <1>2, <1>3, <2>1 DEF Status, Settled, Unsettled
  <2>2. CASE c \in told
    <3>1. ~(c > s.issued) /\ c \notin new
      BY <1>2, <1>4, <2>2 DEF Status, Settled
    <3> QED BY <1>1, <1>2, <1>3, <2>2, <3>1 DEF Status, Settled, Unsettled
  <2>3. CASE c \notin new /\ c \notin told
    BY <1>1, <1>2, <1>3, <2>3 DEF Status, Settled, Unsettled
  <2> QED BY <2>1, <2>2, <2>3
<1>7. SameTurn(s, s') /\ MailAside(s, s')
  BY <1>1 DEF SameTurn, MailAside
<1> HIDE DEF told
<1> QED BY <1>2, <1>4, <1>5, <1>6, <1>7, MailKept, AsAnswer DEF Shown, Contract!Next

LEMMA ActShown ==
  ASSUME TypeOK, TurnInv, PairInv, Mail(s), Act
  PROVE  Shown
<1>1. PICK over \in {FALSE, s.anchor} : Carry(Decide(s, snap, over))
  BY DEF Act
<1> DEFINE d == Decide(s, snap, over)
<1>2. /\ d.act = "startStep" => s.on /\ ~(s.on /\ s.cancel)
      /\ d.act = "finishTurn" => s.on /\ d.outcome \in Endings
      /\ d.act = "finishTurn" /\ s.on /\ s.cancel => d.outcome = "cancelled"
      /\ d.act = "startTurn" => ~s.on
      /\ Carry(d) /\ IsState(s) /\ Paired(s)
  BY <1>1, DecideMeans DEF TypeOK, PairInv
<1>3. d.act = "finishTurn" /\ d.outcome = "cancelled" => s.cancel
  BY <1>2, CancelledIsAsked
<1> HIDE DEF d
<1>4. CASE InterruptStep(d) \/ LeaveAutoWait(d) \/ ReachDeadline(d)
  <2>1. \/ s' = StepInterrupted(s, "recovery") \/ s' = AutoWaitEnded(s, d.reason)
        \/ s' = DeadlineReached(s)
    BY <1>4 DEF InterruptStep, LeaveAutoWait, ReachDeadline, Commit
  <2>2. MailAside(s, s') /\ SameTurn(s, s') /\ SameSheet(s, s')
    BY <1>2, <2>1, MailEvents, AsideEvents, ClosingEvents, BookAside
       DEF Aside, SameBooks, SameSheet
  <2> QED BY <2>2, ShownQuietly
<1>5. CASE InterruptTools(d)
  <2> DEFINE o == [c \in Lost(s, snap) |->
                     IF s.kind[c] \in Malformed THEN "failed" ELSE "interrupted"]
  <2>1. s' = ToolResults(s, o) /\ DOMAIN o = Lost(s, snap) /\ \A c \in Lost(s, snap) : o[c] # "none"
    BY <1>5 DEF InterruptTools, Commit
  <2> HIDE DEF o
  <2>2. MailAside(s, s') /\ SameTurn(s, s') /\ SameBooks(s, s')
    BY <1>2, <2>1, MailEvents, AsideEvents, BookResults DEF Aside
  <2>3. \A c \in Calls : s'.result[c] = IF c \in DOMAIN o /\ s.result[c] = "none"
                                        THEN o[c] ELSE s.result[c]
    BY <1>2, <2>1, BookResults, ZenonT(40)
  <2>4. /\ Lost(s, snap) \in SUBSET Unsettled(s)
        /\ \A c \in Calls : c \in Lost(s, snap) => s'.result[c] # "none"
        /\ \A c \in Calls : c \notin Lost(s, snap) => s'.result[c] = s.result[c]
    BY <2>1, <2>3 DEF Lost, Unsettled
  <2> QED BY <1>2, <2>2, <2>4, ShownSettled
<1>6. CASE StartTurn(d)
  <2>1. s' = TurnStarted(s) /\ ~s.on
    BY <1>2, <1>6 DEF StartTurn, Commit
  <2>2. /\ MailAside(s, s') /\ s'.on /\ ~s'.cancel /\ s'.outcome = "none"
    BY <1>2, <2>1, MailEvents, TurnOpens
  <2>3. SameSheet(s, s')
    BY <1>2, <2>1 DEF TurnStarted, NoContext, IsState, FieldTypes, SameSheet
  <2> QED BY <2>1, <2>2, <2>3, MailKept, SheetKept, AsBegin DEF Shown, Contract!Next
<1>7. CASE EndTurn(d)
  <2> DEFINE moot == s.pending \ Survives(s)
  <2>1. s' = TurnFinished(s, d.outcome) /\ s.on /\ d.outcome \in Endings
    BY <1>2, <1>7 DEF EndTurn
  <2>2. /\ MailAside(s, s') /\ ~s'.on /\ s'.outcome = d.outcome
        /\ s'.pending = Survives(s) /\ s'.issued = s.issued /\ s'.result = s.result
    BY <1>2, <2>1, MailEvents, TurnCloses, TurnFinishedBooks
  <2>3. s'.outcome = "cancelled" <=> s.cancel
    BY <1>2, <1>3, <1>7, <2>1, <2>2, Readings DEF EndTurn
  <2>4. moot \in SUBSET Calls /\ moot \subseteq Settled(s)
    BY <1>2, Ledger DEF Survives, Settled
  <2>5. \A c \in moot : Status(s, c) = "settled"
    <3>1. s.pending \subseteq 1..s.issued /\ s.issued \in Nat
      BY <1>2, Ledger, BoundAssumption DEF Paired, Known
    <3>2. \A c \in s.pending : ~(c > s.issued)
      BY <3>1
    <3> QED BY <2>4, <3>2 DEF Status, Settled, Unsettled
  <2>6. \A c \in Calls : Status(s', c) = IF c \in moot THEN "closed" ELSE Status(s, c)
    <3>1. \A c : c \in s'.pending <=> c \in s.pending \ moot
      BY <2>2 DEF Survives
    <3> QED BY <2>2, <2>4, <2>5, <3>1 DEF Status, Settled, Unsettled
  <2> HIDE DEF moot
  <2> QED BY <1>2, <2>1, <2>2, <2>3, <2>4, <2>5, <2>6, Readings, MailKept, AsEnd
          DEF Shown, Contract!Next, Endings
<1>8. CASE GiveUpContext(d)
  <2> DEFINE done == ContextFailed(s)
  <2>1. s' = ContextApplied(done, Unsettled(s), Nothing)
    BY <1>8 DEF GiveUpContext, Commit
  <2>2. /\ IsState(done) /\ MailAside(s, done) /\ SameTurn(s, done)
        /\ done.pending = s.pending /\ done.result = s.result /\ done.issued = s.issued
    BY <1>2, NotedType, MailEvents, AsideEvents, BookAside DEF Aside, SameBooks
  <2> HIDE DEF done
  <2>3. /\ s'.pending = Left(done, Unsettled(s), Nothing) /\ s'.issued = done.issued
        /\ s'.result = s.result /\ MailAside(done, s') /\ SameTurn(done, s')
    BY <2>1, <2>2, ContextAppliedBooks, MailEvents, ClosingEvents
  <2>4. s'.pending = s.pending
    BY <2>2, <2>3 DEF Left, Nothing, Unsettled
  <2> QED BY <2>2, <2>3, <2>4, ShownQuietly DEF MailAside, SameTurn, SameSheet
<1>9. CASE BeginStep(d)
  <2>1. s.on /\ ~s.cancel
    BY <1>2, <1>9 DEF BeginStep
  <2>2. s' = s \/ s' = StepStarted(s, d.purpose, d.include)
    BY <1>9 DEF BeginStep
  <2> QED BY <1>2, <2>1, <2>2, ShownUnchanged, ShownStep
<1>10. CASE Park(d)
  BY <1>10, ShownUnchanged DEF Park
<1> QED BY <1>2, <1>4, <1>5, <1>6, <1>7, <1>8, <1>9, <1>10 DEF Carry

LEMMA ProviderShown ==
  ASSUME TypeOK, TurnInv, PairInv, Mail(s), Provider
  PROVE  Shown
<1>0. /\ IsState(s) /\ Paired(s) /\ pc = "stream" /\ s.on /\ ~s.cancel
      /\ SameTurn(s, s') /\ s.issued \in Nat
  <2>1. pc = "stream"
    BY DEF Provider, Answer, CompleteStep, Document, Summarised, HandedOff, NoDocument,
           BadDocument, Failure, FailStep
  <2>2. s.issued \in Nat
    BY Ledger, BoundAssumption DEF TypeOK
  <2> QED BY <2>1, <2>2, ProviderCloses DEF TypeOK, TurnInv, PairInv
<1>1. CASE Answer
  <2>1. PICK ks \in KindSeqs, usage \in Usages :
          s.issued + Len(ks) <= MaxCalls /\ CompleteStep(ks, usage)
    BY <1>1 DEF Answer
  <2> DEFINE new == NewCalls(s, Len(ks))
  <2>2. ks \in Seq(CallKinds) /\ Len(ks) \in Nat
    <3>1. PICK n \in 0..MaxBatch : ks \in [1..n -> Kinds]
      BY DEF KindSeqs
    <3>2. ks \in Seq(Kinds) /\ Len(ks) \in Nat /\ Kinds \subseteq CallKinds
      BY <3>1, RunnerAssumption DEF CallKinds
    <3> QED BY <3>2
  <2>3. s' = StepCompleted(s, ks, usage)
    BY <2>1 DEF CompleteStep
  <2>4. /\ s'.pending = s.pending \cup new /\ s'.issued = s.issued + Len(ks)
        /\ s'.result = s.result /\ MailAside(s, s')
    <3>1. MailAside(s, s')
      BY <1>0, <2>3, MailEvents
    <3> QED BY <1>0, <2>3, <3>1, StepCompletedBooks
  <2>5. /\ new \subseteq Calls
        /\ \A c \in new : c > s.issued /\ ~(c > s.issued + Len(ks)) /\ c \notin s.pending
                          /\ s.result[c] = "none"
        /\ \A c \in Calls \ new : c > s.issued + Len(ks) <=> c > s.issued
    BY <1>0, <2>1, <2>2, AnswerDraws
  <2> HIDE DEF new
  <2>6. \A c \in new : Status(s, c) = "unused"
    BY <2>5 DEF Status
  <2> DEFINE told == {}
  <2>7. told \in SUBSET Calls /\ \A c \in told : Status(s, c) = "settled"
    OBVIOUS
  <2>8. ASSUME NEW c \in Calls
        PROVE  Status(s', c) = IF c \in new THEN "open"
                               ELSE IF c \in told THEN "closed" ELSE Status(s, c)
    BY <2>4, <2>5 DEF Status, Unsettled, Settled
  <2> HIDE DEF told
  <2>9. Contract!Answer
    <3>1. SameMail(s, s') /\ SameTurn(s, s') /\ s.on /\ ~s.cancel
      BY <1>0, <2>4, MailKept
    <3>2. new \in SUBSET Calls /\ "open" \in {"open", "settled", "closed"}
      BY <2>5
    <3> QED BY ONLY <3>1, <3>2, <2>6, <2>7, <2>8, AsAnswer
  <2> QED BY <2>4, <2>9, MailKept DEF Shown, Contract!Next
<1>2. CASE Document
  <2>1. PICK ks, usage, kept :
           /\ s' = ContextApplied(StepCompleted(s, ks, usage), Unsettled(s), kept)
           /\ IsState(StepCompleted(s, ks, usage)) /\ Len(ks) \in Nat
    BY <1>2, DocumentIs
  <2> DEFINE done == StepCompleted(s, ks, usage)
  <2>2. /\ done.pending = s.pending \cup NewCalls(s, Len(ks)) /\ done.result = s.result
        /\ done.issued = s.issued + Len(ks) /\ MailAside(s, done) /\ SameTurn(s, done)
    <3>1. MailAside(s, done) /\ SameTurn(s, done)
      BY <1>0, MailEvents, ClosingEvents
    <3> QED BY <1>0, <3>1, StepCompletedBooks
  <2>3. IsState(done) /\ s' = ContextApplied(done, Unsettled(s), kept)
    BY <2>1
  <2> HIDE DEF done
  <2>4. s.issued + Len(ks) <= MaxCalls
    BY <2>2, <2>3, Ledger, BoundAssumption
  <2> QED BY <1>0, <2>1, <2>2, <2>3, <2>4, ShownExit
<1>3. CASE NoDocument
  <2>1. PICK n \in 0..MaxBatch, usage \in Usages :
          s.issued + n <= MaxCalls /\ BadDocument(n, usage)
    BY <1>3 DEF NoDocument
  <2> DEFINE ks == [i \in 1..n |-> "refused"]
             done == StepCompleted(s, ks, usage)
             o == [c \in NewCalls(s, n) |-> "failed"]
             new == NewCalls(s, n)
  <2>2. ks \in Seq(CallKinds) /\ Len(ks) = n /\ n \in Nat /\ usage \in BOOLEAN
    BY RunnerAssumption DEF CallKinds
  <2>3. \/ s' = ContextApplied(ContextFailed(done), Unsettled(s), Nothing)
        \/ s' = ToolResults(done, o)
    BY <2>1 DEF BadDocument, Commit
  <2>4. DOMAIN o = NewCalls(s, n) /\ \A c \in NewCalls(s, n) : o[c] = "failed"
    OBVIOUS
  <2> HIDE DEF ks, o
  <2>5. /\ IsState(done) /\ done.pending = s.pending \cup NewCalls(s, n)
        /\ done.result = s.result /\ done.issued = s.issued + n
        /\ MailAside(s, done) /\ SameTurn(s, done)
    <3>1. MailAside(s, done) /\ SameTurn(s, done)
      BY <1>0, MailEvents, ClosingEvents
    <3>2. /\ done.pending = s.pending \cup NewCalls(s, Len(ks))
          /\ done.result = s.result /\ done.issued = s.issued + Len(ks)
      BY <1>0, StepCompletedBooks
    <3> QED BY <1>0, <2>1, <2>2, <3>1, <3>2, StepCompletedType
  <2> HIDE DEF done
  <2>6. CASE s' = ContextApplied(ContextFailed(done), Unsettled(s), Nothing)
    <3> DEFINE told == ContextFailed(done)
    <3>1. /\ IsState(told) /\ told.pending = s.pending \cup NewCalls(s, n)
          /\ told.result = s.result /\ told.issued = s.issued + n
          /\ MailAside(s, told) /\ SameTurn(s, told)
      BY <2>5, NotedType, BookAside, AsideEvents, MailEvents
         DEF SameBooks, Aside, SameTurn, MailAside
    <3>2. s' = ContextApplied(told, Unsettled(s), Nothing)
      BY <2>6
    <3> HIDE DEF told
    <3> QED BY <1>0, <2>1, <2>2, <3>1, <3>2, ShownExit
  <2>7. CASE s' = ToolResults(done, o)
    <3>1. SameBooks(done, s') /\ MailAside(done, s') /\ \A c \in Calls :
            s'.result[c] = IF c \in DOMAIN o /\ done.result[c] = "none"
                           THEN o[c] ELSE done.result[c]
      BY <2>5, <2>7, BookResults, MailEvents
    <3>2. /\ new \subseteq Calls
          /\ \A c \in new : c > s.issued /\ ~(c > s.issued + n) /\ c \notin s.pending
                            /\ s.result[c] = "none"
          /\ \A c \in Calls \ new : c > s.issued + n <=> c > s.issued
      BY <1>0, <2>1, <2>2, AnswerDraws
    <3>3. /\ s'.pending = s.pending \cup new /\ s'.issued = s.issued + n
          /\ \A c \in Calls : s'.result[c] = IF c \in new THEN "failed" ELSE s.result[c]
      BY <2>4, <2>5, <3>1, <3>2 DEF SameBooks
    <3> HIDE DEF new
    <3>4. \A c \in new : Status(s, c) = "unused"
      BY <3>2 DEF Status
    <3> DEFINE told == {}
    <3>5. told \in SUBSET Calls /\ \A c \in told : Status(s, c) = "settled"
      OBVIOUS
    <3>6. ASSUME NEW c \in Calls
          PROVE  Status(s', c) = IF c \in new THEN "settled"
                                 ELSE IF c \in told THEN "closed" ELSE Status(s, c)
      BY <3>2, <3>3 DEF Status, Unsettled, Settled
    <3> HIDE DEF told
    <3>7. MailAside(s, s')
      BY <2>5, <3>1 DEF MailAside
    <3>8. Contract!Answer
      BY <1>0, <3>2, <3>4, <3>5, <3>6, <3>7, MailKept, AsAnswer
    <3> QED BY <3>7, <3>8, MailKept DEF Shown, Contract!Next
  <2> QED BY <2>3, <2>6, <2>7
<1>4. CASE Failure
  <2>1. PICK err \in ProviderErrors, usage \in Usages : s' = StepFailed(s, err, usage)
    BY <1>4 DEF Failure, FailStep
  <2>2. /\ s'.accepted = s.accepted /\ s'.consumed = {} /\ s'.inputs = Restored(s, err)
        /\ SameCalls(s, s')
    BY <1>0, <2>1, MailBack, BookAside, SheetKept DEF SameBooks, SameSheet
  <2> DEFINE back == IF err = "overflow" THEN s.consumed \ s.inputs ELSE {}
  <2>3. s'.inputs = s.inputs \cup back /\ back \subseteq s.consumed \ s.inputs
    BY <2>2 DEF Restored
  <2>4. Mail(s')
    BY <2>2, <2>3 DEF Mail
  <2> HIDE DEF back
  <2>5. back \in SUBSET Inputs /\ \A i \in back : Letter(s, i) = "read" /\ ~(i > s.accepted)
    <3>1. s.accepted \in Nat /\ s.consumed \subseteq Inputs
      BY <1>0, Mailbox
    <3>2. \A i \in back : i \in 1..s.accepted
      BY <2>3 DEF Mail
    <3>3. \A i \in back : ~(i > s.accepted)
      BY <3>1, <3>2
    <3> QED BY <2>3, <3>1, <3>3 DEF Letter
  <2>6. \A i \in Inputs : Letter(s', i) = IF i \in back THEN "waiting" ELSE Letter(s, i)
    BY <2>2, <2>3, <2>5 DEF Letter
  <2> QED BY <1>0, <2>2, <2>4, <2>5, <2>6, AsGiveBack DEF Shown, Contract!Next
<1> QED BY <1>1, <1>2, <1>3, <1>4 DEF Provider

LEMMA StepShown ==
  ASSUME TypeOK, TurnInv, PairInv, TaskInv, Mail(s), [Next]_vars
  PROVE  Shown
<1>0. IsState(s)
  BY DEF TypeOK
<1>1. CASE UNCHANGED s
  BY <1>1, ShownUnchanged
<1>2. CASE \E open \in BOOLEAN : Rebuild(open)
  <2>1. s' = RuntimeFault(s)
    BY <1>2 DEF Rebuild
  <2> QED BY <1>0, <2>1, MailEvents, AsideEvents, BookAside, ShownQuietly
          DEF Aside, SameBooks, SameSheet
<1>3. CASE AutoWaitExpires \/ WaitExpires
  <2>1. MailAside(s, s') /\ SameTurn(s, s') /\ SameSheet(s, s')
    BY <1>0, <1>3
       DEF AutoWaitExpires, WaitExpires, IsState, FieldTypes, MailAside, SameTurn, SameSheet
  <2> QED BY <2>1, ShownQuietly
<1> QED
  <2>1. \/ UNCHANGED s \/ Client \/ Act \/ Provider \/ AutoWaitExpires \/ WaitExpires
        \/ (\E open \in BOOLEAN : Rebuild(open))
        \/ AbortStep \/ Snapshot \/ Collected \/ RetryStep \/ AnswerToolCancel
        \/ (\E target \in 0..MaxCalls : RequestToolCancel(target))
        \/ \E c \in Calls : TakeResult(c)
    BY DEF Next, vars, Stop, Stopped, Reopen, RunnerStep, ToolStep, ToolReturns,
           ToolSends, ToolLeaves, Clock, DeadlineWake, Crash, RunnerFails
  <2> QED BY <2>1, <1>1, <1>2, <1>3, ClientShown, ActShown, ProviderShown, RunnerShown

LEMMA StartShown ==
  ASSUME Init
  PROVE  Mail(s) /\ Contract!Init
<1>1. PICK g \in Strategies : s = Created(g)
  BY DEF Init
<1>2. /\ s.inputs = {} /\ s.consumed = {} /\ s.accepted = 0 /\ s.issued = 0
      /\ s.pending = {} /\ ~s.on /\ s.outcome = "none"
  BY <1>1 DEF Created
<1>3. \A i \in Inputs : i > s.accepted
  BY <1>2, BoundAssumption DEF Inputs
<1>4. \A c \in Calls : c > s.issued
  BY <1>2, BoundAssumption DEF Calls
<1> QED BY <1>2, <1>3, <1>4 DEF Mail, Contract!Init

\* The runner keeps the session's contract: an input waits until a request of a
\* turn that is not cancelled takes the whole mailbox, a call settles once and is
\* closed only when its result is told or moot, and a cancelling turn makes no
\* request, opens no call and ends cancelled; whatever crashes, failures, retries
\* and context operations intervene.
THEOREM RunnerImplements == Spec => ContractHolds
<1> DEFINE Inv == TypeOK /\ TurnInv /\ PairInv /\ TaskInv /\ Watch /\ Mail(s)
<1>1. Init => Inv /\ Contract!Init
  BY TypeInit, TurnInvInit, PairInvInit, TaskInvInit, WatchInit, StartShown
<1>2. Inv /\ [Next]_vars => Inv' /\ [Contract!Next]_(Contract!vars)
  <2>1. Inv /\ [Next]_vars => Shown
    BY StepShown
  <2>2. Shown => Mail(s)' /\ [Contract!Next]_(Contract!vars)
    BY DEF Shown, Mail
  <2> QED BY <2>1, <2>2, TypeStep, TurnInvStep, PairInvStep, TaskInvStep, WatchStep
<1> QED BY <1>1, <1>2, PTL DEF Spec, ContractHolds, Contract!Spec

-----------------------------------------------------------------------------
\* How often a turn retries.

\* An event that leaves the count of failures alone.
CountAside(st, next) ==
  next.failures = st.failures /\ next.failure = st.failure /\ next.on = st.on

LEMMA CountEvents ==
  ASSUME NEW st, IsState(st), NEW g, NEW c, NEW same, NEW a
  PROVE  /\ CountAside(st, InputAppended(st)) /\ CountAside(st, SelectionChanged(st, same))
         /\ CountAside(st, ContextConfigured(st, g)) /\ CountAside(st, ToolCancelRequested(st, c))
         /\ CountAside(st, ToolResult(st, c, a)) /\ CountAside(st, ToolResults(st, a))
         /\ CountAside(st, DeadlineReached(st)) /\ CountAside(st, RuntimeFault(st))
         /\ CountAside(st, TurnCancelRequested(st)) /\ CountAside(st, AutoWaitEnded(st, a))
         /\ CountAside(st, StepInterrupted(st, a))
<1> USE DEF IsState, FieldTypes, CountAside
<1>1. CountAside(st, InputAppended(st)) /\ CountAside(st, SelectionChanged(st, same))
  BY DEF InputAppended, SelectionChanged
<1>2. CountAside(st, ContextConfigured(st, g)) /\ CountAside(st, ToolCancelRequested(st, c))
  BY DEF ContextConfigured, ToolCancelRequested
<1>3. CountAside(st, ToolResult(st, c, a)) /\ CountAside(st, ToolResults(st, a))
  BY DEF ToolResult, ToolResults
<1>4. CountAside(st, DeadlineReached(st)) /\ CountAside(st, RuntimeFault(st))
  BY DEF DeadlineReached, RuntimeFault
<1>5. CountAside(st, TurnCancelRequested(st)) /\ CountAside(st, AutoWaitEnded(st, a))
  BY DEF TurnCancelRequested, AutoWaitEnded, NoAutoWait
<1>6. CountAside(st, StepInterrupted(st, a))
  BY DEF StepInterrupted, Closed, NoStep
<1> QED BY <1>1, <1>2, <1>3, <1>4, <1>5, <1>6

\* The events that set it.
LEMMA CountSets ==
  ASSUME NEW st, IsState(st), NEW p, NEW b, NEW ks, NEW u, NEW o, NEW carried, NEW kept
  PROVE  /\ StepStarted(st, p, b).failures = st.failures
         /\ StepStarted(st, p, b).failure = "none" /\ StepStarted(st, p, b).on = st.on
         /\ StepCompleted(st, ks, u).failures = 0 /\ StepCompleted(st, ks, u).failure = "none"
         /\ ContextApplied(st, carried, kept).failures = 0
         /\ ContextApplied(st, carried, kept).failure = "none"
         /\ TurnStarted(st).failures = 0 /\ TurnStarted(st).failure = st.failure
         /\ TurnFinished(st, o).failures = 0 /\ TurnFinished(st, o).failure = st.failure
         /\ ToolResults(st, o).failures = st.failures /\ ToolResults(st, o).failure = st.failure
<1> USE DEF IsState, FieldTypes
<1>1. /\ StepStarted(st, p, b).failures = st.failures
      /\ StepStarted(st, p, b).failure = "none" /\ StepStarted(st, p, b).on = st.on
  BY DEF StepStarted
<1>2. StepCompleted(st, ks, u).failures = 0 /\ StepCompleted(st, ks, u).failure = "none"
  BY DEF StepCompleted, Closed, NoStep
<1>3. /\ ContextApplied(st, carried, kept).failures = 0
      /\ ContextApplied(st, carried, kept).failure = "none"
  BY DEF ContextApplied, NoAutoWait, NoStep, NoContext
<1>4. TurnStarted(st).failures = 0 /\ TurnStarted(st).failure = st.failure
  BY DEF TurnStarted, NoContext
<1>5. TurnFinished(st, o).failures = 0 /\ TurnFinished(st, o).failure = st.failure
  BY DEF TurnFinished, TurnOver, NoAutoWait, NoStep, NoContext
<1>6. ToolResults(st, o).failures = st.failures /\ ToolResults(st, o).failure = st.failure
  BY DEF ToolResults
<1> QED BY <1>1, <1>2, <1>3, <1>4, <1>5, <1>6

LEMMA CountFailed ==
  ASSUME NEW st, IsState(st), st.on, NEW e, NEW u, NEW next, next = StepFailed(st, e, u)
  PROVE  /\ next.failure = e /\ next.on
         /\ IsContext(st.step) /\ e = "document" => next.failures = 0
         /\ ~(IsContext(st.step) /\ e = "document") => next.failures = st.failures + 1
  BY DEF StepFailed, Closed, NoStep, IsState, FieldTypes

Limit == AtLeastOne(RetryLimit)

LEMMA Counted ==
  ASSUME NEW st, IsState(st)
  PROVE  st.failures \in Nat /\ Limit \in Nat /\ 0 < Limit
<1>1. "failures" \in DOMAIN FieldTypes /\ FieldTypes.failures = Nat
  BY DEF FieldTypes
<1>2. st.failures \in Nat
  BY <1>1 DEF IsState
<1> QED BY <1>2, LimitAssumption DEF Limit, AtLeastOne

\* A request is begun, and a context given up, only while retries are left; what
\* was too large for the provider is another matter.
LEMMA DecideBudget ==
  ASSUME NEW st, IsState(st), st.failure # "overflow",
         NEW live, NEW over, NEW d, d = Decide(st, live, over)
  PROVE  /\ d.act = "startStep" => st.failures < Limit
         /\ d.act = "applyContext" => st.failures = 0
<1>0. st.failures \in Nat /\ Limit \in Nat /\ 0 < Limit
  BY Counted
<1>1. CASE st.on /\ st.failures > 0
  <2>1. \/ d \in {Do("interruptStep"), Do("interruptTools"), FinishTurn("cancelled"),
                  AutoWaitDecision(st)}
        \/ d = RetryDecision(st)
    BY <1>1 DEF Decide
  <2>2. AutoWaitDecision(st).act \notin {"startStep", "applyContext"}
    BY DEF AutoWaitDecision, EndAutoWait, Do
  <2>3. RetryDecision(st) = FinishTurn("failed")
        \/ (st.failures < Limit /\ \E p : RetryDecision(st) = StartStep(p, TRUE))
    <3>1. CASE Exhausted(st)
      BY <3>1 DEF RetryDecision
    <3>2. CASE ~Exhausted(st)
      <4>1. st.failures < Limit
        BY <1>0, <3>2 DEF Exhausted, Limit
      <4>2. \E p : RetryDecision(st) = StartStep(p, TRUE)
        BY <3>2 DEF RetryDecision
      <4> QED BY <4>1, <4>2
    <3> QED BY <3>1, <3>2
  <2> QED BY <2>1, <2>2, <2>3 DEF Do, FinishTurn, StartStep
<1>2. CASE ~st.on
  <2>1. d \in {Do("interruptStep"), Do("interruptTools"), Do("park"), Do("reachDeadline"),
               Do("startTurn"), AutoWaitDecision(st)}
    BY <1>2 DEF Decide
  <2>2. AutoWaitDecision(st).act \notin {"startStep", "applyContext"}
    BY DEF AutoWaitDecision, EndAutoWait, Do
  <2> QED BY <2>1, <2>2 DEF Do
<1>3. CASE ~(st.failures > 0)
  BY <1>0, <1>3
<1>4. st.on \/ ~st.on
  OBVIOUS
<1> QED BY <1>1, <1>2, <1>3, <1>4

\* The count the session keeps is never below the failures in a row; a turn
\* that has used up its retries makes no request.
RowInv ==
  /\ row \in Nat /\ row <= s.failures /\ s.failures <= Limit
  /\ ~s.on => row = 0
  /\ s.failure # "overflow"
  /\ pc \in {"backoff", "stream"} => s.failures < Limit

LEMMA RowAside ==
  ASSUME TypeOK, RowInv, row' \in {0, row}, s'.failures = s.failures, s'.failure = s.failure,
         s.on => s'.on \/ row' = 0, ~s.on => ~s'.on,
         pc' \in {"backoff", "stream"} => s.failures < Limit
  PROVE  RowInv'
<1>1. s.failures \in Nat
  BY Counted DEF TypeOK
<1>2. row' \in Nat /\ row' <= s.failures
  BY <1>1 DEF RowInv
<1> QED BY <1>2 DEF RowInv

LEMMA RowReset ==
  ASSUME TypeOK, RowInv, row' = 0, s'.failures = 0, s'.failure # "overflow",
         pc' \notin {"backoff", "stream"}
  PROVE  RowInv'
<1>1. Limit \in Nat /\ 0 < Limit
  BY Counted DEF TypeOK
<1> QED BY <1>1 DEF RowInv

LEMMA FailureRow ==
  ASSUME "overflow" \notin Errors, TypeOK, TurnInv, RowInv, Failure,
         row' <= row + 1, row' \in Nat,
         IsContext(s.step) /\ s'.failure = "document" => row' = 0
  PROVE  RowInv'
<1>0. IsState(s) /\ s.on /\ s.failures \in Nat /\ Limit \in Nat
  BY Counted DEF Failure, FailStep, TypeOK, TurnInv, NoInvariantFailure
<1>1. PICK err \in ProviderErrors, usage \in Usages : FailStep(err, usage)
  BY DEF Failure
<1>2. /\ err \in Errors /\ pc = "stream" /\ pc' = "drain" /\ s' = StepFailed(s, err, usage)
  BY <1>1 DEF FailStep, Goto
<1>3. /\ s'.failure = err /\ s'.on
      /\ IsContext(s.step) /\ err = "document" => s'.failures = 0
      /\ ~(IsContext(s.step) /\ err = "document") => s'.failures = s.failures + 1
  BY <1>0, <1>2, CountFailed
<1>4. s.failures < Limit /\ row <= s.failures
  BY <1>2 DEF RowInv
<1>5. err # "overflow"
  BY <1>2
<1>6. row' <= s'.failures /\ s'.failures <= Limit
  <2>1. row \in Nat
    BY DEF RowInv
  <2> QED BY <1>0, <1>3, <1>4, <2>1
<1> QED BY <1>2, <1>3, <1>5, <1>6 DEF RowInv

LEMMA ActRow ==
  ASSUME TypeOK, RowInv, Act, row' = IF s.on /\ ~s'.on THEN 0 ELSE row
  PROVE  RowInv'
<1>1. PICK over \in {FALSE, s.anchor} : Carry(Decide(s, snap, over))
  BY DEF Act
<1> DEFINE d == Decide(s, snap, over)
<1>2. /\ d.act = "startStep" => s.failures < Limit
      /\ d.act = "applyContext" => s.failures = 0
      /\ d.act = "startTurn" => ~s.on
      /\ d.act = "finishTurn" => s.on
      /\ Carry(d) /\ IsState(s)
  BY <1>1, DecideMeans, DecideBudget DEF TypeOK, RowInv
<1> HIDE DEF d
<1>3. row' \in {0, row} /\ (s.on => s'.on \/ row' = 0)
  OBVIOUS
<1>4. CASE InterruptStep(d) \/ LeaveAutoWait(d) \/ ReachDeadline(d) \/ InterruptTools(d)
  <2>1. CountAside(s, s') /\ pc' = "drain"
    <3>1. CASE InterruptStep(d) \/ LeaveAutoWait(d) \/ ReachDeadline(d)
      <4>1. \/ s' = StepInterrupted(s, "recovery") \/ s' = AutoWaitEnded(s, d.reason)
            \/ s' = DeadlineReached(s)
        BY <3>1 DEF InterruptStep, LeaveAutoWait, ReachDeadline, Commit
      <4> QED BY <1>2, <3>1, <4>1, CountEvents
              DEF InterruptStep, LeaveAutoWait, ReachDeadline, Commit, Goto
    <3>2. CASE InterruptTools(d)
      <4>1. PICK o : s' = ToolResults(s, o) /\ pc' = "drain"
        BY <3>2 DEF InterruptTools, Commit, Goto
      <4> QED BY <1>2, <4>1, CountEvents
    <3> QED BY <1>4, <3>1, <3>2
  <2> QED BY <1>3, <2>1, RowAside DEF CountAside
<1>5. CASE StartTurn(d)
  <2>1. s' = TurnStarted(s) /\ ~s.on /\ pc' = "drain"
    BY <1>2, <1>5 DEF StartTurn, Commit, Goto
  <2>2. row' = 0
    BY <2>1 DEF RowInv
  <2> QED BY <1>2, <2>1, <2>2, CountSets, RowReset DEF RowInv
<1>6. CASE EndTurn(d)
  <2>1. s' = TurnFinished(s, d.outcome) /\ s.on /\ pc' = "drain"
    BY <1>2, <1>6 DEF EndTurn, Goto
  <2>2. row' = 0
    BY <1>2, <2>1, TurnCloses
  <2> QED BY <1>2, <2>1, <2>2, CountSets, RowReset DEF RowInv
<1>7. CASE GiveUpContext(d)
  <2> DEFINE told == ContextFailed(s)
  <2>1. s' = ContextApplied(told, Unsettled(s), Nothing) /\ pc' = "drain" /\ s.failures = 0
    BY <1>2, <1>7 DEF GiveUpContext, Commit, Goto
  <2>2. IsState(told)
    BY <1>2, NotedType
  <2> HIDE DEF told
  <2>3. row' = 0
    <3>1. row = 0
      BY <2>1 DEF RowInv
    <3> QED BY <3>1
  <2> QED BY <2>1, <2>2, <2>3, CountSets, RowReset
<1>8. CASE BeginStep(d)
  <2>1. s.failures < Limit
    BY <1>2, <1>8 DEF BeginStep
  <2>2. CASE s' = s
    BY <1>3, <2>1, <2>2, RowAside
  <2>3. CASE s' = StepStarted(s, d.purpose, d.include)
    <3>1. s'.failures = s.failures /\ s'.failure = "none" /\ s'.on = s.on
      BY <1>2, <2>3, CountSets
    <3> QED BY <1>3, <2>1, <3>1 DEF RowInv
  <2> QED BY <1>8, <2>2, <2>3 DEF BeginStep
<1>9. CASE Park(d)
  <2>1. s' = s /\ pc' \in {"idle", "parked"}
    BY <1>9 DEF Park, Goto
  <2> QED BY <1>3, <2>1, RowAside
<1> QED BY <1>2, <1>4, <1>5, <1>6, <1>7, <1>8, <1>9 DEF Carry

LEMMA OtherRow ==
  ASSUME TypeOK, RowInv, row' = IF s.on /\ ~s'.on THEN 0 ELSE row,
         \/ Client \/ Stop \/ Stopped \/ Reopen \/ RunnerStep \/ ToolStep \/ Clock
         \/ Crash \/ RunnerFails \/ (\E open \in BOOLEAN : Rebuild(open)) \/ UNCHANGED vars
  PROVE  RowInv'
<1>0. IsState(s) /\ row' \in {0, row} /\ (s.on => s'.on \/ row' = 0)
  BY DEF TypeOK
<1> DEFINE calm == pc' \in {"backoff", "stream"} => pc \in {"backoff", "stream"}
<1>1. CASE CountAside(s, s') /\ calm
  BY <1>0, <1>1, RowAside DEF CountAside, RowInv
<1>2. CASE Client
  <2>1. CountAside(s, s')
    BY <1>0, <1>2, CountEvents
       DEF Client, Input, SetSelection, SetContext, CancelTurn, CountAside
  <2>2. calm
    BY <1>2 DEF Client, Input, SetSelection, SetContext, CancelTurn, Handled, AfterCommand,
                TurnLeft, Goto
  <2> QED BY <1>1, <2>1, <2>2
<1>3. CASE AutoWaitExpires \/ WaitExpires
  <2>1. CountAside(s, s')
    BY <1>0, <1>3 DEF AutoWaitExpires, WaitExpires, CountAside, IsState, FieldTypes
  <2> QED BY <1>1, <1>3, <2>1 DEF AutoWaitExpires, WaitExpires
<1>4. CASE (\E open \in BOOLEAN : Rebuild(open)) \/ AbortStep
  <2>1. CountAside(s, s')
    BY <1>0, <1>4, CountEvents DEF Rebuild, AbortStep
  <2>2. calm
    BY <1>4 DEF Rebuild, AbortStep, Goto
  <2> QED BY <1>1, <2>1, <2>2
<1>5. CASE (\E c \in Calls : TakeResult(c)) \/ AnswerToolCancel
  <2>1. CountAside(s, s')
    <3>1. PICK c, o : s' = ToolResult(s, c, o)
      BY <1>5 DEF TakeResult, AnswerToolCancel
    <3> QED BY <1>0, <3>1, CountEvents
  <2>2. calm
    BY <1>5 DEF TakeResult, AnswerToolCancel, Goto
  <2> QED BY <1>1, <2>1, <2>2
<1>6. CASE \E target \in 0..MaxCalls : RequestToolCancel(target)
  <2>1. CountAside(s, s')
    BY <1>0, <1>6, CountEvents DEF RequestToolCancel
  <2> QED BY <1>1, <1>6, <2>1 DEF RequestToolCancel
<1>7. CASE RetryStep
  <2>1. s' = StepStarted(s, plan.purpose, plan.include) /\ pc = "backoff"
    BY <1>7 DEF RetryStep
  <2>2. s'.failures = s.failures /\ s'.failure = "none" /\ s'.on = s.on
    BY <1>0, <2>1, CountSets
  <2> QED BY <1>0, <2>1, <2>2 DEF RowInv
<1>8. CASE Act
  BY <1>8, ActRow
<1>9. CASE UNCHANGED s
  <2>1. CountAside(s, s')
    BY <1>9 DEF CountAside
  <2>2. calm \/ Act \/ RetryStep \/ Client \/ AbortStep \/ AnswerToolCancel
          \/ (\E c \in Calls : TakeResult(c))
          \/ (\E target \in 0..MaxCalls : RequestToolCancel(target))
          \/ (\E open \in BOOLEAN : Rebuild(open)) \/ AutoWaitExpires \/ WaitExpires
    BY DEF vars, Stop, Stopped, Reopen, RunnerStep, Snapshot, Collected, ToolStep,
           ToolReturns, ToolSends, ToolLeaves, Clock, DeadlineWake, Crash, RunnerFails, Goto
  <2> QED BY <1>1, <1>2, <1>3, <1>4, <1>5, <1>6, <1>7, <1>8, <2>1, <2>2
<1> QED
  <2>1. \/ UNCHANGED s \/ Client \/ Act \/ RetryStep \/ AutoWaitExpires \/ WaitExpires
        \/ (\E open \in BOOLEAN : Rebuild(open)) \/ AbortStep \/ AnswerToolCancel
        \/ (\E target \in 0..MaxCalls : RequestToolCancel(target))
        \/ \E c \in Calls : TakeResult(c)
    BY DEF vars, Stop, Stopped, Reopen, RunnerStep, Snapshot, Collected, ToolStep,
           ToolReturns, ToolSends, ToolLeaves, Clock, DeadlineWake, Crash, RunnerFails
  <2> QED BY <2>1, <1>2, <1>3, <1>4, <1>5, <1>6, <1>7, <1>8, <1>9

LEMMA AnswerRow ==
  ASSUME TypeOK, TurnInv, RowInv, Answer \/ Document \/ NoDocument, row' = 0
  PROVE  RowInv'
<1>0. IsState(s) /\ pc' \notin {"backoff", "stream"}
  BY ProviderCloses DEF TypeOK, Provider, AtWork
<1>1. s'.failures = 0 /\ s'.failure = "none"
  <2>1. CASE Answer
    <3>1. PICK ks, usage : s' = StepCompleted(s, ks, usage)
      BY <2>1 DEF Answer, CompleteStep
    <3> QED BY <1>0, <3>1, CountSets
  <2>2. CASE Document
    <3>1. PICK ks, usage, kept :
            /\ s' = ContextApplied(StepCompleted(s, ks, usage), Unsettled(s), kept)
            /\ IsState(StepCompleted(s, ks, usage))
      BY <2>2, DocumentIs
    <3> QED BY <3>1, CountSets
  <2>3. CASE NoDocument
    <3>1. PICK ks \in Seq(CallKinds), usage \in BOOLEAN : \E o :
            /\ IsState(StepCompleted(s, ks, usage))
            /\ \/ Commit(ContextApplied(ContextFailed(StepCompleted(s, ks, usage)),
                                        Unsettled(s), Nothing))
               \/ Commit(ToolResults(StepCompleted(s, ks, usage), o))
      BY <2>3, NoDocumentDone
    <3> DEFINE done == StepCompleted(s, ks, usage)
    <3>2. PICK o : /\ IsState(done)
                   /\ \/ s' = ContextApplied(ContextFailed(done), Unsettled(s), Nothing)
                      \/ s' = ToolResults(done, o)
      BY <3>1 DEF Commit
    <3>3. done.failures = 0 /\ done.failure = "none" /\ IsState(ContextFailed(done))
      BY <1>0, <3>2, CountSets, NotedType
    <3> HIDE DEF done
    <3>4. CASE s' = ContextApplied(ContextFailed(done), Unsettled(s), Nothing)
      <4> DEFINE told == ContextFailed(done)
      <4>1. IsState(told) /\ s' = ContextApplied(told, Unsettled(s), Nothing)
        BY <3>3, <3>4
      <4> HIDE DEF told
      <4> QED BY <4>1, CountSets
    <3>5. CASE s' = ToolResults(done, o)
      BY <3>2, <3>3, <3>5, CountSets
    <3> QED BY <3>2, <3>4, <3>5
  <2> QED BY <2>1, <2>2, <2>3
<1> QED BY <1>0, <1>1, RowReset

LEMMA RowStep ==
  ASSUME "overflow" \notin Errors, TypeOK, TurnInv, RowInv, [HNext]_hvars
  PROVE  RowInv'
<1>1. CASE UNCHANGED hvars
  BY <1>1 DEF hvars, vars, history, RowInv
<1>2. CASE HNext /\ (Answer \/ Document \/ NoDocument)
  BY <1>2, AnswerRow DEF HNext
<1>3. CASE HNext /\ Failure /\ ~(Answer \/ Document \/ NoDocument)
  <2>1. row' \in {0, row, row + 1}
    BY <1>3 DEF HNext
  <2>2. row' <= row + 1 /\ row' \in Nat
    BY <2>1 DEF RowInv
  <2>3. IsContext(s.step) /\ s'.failure = "document" => row' = 0
    BY <1>3 DEF HNext
  <2> QED BY <1>3, <2>2, <2>3, FailureRow
<1>4. CASE HNext /\ ~(Answer \/ Document \/ NoDocument \/ Failure)
  <2>1. row' = IF s.on /\ ~s'.on THEN 0 ELSE row
    BY <1>4 DEF HNext
  <2>2. \/ Client \/ Stop \/ Stopped \/ Reopen \/ RunnerStep \/ ToolStep \/ Clock
        \/ Crash \/ RunnerFails \/ \E open \in BOOLEAN : Rebuild(open)
    BY <1>4 DEF HNext, Next, Provider
  <2> QED BY <2>1, <2>2, OtherRow
<1> QED BY <1>1, <1>2, <1>3, <1>4

LEMMA RowInit == HInit => RowInv
<1> SUFFICES ASSUME HInit PROVE RowInv
  OBVIOUS
<1>1. PICK g \in Strategies : s = Created(g)
  BY DEF HInit, Init
<1>2. s.failures = 0 /\ s.failure = "none" /\ ~s.on /\ row = 0 /\ pc = "drain"
  BY <1>1 DEF HInit, Init, Created
<1>3. Limit \in Nat
  BY LimitAssumption DEF Limit, AtLeastOne
<1> QED BY <1>2, <1>3 DEF RowInv

\* A turn makes at most provider_retry_limit failing requests in a row, through
\* cancellations, backoffs, crashes and rebuilds, unless the provider rejects a
\* request as too large: the context exit that follows starts a new count.
THEOREM RetriesStayBounded == HSpec => []("overflow" \notin Errors => RetriesBounded)
<1> DEFINE Inv == TypeOK /\ TurnInv /\ ("overflow" \notin Errors => RowInv)
<1>1. HInit => Inv
  BY RowInit, TypeInit, TurnInvInit DEF HInit
<1>2. Inv /\ [HNext]_hvars => Inv'
  <2>1. [HNext]_hvars => [Next]_vars
    BY DEF HNext, hvars
  <2> QED BY <2>1, RowStep, TypeStep, TurnInvStep
<1>3. Inv => ("overflow" \notin Errors => RetriesBounded)
  <2>1. ASSUME TypeOK, RowInv PROVE RetriesBounded
    <3>1. s.failures \in Nat /\ Limit \in Nat
      BY <2>1, Counted DEF TypeOK
    <3> QED BY <2>1, <3>1 DEF RowInv, RetriesBounded, Limit
  <2> QED BY <2>1
<1> QED BY <1>1, <1>2, <1>3, PTL DEF HSpec

-----------------------------------------------------------------------------
\* What reaches the model.

\* The calls whose result the model is owed.
Back(st) == {c \in Calls : /\ st.result[c] # "none"
                           /\ st.kind[c] \notin EndKinds \cup {"refused"}}

\* An event that leaves the generation alone, but for its anchor.
GenAside(st, next) ==
  next.genInputs = st.genInputs /\ next.genResults = st.genResults

Unanchored(st, next) == GenAside(st, next) /\ (next.anchor => st.anchor)

LEMMA GenEvents ==
  ASSUME NEW st, IsState(st), NEW g, NEW c, NEW same, NEW a, NEW b
  PROVE  /\ Unanchored(st, InputAppended(st)) /\ Unanchored(st, SelectionChanged(st, same))
         /\ Unanchored(st, ContextConfigured(st, g)) /\ Unanchored(st, ToolCancelRequested(st, c))
         /\ Unanchored(st, ToolResult(st, c, a)) /\ Unanchored(st, ToolResults(st, a))
         /\ Unanchored(st, DeadlineReached(st)) /\ Unanchored(st, ContextFailed(st))
         /\ Unanchored(st, RuntimeFault(st)) /\ Unanchored(st, TurnCancelRequested(st))
         /\ Unanchored(st, AutoWaitEnded(st, a)) /\ Unanchored(st, StepInterrupted(st, a))
         /\ Unanchored(st, TurnStarted(st)) /\ Unanchored(st, TurnFinished(st, a))
         /\ GenAside(st, StepCompleted(st, a, b)) /\ GenAside(st, StepFailed(st, a, b))
<1> USE DEF IsState, FieldTypes, GenAside, Unanchored
<1>1. Unanchored(st, InputAppended(st)) /\ Unanchored(st, SelectionChanged(st, same))
  BY DEF InputAppended, SelectionChanged
<1>2. Unanchored(st, ContextConfigured(st, g)) /\ Unanchored(st, ToolCancelRequested(st, c))
  BY DEF ContextConfigured, ToolCancelRequested
<1>3. Unanchored(st, ToolResult(st, c, a)) /\ Unanchored(st, ToolResults(st, a))
  BY DEF ToolResult, ToolResults
<1>4. Unanchored(st, DeadlineReached(st)) /\ Unanchored(st, ContextFailed(st))
  BY DEF DeadlineReached, ContextFailed
<1>5. Unanchored(st, RuntimeFault(st)) /\ Unanchored(st, TurnCancelRequested(st))
  BY DEF RuntimeFault, TurnCancelRequested
<1>6. Unanchored(st, AutoWaitEnded(st, a)) /\ Unanchored(st, StepInterrupted(st, a))
  BY DEF AutoWaitEnded, NoAutoWait, StepInterrupted, Closed, NoStep
<1>7. Unanchored(st, TurnStarted(st)) /\ Unanchored(st, TurnFinished(st, a))
  BY DEF TurnStarted, TurnFinished, TurnOver, NoAutoWait, NoStep, NoContext
<1>8. GenAside(st, StepCompleted(st, a, b)) /\ GenAside(st, StepFailed(st, a, b))
  BY DEF StepCompleted, StepFailed, Closed, NoStep
<1> QED BY <1>1, <1>2, <1>3, <1>4, <1>5, <1>6, <1>7, <1>8

LEMMA GenStarted ==
  ASSUME NEW st, IsState(st), NEW p, NEW b, NEW next, next = StepStarted(st, p, b)
  PROVE  /\ p = "conversation" => next.genInputs = st.genInputs \cup st.inputs
         /\ p # "conversation" => next.genInputs = st.genInputs
<1>1. next.genInputs = st.genInputs \cup (IF p = "conversation" THEN st.inputs ELSE {})
  BY DEF StepStarted, IsState, FieldTypes
<1> QED BY <1>1

LEMMA GenApplied ==
  ASSUME NEW st, IsState(st), NEW carried, NEW kept,
         NEW next, next = ContextApplied(st, carried, kept)
  PROVE  /\ next.genInputs = kept.inputs \ st.inputs /\ next.genResults = kept.results
         /\ ~next.anchor /\ next.failures = 0 /\ next.ctx = "none" /\ next.step = "none"
  BY DEF ContextApplied, NoAutoWait, NoStep, NoContext, IsState, FieldTypes

\* The generation is new: the next request is one of the conversation, and has
\* all of it.
Vacant ==
  s.ctx = "none" /\ s.failures = 0 /\ ~s.anchor /\ s.step = "none" /\ pc # "backoff"

\* A result in the generation has been sent, or is still on the books, or will
\* be part of the first request of a new generation; the answer to a refused
\* document is told within its context operation.
ToldInv ==
  /\ ResultsTold
  /\ \A c \in Returned : c \in s.genResults => c \in sent \cup s.pending \/ Vacant
  /\ \A c \in s.ctl : s.kind[c] = "refused"

LEMMA ToldAside ==
  ASSUME ToldInv, sent \subseteq sent',
         Back(s') \subseteq Back(s) \cup s'.pending,
         Back(s') \cap s.pending \subseteq s'.pending,
         s'.genResults = s.genResults,
         \A c \in s'.ctl : s'.kind[c] = "refused",
         Vacant => Vacant'
  PROVE  ToldInv'
  BY DEF ToldInv, ResultsTold, Returned, Back

\* Results stand, and so do the kinds of the calls they belong to.
Faithful(st, next) ==
  \A c \in Calls : st.result[c] # "none" =>
    next.result[c] = st.result[c] /\ next.kind[c] = st.kind[c]

LEMMA ToldRequest ==
  ASSUME TypeOK, Paired(s), ToldInv, NEW p, NEW b, Entitled(s, p, b), s.step = "none",
         s' = StepStarted(s, p, b), Vacant => p = "conversation",
         sent \subseteq sent', p = "conversation" => s'.genResults \subseteq sent'
  PROVE  ToldInv'
<1>0. IsState(s) /\ s.ctx # "conversation"
  BY DEF TypeOK, Paired, Sense
<1> DEFINE told == Told(s, p, b)
<1>1. /\ s'.pending = s.pending \ (IF Opens(s, p) THEN {} ELSE told)
      /\ s'.kind = s.kind /\ s'.result = s.result
      /\ s'.ctl = (IF Opens(s, p) THEN {} ELSE s.ctl)
      /\ s'.genResults = s.genResults \cup told
  BY <1>0, StepStartedBooks
<1>2. told \subseteq s.pending
  BY UnsettledPending DEF Told
<1>3. s.ctx # "none" => p = s.ctx /\ told \subseteq s.ctl
  BY <1>0 DEF Entitled, Told, Deliveries
<1> HIDE DEF told
<1>4. Returned' = Returned
  BY <1>1 DEF Returned
<1>5. ResultsTold'
  BY <1>1, <1>4 DEF ToldInv, ResultsTold
<1>6. \A c \in s'.ctl : s'.kind[c] = "refused"
  BY <1>1 DEF ToldInv
<1>7. ASSUME NEW c \in Returned, c \in s'.genResults
      PROVE  c \in sent' \cup s'.pending
  <2>1. CASE p = "conversation"
    BY <1>7, <2>1
  <2>2. CASE p # "conversation" /\ s.ctx = "none"
    <3>1. Opens(s, p) /\ s'.pending = s.pending
      BY <1>1, <2>2 DEF Opens, Entitled, IsContext, Purposes
    <3> QED BY <1>1, <1>2, <1>7, <2>2, <3>1 DEF ToldInv
  <2>3. CASE p # "conversation" /\ s.ctx # "none"
    <3>1. c \notin told /\ s'.pending = s.pending \ told
      BY <1>1, <1>3, <2>3 DEF ToldInv, Returned, Opens
    <3> QED BY <1>1, <1>7, <2>3, <3>1 DEF ToldInv, Vacant
  <2> QED BY <2>1, <2>2, <2>3
<1> QED BY <1>4, <1>5, <1>6, <1>7 DEF ToldInv

LEMMA ToldExit ==
  ASSUME ToldInv, ~Vacant, sent \subseteq sent', NEW done, IsState(done),
         s.pending \subseteq done.pending, done.result = s.result, Faithful(s, done),
         NEW kept, s' = ContextApplied(done, Unsettled(s), kept), pc' # "backoff"
  PROVE  ToldInv'
<1>1. /\ s'.pending = Left(done, Unsettled(s), kept) /\ s'.kind = done.kind
      /\ s'.result = done.result /\ s'.ctl = {} /\ s'.genResults = kept.results
  BY ContextAppliedBooks
<1>2. Vacant'
  BY GenApplied DEF Vacant
<1>3. Returned' = Returned
  BY <1>1 DEF Returned, Faithful
<1>4. ASSUME NEW c \in Returned
      PROVE  c \in s'.pending \cup s'.genResults \cup sent'
  <2>1. c \in s.pending \cup sent
    BY DEF ToldInv, ResultsTold
  <2>2. CASE c \in s.pending
    BY <1>1, <2>2 DEF Left, Returned
  <2> QED BY <2>1, <2>2
<1> QED BY <1>1, <1>2, <1>3, <1>4 DEF ToldInv, ResultsTold

LEMMA ToldQuiet ==
  ASSUME ToldInv, sent \subseteq sent', SameBooks(s, s'), Unanchored(s, s'),
         \A c \in Calls : s'.result[c] = s.result[c] \/ c \in s.pending,
         s'.failures = s.failures, s'.ctx = s.ctx, s'.step \in {s.step, "none"},
         pc' # "backoff" \/ pc' = pc
  PROVE  ToldInv'
<1>1. /\ Back(s') \subseteq Back(s) \cup s'.pending
      /\ Back(s') \cap s.pending \subseteq s'.pending
  BY DEF Back, SameBooks
<1>2. \A c \in s'.ctl : s'.kind[c] = "refused"
  BY DEF ToldInv, SameBooks
<1>3. Vacant => Vacant'
  BY DEF Vacant, Unanchored
<1> QED BY <1>1, <1>2, <1>3, ToldAside DEF Unanchored, GenAside

LEMMA ToldSame ==
  ASSUME ToldInv, sent \subseteq sent', s' = s, pc' # "backoff" \/ pc' = pc \/ s.failures > 0
  PROVE  ToldInv'
<1>1. Vacant => Vacant'
  BY DEF Vacant
<1>2. /\ Back(s') \subseteq Back(s) \cup s'.pending
      /\ Back(s') \cap s.pending \subseteq s'.pending
  OBVIOUS
<1>3. (\A c \in s'.ctl : s'.kind[c] = "refused") /\ s'.genResults = s.genResults
  BY DEF ToldInv
<1> QED BY <1>1, <1>2, <1>3, ToldAside

\* Of a generation that is new, the next request is one of the conversation.
LEMMA DecideFresh ==
  ASSUME NEW st, IsState(st), NEW live, NEW over, NEW d, d = Decide(st, live, over),
         st.ctx = "none", ~(st.failures > 0)
  PROVE  /\ d.act # "applyContext"
         /\ d.act = "startStep" /\ ~st.anchor => d.purpose = "conversation"
<1>1. \/ d \in {Do("interruptStep"), Do("interruptTools"), Do("park"), Do("reachDeadline"),
                Do("startTurn"), FinishTurn("cancelled"), AutoWaitDecision(st),
                ControlDecision(st), StartStep("conversation", Fresh(st) # {})}
      \/ d = StartStep(st.strategy, TRUE) /\ st.anchor
  BY DEF Decide
<1>2. AutoWaitDecision(st).act \notin {"startStep", "applyContext"}
  BY DEF AutoWaitDecision, EndAutoWait, Do
<1>3. ControlDecision(st) \in {FinishTurn("finished"), StartStep("conversation", TRUE)}
  BY DEF ControlDecision
<1> QED BY <1>1, <1>2, <1>3 DEF Do, FinishTurn, StartStep

LEMMA TurnFields ==
  ASSUME NEW st, IsState(st), NEW o
  PROVE  /\ SameSheet(st, TurnStarted(st)) /\ TurnStarted(st).kind = st.kind
         /\ TurnStarted(st).ctl = {} /\ TurnStarted(st).ctx = "none"
         /\ TurnStarted(st).step = st.step
  BY DEF TurnStarted, NoContext, IsState, FieldTypes, SameSheet

LEMMA ToldAct ==
  ASSUME TypeOK, PairInv, ToldInv, Act, sent \subseteq sent',
         s.step = "none" /\ s'.step = "conversation" => s'.genResults \subseteq sent'
  PROVE  ToldInv'
<1>1. PICK over \in {FALSE, s.anchor} : Carry(Decide(s, snap, over))
  BY DEF Act
<1> DEFINE d == Decide(s, snap, over)
<1>2. Carry(d) /\ IsState(s) /\ Paired(s) /\ pc = "decide"
  BY <1>1 DEF TypeOK, PairInv, Act
<1>3. /\ d.act = "startStep" => /\ Entitled(s, d.purpose, d.include) /\ s.step = "none"
                                /\ (Vacant => d.purpose = "conversation")
      /\ d.act = "applyContext" => ~Vacant
  BY <1>2, DecideEntitles, DecideFresh DEF Vacant
<1> HIDE DEF d
<1>4. CASE InterruptStep(d) \/ LeaveAutoWait(d) \/ ReachDeadline(d)
  <2>1. /\ \/ s' = StepInterrupted(s, "recovery") \/ s' = AutoWaitEnded(s, d.reason)
           \/ s' = DeadlineReached(s)
        /\ pc' = "drain"
    BY <1>4 DEF InterruptStep, LeaveAutoWait, ReachDeadline, Commit, Goto
  <2>2. /\ SameBooks(s, s') /\ Unanchored(s, s') /\ s'.result = s.result
        /\ s'.failures = s.failures
    BY <1>2, <2>1, BookAside, GenEvents, CountEvents DEF CountAside
  <2>3. s'.ctx = s.ctx /\ s'.step \in {s.step, "none"}
    <3>1. CASE s' = DeadlineReached(s)
      BY <1>2, <3>1, AsideEvents DEF Aside, SameWork
    <3>2. CASE s' = StepInterrupted(s, "recovery")
      BY <1>2, <3>2 DEF StepInterrupted, Closed, NoStep, IsState, FieldTypes
    <3>3. CASE s' = AutoWaitEnded(s, d.reason)
      BY <1>2, <3>3, ClosingEvents
    <3> QED BY <2>1, <3>1, <3>2, <3>3
  <2> QED BY <2>1, <2>2, <2>3, ToldQuiet
<1>5. CASE InterruptTools(d)
  <2> DEFINE o == [c \in Lost(s, snap) |->
                     IF s.kind[c] \in Malformed THEN "failed" ELSE "interrupted"]
  <2>1. s' = ToolResults(s, o) /\ pc' = "drain" /\ DOMAIN o = Lost(s, snap)
    BY <1>5 DEF InterruptTools, Commit, Goto
  <2> HIDE DEF o
  <2>2. /\ SameBooks(s, s') /\ Unanchored(s, s') /\ s'.failures = s.failures
        /\ s'.ctx = s.ctx /\ s'.step = s.step
    BY <1>2, <2>1, BookResults, GenEvents, CountEvents, AsideEvents
       DEF CountAside, Aside, SameWork
  <2>3. \A c \in Calls : s'.result[c] = s.result[c] \/ c \in s.pending
    BY <1>2, <2>1, BookResults DEF Lost, Unsettled
  <2> QED BY <2>1, <2>2, <2>3, ToldQuiet
<1>6. CASE StartTurn(d)
  <2>1. s' = TurnStarted(s) /\ pc' = "drain"
    BY <1>6 DEF StartTurn, Commit, Goto
  <2>2. /\ SameSheet(s, s') /\ s'.kind = s.kind /\ s'.ctl = {} /\ Unanchored(s, s')
        /\ s'.failures = 0 /\ s'.ctx = "none" /\ s'.step = s.step
    BY <1>2, <2>1, TurnFields, GenEvents, CountSets
  <2>3. Back(s') = Back(s) /\ s'.pending = s.pending /\ (Vacant => Vacant')
    BY <2>1, <2>2 DEF Back, SameSheet, Vacant, Unanchored
  <2> QED BY <2>2, <2>3, ToldAside DEF Unanchored, GenAside
<1>7. CASE EndTurn(d)
  <2>1. s' = TurnFinished(s, d.outcome) /\ pc' = "drain"
    BY <1>7 DEF EndTurn, Goto
  <2>2. /\ s'.pending = Survives(s) /\ s'.kind = s.kind /\ s'.result = s.result
        /\ s'.ctl = {} /\ s'.ctx = "none" /\ s'.step = "none" /\ s'.failures = 0
        /\ Unanchored(s, s')
    BY <1>2, <2>1, TurnFinishedBooks, CountSets, GenEvents
  <2>3. Back(s') = Back(s) /\ Back(s) \cap s.pending \subseteq s'.pending
    BY <2>2 DEF Back, Survives
  <2>4. Vacant => Vacant'
    BY <2>1, <2>2 DEF Vacant, Unanchored
  <2> QED BY <2>2, <2>3, <2>4, ToldAside DEF Unanchored, GenAside
<1>8. CASE GiveUpContext(d)
  <2> DEFINE done == ContextFailed(s)
  <2>1. /\ s' = ContextApplied(done, Unsettled(s), Nothing) /\ pc' = "drain" /\ ~Vacant
    BY <1>3, <1>8 DEF GiveUpContext, Commit, Goto
  <2>2. /\ IsState(done) /\ SameBooks(s, done) /\ done.result = s.result
    BY <1>2, NotedType, BookAside
  <2> HIDE DEF done
  <2>3. Faithful(s, done) /\ s.pending \subseteq done.pending
    BY <2>2 DEF Faithful, SameBooks
  <2> QED BY <2>1, <2>2, <2>3, ToldExit
<1>9. CASE BeginStep(d)
  <2>1. /\ Entitled(s, d.purpose, d.include) /\ s.step = "none"
        /\ (Vacant => d.purpose = "conversation")
    BY <1>3, <1>9 DEF BeginStep
  <2>2. CASE s.failures > 0 /\ s' = s
    BY <2>2, ToldSame
  <2>3. CASE s' = StepStarted(s, d.purpose, d.include)
    <3>1. s'.step = d.purpose
      BY <1>2, <2>3, StepOpens
    <3> QED BY <1>2, <2>1, <2>3, <3>1, ToldRequest
  <2> QED BY <1>9, <2>2, <2>3 DEF BeginStep
<1>10. CASE Park(d)
  <2>1. s' = s /\ pc' # "backoff"
    BY <1>10 DEF Park, Goto
  <2> QED BY <2>1, ToldSame
<1> QED BY <1>2, <1>4, <1>5, <1>6, <1>7, <1>8, <1>9, <1>10 DEF Carry

LEMMA CompletedFaithful ==
  ASSUME NEW st, IsState(st), Paired(st), NEW ks, Len(ks) \in Nat, NEW usage,
         NEW done, done = StepCompleted(st, ks, usage)
  PROVE  /\ Faithful(st, done) /\ done.result = st.result
         /\ st.pending \subseteq done.pending
         /\ \A c \in st.ctl : done.kind[c] = st.kind[c]
<1> DEFINE new == NewCalls(st, Len(ks))
<1>1. /\ done.pending = st.pending \cup new /\ done.result = st.result
      /\ \A c \in Calls \ new : done.kind[c] = st.kind[c]
  BY StepCompletedBooks
<1>2. \A c \in new : ~(c <= st.issued)
  BY NewCallsFresh, Ledger, BoundAssumption
<1>3. st.ctl \subseteq Calls /\ \A c \in st.ctl : c <= st.issued
  BY Ledger, BoundAssumption DEF Paired, Known
<1> HIDE DEF new
<1> QED BY <1>1, <1>2, <1>3 DEF Faithful, Paired, Known

LEMMA ToldProvider ==
  ASSUME TypeOK, TurnInv, PairInv, ToldInv, Provider, sent \subseteq sent'
  PROVE  ToldInv'
<1>0. /\ IsState(s) /\ Paired(s) /\ s.step # "none" /\ pc' # "backoff" /\ ~Vacant
      /\ s.issued \in Nat
  <2>1. pc = "stream"
    BY DEF Provider, Answer, CompleteStep, Document, Summarised, HandedOff, NoDocument,
           BadDocument, Failure, FailStep
  <2>2. s.issued \in Nat
    BY Ledger, BoundAssumption DEF TypeOK
  <2> QED BY <2>1, <2>2, ProviderCloses
          DEF TypeOK, TurnInv, PairInv, NoInvariantFailure, AtWork, Vacant
<1>1. CASE Answer
  <2>1. PICK ks \in KindSeqs, usage \in Usages :
          s.issued + Len(ks) <= MaxCalls /\ CompleteStep(ks, usage)
    BY <1>1 DEF Answer
  <2> DEFINE new == NewCalls(s, Len(ks))
  <2>2. Len(ks) \in Nat
    <3>1. PICK n \in 0..MaxBatch : ks \in [1..n -> Kinds]
      BY DEF KindSeqs
    <3> QED BY <3>1, RunnerAssumption
  <2>3. s' = StepCompleted(s, ks, usage) /\ s.step = "conversation"
    BY <2>1 DEF CompleteStep
  <2>4. /\ s'.pending = s.pending \cup new /\ s'.result = s.result
        /\ s'.genResults = s.genResults /\ s'.ctl = s.ctl
        /\ \A c \in Calls \ new : s'.kind[c] = s.kind[c]
    BY <1>0, <2>3, StepCompletedBooks
  <2>5. \A c \in new : s.result[c] = "none"
    BY <1>0, <2>1, <2>2, AnswerDraws
  <2>6. \A c \in s.ctl : s'.kind[c] = s.kind[c]
    BY <1>0, <2>2, <2>3, CompletedFaithful
  <2> HIDE DEF new
  <2>7. Back(s') = Back(s)
    BY <2>4, <2>5 DEF Back
  <2>8. \A c \in s'.ctl : s'.kind[c] = "refused"
    BY <2>4, <2>6 DEF ToldInv
  <2> QED BY <1>0, <2>4, <2>7, <2>8, ToldAside
<1>2. CASE Document
  <2>1. PICK ks, usage, kept :
           /\ s' = ContextApplied(StepCompleted(s, ks, usage), Unsettled(s), kept)
           /\ IsState(StepCompleted(s, ks, usage)) /\ Len(ks) \in Nat
    BY <1>2, DocumentIs
  <2> DEFINE done == StepCompleted(s, ks, usage)
  <2>2. /\ IsState(done) /\ s' = ContextApplied(done, Unsettled(s), kept)
        /\ Faithful(s, done) /\ done.result = s.result /\ s.pending \subseteq done.pending
    BY <1>0, <2>1, CompletedFaithful
  <2> HIDE DEF done
  <2> QED BY <1>0, <2>2, ToldExit
<1>3. CASE NoDocument
  <2>1. PICK n \in 0..MaxBatch, usage \in Usages :
          s.issued + n <= MaxCalls /\ BadDocument(n, usage)
    BY <1>3 DEF NoDocument
  <2> DEFINE ks == [i \in 1..n |-> "refused"]
             done == StepCompleted(s, ks, usage)
             o == [c \in NewCalls(s, n) |-> "failed"]
             new == NewCalls(s, n)
  <2>2. /\ ks \in Seq(CallKinds) /\ Len(ks) = n /\ n \in Nat /\ usage \in BOOLEAN
        /\ \A i \in 1..n : ks[i] = "refused"
    BY RunnerAssumption DEF CallKinds
  <2>3. /\ \/ s' = ContextApplied(ContextFailed(done), Unsettled(s), Nothing)
           \/ s' = ToolResults(done, o)
        /\ s.step = "handoff" \/ (s.step = "compaction" /\ n = 0)
    BY <2>1 DEF BadDocument, Commit, IsContext
  <2>4. DOMAIN o = new
    OBVIOUS
  <2> HIDE DEF ks, o
  <2>5. /\ IsState(done) /\ Faithful(s, done) /\ done.result = s.result
        /\ s.pending \subseteq done.pending /\ \A c \in s.ctl : done.kind[c] = s.kind[c]
    BY <1>0, <2>1, <2>2, StepCompletedType, CompletedFaithful
  <2>6. /\ done.pending = s.pending \cup new /\ done.genResults = s.genResults
        /\ s.step = "handoff" => done.ctl = new
        /\ s.step # "handoff" => done.ctl = s.ctl
        /\ \A c \in Calls \ new : done.kind[c] = s.kind[c]
        /\ \A c \in Calls \cap new : done.kind[c] = ks[c - s.issued]
    BY <1>0, <2>2, StepCompletedBooks
  <2>7. /\ new \subseteq Calls /\ \A c \in new : s.result[c] = "none"
        /\ \A c \in new : c - s.issued \in 1..n
    <3>1. \A c \in new : c - s.issued \in 1..n
      BY <1>0, <2>2 DEF NewCalls
    <3> QED BY <1>0, <2>1, <2>2, <3>1, AnswerDraws
  <2> HIDE DEF done, new
  <2>8. CASE s' = ContextApplied(ContextFailed(done), Unsettled(s), Nothing)
    <3> DEFINE told == ContextFailed(done)
    <3>1. /\ IsState(told) /\ SameBooks(done, told) /\ told.result = done.result
          /\ s' = ContextApplied(told, Unsettled(s), Nothing)
      BY <2>5, <2>8, NotedType, BookAside
    <3> HIDE DEF told
    <3>2. /\ s.pending \subseteq told.pending /\ told.result = s.result /\ Faithful(s, told)
      BY <2>5, <3>1 DEF SameBooks, Faithful
    <3> QED BY <1>0, <3>1, <3>2, ToldExit
  <2>9. CASE s' = ToolResults(done, o)
    <3>1. SameBooks(done, s') /\ s'.genResults = done.genResults /\ \A c \in Calls :
            s'.result[c] = IF c \in DOMAIN o /\ done.result[c] = "none"
                           THEN o[c] ELSE done.result[c]
      <4>1. s'.genResults = done.genResults
        BY <2>5, <2>9, GenEvents DEF Unanchored, GenAside
      <4> QED BY <2>5, <2>9, <4>1, BookResults
    <3>2. \A c \in new : s'.kind[c] = "refused"
      BY <2>2, <2>6, <2>7, <3>1 DEF SameBooks
    <3>3. Back(s') \subseteq Back(s)
      BY <2>4, <2>5, <2>6, <3>1, <3>2 DEF Back, SameBooks
    <3>4. \A c \in s'.ctl : s'.kind[c] = "refused"
      BY <2>3, <2>5, <2>6, <3>1, <3>2 DEF SameBooks, ToldInv
    <3>5. s'.genResults = s.genResults /\ s.pending \subseteq s'.pending
      BY <2>5, <2>6, <3>1 DEF SameBooks
    <3> QED BY <1>0, <3>3, <3>4, <3>5, ToldAside
  <2> QED BY <2>3, <2>8, <2>9
<1>4. CASE Failure
  <2>1. PICK err, usage : s' = StepFailed(s, err, usage)
    BY <1>4 DEF Failure, FailStep
  <2>2. SameBooks(s, s') /\ s'.result = s.result /\ s'.genResults = s.genResults
    BY <1>0, <2>1, BookAside, GenEvents DEF GenAside
  <2>3. Back(s') = Back(s) /\ s'.pending = s.pending /\ \A c \in s'.ctl : s'.kind[c] = "refused"
    BY <2>2 DEF Back, SameBooks, ToldInv
  <2> QED BY <1>0, <2>2, <2>3, ToldAside
<1> QED BY <1>1, <1>2, <1>3, <1>4 DEF Provider

LEMMA ToldOther ==
  ASSUME TypeOK, PairInv, TaskInv, ToldInv, sent \subseteq sent',
         s.step = "none" /\ s'.step = "conversation" => s'.genResults \subseteq sent',
         \/ Client \/ Stop \/ Stopped \/ Reopen \/ RunnerStep \/ ToolStep \/ Clock
         \/ Crash \/ RunnerFails \/ (\E open \in BOOLEAN : Rebuild(open)) \/ UNCHANGED vars
  PROVE  ToldInv'
<1>0. IsState(s) /\ Paired(s)
  BY DEF TypeOK, PairInv
<1> DEFINE calm == pc' # "backoff" \/ pc' = pc
<1>1. CASE Client
  <2>1. \/ s' = InputAppended(s) \/ (\E same \in BOOLEAN : s' = SelectionChanged(s, same))
        \/ (\E g \in Strategies : s' = ContextConfigured(s, g))
        \/ s' = TurnCancelRequested(s) \/ s' = s
    BY <1>1 DEF Client, Input, SetSelection, SetContext, CancelTurn
  <2>2. calm
    BY <1>1 DEF Client, Input, SetSelection, SetContext, CancelTurn, Handled, AfterCommand,
                TurnLeft, Goto
  <2>3. CASE s' = s
    BY <2>2, <2>3, ToldSame
  <2>4. CASE s' = InputAppended(s)
    <3>1. SameBooks(s, s') /\ s'.result = s.result
      BY <1>0, <2>4, BookAside
    <3>2. Unanchored(s, s') /\ s'.failures = s.failures /\ s'.ctx = s.ctx /\ s'.step = s.step
      BY <1>0, <2>4, GenEvents, CountEvents, AsideEvents DEF CountAside, Aside, SameWork
    <3> QED BY <2>2, <3>1, <3>2, ToldQuiet
  <2>5. CASE \E same \in BOOLEAN : s' = SelectionChanged(s, same)
    <3>1. SameBooks(s, s') /\ s'.result = s.result
      BY <1>0, <2>5, BookAside
    <3>2. Unanchored(s, s') /\ s'.failures = s.failures /\ s'.ctx = s.ctx /\ s'.step = s.step
      BY <1>0, <2>5, GenEvents, CountEvents, AsideEvents DEF CountAside, Aside, SameWork
    <3> QED BY <2>2, <3>1, <3>2, ToldQuiet
  <2>6. CASE \E g \in Strategies : s' = ContextConfigured(s, g)
    <3>1. SameBooks(s, s') /\ s'.result = s.result
      BY <1>0, <2>6, BookAside
    <3>2. Unanchored(s, s') /\ s'.failures = s.failures /\ s'.ctx = s.ctx /\ s'.step = s.step
      BY <1>0, <2>6, GenEvents, CountEvents, AsideEvents DEF CountAside, Aside, SameWork
    <3> QED BY <2>2, <3>1, <3>2, ToldQuiet
  <2>7. CASE s' = TurnCancelRequested(s)
    <3>1. SameBooks(s, s') /\ s'.result = s.result
      BY <1>0, <2>7, BookAside
    <3>2. Unanchored(s, s') /\ s'.failures = s.failures /\ s'.ctx = s.ctx /\ s'.step = s.step
      BY <1>0, <2>7, GenEvents, CountEvents, CancelAsked DEF CountAside, SameWork
    <3> QED BY <2>2, <3>1, <3>2, ToldQuiet
  <2> QED BY <2>1, <2>3, <2>4, <2>5, <2>6, <2>7
<1>2. CASE AutoWaitExpires \/ WaitExpires
  <2>1. /\ SameBooks(s, s') /\ Unanchored(s, s') /\ s'.result = s.result
        /\ s'.failures = s.failures /\ s'.ctx = s.ctx /\ s'.step = s.step
    BY <1>0, <1>2 DEF AutoWaitExpires, WaitExpires, SameBooks, Unanchored, GenAside,
                      IsState, FieldTypes
  <2> QED BY <1>2, <2>1, ToldQuiet DEF AutoWaitExpires, WaitExpires
<1>3. CASE \E open \in BOOLEAN : Rebuild(open)
  <2>1. s' = RuntimeFault(s) /\ pc' # "backoff"
    BY <1>3 DEF Rebuild
  <2>2. SameBooks(s, s') /\ s'.result = s.result
    BY <1>0, <2>1, BookAside
  <2>3. Unanchored(s, s') /\ s'.failures = s.failures /\ s'.ctx = s.ctx /\ s'.step = s.step
    BY <1>0, <2>1, GenEvents, CountEvents, AsideEvents DEF CountAside, Aside, SameWork
  <2> QED BY <2>1, <2>2, <2>3, ToldQuiet
<1>4. CASE AbortStep
  <2>1. s' = StepInterrupted(s, "cancelled") /\ pc' # "backoff"
    BY <1>4 DEF AbortStep, Goto
  <2>2. SameBooks(s, s') /\ s'.result = s.result
    BY <1>0, <2>1, BookAside
  <2>3. /\ Unanchored(s, s') /\ s'.failures = s.failures
        /\ s'.ctx = s.ctx /\ s'.step = "none"
    BY <1>0, <2>1, GenEvents, CountEvents, ClosingEvents DEF CountAside
  <2> QED BY <2>1, <2>2, <2>3, ToldQuiet
<1>5. CASE (\E c \in Calls : TakeResult(c)) \/ AnswerToolCancel
  <2>1. PICK c, o : s' = ToolResult(s, c, o) /\ calm
    BY <1>5 DEF TakeResult, AnswerToolCancel, Goto
  <2>2. /\ SameBooks(s, s')
        /\ \A d \in Calls : s'.result[d] = IF d = c /\ c \in Unsettled(s) THEN o ELSE s.result[d]
    BY <1>0, <2>1, BookResults
  <2>3. Unanchored(s, s') /\ s'.failures = s.failures /\ s'.ctx = s.ctx /\ s'.step = s.step
    BY <1>0, <2>1, GenEvents, CountEvents, AsideEvents DEF CountAside, Aside, SameWork
  <2>4. \A d \in Calls : s'.result[d] = s.result[d] \/ d \in s.pending
    BY <2>2 DEF Unsettled
  <2> QED BY <2>1, <2>2, <2>3, <2>4, ToldQuiet
<1>6. CASE \E target \in 0..MaxCalls : RequestToolCancel(target)
  <2>1. PICK target : s' = ToolCancelRequested(s, target) /\ pc' = pc
    BY <1>6 DEF RequestToolCancel
  <2>2. SameBooks(s, s') /\ s'.result = s.result
    BY <1>0, <2>1, BookAside
  <2>3. Unanchored(s, s') /\ s'.failures = s.failures /\ s'.ctx = s.ctx /\ s'.step = s.step
    BY <1>0, <2>1, GenEvents, CountEvents, AsideEvents DEF CountAside, Aside, SameWork
  <2> QED BY <2>1, <2>2, <2>3, ToldQuiet
<1>7. CASE RetryStep
  <2>1. /\ s' = StepStarted(s, plan.purpose, plan.include) /\ s.step = "none" /\ ~Vacant
        /\ Entitled(s, plan.purpose, plan.include)
    BY <1>7 DEF RetryStep, PairInv, PlanWaits, Entitled, Vacant
  <2>2. s'.step = plan.purpose
    BY <1>0, <2>1, StepOpens
  <2> QED BY <1>0, <2>1, <2>2, ToldRequest
<1>8. CASE Act
  BY <1>8, ToldAct
<1>9. CASE s' = s /\ calm
  BY <1>9, ToldSame
<1> QED
  <2>1. \/ (s' = s /\ calm) \/ Client \/ Act \/ RetryStep \/ AutoWaitExpires \/ WaitExpires
        \/ (\E open \in BOOLEAN : Rebuild(open)) \/ AbortStep \/ AnswerToolCancel
        \/ (\E target \in 0..MaxCalls : RequestToolCancel(target))
        \/ \E c \in Calls : TakeResult(c)
    BY DEF vars, Stop, Stopped, Reopen, RunnerStep, Snapshot, Collected, ToolStep,
           ToolReturns, ToolSends, ToolLeaves, Clock, DeadlineWake, Crash, RunnerFails, Goto
  <2> QED BY <2>1, <1>1, <1>2, <1>3, <1>4, <1>5, <1>6, <1>7, <1>8, <1>9

LEMMA ToldStep ==
  ASSUME TypeOK, TurnInv, PairInv, TaskInv, ToldInv, [HNext]_hvars
  PROVE  ToldInv'
<1>1. CASE UNCHANGED hvars
  BY <1>1, ToldSame DEF hvars, vars, history
<1>2. CASE HNext
  <2>1. /\ sent \subseteq sent'
        /\ s.step = "none" /\ s'.step = "conversation" => s'.genResults \subseteq sent'
    BY <1>2 DEF HNext
  <2>2. CASE Provider
    BY <2>1, <2>2, ToldProvider
  <2>3. CASE \/ Client \/ Stop \/ Stopped \/ Reopen \/ RunnerStep \/ ToolStep \/ Clock
             \/ Crash \/ RunnerFails \/ \E open \in BOOLEAN : Rebuild(open)
    BY <2>1, <2>3, ToldOther
  <2>4. Next
    BY <1>2 DEF HNext
  <2> QED BY <2>2, <2>3, <2>4 DEF Next
<1> QED BY <1>1, <1>2

\* Where an input is: the mailbox has it, the request under way took it, it was
\* covered by what the model said, or it is in the transcript only.
HeardInv ==
  /\ InputsHeard
  /\ s.consumed \subseteq s.genInputs
  /\ s.step # "conversation" => s.consumed = {}
  /\ s.step # "none" => s.failure # "overflow"

\* What a step does to the inputs when no request starts or ends.
HeardAside(st, next) ==
  /\ st.inputs \subseteq next.inputs /\ next.consumed = st.consumed
  /\ next.genInputs = st.genInputs /\ next.step = st.step /\ next.failure = st.failure
  /\ 1..next.accepted \subseteq next.inputs \cup (1..st.accepted)

LEMMA HeardQuiet ==
  ASSUME HeardInv, HeardAside(s, s'), heard.inputs \subseteq heard'.inputs,
         stranded \subseteq stranded'
  PROVE  HeardInv'
  BY DEF HeardInv, InputsHeard, HeardAside

\* A step that ends a request, or whatever is under way, whose inputs go
\* somewhere.
LEMMA HeardCloses ==
  ASSUME HeardInv, s.inputs \subseteq s'.inputs, s'.accepted = s.accepted,
         s'.consumed = {}, s'.step = "none",
         heard.inputs \subseteq heard'.inputs, stranded \subseteq stranded',
         \/ s.step # "conversation" \/ s.consumed \subseteq s'.inputs
         \/ s.genInputs \subseteq heard'.inputs \/ s.consumed \subseteq stranded'
  PROVE  HeardInv'
  BY DEF HeardInv, InputsHeard

LEMMA HeardStarts ==
  ASSUME HeardInv, IsState(s), s.step = "none", NEW p, NEW b, s' = StepStarted(s, p, b),
         heard.inputs \subseteq heard'.inputs, stranded \subseteq stranded'
  PROVE  HeardInv'
<1>1. /\ s'.accepted = s.accepted /\ s'.step = p /\ s'.failure = "none"
      /\ p = "conversation" => s'.inputs = {} /\ s'.consumed = s.inputs
      /\ p # "conversation" => s'.inputs = s.inputs /\ s'.consumed = {}
  BY MailTaken, StepOpens, CountSets
<1>2. p = "conversation" => s.inputs \subseteq s'.genInputs
  BY GenStarted
<1>3. s.consumed = {}
  BY DEF HeardInv
<1> QED BY <1>1, <1>2, <1>3 DEF HeardInv, InputsHeard

\* The events that end what is under way leave the mailbox alone.
HeardEnd(st, next) ==
  /\ next.inputs = st.inputs /\ next.accepted = st.accepted
  /\ next.consumed = {} /\ next.step = "none"

LEMMA EndEvents ==
  ASSUME NEW st, IsState(st), NEW a, NEW b
  PROVE  /\ HeardEnd(st, StepInterrupted(st, a)) /\ HeardEnd(st, TurnFinished(st, a))
         /\ HeardEnd(st, StepCompleted(st, a, b)) /\ HeardEnd(st, ContextApplied(st, a, b))
<1> USE DEF IsState, FieldTypes, HeardEnd, NoStep
<1>1. HeardEnd(st, StepInterrupted(st, a))
  BY DEF StepInterrupted, Closed
<1>2. HeardEnd(st, TurnFinished(st, a))
  BY DEF TurnFinished, TurnOver, NoAutoWait, NoContext
<1>3. HeardEnd(st, StepCompleted(st, a, b))
  BY DEF StepCompleted, Closed
<1>4. HeardEnd(st, ContextApplied(st, a, b))
  BY DEF ContextApplied, NoAutoWait, NoContext
<1> QED BY <1>1, <1>2, <1>3, <1>4

\* What becomes of the inputs of a request is the same question for every way
\* of ending one: it was answered, or they go back, or they are stranded.
Ends ==
  s.step = "conversation" /\ s'.step = "none" /\ s'.failure # "overflow"
    => s.genInputs \subseteq heard'.inputs \/ s.consumed \subseteq stranded'

LEMMA HeardEnds ==
  ASSUME HeardInv, Ends, s'.inputs = s.inputs, s'.accepted = s.accepted,
         s'.consumed = {}, s'.step = "none", s'.failure \in {s.failure, "none"},
         heard.inputs \subseteq heard'.inputs, stranded \subseteq stranded'
  PROVE  HeardInv'
<1>1. s.step = "conversation" => s'.failure # "overflow"
  BY DEF HeardInv
<1> QED BY <1>1, HeardCloses DEF Ends

LEMMA QuietEvents ==
  ASSUME NEW st, IsState(st), NEW g, NEW c, NEW same, NEW a
  PROVE  /\ HeardAside(st, InputAppended(st)) /\ HeardAside(st, SelectionChanged(st, same))
         /\ HeardAside(st, ContextConfigured(st, g)) /\ HeardAside(st, ToolCancelRequested(st, c))
         /\ HeardAside(st, ToolResult(st, c, a)) /\ HeardAside(st, ToolResults(st, a))
         /\ HeardAside(st, DeadlineReached(st)) /\ HeardAside(st, RuntimeFault(st))
         /\ HeardAside(st, TurnCancelRequested(st)) /\ HeardAside(st, AutoWaitEnded(st, a))
         /\ HeardAside(st, TurnStarted(st)) /\ HeardAside(st, st)
<1> USE DEF IsState, FieldTypes, HeardAside
<1>1. HeardAside(st, InputAppended(st))
  <2> DEFINE next == InputAppended(st)
  <2>1. /\ next.inputs = st.inputs \cup {st.accepted + 1}
        /\ next.accepted = st.accepted + 1 /\ next.consumed = st.consumed
        /\ next.genInputs = st.genInputs /\ next.step = st.step /\ next.failure = st.failure
    BY DEF InputAppended
  <2>2. st.accepted \in Nat
    BY Mailbox
  <2>3. 1..(st.accepted + 1) \subseteq {st.accepted + 1} \cup (1..st.accepted)
    BY <2>2
  <2> HIDE DEF next
  <2>4. HeardAside(st, next)
    BY <2>1, <2>3
  <2> QED BY <2>4 DEF next
<1>2. HeardAside(st, SelectionChanged(st, same)) /\ HeardAside(st, ContextConfigured(st, g))
  BY DEF SelectionChanged, ContextConfigured
<1>3. HeardAside(st, ToolCancelRequested(st, c)) /\ HeardAside(st, ToolResult(st, c, a))
  BY DEF ToolCancelRequested, ToolResult
<1>4. HeardAside(st, ToolResults(st, a)) /\ HeardAside(st, DeadlineReached(st))
  BY DEF ToolResults, DeadlineReached
<1>5. HeardAside(st, RuntimeFault(st)) /\ HeardAside(st, TurnCancelRequested(st))
  BY DEF RuntimeFault, TurnCancelRequested
<1>6. HeardAside(st, AutoWaitEnded(st, a)) /\ HeardAside(st, TurnStarted(st))
  BY DEF AutoWaitEnded, NoAutoWait, TurnStarted, NoContext
<1> QED BY <1>1, <1>2, <1>3, <1>4, <1>5, <1>6

LEMMA HeardAct ==
  ASSUME TypeOK, PairInv, HeardInv, Ends, Act,
         heard.inputs \subseteq heard'.inputs, stranded \subseteq stranded'
  PROVE  HeardInv'
<1>1. PICK over \in {FALSE, s.anchor} : Carry(Decide(s, snap, over))
  BY DEF Act
<1> DEFINE d == Decide(s, snap, over)
<1>2. /\ Carry(d) /\ IsState(s)
      /\ d.act = "startStep" => Entitled(s, d.purpose, d.include) /\ s.step = "none"
  BY <1>1, DecideEntitles DEF TypeOK, PairInv
<1> HIDE DEF d
<1>3. CASE InterruptStep(d)
  <2>1. s' = StepInterrupted(s, "recovery")
    BY <1>3 DEF InterruptStep, Commit
  <2>2. HeardEnd(s, s') /\ s'.failure = s.failure
    BY <1>2, <2>1, EndEvents, CountEvents DEF CountAside
  <2> QED BY <2>2, HeardEnds DEF HeardEnd
<1>4. CASE EndTurn(d)
  <2>1. s' = TurnFinished(s, d.outcome)
    BY <1>4 DEF EndTurn
  <2>2. HeardEnd(s, s') /\ s'.failure = s.failure
    BY <1>2, <2>1, EndEvents, CountSets
  <2> QED BY <2>2, HeardEnds DEF HeardEnd
<1>5. CASE GiveUpContext(d)
  <2> DEFINE done == ContextFailed(s)
  <2>1. s' = ContextApplied(done, Unsettled(s), Nothing) /\ IsState(done)
    BY <1>2, <1>5, NotedType DEF GiveUpContext, Commit
  <2>2. done.inputs = s.inputs /\ done.accepted = s.accepted
    BY <1>2, MailEvents DEF MailAside
  <2> HIDE DEF done
  <2>3. HeardEnd(done, s') /\ s'.failure = "none"
    BY <2>1, EndEvents, CountSets
  <2> QED BY <2>2, <2>3, HeardEnds DEF HeardEnd
<1>6. CASE BeginStep(d)
  <2>1. s.step = "none" /\ (s' = s \/ s' = StepStarted(s, d.purpose, d.include))
    BY <1>2, <1>6 DEF BeginStep
  <2> QED BY <1>2, <2>1, HeardStarts, HeardQuiet, QuietEvents
<1>7. CASE InterruptTools(d) \/ StartTurn(d) \/ LeaveAutoWait(d) \/ ReachDeadline(d) \/ Park(d)
  <2>1. \/ \E o : s' = ToolResults(s, o)
        \/ s' = TurnStarted(s) \/ s' = AutoWaitEnded(s, d.reason)
        \/ s' = DeadlineReached(s) \/ s' = s
    BY <1>7 DEF InterruptTools, StartTurn, LeaveAutoWait, ReachDeadline, Park, Commit
  <2>2. HeardAside(s, s')
    BY <1>2, <2>1, QuietEvents
  <2> QED BY <2>2, HeardQuiet
<1> QED BY <1>2, <1>3, <1>4, <1>5, <1>6, <1>7 DEF Carry

LEMMA HeardProvider ==
  ASSUME TypeOK, TurnInv, HeardInv, Ends, Provider,
         Answer => s.genInputs \subseteq heard'.inputs,
         heard.inputs \subseteq heard'.inputs, stranded \subseteq stranded'
  PROVE  HeardInv'
<1>0. IsState(s) /\ s.on
  BY ProviderCloses DEF TypeOK
<1>1. CASE Answer
  <2>1. PICK ks, usage : s' = StepCompleted(s, ks, usage)
    BY <1>1 DEF Answer, CompleteStep
  <2>2. HeardEnd(s, s')
    BY <1>0, <2>1, EndEvents
  <2> QED BY <1>1, <2>2, HeardCloses DEF HeardEnd
<1>2. CASE Document \/ NoDocument
  <2>1. PICK ks, usage : \E o, carried, kept :
          /\ IsState(StepCompleted(s, ks, usage))
          /\ \/ s' = ContextApplied(StepCompleted(s, ks, usage), carried, kept)
             \/ s' = ContextApplied(ContextFailed(StepCompleted(s, ks, usage)), carried, kept)
             \/ s' = ToolResults(StepCompleted(s, ks, usage), o)
    BY <1>2, DocumentDone, NoDocumentDone DEF Commit
  <2> DEFINE done == StepCompleted(s, ks, usage)
             noted == ContextFailed(done)
  <2>2. PICK o, carried, kept :
          \/ s' = ContextApplied(done, carried, kept)
          \/ s' = ContextApplied(noted, carried, kept)
          \/ s' = ToolResults(done, o)
    BY <2>1
  <2>3. HeardEnd(s, done) /\ IsState(done) /\ IsState(noted) /\ done.failure = "none"
    BY <1>0, <2>1, EndEvents, NotedType, CountSets
  <2>4. MailAside(done, noted)
    BY <2>3, MailEvents
  <2> HIDE DEF done, noted
  <2>5. CASE s' = ContextApplied(done, carried, kept)
    <3>1. HeardEnd(done, s') /\ s'.failure = "none"
      BY <2>3, <2>5, EndEvents, CountSets
    <3> QED BY <2>3, <3>1, HeardEnds DEF HeardEnd
  <2>6. CASE s' = ContextApplied(noted, carried, kept)
    <3>1. HeardEnd(noted, s') /\ s'.failure = "none"
      BY <2>3, <2>6, EndEvents, CountSets
    <3> QED BY <2>3, <2>4, <3>1, HeardEnds DEF HeardEnd, MailAside
  <2>7. CASE s' = ToolResults(done, o)
    <3>1. HeardEnd(s, s') /\ s'.failure = "none"
      BY <2>3, <2>7 DEF ToolResults, HeardEnd, IsState, FieldTypes
    <3> QED BY <3>1, HeardEnds DEF HeardEnd
  <2> QED BY <2>2, <2>5, <2>6, <2>7
<1>3. CASE Failure
  <2>1. PICK err, usage : s' = StepFailed(s, err, usage)
    BY <1>3 DEF Failure, FailStep
  <2>2. /\ s'.accepted = s.accepted /\ s'.consumed = {} /\ s'.inputs = Restored(s, err)
        /\ s'.failure = err /\ s'.step = "none"
    BY <1>0, <2>1, MailBack, CountFailed, ClosingEvents
  <2>3. CASE err = "overflow"
    BY <2>2, <2>3, HeardCloses DEF Restored
  <2>4. CASE err # "overflow"
    BY <2>2, <2>4, HeardCloses DEF Restored, Ends
  <2> QED BY <2>3, <2>4
<1> QED BY <1>1, <1>2, <1>3 DEF Provider

LEMMA HeardOther ==
  ASSUME TypeOK, PairInv, HeardInv, Ends,
         heard.inputs \subseteq heard'.inputs, stranded \subseteq stranded',
         \/ Client \/ Stop \/ Stopped \/ Reopen \/ RunnerStep \/ ToolStep \/ Clock
         \/ Crash \/ RunnerFails \/ (\E open \in BOOLEAN : Rebuild(open)) \/ UNCHANGED vars
  PROVE  HeardInv'
<1>0. IsState(s)
  BY DEF TypeOK
<1>1. CASE Act
  BY <1>1, HeardAct
<1>2. CASE AbortStep
  <2>1. s' = StepInterrupted(s, "cancelled")
    BY <1>2 DEF AbortStep
  <2>2. HeardEnd(s, s') /\ s'.failure = s.failure
    BY <1>0, <2>1, EndEvents, CountEvents DEF CountAside
  <2> QED BY <2>2, HeardEnds DEF HeardEnd
<1>3. CASE RetryStep
  <2>1. s' = StepStarted(s, plan.purpose, plan.include) /\ s.step = "none"
    BY <1>3 DEF RetryStep, PairInv, PlanWaits, Entitled
  <2> QED BY <1>0, <2>1, HeardStarts
<1>4. CASE AutoWaitExpires \/ WaitExpires
  <2>1. HeardAside(s, s')
    BY <1>0, <1>4 DEF AutoWaitExpires, WaitExpires, HeardAside, IsState, FieldTypes
  <2> QED BY <2>1, HeardQuiet
<1>5. CASE \/ s' = s \/ s' = InputAppended(s) \/ s' = TurnCancelRequested(s)
           \/ (\E same \in BOOLEAN : s' = SelectionChanged(s, same))
           \/ (\E g \in Strategies : s' = ContextConfigured(s, g))
           \/ (\E c, o : s' = ToolResult(s, c, o))
           \/ (\E c : s' = ToolCancelRequested(s, c)) \/ s' = RuntimeFault(s)
  <2>1. HeardAside(s, s')
    BY <1>0, <1>5, QuietEvents
  <2> QED BY <2>1, HeardQuiet
<1> QED
  <2>1. CASE Client
    <3>1. \/ s' = InputAppended(s) \/ (\E same \in BOOLEAN : s' = SelectionChanged(s, same))
          \/ (\E g \in Strategies : s' = ContextConfigured(s, g))
          \/ s' = TurnCancelRequested(s) \/ s' = s
      BY <2>1 DEF Client, Input, SetSelection, SetContext, CancelTurn
    <3> QED BY <3>1, <1>5
  <2>2. CASE RunnerStep
    <3>1. \/ Act \/ AbortStep \/ RetryStep \/ s' = s
          \/ (\E c, o : s' = ToolResult(s, c, o)) \/ \E c : s' = ToolCancelRequested(s, c)
      BY <2>2 DEF RunnerStep, Snapshot, Collected, AnswerToolCancel, RequestToolCancel,
                  TakeResult
    <3> QED BY <3>1, <1>1, <1>2, <1>3, <1>5
  <2>3. CASE \E open \in BOOLEAN : Rebuild(open)
    <3>1. s' = RuntimeFault(s)
      BY <2>3 DEF Rebuild
    <3> QED BY <3>1, <1>5
  <2>4. CASE \/ Stop \/ Stopped \/ Reopen \/ ToolStep \/ Clock \/ Crash \/ RunnerFails
             \/ UNCHANGED vars
    <3>1. s' = s \/ AutoWaitExpires \/ WaitExpires
      BY <2>4 DEF vars, Stop, Stopped, Reopen, ToolStep, ToolReturns, ToolSends, ToolLeaves,
                  Clock, DeadlineWake, Crash, RunnerFails
    <3> QED BY <3>1, <1>4, <1>5
  <2> QED BY <2>1, <2>2, <2>3, <2>4

LEMMA HeardStep ==
  ASSUME TypeOK, TurnInv, PairInv, HeardInv, [HNext]_hvars
  PROVE  HeardInv'
<1>1. CASE UNCHANGED hvars
  BY <1>1 DEF hvars, vars, history, HeardInv, InputsHeard
<1>2. CASE HNext
  <2>1. /\ Answer \/ Document => s.genInputs \subseteq heard'.inputs
        /\ heard.inputs \subseteq heard'.inputs
    BY <1>2 DEF HNext
  <2>2. /\ stranded \subseteq stranded'
        /\ s.step = "conversation" /\ s'.step = "none" /\ ~Answer /\ s'.failure # "overflow"
             => s.consumed \subseteq stranded'
    BY <1>2 DEF HNext
  <2>3. Ends
    BY <2>1, <2>2 DEF Ends
  <2>4. CASE Provider
    BY <2>1, <2>2, <2>3, <2>4, HeardProvider
  <2>5. CASE \/ Client \/ Stop \/ Stopped \/ Reopen \/ RunnerStep \/ ToolStep \/ Clock
             \/ Crash \/ RunnerFails \/ \E open \in BOOLEAN : Rebuild(open)
    BY <2>1, <2>2, <2>3, <2>5, HeardOther
  <2>6. Next
    BY <1>2 DEF HNext
  <2> QED BY <2>4, <2>5, <2>6 DEF Next
<1> QED BY <1>1, <1>2

LEMMA HistoryInit == HInit => ToldInv /\ HeardInv
<1> SUFFICES ASSUME HInit PROVE ToldInv /\ HeardInv
  OBVIOUS
<1>1. PICK g \in Strategies : s = Created(g)
  BY DEF HInit, Init
<1>2. /\ s.result = [c \in Calls |-> "none"] /\ s.ctl = {} /\ s.consumed = {}
      /\ s.accepted = 0 /\ s.step = "none"
  BY <1>1 DEF Created
<1>3. ToldInv
  BY <1>2 DEF ToldInv, ResultsTold, Returned
<1>4. HeardInv
  BY <1>2 DEF HeardInv, InputsHeard
<1> QED BY <1>3, <1>4

\* Nothing that reached the session is forgotten on its way to the model, through
\* failures, retries, context exits, crashes and rebuilds: a result is waiting to
\* be told, or in the generation, or was part of a request of the conversation; an
\* input is unread, or being read, or answered, or only in the transcript because
\* the request that took it was interrupted or failed.
THEOREM NothingIsForgotten == HSpec => []NothingForgotten
<1> DEFINE Inv == TypeOK /\ TurnInv /\ PairInv /\ TaskInv /\ Watch /\ ToldInv /\ HeardInv
<1>1. HInit => Inv
  BY HistoryInit, TypeInit, TurnInvInit, PairInvInit, TaskInvInit, WatchInit DEF HInit
<1>2. Inv /\ [HNext]_hvars => Inv'
  <2>1. [HNext]_hvars => [Next]_vars
    BY DEF HNext, hvars
  <2>2. Inv /\ [HNext]_hvars => ToldInv' /\ HeardInv'
    BY ToldStep, HeardStep
  <2> QED BY <2>1, <2>2, TypeStep, TurnInvStep, PairInvStep, TaskInvStep, WatchStep
<1>3. Inv => NothingForgotten
  BY DEF ToldInv, HeardInv, NothingForgotten
<1> QED BY <1>1, <1>2, <1>3, PTL DEF HSpec

=============================================================================
