------------------------------ MODULE Decision ------------------------------
(***************************************************************************)
(* The next action of a session, a pure function of its durable state and  *)
(* of the facts of the world: the calls the executor has live, whether a   *)
(* deadline has passed, and whether the estimated request is over the      *)
(* input budget.  The first rule that applies decides.                     *)
(***************************************************************************)
EXTENDS SessionState

CONSTANTS RetryLimit,    \* provider_retry_limit
          AttemptLimit   \* context_attempt_limit

ASSUME LimitAssumption == RetryLimit \in Nat /\ AttemptLimit \in Nat

AtLeastOne(n) == IF n = 0 THEN 1 ELSE n

Do(act) == [act |-> act]
StartStep(purpose, include) ==
  [act |-> "startStep", purpose |-> purpose, include |-> include]
FinishTurn(outcome) == [act |-> "finishTurn", outcome |-> outcome]
ApplyContext(purpose) == [act |-> "applyContext", purpose |-> purpose]
EndAutoWait(reason) == [act |-> "endAutoWait", reason |-> reason]

\* Mutants: what the executor runs is ignored; no call is ever lost.
LostLive(st, live) == Unsettled(st)
LostNever(st, live) == {}

\* The calls neither answered nor running: a restart interrupted them.
Lost(st, live) == Unsettled(st) \ live

AutoWaitDecision(st) ==
  IF st.autoWait \cap Unsettled(st) = {} THEN EndAutoWait("batchCompleted")
  ELSE IF st.inputs # {} THEN EndAutoWait("newInput")
  ELSE IF st.autoDue THEN EndAutoWait("timedOut")
  ELSE Do("park")

\* Mutant: one retry too many.
ExhaustedLate(st) == ~st.retryOk \/ st.failures > AtLeastOne(RetryLimit)

Exhausted(st) == ~st.retryOk \/ st.failures >= AtLeastOne(RetryLimit)

\* After a provider failure.  A conversation too large for the provider may
\* still be summarised; any other overflow leaves without a document.
RetryDecision(st) ==
  LET purpose == IF st.ctx # "none" THEN st.ctx ELSE st.strategy
      again == IF st.ctx # "none" THEN st.ctx
               ELSE IF st.failure # "none" THEN st.failedAs ELSE "conversation"
  IN IF st.failure = "overflow"
     THEN IF purpose = "compaction" /\ st.ctx = "none"
          THEN StartStep(purpose, TRUE) ELSE ApplyContext(purpose)
     ELSE IF Exhausted(st) THEN FinishTurn("failed")
     ELSE StartStep(again, TRUE)

\* Mutant: a late result of a cancelled turn starts another.
WakesOnResult(st) ==
  st.inputs # {} \/ (st.notices # {} /\ st.outcome # "failed") \/ Settled(st) # {}

\* What may start a turn by itself.
Wakes(st) ==
  \/ st.inputs # {}
  \/ st.notices # {} /\ st.outcome # "failed"
  \/ Settled(st) # {} /\ st.outcome # "cancelled"

ContextDecision(st) ==
  IF st.attempts >= AtLeastOne(AttemptLimit) THEN ApplyContext(st.ctx)
  ELSE StartStep(st.ctx, TRUE)

\* The first well-formed `end' of the last answer, once it has succeeded.
EndCall(st) == {c \in st.latest : /\ st.kind[c] \in EndKinds
                                  /\ \A d \in st.latest :
                                       st.kind[d] \in EndKinds => c <= d}
Ended(st) == {c \in EndCall(st) : c \in st.pending /\ st.result[c] = "ok"}

ControlDecision(st) ==
  IF ~Outstanding(st) \/ \E c \in Ended(st) : st.kind[c] = "ack"
  THEN FinishTurn("finished") ELSE StartStep("conversation", TRUE)

\* over: an anchored estimate exceeds the input budget.
Decide(st, live, over) ==
  IF st.step # "none" THEN Do("interruptStep")
  ELSE IF Lost(st, live) # {} THEN Do("interruptTools")
  ELSE IF st.on /\ st.cancel THEN FinishTurn("cancelled")
  ELSE IF st.autoWait # {} THEN AutoWaitDecision(st)
  ELSE IF st.on /\ st.failures > 0 THEN RetryDecision(st)
  ELSE IF st.wait # NoCall /\ st.waitDue THEN Do("reachDeadline")
  ELSE IF st.wait # NoCall /\ st.inputs = {} /\ st.notices = {} THEN Do("park")
  ELSE IF ~st.on THEN IF Wakes(st) THEN Do("startTurn") ELSE Do("park")
  ELSE IF st.ctx # "none" THEN ContextDecision(st)
  ELSE IF Ended(st) # {} THEN ControlDecision(st)
  ELSE IF over /\ st.anchor THEN StartStep(st.strategy, TRUE)
  ELSE StartStep("conversation", Fresh(st) # {})
=============================================================================
