------------------------------- MODULE Runner -------------------------------
(***************************************************************************)
(* One session's runner together with the tool executor it drives: the     *)
(* loop that takes commands, collects tool results, decides and commits;   *)
(* the tool tasks that finish, queue their result and leave the table of   *)
(* live calls; and what can go wrong around them: the process is killed,   *)
(* the runner fails and is rebuilt, the session is stopped.                *)
(*                                                                         *)
(* A commit is the append of a batch to the log followed by its fold, one  *)
(* action on s.  The runner is the only writer, so what another task can   *)
(* do while an append is awaited it can as well do before or after it.     *)
(* An append that fails is the runner failing without the commit.  What    *)
(* is volatile (all but s and last) is lost when the process is killed.    *)
(*                                                                         *)
(* Commands are handled where the runner receives them; the queue before   *)
(* it adds only delay.  Create has happened: the session starts created.   *)
(***************************************************************************)
EXTENDS Decision

CONSTANTS Strategies,     \* context strategies a client may configure
          Kinds,          \* kinds of calls the model makes
          MaxBatch,       \* calls in one answer
          Errors,         \* ways a provider request fails
          Usages,         \* whether an answer may report usage
          Commands,       \* commands clients send
          ResultCapacity, \* tool_result_capacity
          MaxCrashes,     \* how often the process is killed
          MaxFailures     \* how often the runner fails

ASSUME RunnerAssumption ==
  /\ Strategies # {} /\ Strategies \subseteq {"compaction", "handoff"}
  /\ Kinds \subseteq CallKinds \ {"handoff", "refused"}
  /\ Errors \subseteq ProviderErrors
  /\ Usages # {} /\ Usages \subseteq BOOLEAN
  /\ Commands \subseteq {"input", "cancel", "selection", "context", "stop"}
  /\ MaxBatch \in Nat /\ ResultCapacity \in Nat \ {0}
  /\ MaxCrashes \in Nat /\ MaxFailures \in Nat

VARIABLES
  s,         \* the durable session state
  last,      \* whether the log ends with a turn that finished
  pc,        \* where the runner is
  snap,      \* live_tools, as of the start of the loop iteration
  plan,      \* the step to start once the retry backoff is over
  batch,     \* the calls of the answer being dispatched
  exec,      \* for each call, its task in the executor
  out,       \* what a task returned and the runner has not taken yet
  chan,      \* results in the runner's result channel
  orphans,   \* live tasks whose result channel has no receiver any more
  crashes, failed   \* how many of the bounded faults have happened

vars == <<s, last, pc, snap, plan, batch, exec, out, chan, orphans, crashes, failed>>
tools == <<exec, out, chan, orphans>>
faults == <<crashes, failed>>

PCs == {"drain", "collect", "decide", "backoff", "stream", "abort", "control",
        "parked", "idle", "failed", "stopping", "down", "circuitOpen"}
TaskStates == {"none", "running", "signalled", "ready", "sent", "gone"}

NoPlan == [purpose |-> "none", include |-> FALSE]
NoBatch == [cancels |-> {}, rest |-> {}, asked |-> FALSE]

Live == {c \in Calls : exec[c] \in {"running", "signalled", "ready", "sent"}}

Init ==
  /\ s \in {Created(g) : g \in Strategies} /\ last = "other"
  /\ pc = "drain"
  /\ snap = {} /\ plan = NoPlan /\ batch = NoBatch
  /\ exec = [c \in Calls |-> "none"]
  /\ out = [c \in Calls |-> "none"]
  /\ chan = {} /\ orphans = {}
  /\ crashes = 0 /\ failed = 0

\* One append and its fold.
Logged(next) == s' = next /\ last' = "other"

\* Control moves from where the runner is to p, forgetting what it planned.
Goto(p) ==
  /\ pc' = p
  /\ plan' = NoPlan /\ batch' = NoBatch
  /\ snap' = IF p \in {"collect", "decide"} THEN snap ELSE {}

\* ExecutorTable::cancel on each of cs: only a first signal to a task that
\* still listens has an effect.
Signalled(cs) ==
  [c \in Calls |-> IF c \in cs /\ exec[c] = "running" THEN "signalled" ELSE exec[c]]

\* The receiving end of the result channel is dropped.
ReceiverGone ==
  /\ chan' = {} /\ orphans' = Live
  /\ out' = [c \in Calls |-> IF c \in chan THEN "none" ELSE out[c]]
  /\ UNCHANGED exec

-----------------------------------------------------------------------------
\* Commands.

Receiving == pc \in {"drain", "backoff", "stream", "parked", "idle"}
\* Mutant: a command does not wake a parked runner.
AfterCommandAsleep == pc

AfterCommand == IF pc \in {"parked", "idle"} THEN "drain" ELSE pc
Handled == /\ pc' = AfterCommand
           /\ UNCHANGED <<snap, plan, batch, faults>>

Input ==
  /\ Receiving /\ "input" \in Commands
  /\ s.accepted < MaxInputs
  /\ Logged(InputAppended(s))
  /\ Handled /\ UNCHANGED tools

SetSelection ==
  /\ Receiving /\ "selection" \in Commands
  /\ \E same \in BOOLEAN : Logged(SelectionChanged(s, same))
  /\ Handled /\ UNCHANGED tools

SetContext(strategy) ==
  /\ Receiving /\ "context" \in Commands
  /\ Logged(ContextConfigured(s, strategy))
  /\ Handled /\ UNCHANGED tools

\* Mutant: a cancellation does not abandon a backoff.
TurnLeftRetrying == IF pc = "stream" THEN Goto("abort")
                    ELSE pc' = AfterCommand /\ UNCHANGED <<snap, plan, batch>>

\* A request under way is aborted, a backoff is abandoned.
TurnLeft == CASE pc = "stream" -> Goto("abort")
              [] pc = "backoff" -> Goto("drain")
              [] OTHER -> pc' = AfterCommand /\ UNCHANGED <<snap, plan, batch>>

\* The request is durable before any tool is signalled.
CancelTurn ==
  /\ Receiving /\ "cancel" \in Commands
  /\ IF s.on THEN Logged(TurnCancelRequested(s)) ELSE UNCHANGED <<s, last>>
  /\ exec' = Signalled(IF s.on THEN Unsettled(s) \cap s.own ELSE {})
  /\ TurnLeft
  /\ UNCHANGED <<out, chan, orphans, faults>>

AbortStep ==
  /\ pc = "abort"
  /\ Logged(StepInterrupted(s, "cancelled"))
  /\ Goto("drain")
  /\ UNCHANGED <<tools, faults>>

\* Stop closes the result channel, signals every live task and waits for all
\* of them to leave.
Stop ==
  /\ Receiving /\ pc # "idle" /\ "stop" \in Commands
  /\ exec' = Signalled(Calls)
  /\ Goto("stopping")
  /\ UNCHANGED <<s, last, out, chan, orphans, faults>>

Stopped ==
  /\ pc = "stopping" /\ Live = {}
  /\ pc' = "down"
  /\ ReceiverGone
  /\ UNCHANGED <<s, last, snap, plan, batch, faults>>

\* A stopped session is recovered when something is asked of it again.
Reopen ==
  /\ pc = "down"
  /\ pc' = "drain"
  /\ UNCHANGED <<s, last, snap, plan, batch, tools, faults>>

-----------------------------------------------------------------------------
\* Tool results reaching the runner.

TakeResult(c) ==
  /\ pc \in {"collect", "backoff", "stream", "parked"}
  /\ c \in chan
  /\ Logged(ToolResult(s, c, out[c]))
  /\ chan' = chan \ {c}
  /\ out' = [out EXCEPT ![c] = "none"]
  /\ pc' = IF pc = "parked" THEN "drain" ELSE pc
  /\ UNCHANGED <<snap, plan, batch, exec, orphans, faults>>

\* Mutant: a decision that does not wait for the channel to be emptied.
SnapshotThenDecide ==
  /\ pc = "drain"
  /\ pc' = "decide" /\ snap' = Live
  /\ UNCHANGED <<s, last, plan, batch, tools, faults>>

\* The live calls are read before the channel is emptied: a call that left
\* the table has its result in the channel already.
Snapshot ==
  /\ pc = "drain"
  /\ pc' = "collect" /\ snap' = Live
  /\ UNCHANGED <<s, last, plan, batch, tools, faults>>

Collected ==
  /\ pc = "collect" /\ chan = {}
  /\ pc' = "decide"
  /\ UNCHANGED <<s, last, snap, plan, batch, tools, faults>>

-----------------------------------------------------------------------------
\* One decision and its commit.

Commit(next) == /\ Logged(next) /\ Goto("drain") /\ UNCHANGED <<tools, faults>>

InterruptStep(d) ==
  /\ d.act = "interruptStep"
  /\ Commit(StepInterrupted(s, "recovery"))

InterruptTools(d) ==
  /\ d.act = "interruptTools"
  /\ Commit(ToolResults(s, [c \in Lost(s, snap) |->
       IF s.kind[c] \in Malformed THEN "failed" ELSE "interrupted"]))

StartTurn(d) == d.act = "startTurn" /\ Commit(TurnStarted(s))
LeaveAutoWait(d) == d.act = "endAutoWait" /\ Commit(AutoWaitEnded(s, d.reason))

EndTurn(d) ==
  /\ d.act = "finishTurn"
  /\ s' = TurnFinished(s, d.outcome)
  /\ last' = IF d.outcome = "finished" THEN "finished" ELSE "other"
  /\ Goto("drain")
  /\ UNCHANGED <<tools, faults>>

ReachDeadline(d) == d.act = "reachDeadline" /\ Commit(DeadlineReached(s))

Nothing == [inputs |-> {}, results |-> {}, tail |-> FALSE]

GiveUpContext(d) ==
  /\ d.act = "applyContext"
  /\ Commit(ContextApplied(ContextFailed(s), Unsettled(s), Nothing))

BeginStep(d) ==
  /\ d.act = "startStep"
  /\ IF s.failures > 0 /\ s.failure # "overflow"
     THEN /\ pc' = "backoff"
          /\ plan' = [purpose |-> d.purpose, include |-> d.include]
          /\ snap' = {} /\ UNCHANGED <<s, last, batch>>
     ELSE Logged(StepStarted(s, d.purpose, d.include)) /\ Goto("stream")
  /\ UNCHANGED <<tools, faults>>

\* Mutant: calls left behind by a finished turn do not matter.
FullyIdleBusy ==
  /\ ~s.on /\ s.step = "none"
  /\ s.inputs = {} /\ s.notices = {} /\ s.autoWait = {} /\ s.wait = NoCall

\* is_fully_idle
FullyIdle ==
  /\ ~s.on /\ s.step = "none"
  /\ s.pending = {} \/ (s.outcome = "cancelled" /\ Unsettled(s) = {})
  /\ s.inputs = {} /\ s.notices = {} /\ s.autoWait = {} /\ s.wait = NoCall

Park(d) ==
  /\ d.act = "park"
  /\ IF FullyIdle THEN Goto("idle") /\ ReceiverGone
                  ELSE Goto("parked") /\ UNCHANGED tools
  /\ UNCHANGED <<s, last, faults>>

Carry(d) ==
  \/ InterruptStep(d) \/ InterruptTools(d) \/ StartTurn(d) \/ LeaveAutoWait(d)
  \/ EndTurn(d) \/ ReachDeadline(d) \/ GiveUpContext(d) \/ BeginStep(d)
  \/ Park(d)

\* The estimate may exceed the budget once there is an anchor to estimate from.
Act == pc = "decide" /\ \E over \in {FALSE, s.anchor} : Carry(Decide(s, snap, over))

\* The step starts from the state the session is in when the backoff is over.
RetryStep ==
  /\ pc = "backoff"
  /\ Logged(StepStarted(s, plan.purpose, plan.include))
  /\ Goto("stream")
  /\ UNCHANGED <<tools, faults>>

-----------------------------------------------------------------------------
\* The provider's answer.

FailStep(err, usage) ==
  /\ pc = "stream" /\ err \in Errors
  /\ Logged(StepFailed(s, err, usage))
  /\ Goto("drain")
  /\ UNCHANGED <<tools, faults>>

Dispatched(cs) == [c \in Calls |-> IF c \in cs THEN "running" ELSE exec[c]]

\* An answer to the conversation.  Cancel calls are carried out first, one by
\* one; the others are then dispatched together.
CompleteStep(ks, usage) ==
  LET calls == NewCalls(s, Len(ks))
      cancels == {c \in calls : ks[c - s.issued] = "cancel"}
  IN /\ pc = "stream" /\ s.step = "conversation"
     /\ Logged(StepCompleted(s, ks, usage))
     /\ IF cancels = {}
        THEN Goto("drain") /\ exec' = Dispatched(calls)
        ELSE /\ pc' = "control" /\ UNCHANGED <<snap, plan, exec>>
             /\ batch' = [cancels |-> cancels, rest |-> calls \ cancels,
                          asked |-> FALSE]
     /\ UNCHANGED <<out, chan, orphans, faults>>

NextCancel == {c \in batch.cancels : \A d \in batch.cancels : c <= d}

RequestToolCancel(target) ==
  /\ pc = "control" /\ ~batch.asked /\ batch.cancels # {}
  /\ Logged(ToolCancelRequested(s, target))
  /\ exec' = Signalled({target})
  /\ batch' = [batch EXCEPT !.asked = TRUE]
  /\ UNCHANGED <<pc, snap, plan, out, chan, orphans, faults>>

AnswerToolCancel ==
  /\ pc = "control" /\ batch.asked
  /\ \E c \in NextCancel :
       LET left == batch.cancels \ {c}
       IN /\ Logged(ToolResult(s, c, "ok"))
          /\ IF left = {} THEN Goto("drain") /\ exec' = Dispatched(batch.rest)
             ELSE /\ batch' = [batch EXCEPT !.cancels = left, !.asked = FALSE]
                  /\ UNCHANGED <<pc, snap, plan, exec>>
  /\ UNCHANGED <<out, chan, orphans, faults>>

\* A compaction that returned a summary; what the new generation retains is a
\* suffix of the old one, cut where no call is left open.
Summarised(usage, kept) ==
  /\ pc = "stream" /\ s.step = "compaction"
  /\ kept.inputs \subseteq s.genInputs /\ kept.results \subseteq s.genResults
  /\ Commit(ContextApplied(StepCompleted(s, <<>>, usage), Unsettled(s), kept))

\* A handoff that returned one well-formed call with a document.
HandedOff(usage) ==
  /\ pc = "stream" /\ s.step = "handoff"
  /\ s.issued < MaxCalls
  /\ Commit(ContextApplied(StepCompleted(s, <<"handoff">>, usage),
                           Unsettled(s), Nothing))

\* A context answer that is not a document: n calls, all of them refused.
BadDocument(n, usage) ==
  LET ks == [i \in 1..n |-> "refused"]
      done == StepCompleted(s, ks, usage)
  IN /\ pc = "stream" /\ IsContext(s.step)
     /\ s.step = "compaction" => n = 0
     /\ Commit(IF s.attempts + 1 >= AtLeastOne(AttemptLimit)
               THEN ContextApplied(ContextFailed(done), Unsettled(s), Nothing)
               ELSE ToolResults(done, [c \in NewCalls(s, n) |-> "failed"]))

-----------------------------------------------------------------------------
\* The executor's tasks.

\* A refused call fails without running, and so does a call of a tool that is
\* not registered unless it is cancelled first; a task that was signalled may
\* still win the race and return its own result.
Returns(c) ==
  IF s.kind[c] \in Malformed THEN {"failed"}
  ELSE {"failed"} \cup (IF s.kind[c] = "unknown" THEN {} ELSE {"ok"})
                 \cup (IF exec[c] = "signalled" THEN {"cancelled"} ELSE {})

ToolReturns(c) ==
  /\ exec[c] \in {"running", "signalled"}
  /\ \E o \in Returns(c) : out' = [out EXCEPT ![c] = o]
  /\ exec' = [exec EXCEPT ![c] = "ready"]
  /\ UNCHANGED <<s, last, pc, snap, plan, batch, chan, orphans, faults>>

\* Mutant: a stopping runner keeps the receiving end of the channel.
UnheardOrphan(c) == c \in orphans

\* Nobody can receive what the task of c sends.
Unheard(c) == c \in orphans \/ pc = "stopping"

\* The send waits for room, and fails at once when it is unheard.
ToolSends(c) ==
  /\ exec[c] = "ready"
  /\ IF Unheard(c)
     THEN chan' = chan /\ out' = [out EXCEPT ![c] = "none"]
     ELSE Cardinality(chan) < ResultCapacity /\ chan' = chan \cup {c} /\ out' = out
  /\ exec' = [exec EXCEPT ![c] = "sent"]
  /\ UNCHANGED <<s, last, pc, snap, plan, batch, orphans, faults>>

ToolLeaves(c) ==
  /\ exec[c] = "sent"
  /\ exec' = [exec EXCEPT ![c] = "gone"]
  /\ orphans' = orphans \ {c}
  /\ UNCHANGED <<s, last, pc, snap, plan, batch, out, chan, faults>>

-----------------------------------------------------------------------------
\* Time.

AutoWaitExpires ==
  /\ s.autoWait # {} /\ ~s.autoDue
  /\ s' = [s EXCEPT !.autoDue = TRUE]
  /\ UNCHANGED <<last, pc, snap, plan, batch, tools, faults>>

WaitExpires ==
  /\ s.wait # NoCall /\ ~s.waitDue
  /\ s' = [s EXCEPT !.waitDue = TRUE]
  /\ UNCHANGED <<last, pc, snap, plan, batch, tools, faults>>

\* The scheduler wakes a parked runner for each deadline it armed.
DeadlineWake ==
  /\ pc = "parked"
  /\ (s.autoWait # {} /\ s.autoDue) \/ (s.wait # NoCall /\ s.waitDue)
  /\ Goto("drain")
  /\ UNCHANGED <<s, last, tools, faults>>

-----------------------------------------------------------------------------
\* Faults.

Running == pc \notin {"idle", "failed", "stopping", "down", "circuitOpen"}

\* The process is killed and started again; the log is all that is left.  A
\* session whose log ends with a turn that finished is taken to have no work,
\* any other is recovered and resumed.
Crash ==
  /\ crashes < MaxCrashes
  /\ crashes' = crashes + 1
  /\ Goto(IF last = "finished" THEN "idle" ELSE "drain")
  /\ exec' = [c \in Calls |-> IF c \in Live THEN "gone" ELSE exec[c]]
  /\ out' = [c \in Calls |-> "none"]
  /\ chan' = {} /\ orphans' = {}
  /\ UNCHANGED <<s, last, failed>>

\* The runner task ends with an error, for instance of an append, or panics.
\* The tool tasks are not its own and live on.
RunnerFails ==
  /\ failed < MaxFailures /\ Running
  /\ failed' = failed + 1
  /\ Goto("failed")
  /\ ReceiverGone
  /\ UNCHANGED <<s, last, crashes>>

\* The supervisor recovers the state from the log and starts a new runner,
\* whose first command records the fault; the same fault too many times in a
\* row opens the circuit instead of resuming.
Rebuild(open) ==
  /\ pc = "failed"
  /\ Logged(RuntimeFault(s))
  /\ pc' = IF open THEN "circuitOpen" ELSE "drain"
  /\ UNCHANGED <<snap, plan, batch, tools, faults>>

-----------------------------------------------------------------------------
KindSeqs == UNION {[1..n -> Kinds] : n \in 0..MaxBatch}

Answer ==
  \E ks \in KindSeqs, usage \in Usages :
    s.issued + Len(ks) <= MaxCalls /\ CompleteStep(ks, usage)

Document ==
  \/ \E usage \in Usages, i \in SUBSET s.genInputs, r \in SUBSET s.genResults,
        tail \in BOOLEAN :
       Summarised(usage, [inputs |-> i, results |-> r, tail |-> tail])
  \/ \E usage \in Usages : HandedOff(usage)

NoDocument ==
  \E n \in 0..MaxBatch, usage \in Usages :
    s.issued + n <= MaxCalls /\ BadDocument(n, usage)

Failure == \E err \in ProviderErrors, usage \in Usages : FailStep(err, usage)

Provider == Answer \/ Document \/ NoDocument \/ Failure

Client == Input \/ SetSelection \/ CancelTurn \/ \E g \in Strategies : SetContext(g)

RunnerStep ==
  \/ AbortStep \/ Snapshot \/ Collected \/ Act \/ RetryStep \/ AnswerToolCancel
  \/ \E target \in 0..MaxCalls : RequestToolCancel(target)
  \/ \E c \in Calls : TakeResult(c)

ToolStep == \E c \in Calls : ToolReturns(c) \/ ToolSends(c) \/ ToolLeaves(c)

Clock == AutoWaitExpires \/ WaitExpires \/ DeadlineWake

Next ==
  \/ Client \/ Stop \/ Stopped \/ Reopen
  \/ RunnerStep \/ Provider
  \/ ToolStep \/ Clock
  \/ Crash \/ RunnerFails \/ \E open \in BOOLEAN : Rebuild(open)

Spec == Init /\ [][Next]_vars

\* What the runtime schedules happens: the runner's task runs, a request has
\* an end, a tool returns (it is bounded by a timeout) and its task finishes,
\* timers fire, the supervisor rebuilds a failed runner.
Fairness ==
  /\ WF_vars(RunnerStep) /\ WF_vars(Stopped)
  /\ WF_vars(Provider)
  /\ WF_vars(ToolStep)
  /\ WF_vars(AutoWaitExpires) /\ WF_vars(WaitExpires) /\ WF_vars(DeadlineWake)
  /\ WF_vars(\E open \in BOOLEAN : Rebuild(open))

FairSpec == Spec /\ Fairness

=============================================================================
