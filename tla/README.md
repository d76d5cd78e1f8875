# A TLA+ model of zork

The repository is a Rust workspace: agent processes that run conversations
with model providers and tools (`crates/agent`), a gateway that connects them
to messengers and to a desktop client (`crates/gateway`), and the programs,
clients and interfaces around them. The hardest part is the agent's **session
core**, `crates/agent/src/session`: an event-sourced state machine per session,
driven by one asynchronous task, with tools, timers, clients, crashes and
restarts around it. It is modelled in most detail, and proved about. Around it
stand models of the log on disk, of the supervisor of the sessions, of the
providers' adapters, and of the services that race over shared state: delivery,
status, jobs, connections, profiles, the desktop client, the process that keeps
the others running.

Paths below are relative to `src/`; `state.rs`, `runner.rs` and so on without a
directory are files of `crates/agent/src/session/`. `PROJECT.json` maps every
definition to the lines it translates, and lists the hazards at their lines
with the properties that cover them.

## 1. Inventory

### 1.1 The session core

| component | state | operations | speaks to |
|---|---|---|---|
| fold (`state.rs`, `events.rs`) | `SessionState`: mailbox, active turn and step, pending tools, generation, notices, deadlines | `apply`, one case per `SessionEvent`; `planned_deliveries`, `outstanding` | nobody: a pure function of the log |
| decision (`decision.rs`) | none | `decide`: state, live calls and clock to one of ten decisions | fold |
| runner (`runner.rs`) | the folded state, a command queue, a tool result channel, the request under way | `run`, `start_step`, `complete_step`, `handle_command`, `apply_context`, `append` | all the others |
| tool executor (`executor.rs`) | table of live calls, concurrency limits | `dispatch_batch`, `cancel`, `cancel_session_and_wait` | runner (bounded result channel), tool registry |
| tool registry and tools (`tools.rs`) | tools and their versions; no state of the files | `execute`, one function per tool | file system, processes |
| supervisor (`supervisor.rs`, `service.rs`) | one slot per session: Unchecked, Recovering, Active, Idle, CircuitOpen, Unavailable, Deleting; the global queue | create, submit, cancel, delete, shutdown, start-up discovery, rebuild after a failure | runners, store, deadlines |
| deadline scheduler (`deadline.rs`) | heap of armed deadlines | `arm`, `cancel_session`, `run` | runners (arm), supervisor (wake) |
| store and log (`store.rs`, `log.rs`, `compression.rs`, `query.rs`) | segments of JSON lines, snapshots, cached tails | append and sync, snapshot, background compression, forward and reverse reads | runner, recovery, queries |
| recovery (`recovery.rs`) | none | newest usable snapshot plus the commits after it | store, supervisor |
| context (`context.rs`, `projection.rs`) | none | the request made of a generation, what a compaction retains, what a summariser is shown | runner |

How they interact: a client's request reaches the supervisor, which finds or
activates the session's runner and puts a command in its queue. The runner
loops: take the commands that wait, read which calls are live, collect the
results that wait, decide, carry the decision out, which nearly always means to
append a batch of events and fold it. While a request to the provider, a
backoff or a rest is under way it goes on receiving commands (and results).
Tools run as tasks of their own and answer through a bounded channel.
Deadlines are armed with the scheduler, which wakes the supervisor, which
wakes the runner.

### 1.2 Around the core

| component | state | interactions that matter |
|---|---|---|
| model providers (`crates/agent/src/provider`) | Codex: a cached websocket per session and profile, with the continuation of the last response; others: none | the runner may drop a request at any point; a stream may end, break or repeat at any point |
| agent HTTP service (`crates/agent/src/http`) | none; the event stream joins the log and a bounded broadcast | the gateway's subscription |
| delivery (`crates/gateway/src/delivery.rs`, `agent.rs`, `socket.rs`) | a row per conversation, inbound records | reads the row, calls the agent over HTTP, writes the row; several tasks at once |
| status projection (`status_projection.rs`) and the hub of `crates/slack` | cursor, running calls; last, pending and flying status | agent's stream, Slack |
| jobs (`jobs.rs`) | a row per job, a process, tasks that watch it | the agent hears of a job's end |
| connections (`connections.rs`, `socket.rs`) | a file, runtimes, health, one task per connection | HTTP requests, a reloading loop, hand edits |
| local messenger (`http.rs`) and the desktop client (`crates/zork-gui`) | visible messages; pages, event stream, optimistic rows; the composer's text | requests in flight while the user moves on |
| choice of a session's profile (`agent.rs`, `admin.rs`, `http.rs` of the gateway) | the conversation's row, the session's own selection | pages, clients and first messages choose at once, each awaiting the agent between what it read and what it writes |
| profiles (`crates/profile`) | a document per profile with its credential | executions, probes, puts and deletions, without a lock |
| launcher (`crates/zork`) | two children, pid files, one reload at a time | signals, exits, its socket, the gateway's admin page |
| the rest | see section 6 | |

### 1.3 What makes each component correct

* **Fold.** A call is answered in the transcript exactly once, what belongs to a
  turn ends with it, an input or result that is no longer pending was shown to
  the model; through request, failure, retry, context operation and exit.
* **Decision.** Retries are bounded, a cancelled turn does nothing but close, a
  session rests only when it has nothing to do.
* **Runner and executor.** A real result is never replaced by "interrupted". A
  cancellation in the log stands. A rest ends when there is work. A stop does
  not wait for ever.
* **Supervisor.** One runner per session; commands take effect at most once and
  as answered; failures are rebuilt a bounded number of times; a restart loses
  no work; no slot is stuck in a transient status; places in the queue return.
* **Scheduler.** Every wait whose deadline has passed is noticed.
* **Store and recovery.** What was acknowledged survives a crash at any point of any
  file operation; compression and recovery show nowhere.
* **Context.** The retained suffix cuts no call from its answer, fits its
  bound, and repeats nothing.
* **Providers.** An answer is the whole answer to the request that waits, and a
  failure is of the right kind.
* **Tools.** A call runs the version its agent knows; an edit changes what it
  found and nothing else; all output of a command is in its result.
* **Gateway.** A message that is acknowledged was heard, once; a row names a live
  session; the status shown is that of the log; a job's row tells of its
  process; a connection's task runs with what is configured; a row says what its
  session works with, and the best profile is chosen.
* **Client, profiles, launcher.** Rows on screen belong to the conversation and are
  complete; a configuration goes with its own credential; one process of each
  name.

## 2. Modules

    SessionState        the durable state and its fold
      Decision          decide
        Runner          loop, tools, clock, faults: the agent's session
          RunnerProperties        what it promises, on its state
            RunnerHistory         the promises that need the past
              RunnerContract      Runner implements SessionContract
    SessionContract     the abstract session
    SegmentLog          segments, streams of commits, recovery (operators)
      SegmentStore      writer, compressor and query on one directory
        SegmentPromises           ... which implements DurableLog
    DurableLog          the abstract log
    Supervisor          one session's slots and everybody who works on them
      SupervisorPromises
    Delivery  StatusFeed  Jobs  Connections  Launcher  Deadlines
    CodexConnection  ModelAnswer  LocalChat  TextBuffer
    Credentials  ToolCatalog  Workspace  Retention  Selections
                        one component each, with its properties at its end
      DeliveryPromises  the properties of Delivery
    Services            Delivery, StatusFeed, Jobs, Connections, Workspace,
                        Launcher, Deadlines, side by side, with fairness
    Endpoints           the other components and Workspace, side by side
    RunnerProofs, SupervisorProofs, DeliveryProofs, ServicesProofs,
    EndpointsProofs, SegmentProofs, RetentionProofs     proofs
      FoldFacts           what a fold computes, which the last two instantiate

Two ways of composition are used. `Runner` contains the fold and the decision,
and its appends are one action each; that this is justified is what
`SegmentPromises` shows of the store. Components that share no state are put
side by side in `Services` and `Endpoints`: a behaviour is one component's, with
the others in one of their initial states, so that the states add up and do
not multiply.

### 2.1 The session

**SessionState** is a record and one operator per event. The record's fields are
those of `SessionState`; `FieldTypes` says which is which. Inputs and calls are
numbers in the order in which their IDs are drawn. A generation's entries are
abstracted to what is read of them: the inputs and results it holds
(`genInputs`, `genResults`), the calls not answered in it (`open`) and the last
answer's calls (`latest`). A deadline is known by whether the clock has
reached it. Notices are known by their nature: information, an *anomaly* when
the fold diagnosed an impossible event, *stray* when a result answers nothing, and
*unknown* for what the fold reports of the result of a tool that is not registered
(`Diagnosed`; `fold_tool_state`, `state.rs:845`). A model can name such a tool: the call
is not rejected, the executor lets it fail, and the fold finds no versions to compare. Which
tools are registered is fixed: they are put in at the start and none is taken out.

**Decision** is `decide` with the branches in its order. Its only free input is
whether the token estimate exceeds the budget, possible only with an anchor.

**Runner** has the durable state `s`, the volatile state of loop and tools, and
one action per step:

| code | model |
|---|---|
| top of the loop, `runner.rs:183` | `pc = "drain"`: commands are received; `Snapshot` reads the live calls, `Collected` ends the emptying of the channel, `Act` decides and carries out |
| retry backoff, `runner.rs:648` | `pc = "backoff"`, with the step planned before it in `plan` |
| the request under way, `runner.rs:560` | `pc = "stream"`, its end one of `Answer`, `Document`, `NoDocument`, `Failure` |
| cancel calls of an answer, `runner.rs:802` | `pc = "control"`: request and answer, one call at a time, then the dispatch of the rest |
| rest, `runner.rs:337` | `pc = "parked"`, or `"idle"` when the runner exits |
| `handle_command` | `Input`, `SetSelection`, `SetContext`, `CancelTurn`, `Stop` |
| tool task, `executor.rs:161` | `ToolReturns`, `ToolSends`, `ToolLeaves` |
| clock and scheduler | `AutoWaitExpires`, `WaitExpires`, `DeadlineWake` (how the wake comes is Deadlines') |
| kill and restart, `supervisor.rs:501` | `Crash`; `last` says whether the start-up shortcut applies |
| failure and rebuild, `supervisor.rs:678` | `RunnerFails`, `Rebuild`; live tools become `orphans`, their channel has no receiver |

A commit, append and fold, is one action. The runner is the log's only writer,
so whatever another task does while an append is awaited it could as well do
before or after; an append that fails is the runner failing without the commit.
The queue in front of the runner adds delay only: a command is handled where the
runner receives it. A compaction may retain any part of a generation, which
includes the suffixes `context.rs` computes (Retention has those).

**SessionContract** is what a client and a tool may rely on, with no runner in
it: an input waits, is read with the whole mailbox, may be given back; a call
opens within a turn, settles once, is closed; a cancelling turn requests
nothing, opens nothing and ends cancelled. **RunnerContract** maps the runner's
state to it.

### 2.2 The log

**SegmentLog** has files as sequences of lines (an event with its sequence number
and its place in a batch, or a snapshot) and a flag for an unfinished line; the
two streams of `log.rs`, snapshot windows, and `recovery.rs` as operators over
them. **SegmentStore** has three actors on the directory. The writer cuts a torn
tail and finds the last number (`Begin`), writes a batch line by line
(`AppendBatch`, `AppendSnapshot`, `WriteLine`) and syncs (`Acknowledge`); a kill or an I/O
error may fall after each. The compressor reads the active segment, lists the
sealed ones, packs, renames, removes (`ScanActive`, `ListSealed`, `Pack`, `Rename`,
`RemoveSource`). A query lists and then opens one segment after the other (`Ask`,
`ReadAfter`, `CountSegment`, `TakeSegment`). **DurableLog** knows batches that enter a
log whole, stay, and are what a recovery folds; `SegmentPromises` gives the
mapping.

### 2.3 The supervisor

**Supervisor** has one session's slots (a deleted one's successor is another), the
map, the runners as their supervisor sees them, the channels, and *actors*: the
requests of clients and wakes, the start-up scan, the rebuild and the shutdown.
An actor is at the await where the code would be, so that status, channel and map
may change between its steps.

| code | model |
|---|---|
| `create_session`, `try_global_capacity` | `Insert`, `Admit` |
| `ensure_active`, `recover_state`, `activate` | `EnsureActive`, `Recover` / `RecoveryFails`, `Activate` |
| `dispatch_external`, `send_internal` | `Dispatch`; `Reserve`, `TakePlace`, `SendInternal` |
| `delete` | `MarkDeleting`, `SendStop`, `Join`, `Detach`, `Forget` |
| the runner's task, `runner_exited` | one action per exit, the status checked again under the lock |
| `start_discovery`, `check_discovered` | `Discover`, `Enlist`, `Check`, `Glance` |
| `shutdown`, twice | `Shutdown`, `ScanEnded`, `Look`, `Again` |
| a dropped HTTP future | a client that leaves at any await |

**Deadlines** has several sessions, each with its wait and its runner's queue, the
scheduler (`TakesCommand`, `FallsDue`, `Pops`, `SendsWake`), and the supervisor's
loop of wakes (`TakesWake`, `Looks`, `Delivers`), with all three queues bounded;
runners fail, sessions are deleted, the agent starts again.

### 2.4 The services (`Services`)

* **Delivery**: one conversation of a messenger. The tasks `socket`, `job`,
  `reset`, `delete` step from await to await: read the row, ask the agent, write
  the row. A request may fail before or after its effect, a task may be dropped,
  the gateway killed; the messenger repeats what was not acknowledged.
* **StatusFeed**: the agent's log and broadcast, the stream that joins them, the
  gateway's subscription with its cursor, the projection, the hub that sends
  one status at a time.
* **Jobs**: a job's registration, process, polling watcher, 12-hour timeout,
  cancellation, notification, and the restore after a kill.
* **Connections**: the file, the runtimes, the health, the loop that reloads and
  reconciles, requests that change the file and may be dropped half way.
* **Workspace**: calls of `file.read`, `file.write`, `file.edit` and `shell` with
  their blocking threads, process groups and output collectors, under the
  executor's timeout and cancellation; pages of a growing output.
* **Launcher**: the loop of `zork`, the controlled restart step by step, the ready
  files, signals and the reload socket.
* **Deadlines**: see above.

### 2.5 The endpoints (`Endpoints`)

* **CodexConnection**: a session's cached connection and continuation; full or
  incremental input; failures, aborted requests and changes of the effort.
* **ModelAnswer**: the answer of a Responses, Completions or Messages provider
  from its events (mixed, cut, repeated) through the accumulator to outcome and
  transcript items, and how these are presented to any API later.
* **LocalChat**: the gateway's visible messages, pages and event stream, and the
  desktop client's rows, flags and requests in flight, while the user moves between
  conversations, sends, scrolls, cancels and changes the model.
* **TextBuffer**: the composer's text with byte offsets, UTF-16 ranges and
  graphemes, selection and marked text; `Reference` says on characters what each
  edit should do.
* **Credentials**: one profile's document between executions, probes, puts and
  deletions, with a provider that rotates tokens.
* **ToolCatalog**: the registry's versions, what a session knows of them, requests
  and calls in flight while tools are replaced and removed.
* **Retention**: a generation as a sequence of entries with sizes; `RetentionStart`,
  the summariser's input, compactions that fail, are cancelled or overtaken by
  results, and the later requests.
* **Selections**: which profile, model and thinking level one conversation's session
  works with. The administration's page (`Page`; `update_session_selection`), the
  desktop client (`Desktop`) and a first message (`Message`; `ensure_binding_session`)
  each go from await to await: list the profiles and choose (`List`, with
  `ResolveSelection` and `DefaultSelection`), mark the conversation as blocked
  (`Block`), let the agent check the choice (`Validate`), then take it and read it back
  (`UpdateSelection`, `ReadBack`) or open a session (`AgentOpens`), write the row (`Write`).
  A request may be cut short at each (`Cut`), and profiles are put, deleted and probed
  meanwhile. The desktop client's creation of a conversation is left out: its row is its own
  until it answers, and is deleted when the agent refuses (`agent.rs:195`).

The operators marked *Mutant* beside a definition are deliberate mistakes, at
least one for each property. Put in the definition's place they make TLC report the
property violated: evidence that the property can fail and that the bounds
reach the case.

## 3. Runs

The bounds are small and each run narrows the kinds of events to those of its
question, since it is their product that grows. `CHECK_DEADLOCK FALSE` is said
everywhere because every one of these systems really stops: a session at rest
whose inputs are used up, a service that nobody asks for anything, have no step
left. Only `supervisor` uses symmetry: its two clients are alike, and it checks no
liveness.

| run | bounds | what it shows |
|---|---|---|
| `tools` | 2 calls in one answer of every kind, a channel for 1 result, 1 crash | tool tasks, cancel calls, calls of unregistered tools and a crash interleaved with the loop: types, the fold diagnoses nothing but results of unregistered tools (`NoAnomaly`), no false "interrupted" (`NoFalseInterrupt`), a runner at rest owes nothing (`RestOwesNothing`) |
| `turns` | retry limit 3, transient and permanent errors, calls of registered and unregistered tools, 1 crash, cancellations | `RetriesBounded`, `CancelStands`, `CancelledResultsWait` |
| `context` | overflow and transient errors, compaction and handoff, early acknowledgements, 1 call per answer | no input or result is forgotten on its way to the model (`NothingForgotten`), and every step is one of SessionContract (`ContractHolds`) |
| `faults` | documents that are malformed, cut or refused, calls of unregistered tools, 1 crash and 1 runner failure, stops, cancellations, changes of strategy | `NoInvariantFailure`, `RequestsPaired` |
| `progress` | fair; 1 input, 2 calls, 1 crash | `InputsReachProvider`, `CallsSettle`, `CommandsComplete` |
| `segments` | fair; 3 sequence numbers, batches of 2, usable and unusable snapshots, 1 kill or I/O error, queries forward and backward with limit 1 | the files implement `DurableLog` (`DurableLogHolds`); both ends of a log agree and nothing is lost (`LogWhole`); queries return exactly a piece of the history (`QueriesExact`); sealed segments get packed (`SealedPacked`) |
| `supervisor` | 2 clients of every kind, queues for 1, failing appends, 3 runners | `Ownership`, `TruthTold` |
| `answered` | fair; 1 client that may leave, 2 failures, a circuit that opens at the first repeat | `LimitsHold`, `EverythingEnds`, `WorkHasRunner` |
| `services` | fair; per service: 1 message with a reset, a deletion and a job's end, 2 faults / 3 events, a broadcast that keeps 1, 1 break / 3 job requests, 2 faults / 2 settings, 2 edits, 1 dropped request / 2 calls of a tool / 2 clients of the socket, 2 exits / 2 sessions, queues for 1, 2 orders, 1 end | `DeliverySafe`, `ComesThrough`; `StatusFollows`; `JobStatusHonest`, `JobEndTold`; `ConnectionsFollow`; `LauncherHonest`; every call of a tool returns, and the launcher and the deadlines come to rest (`ServicesRest`) |
| `endpoints` | 3 requests on a connection / 2 conversations, pages of 2, 4 clicks / texts of 3 characters of 1 to 3 units / 2 workers, 2 puts / 2 tool versions, 2 calls / 2 concurrent calls / 3 answers, results of two sizes / answers of 2 items in 2 parts / 2 profiles, one by subscription, 2 models, what is left 0 to 2, 2 choices, 1 change of the profiles, 1 cut | `CodexExact`, `ChatHonest`, `EditorHonest`, `ProfileHonest`, `CatalogHonest`, `WorkspaceHonest`, `RetentionHonest`, `AnswersExact`, `ChoiceHonest` |
| `stale_answer` | CodexConnection as in `endpoints` | violated: `AnswerOwn`, section 4 |
| `torn_segment` | SegmentStore without queries, 4 sequence numbers | violated: `Appendable`, section 4 |

**Why the bounds suffice.** Limits are set below the code's (ten retries, three
attempts, hundreds of places in a queue) so that exhausting them is reached. The
properties speak of one call, message, profile or conversation, or of one and
another that gets in its way; two of each reach both roles. One crash can fall
between any two steps, and the state after it is again a state of the model,
except for what a second crash finds half recovered: the log, where that
matters, has the writer die at every line and the compressor at every file
operation. `answered` sets the number of equal failures to one, since a circuit
that opens at the right repetition is the same for one and for five. For each
property a mutant shows that its case happens within these bounds.

**Fairness** is stated for what a runtime, a timeout or an executor guarantees, and
for nothing a user, a network, a crash or a failure does.

* `progress`: the runner's task runs when it can; a request ends, because the
  provider client has timeouts; a tool returns, because `execute_supervised`
  bounds it (`executor.rs:54`), and its task goes on; timers fire; the supervisor
  rebuilds a failed runner. A session stopped or with an open circuit is out of
  service (`OutOfService`) and promises nothing until it is used again.
* `segments`: the compressor's task.
* `answered`: the supervisor's tasks are scheduled, a runner takes its commands, and
  a client that does not leave goes on. The properties exempt `Abandoned`, a client that left
  while it held the slot for everybody, and `Bounded`, no runner left in the model.
* `services`: each service's own tasks. Every property names its service; one
  behaviour is one service's, so the others' fairness says nothing of it. In the
  launcher children that were told to end do, and the loop and the listener go
  on; disturbances are bounded, so weak fairness suffices. In the workspace the
  executor's timeout fires and threads run. In the deadlines the delivery of a
  wake has *strong* fairness: a runner that finds nothing to do ends before the
  wake gets in, the supervisor activates the session and tries again, and each
  try finds an empty queue. `DeadlinesMet` exempts two states, `CircularWait` and
  `LeftAside`; see below.

## 4. Where code and documentation part, and what else was seen

Two runs state what the documentation says, and TLC shows a behaviour of the code
that does otherwise.

* `torn_segment`. `docs/zork-agent-architecture.md:196`: anomalies of format and order only make a diagnosis
  and do not disable the session as long as the rest suffices to recover. A kill
  while the first line of a new segment is written leaves it without a line; the
  next append cuts the tail, `last_sequence` (`store.rs:377`) finds the active segment empty and
  refuses, this time and every time.
* `stale_answer`. `docs/zork-agent-architecture.md:208` gives cancellation and the reclamation of connections
  to the gateway of the provider, and `model.rs:53` says correctness depends on no
  suggestion. An aborted request leaves its events in the socket, and the
  session's next request takes them for its answer.

The following behaviours of the code were met while modelling. Each is in the
models, outside what the properties claim, and can be seen with the named change,
or by stating its negation as an invariant of the component.

**Session.** `CancelQuiet` (RunnerProperties; doc :383, a cancellation causes no
request) fails in `turns.cfg`: a notice of an earlier failure starts a new turn,
since only a *failed* turn silences notices (`decision.rs:185`). In the same way the late
result of an unregistered tool starts a turn after a cancelled one, though the results of
cancelled tools should wait: what the fold reports of it is a notice (`state.rs:846`). `TranscriptPaired`
(doc :224) fails in `tools.cfg`: the successful `end` of a turn is dropped with it
(`state.rs:315`) while its call stays in the transcript. `ResultsHeard`
(RunnerHistory; doc :240) fails in `context.cfg`: a failure gives back inputs but
not results. Inputs come back only when the request was too large: those of a request
that was interrupted or failed otherwise stay in the transcript alone (`stranded`), and
a context exit without a document, which retains nothing (`runner.rs:880`), drops them unheard. `RetriesBounded` fails with `"overflow"` among the errors, since a
context exit resets the count (`state.rs:976`). `CallsSettle` fails in `progress.cfg`
with `"ack"` among `Kinds` and `MaxFailures` 1 (doc :369): a tool outlives its failed
runner, its result goes to a closed channel (`executor.rs:174`), the rebuilt runner saw it
live and parks. With `"ack"` and `MaxInputs` 2 `InputsReachProvider` fails across a crash, since
start-up takes an acknowledged turn as the end of the session's work
(`supervisor.rs:515`; doc :398).

**Deadlines.** `CircularWait`: a runner waits for room in the scheduler's queue, the
scheduler for room in the supervisor's wake queue, and the supervisor for room in
that runner's queue; nothing resolves it (`MaxOrders` 7 and `MaxEnds` 0 reach it
by simulation of the invariant `~CircularWait`). `LeftAside`: after a restart a
session whose last commit finished its turn is not looked at, though a wait that a tool set
is left (`check_discovered` and `requires_runner` disagree). Every park arms again, so the heap grows
with each loop of a waiting runner.

**Supervisor.** `CircuitHolds` fails without the exemption of a shutdown (failures
are not counted then) and with failing appends (`Kinds` `{"input"}`, `Stages`
`{"append"}`, `MaxFailures` 3, `MaxRunners` 4): a fault that cannot be written is not counted. A
client that goes away during a recovery leaves the slot in Recovering; a delete
that fails in `detach` leaves it in Deleting until the next start. A lookup or the
scan that races with a deletion or a failed creation leaves a slot without a
session. A scan that cannot list the sessions ends without a word (`supervisor.rs:459`): work in
the log then waits until someone asks for the session (`Undiscovered`, which `WorkHasRunner` exempts). `ensure_active` does not ask whether the supervisor is stopping.

**Log.** A query that lists the segments and then opens them may answer that the
history is gone when the compressor replaced one in between.

**Delivery.** A kill or a lost answer between the deletion of the agent's session and
the clearing of the row leaves a row whose conversation can only be freed by
another reset (`delivery.rs:283`). Two first messages create two sessions, of which one is
not used (`agent.rs:165`). A deletion removes the subscription after the row. A local reset
clears the ID before a request that may fail. `update_local_im_selection`
(`http.rs:244`) may write back a deleted session's ID. `post_local_im_message` shows a message
whose append failed.

**Status.** A status equal to the last one sent is dropped while another is in
flight; a failed status is not sent again; a restart forgets what is shown; a
reconnection resets the projection; a tool's result after the end of a turn shows
"Thinking..." (`status_projection.rs:499`, as its test at :703 says).

**Jobs.** A notification writes back the status it has read; a timed-out job goes on
running and cannot be cancelled any more; a cancellation may come before the
process; a cancellation whose request is dropped leaves "running", and so does a
crash for jobs that are not restarted; a second process may run beside a
killed gateway's orphan.

**Connections.** Two changes, there and back, between two looks of the loop leave
the task as it was (`returned`). A task that ended late overwrites the health
of a disabled connection. Hand edits and requests overwrite each other.

**Codex.** The comment near `codex_responses.rs:884` says a ping resets the idle time; the
pump (:128–185) keeps pings to itself.

**Other providers.** A Responses stream that completes without its last item's
`output_item.done` is not noticed, and `AnswersExact` allows it; an incomplete answer with a gap is a transient failure,
not one of the document; texts are joined in the order of arrival and items by
index; a break after the terminal event discards the whole answer.

**Desktop client.** Selecting a session loads a page while events arrive, so that
rows may stand twice; a failed catch-up loses messages; a lagged broadcast is
skipped silently; a page of older messages that was under way while the pages were loaded anew leaves
a gap, and joining by overlap drops a genuine equal row; two equal messages
that wait are shown as one, and a failure removes both; a text whose sending
failed is lost when the user has left the conversation, and otherwise replaces
what was typed since. In the composer, cutting while text is marked copies the
selection and deletes the marked text; a caret may stand inside a grapheme.

**Profiles.** `load_selected` writes a whole document without comparing: a put in between
is lost, a deleted profile comes back. A probe whose second request fails
discards the token it has just rotated (`openai.rs:113`), and so do a cancelled turn
and a crash. One of two concurrent renewals records a failure of a profile
that works. `refresh_all` gives up on the rest when a profile vanishes.

**Selections.** Two requests that overlap leave a row that says one thing and a
session that does another, or a session that no row names; a first message that finds
no profile marks the conversation as blocked after a page has bound it. A request
cut short after the agent took its choice leaves the row behind. `RowCurrent` exempts
both (`raced`, `torn`). A model without limits is valid, listed, and taken for the
default, and the agent refuses it (`profiles.rs:113`); the conversation is then not marked as blocked,
and `DefaultFound` claims no more.

**Workspace.** A write whose call was cancelled or timed out still happens
(doc :333); two writers can mix contents, an edit can lose another's, a reader may see an
empty file. The limit of a shell command does not bound a child in the background that
holds its pipe, and a child survives the cancellation after its shell has ended.

**Tools' versions.** A result that arrives while a request is under way updates
what the session knows, so that a call written for the old version runs as the new one
(`runner.rs:1255`, `state.rs:833`).

**Launcher.** A signal that arrives during a restart, or together with another
event, is dropped with its future. A failed restart waits for the failed child
without limit. A start that fails in the loop ends the process and leaves its socket and pid files.
The admin page never hears "ok" (`admin.rs:804`), which `ReloadTold` states. A killed
launcher leaves its children.

**Compaction.** With provider call IDs that repeat, `open` closes at the first
result, against the comment at `context.rs:20` (the model takes IDs to be distinct).
Inputs that an overflow gave back stand twice in the entries (`twice`). Each
compaction opened and cancelled appends waiting results again as notifications. An
entry too large for the summary drops itself and everything before it.

## 5. Proofs

TLAPS proves, for every number of inputs, calls, crashes and failures and every
set of kinds, errors and commands the assumptions admit; of the session's files for any
sequence numbers, sizes of batches, kinds of snapshots, queries and faults; of compactions for any
limits and sizes of results; of the supervisor for any
clients, limits and number of runners; of the messages of a conversation for any
messages, sessions, requests and faults; of a background job for any number of requests and
faults; of the status feed for any number of events and losses; of the workspace for any calls
and outputs; of the launcher for every
set of clients; of the tool catalog for any tools, versions and calls; of a profile for any
accounts, workers, puts, renewals and losses; of the Codex connection for any profiles, requests
and faults; of the client's view of its conversations for any conversations, events and
messages; and of the selections for all profiles, requests and sessions:

| Theorem | States | In |
| --- | --- | --- |
| `TypeCorrect` | `Spec => []TypeOK` | RunnerProofs |
| `NeverFalselyInterrupted` | `Spec => NoFalseInterrupt` | RunnerProofs |
| `InvariantsNeverFail` | `Spec => []NoInvariantFailure` | RunnerProofs |
| `CancellationStands` | `Spec => CancelStands` | RunnerProofs |
| `LateResultsWait` | `Spec => CancelledResultsWait` | RunnerProofs |
| `RequestsAreWhole` | `Spec => []RequestsPaired` | RunnerProofs |
| `NothingSurprises` | `Spec => []NoAnomaly` | RunnerProofs |
| `NothingOwedAtRest` | `Spec => [](failed = 0 /\ (crashes = 0 \/ "ack" \notin Kinds) => RestOwesNothing)` | RunnerProofs |
| `RunnerImplements` | `Spec => ContractHolds` | RunnerProofs |
| `RetriesStayBounded` | `HSpec => []("overflow" \notin Errors => RetriesBounded)` | RunnerProofs |
| `NothingIsForgotten` | `HSpec => []NothingForgotten` | RunnerProofs |
| `LogIsWhole` | `Spec => []LogWhole` | SegmentProofs |
| `SegmentsAreDurable` | `Spec => DurableLogHolds` | SegmentProofs |
| `CompactionKeepsWhole` | `RetentionSpec => [](Paired /\ Shrinks /\ ResultsKept /\ InputsOnce)` | RetentionProofs |
| `RetentionIsHonest` | `SummaryBudget >= 2 => (RetentionSpec => []RetentionHonest)` | RetentionProofs |
| `OneOwnerAtATime` | `Spec => []Ownership` | SupervisorProofs |
| `ClientsHearTheTruth` | `Spec => []TruthTold` | SupervisorProofs |
| `PlacesComeBack` | `Spec => []PlacesReturn` | SupervisorProofs |
| `LimitsAreKept` | `Spec => []("append" \notin Stages => LimitsHold)` | SupervisorProofs |
| `MessagesAreSafe` | `DeliverySpec => []DeliverySafe` | DeliveryProofs |
| `StatusIsFollowed` | `DeliverySpec => FollowedWhenHeard` | DeliveryProofs |
| `JobRowIsHonest` | `JobsSpec => []JobStatusHonest` | ServicesProofs |
| `EventsComeInOrder` | `FeedSpec => FeedExact` | ServicesProofs |
| `CommandsEndWhole` | `WorkspaceSpec => [](OutputWhole /\ QuietAfter /\ PagesJoin)` | ServicesProofs |
| `WritesStayWhole` | `WorkspaceSpec => []((\A c \in Runs : call[c].kind # "edit") => FileWhole)` | ServicesProofs |
| `LauncherIsHonest` | `LauncherSpec => []LauncherHonest` | ServicesProofs |
| `AgentsAreTold` | `CatalogSpec => []CatalogHonest` | EndpointsProofs |
| `ProfilesAreHonest` | `CredentialsSpec => []ProfileHonest` | EndpointsProofs |
| `AnswersAreOwn` | `CodexSpec => []CodexExact` | EndpointsProofs |
| `ButtonsComeBack` | `ChatSpec => [](FlagsHonest /\ ChoiceKept)` | EndpointsProofs |
| `RowIsHonest` | `SelectionsSpec => [](RowTaken /\ RowCurrent)` | ServicesProofs |

The assumptions are `BoundAssumption`, `LimitAssumption`, `RunnerAssumption`, `SegmentStoreAssumption`,
`SupervisorAssumption`, `DeliveryAssumption`, `LauncherAssumption`, `WorkspaceAssumption`, `CodexAssumption`, `ChatAssumption`, `RetentionAssumption` and `SelectionsAssumption`, on the
constants only; TLC evaluates them in the runs.

*Types.* `RunnerProofs` begins with one lemma per event of the fold: it maps a state to a state.
The state is typed by a record of sets, so that a proof about an event needs the
types of the fields the event changes and no others. The module then takes
the next-state relation apart; `DecideMeans` says what each decision presupposes.

*No false interrupt.* `NoFalseInterrupt` is about one step; the invariant `Watch`
carries what the loop has established before it: while collecting, the task of
a call that is neither settled nor in the snapshot is over; at the decision,
the channel does not hold its result either. It is inductive because a task
that is over never starts again and puts a result in the channel before it is
over, and this is why the order snapshot, then channel, matters.

*Turns.* `TurnInv` is `NoInvariantFailure` and that no backoff and no request is
under way in a cancelled turn; the second part is what makes the first inductive
across `RetryStep`, which starts a step without deciding again. The two
action properties about cancellation follow from it and from `DecideMeans`.

*Pairing.* `Paired` says of the transcript what the fold keeps true with each event:
a pending call is marked as sent if and only if it is answered there, an open call that is
not pending was an `end`, and what still wants an answer (`Owed`) is nothing while a request
is out and, during a context operation, only what its own last answer called. One lemma per
event carries it; `PlanWaits` adds that a retry which waits includes what is pending.

*Tasks.* `TaskInv` follows a result through the executor: a call has one task at most, a
task that has not handed its result over belongs to an unsettled call unless its
runner is gone (`orphans`), what lies in the channel is the first result of an
unsettled call, and a call the loop is about to dispatch has no task yet. With
it every event finds the state the fold expects (`NoAnomaly`: what the fold diagnoses all the
same is the result of a call of an unregistered tool, `Named` says that such a call has its
result, and results stay), and at rest every
missing result has a live task or lies in the channel. The theorem about rest excludes
exactly the two cases in which TLC refutes the formula: a runner that failed (its tasks answer a closed
channel), and an acknowledged turn across a crash (start-up does not look at it again);
both are described in section 4.

*Contract.* `RunnerImplements` is the refinement step by step: the initial states map to
initial states, and each action maps to a step of `SessionContract` or leaves its
variables alone. It needs, besides the invariants above, `Mail`: the mailbox holds
only accepted inputs and what is under way came from it.

*Past.* `RowInv` relates the history's count of failures in a row to the
session's own, which the code compares with the limit; `"overflow"` is excluded since
the count begins anew with a context exit. `ToldInv` adds to
`ResultsTold` that a result in the generation was sent, or is still pending, or
that the generation is new and the next request holds all of it; `HeardInv` adds to
`InputsHeard` that only a request of the conversation has taken inputs, and
that one whose size was refused is over when the next begins.

*Segments.* `SInv` speaks of the files, the writer and the compressor. `Tidy`: the lines of a file
follow each other, its name is the number of its first line, it ends before the next file begins,
a packed file has the same whole batches as its plain one, and the last file is never a packed one alone.
`Appending`: the batch under way continues the active file, as far as it has been written.
`Remembers`: a sequence number the store remembers is the last of the active file. `Compressing`: what is to be packed is sealed, and
its plain file is removed only once the packed one is in its place. The log, `LogOf`, is what is read
forward from all files; `LogSame` says that it depends on nothing but the whole batches of each
file, which is why cutting a torn tail, packing and removing show nowhere. `Folded` relates
it to the writer: `Sound(log)` says that each snapshot carries the events before it, so a
recovery from any snapshot, over the unusable ones it passes, ends with the events of the whole log
(`Recover` then rebuilds what was written). That a file reads the same from both ends is shown line by line: how the
stream that reads backward stands after each line is said in terms of the lines alone.

All readers are folds, and an induction over data can be had without the library's theorems
about predicates: `FoldFacts` proves it for a set of numbers or sequences (`Induct`,
`SeqInduct`), from the well-foundedness of the numbers, and says what a fold does with one more element.
The operator is a constant of that module, and `SegmentProofs` instantiates it for each reader.
`SegmentsAreDurable` is then the refinement step by step: the line that completes a batch puts
it into the abstract log, the appender's return acknowledges it, a recovery folds it, and everything else changes
nothing of `DurableLog`.

*Compaction.* `Threads` reads the entries of a generation as calls and tool messages: a call is made
once, told once, and told after its answer with no other answer between; one that is fresh was not told,
and its answer is the last. It is inductive because the entries change in four ways, each a
lemma about sequences: an answer is appended when nothing is fresh (`ThreadsAnswer`); what is told of pending
calls is appended and the fresh are told by it (`ThreadsFollow`, with `DeliveriesTell` on what a delivery
says); everything up to a place where no call is open is cut off (`ThreadsCut`, the guard in
`retention_start`); and inputs that were given back are left out (`ThreadsThin`, by induction over the
entries kept). `Cutting` says that nothing changes between the choice of the cut and the
summary. `InputsHeld` follows an input that was given back: until the compaction it called for,
it lies in the mailbox and in the entries, so a turn that ends in between adds it to `twice`. The size
is a sum over a sequence; a suffix is no larger than a longer one (`RestSmaller`).
`SummaryFits` alone needs its hypothesis: each excerpt of the preamble ends with a mark of omission, which
the limits do not count.

*Supervisor.* `OwnerInv` has four parts beside `DeletedQuiet`. `SlotsInv`: a slot that is not in the map
belongs to a deleted session. `RunnersInv`: numbers of runners grow within a slot, and a live one is
its slot's newest while the slot is active or being deleted. `HoldersInv`: who recovers has
the slot in recovering, and is alone. `DeletersInv`: who deletes is alone, works on the
slot in the map, remembers its newest runner, and from the move of the directory on no
runner lives. That wait_for_runner accepts any runner numbered at least as high
is sound because of `RunnersInv`: there is none higher, so it is the newest that is gone
(lemma `Joined`). `Unheld` and `Alone` state what follows for one slot: whoever finds
it idle, or recovers it, has the session to itself.

*Commands.* `TruthInv` adds to it `Honest`: the command of a client lies in one
channel, once, and has had no effect while it lies there; who was refused has none
lying anywhere. A place in the global queue belongs to a command that is about to
be sent or lies in a channel, which is why the places come back. `Listed`: a slot
listed as finished is idle, and its log ends so.

*Circuit.* A failure is counted by whoever comes next, not by the runner that fails,
so `CircuitInv` follows it from hand to hand. Either the log has counted every
failure and they are fewer than the limit (`Even`), or the last one is known to the
runner that left, to the task that rebuilds it or to the new runner's channel,
which then begins with the fault (`Faulty`, `RunnerCounts`, `HolderCounts`); a
channel is passed on only by a runner that is gone. The hypothesis of `LimitsAreKept`
excludes the case in which TLC refutes the formula: a fault that cannot be written is
not counted (section 4). A shutdown is exempted by the property itself.

*Status feed.* An event may reach the stream from the log or from the broadcast. `FeedInv` says
where the two meet: the receiver's part of the broadcast is the last that was published, in
order (`LastPublished`); unless it has lagged, that part begins no later than where the scan
under way will end, or where the live stream is (`Reaches`), so between them nothing is missing; and what
was sent and not received is the event after the cursor (`Streaming`). A receiver that
has lagged sends nothing from the broadcast before the log has been read again, and this is why lag loses no event.

*Workspace.* `WorkInv` has, for each call, what its process group and its thread may be (`Proper`): the
guard that kills the group is armed as long as the shell runs, so a call that ends leaves no shell;
what was killed has no child; and the result of a command that ended has all that was printed, since no process that holds the pipe is left
(`Returned`). The pages join because the log only grows (`Reading`). `FileInv` adds that
while nothing is torn one thread writes at a time, and to an empty file (`WrittenAlone`). Calls that edit are
excluded from `WritesStayWhole`: what an edit writes is computed from what it has read.

*Delivery.* How often a message was heard depends on where it is. `HeardInv` says it
for each place: while the connection is about to hand a message over, the message is not on record,
so it was heard no oftener than answers were lost and records deleted; once accepted and
not recorded, once more; and if the row is gone meanwhile, its deletion allows one. `AckInv`
follows a message to its acknowledgement. For `BoundLive` it must be known who can put a
deleted session into the row: `SessionsInv` says that a session just created is
known to its creator alone (`Fresh`), so that nobody else can have deleted it before it is persisted.

*Status.* `StatusIsFollowed` is about one step; `FollowInv` carries what was read before
it, as long as nothing interfered (`Upset`). `Reader`: who creates a session or clears the row
has read what the row was, and a reset that clears it has deleted the session it read. Hence a
live session is the row's or not yet persisted (`Bounded`), a session about to hear is
the row's, and the reset that follows its session again follows that one (`ResetBound`,
`Following`). An old session that is still about to be told is deleted and does not accept.

*Jobs.* `JobInv` adds to `JobStatusHonest`, which is about a job at rest, what holds while
its writers are at work: a held process is watched and the row says running
(`HeldWatched`), and until it is started there is nobody to watch or time it, and a notification
can only have read registered or cancelled (`StartsAlone`). Each of the five
excuses breaks it at once: a writer that writes what was true when it read (cancelled first,
written back, timed out), a cancellation cut short, a start that does not restore.

*Launcher.* For any set of clients, `LauncherInv` adds to `LauncherHonest`: the
types; `OneAtATime`, that a replacement runs only while the process it replaces
has ended; `Served`, that whom a restart answers is known until it has, and that
what was started for it is fresh; `Deserted`, that the gateway's own client does
not wait any more once the gateway has ended. The last is what makes the answer
to a client true: the second restart of a reload is told to the same listener as
the first, and only a client that is not the gateway's can still be there.

*Tools.* `CatalogInv` adds to `KnownTold`, the half of `CatalogHonest` that is about the
session, what makes it inductive: outside a request, what the session carries was told or
lies in an arrived result the next request tells (`Carried`). Then a call carries
a version its agent was told of or none, which is the other half.

*Profiles.* `CredentialInv` follows each worker from its reading of the document to its write.
`Following`: a worker that might write is marked as overtaken, or the configuration is the one it has read,
and then both are the client's or neither is; this carries `PutLasts` and `StatusOwn` over
the writes. `OneHolder` and `Current`: where a renewal invalidates the older token, the last
one issued is in the document or in the hands of exactly one worker, whose own reading
is then what the document still has; so `CommitAuth` drops a renewed credential only
when the document is of another account, and `TokenCurrent` holds when nobody is at work.

*Codex.* `CodexInv` speaks of a connection on which nothing was aborted while it was read.
`Continues`: what the continuation stands for is what the provider knows behind its id, so the
input sent after it adds up to the whole. `Quiet`: between requests nothing is under way but the
close. `OwnServed` and `OwnFrames`: while a request waits, what the provider serves and what
lies on the socket is the request's, no item is missing between what was read and what was
sent, and behind the end there is only the close. So an end that is read finds all items, and
leaves the connection quiet. An abort in the middle breaks exactly these three, which is why
`AnswerOwn` without the exception is refuted (section 4).

*Local conversations.* `ChatInv` matches each flag that blocks an operation with a request under way
that takes it back when it answers (`Unblocks`), whatever polls, answers and events of the
stream have replaced in the view meanwhile. For the choice of the model it adds that a
conversation has one send at a time unless two crossed (`Lone`), that a choice a request has
brought is the gateway's (`Brought`), and that an unmarked one is not still on its way (`Agrees`).

*Selections.* `RowInv` adds to the two: what a session has it has taken; a request
about to write wants what its session has taken; requests that did not overlap are one at
a time; and how far an undisturbed request has come (`InStep`), either nothing is done and
row and agent agree, or all is done but the row. The last is what carries `RowCurrent`
across the awaits between which row and agent differ. `BestChosen` and `DefaultFound`, which need
the maximum of a finite set, are only model-checked.

Only model-checked: liveness, `SealedPacked` among it (out of the prover's reach); the exactness of the
history queries (`QueriesExact`), which would need the reader's position related to every
append and removal since it asked; `LimitsHold` where appends fail (the half of it
that is true there is `PlacesComeBack`); and the invariants of the
components around the session that the table does not name, or names a part of.

## 6. What is not modelled, and what comes next

Not modelled, and why:

* the domain types, wire formats, API types and clients, configuration, the
  command-line client, packaging, scripts: no control, or pure I/O and formatting;
* layout and painting of the desktop client, the administration pages and the
  handlers behind them except the choice of a selection, the formatting and parsing of messengers' messages;
* of the providers: the HTTP underneath, requests made independently of a
  session, the protocols of the other profile providers, the device-code flow;
* of the tools: search and history, file I/O errors; of Retention: notices, tool
  changes and outstanding calls among the entries; of the deadlines: two waits of
  one session at the same time; of the launcher: its own kill, and a client that
  never sends its line;
* the diagnostics of a recovery, for which an activation puts a fault of its own in the new
  channel first (`supervisor.rs:1040`), and changes of the set of registered tools;
* of the composer: positions inside a character (a caret inside a grapheme is there), and
  ranges of an earlier text that the platform may still hand in; `EditorHonest` is about one
  edit at a time;
* the executor's shared limits, which only delay tasks; usage numbers and texts, which
  influence nothing but the estimate, which is free; wall-clock distances, which are
  abstracted to whether a deadline has passed.

Next: the invariants of the other providers and the rest of the local conversations as theorems. The administration's handlers and the
registry's search tools are the largest parts of the code left.
