----------------------------- MODULE ToolCatalog -----------------------------
(***************************************************************************)
(* What a session's agent knows of the process's tools, while they are     *)
(* replaced and removed: the registry, the versions the session believes   *)
(* known to its agent, the notices and results that tell them, and the     *)
(* calls, which carry the version known when the response is read.         *)
(*                                                                         *)
(* A version is only ever compared.  None stands for a removed tool.       *)
(***************************************************************************)
EXTENDS Integers

CONSTANTS ToolNames,         \* logical tools besides tool.help
          MaxVersion,        \* versions of a tool
          MaxCatalogCalls,   \* calls whose result is not delivered
          MaxReplacements    \* changes of the registry

ASSUME CatalogAssumption == {MaxVersion, MaxCatalogCalls, MaxReplacements} \subseteq Nat

None == 0
Versions == 1..MaxVersion

VARIABLES
  registry,      \* the current version of each tool
  known,         \* the versions the session carries for its agent
  told,          \* the versions the conversation has told of, None for a removal
  awaiting,      \* the running request, if one runs, and what had been told when it started
  learned,       \* what results have made known since then
  invoked,       \* the calls whose result is not delivered, by a number of their own
  replacements

catalogVars == <<registry, known, told, awaiting, learned, invoked, replacements>>

Untold == [tool \in ToolNames |-> {}]
NotAsked == [running |-> FALSE, told |-> Untold]

CatalogInit ==
  /\ registry \in [ToolNames -> {None, 1}]
  /\ known = registry
  /\ told = [tool \in ToolNames |-> {registry[tool]} \ {None}]
  /\ awaiting = NotAsked /\ learned = Untold /\ invoked = <<>> /\ replacements = 0

(* A tool is replaced atomically; a removed one may come back. *)
Replace(tool, version) ==
  /\ version # registry[tool] /\ replacements < MaxReplacements
  /\ registry' = [registry EXCEPT ![tool] = version] /\ replacements' = replacements + 1
  /\ UNCHANGED <<known, told, awaiting, learned, invoked>>
-----------------------------------------------------------------------------
(* A request tells the changes since what is known, and the results that   *)
(* have come in; what it tells counts as known at once.  While a context   *)
(* is being left, it tells no changes.                                     *)
Changes == {tool \in ToolNames : registry[tool] # known[tool]}
Arrived(i) == invoked[i].state = "arrived"
Results == [tool \in ToolNames |->
  {invoked[i].knowledge[tool] : i \in {j \in DOMAIN invoked : Arrived(j) /\ tool \in DOMAIN invoked[j].knowledge}}]

StepStarted(changes) ==
  /\ ~awaiting.running
  /\ told' = [tool \in ToolNames |-> told[tool] \cup Results[tool] \cup (IF tool \in changes THEN {registry[tool]} ELSE {})]
  /\ known' = [tool \in ToolNames |-> IF tool \in changes THEN registry[tool] ELSE known[tool]]
  /\ awaiting' = [running |-> TRUE, told |-> told'] /\ learned' = Untold
  /\ invoked' = [i \in {j \in DOMAIN invoked : ~Arrived(j)} |-> invoked[i]]
  /\ UNCHANGED <<registry, replacements>>

(* The response calls a tool, or asks tool.help for it, or ends without. *)
Invocation(tool, help) ==
  [tool |-> tool, help |-> help, version |-> known[tool], expects |-> awaiting.told[tool] \cup learned[tool],
   state |-> "waiting", ran |-> None, knowledge |-> <<>>]
Unused(i) == i \notin DOMAIN invoked /\ 1..(i - 1) \subseteq DOMAIN invoked
Respond ==
  /\ awaiting.running /\ awaiting' = NotAsked /\ learned' = Untold
  /\ \/ UNCHANGED invoked
     \/ \E i \in 1..MaxCatalogCalls, tool \in ToolNames, help \in BOOLEAN :
          /\ Unused(i)
          /\ invoked' = [j \in DOMAIN invoked \cup {i} |-> IF j = i THEN Invocation(tool, help) ELSE invoked[j]]
  /\ UNCHANGED <<registry, known, told, replacements>>

(* A context exit starts a new conversation, which introduces every tool.  *)
ApplyContext ==
  /\ ~awaiting.running
  /\ known' = registry /\ told' = [tool \in ToolNames |-> {registry[tool]} \ {None}]
  /\ UNCHANGED <<registry, awaiting, learned, invoked, replacements>>
-----------------------------------------------------------------------------
(* A call looks into the registry once.  It runs the version it carries,   *)
(* or does nothing and tells the current one; help tells the current one.  *)
\* Mutant: any version there is will do.
ReadyAny(call) == registry[call.tool] # None
Ready(call) == registry[call.tool] # None /\ call.version = registry[call.tool]

Resolve(i) ==
  LET call == invoked[i]
      tells == [tool \in {call.tool} |-> registry[tool]]
  IN /\ call.state = "waiting"
     /\ invoked' = [invoked EXCEPT ![i] =
          IF ~call.help /\ Ready(call) THEN [call EXCEPT !.state = "resolved", !.ran = registry[call.tool]]
          ELSE [call EXCEPT !.state = "resolved", !.knowledge = tells]]
     /\ UNCHANGED <<registry, known, told, awaiting, learned, replacements>>

(* A result changes what is known when it arrives, and tells it with the   *)
(* next request.                                                           *)
Arrive(i) ==
  LET news == invoked[i].knowledge
  IN /\ invoked[i].state = "resolved"
     /\ invoked' = [invoked EXCEPT ![i].state = "arrived"]
     /\ known' = [tool \in ToolNames |-> IF tool \in DOMAIN news THEN news[tool] ELSE known[tool]]
     /\ learned' = [tool \in ToolNames |-> learned[tool] \cup (IF tool \in DOMAIN news THEN {news[tool]} ELSE {})]
     /\ UNCHANGED <<registry, told, awaiting, replacements>>

(* The process starts again, perhaps with other tools: what was running is *)
(* interrupted, what is known is in the log.                               *)
RestartTools ==
  /\ \E version \in Versions : registry' \in [ToolNames -> {None, version}]
  /\ replacements < MaxReplacements /\ replacements' = replacements + 1
  /\ awaiting' = NotAsked /\ learned' = Untold
  /\ invoked' = [i \in DOMAIN invoked |->
       IF invoked[i].state \in {"waiting", "resolved"} THEN [invoked[i] EXCEPT !.state = "arrived", !.knowledge = <<>>]
       ELSE invoked[i]]
  /\ UNCHANGED <<known, told>>

CatalogNext ==
  \/ \E tool \in ToolNames, version \in Versions \cup {None} : Replace(tool, version)
  \/ StepStarted(Changes) \/ StepStarted({}) \/ Respond \/ ApplyContext \/ RestartTools
  \/ \E i \in DOMAIN invoked : Resolve(i) \/ Arrive(i)
CatalogSpec == CatalogInit /\ [][CatalogNext]_catalogVars
-----------------------------------------------------------------------------
(* A call runs a version its conversation had told of when the response    *)
(* was asked for, or that a result made known while it was written: that   *)
(* much the agent did not know.                                            *)
RunsAsTold ==
  \A i \in DOMAIN invoked :
    invoked[i].ran # None => invoked[i].ran \in invoked[i].expects

(* While a request runs, the session carries for its agent what that       *)
(* request has told, or a result has made known since.                     *)
KnownTold ==
  awaiting.running => \A tool \in ToolNames :
    known[tool] # None => known[tool] \in awaiting.told[tool] \cup learned[tool]

CatalogHonest == RunsAsTold /\ KnownTold
=============================================================================
