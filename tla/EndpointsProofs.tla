--------------------------- MODULE EndpointsProofs ---------------------------
(***************************************************************************)
(* What is proved of the parts beside the session: what its agent knows of *)
(* the tools (ToolCatalog), the documents of the profiles (Credentials),   *)
(* the connection to the Codex provider (CodexConnection), and the client  *)
(* of the local conversations (LocalChat).                                 *)
(***************************************************************************)
EXTENDS ToolCatalog, Credentials, CodexConnection, LocalChat, TLAPS

(***************************************************************************)
(* The tool catalog.  What the session carries of a tool was told, or lies *)
(* in a result that the next request tells; a request asks for nothing it  *)
(* has not told.  So a call carries only what its agent was told.          *)
(***************************************************************************)
\* What a call carries; if it names or ran a version, its agent was told of it.
CallStates == {"waiting", "resolved", "arrived"}
ToldOf == [ToolNames -> SUBSET Nat]
IsCall(call) ==
  /\ DOMAIN call = {"tool", "help", "version", "expects", "state", "ran", "knowledge"}
  /\ call.tool \in ToolNames /\ call.state \in CallStates
  /\ call.version # None => call.version \in call.expects
  /\ call.ran # None => call.ran \in call.expects
  /\ \A tool \in DOMAIN call.knowledge : call.knowledge[tool] \in Nat

CatalogTypes ==
  /\ registry \in [ToolNames -> Nat] /\ known \in [ToolNames -> Nat]
  /\ told \in ToldOf /\ learned \in ToldOf /\ awaiting \in [running : BOOLEAN, told : ToldOf]
  /\ invoked = [i \in DOMAIN invoked |-> invoked[i]] /\ \A i \in DOMAIN invoked : IsCall(invoked[i])

\* What the session carries was told, or lies in a result the next request tells;
\* while a request runs, nothing else is told.
Carried == \A tool \in ToolNames : known[tool] # None => known[tool] \in told[tool] \cup Results[tool]
Telling == awaiting.running => awaiting.told = told

CatalogInv == CatalogTypes /\ Carried /\ Telling /\ KnownTold

LEMMA ResultsTold == ASSUME CatalogTypes PROVE Results \in ToldOf
<1> SUFFICES ASSUME NEW tool \in ToolNames PROVE Results[tool] \subseteq Nat
  BY DEF Results, ToldOf
<1> QED BY DEF Results, CatalogTypes, IsCall

\* A result is told by the next request, and by none before.
LEMMA ResultsAre ==
  ASSUME NEW tool \in ToolNames
  PROVE  Results[tool] = {invoked[i].knowledge[tool] : i \in {j \in DOMAIN invoked : Arrived(j) /\ tool \in DOMAIN invoked[j].knowledge}}
  BY DEF Results

LEMMA CatalogStarts == CatalogInit => CatalogInv
<1> SUFFICES ASSUME CatalogInit PROVE CatalogInv
  OBVIOUS
<1>1. DOMAIN invoked = {}
  BY DEF CatalogInit
<1>2. /\ registry \in [ToolNames -> Nat] /\ known = registry /\ learned = Untold
      /\ awaiting = NotAsked /\ told = [tool \in ToolNames |-> {registry[tool]} \ {None}]
  BY DEF CatalogInit, None
<1>3. told \in ToldOf /\ Untold \in ToldOf
  BY <1>2 DEF ToldOf, Untold
<1>4. invoked = [i \in DOMAIN invoked |-> invoked[i]]
  BY DEF CatalogInit
<1> QED BY <1>1, <1>2, <1>3, <1>4 DEF CatalogInv, CatalogTypes, Carried, Telling, KnownTold, NotAsked

LEMMA ReplaceKeeps ==
  ASSUME CatalogInv, NEW tool \in ToolNames, NEW version \in Versions \cup {None}, Replace(tool, version)
  PROVE  CatalogInv'
  BY DEF Replace, CatalogInv, CatalogTypes, Carried, Telling, KnownTold, Results, Arrived, Versions, None

LEMMA StepKeeps == ASSUME CatalogInv, NEW changes, StepStarted(changes) PROVE CatalogInv'
<1>1. /\ CatalogTypes /\ Results \in ToldOf
      /\ told' = [tool \in ToolNames |-> told[tool] \cup Results[tool] \cup (IF tool \in changes THEN {registry[tool]} ELSE {})]
      /\ known' = [tool \in ToolNames |-> IF tool \in changes THEN registry[tool] ELSE known[tool]]
      /\ awaiting' = [running |-> TRUE, told |-> told'] /\ learned' = Untold
      /\ invoked' = [i \in {j \in DOMAIN invoked : ~Arrived(j)} |-> invoked[i]]
      /\ UNCHANGED registry
  BY ResultsTold DEF StepStarted, CatalogInv
<1>2. told' \in ToldOf /\ learned' \in ToldOf /\ known' \in [ToolNames -> Nat]
  BY <1>1 DEF ToldOf, Untold, CatalogTypes
<1>3. CatalogTypes'
  BY <1>1, <1>2 DEF CatalogTypes
<1>4. ASSUME NEW tool \in ToolNames, known'[tool] # None PROVE known'[tool] \in told'[tool]
  BY <1>1, <1>4 DEF CatalogInv, Carried
<1> QED BY <1>1, <1>3, <1>4 DEF CatalogInv, Carried, Telling, KnownTold

LEMMA RespondKeeps == ASSUME CatalogInv, Respond PROVE CatalogInv'
<1>1. /\ CatalogTypes /\ awaiting.running /\ awaiting' = NotAsked /\ learned' = Untold
      /\ UNCHANGED <<registry, known, told>>
  BY DEF Respond, CatalogInv
<1>2. /\ \A i \in DOMAIN invoked : i \in DOMAIN invoked' /\ invoked'[i] = invoked[i]
      /\ invoked' = [i \in DOMAIN invoked' |-> invoked'[i]] /\ \A i \in DOMAIN invoked' : IsCall(invoked'[i])
  <2>1. CASE UNCHANGED invoked
    BY <1>1, <2>1 DEF CatalogTypes
  <2>2. ASSUME NEW i \in 1..MaxCatalogCalls, NEW tool \in ToolNames, NEW help \in BOOLEAN,
               Unused(i), invoked' = [j \in DOMAIN invoked \cup {i} |-> IF j = i THEN Invocation(tool, help) ELSE invoked[j]]
        PROVE  /\ \A j \in DOMAIN invoked : j \in DOMAIN invoked' /\ invoked'[j] = invoked[j]
               /\ invoked' = [j \in DOMAIN invoked' |-> invoked'[j]] /\ \A j \in DOMAIN invoked' : IsCall(invoked'[j])
    <3> PICK call : call = Invocation(tool, help)
      OBVIOUS
    <3>1. known[tool] # None => known[tool] \in awaiting.told[tool] \cup learned[tool]
      BY <1>1 DEF CatalogInv, KnownTold
    <3>2. IsCall(call)
      BY <3>1 DEF IsCall, Invocation, CallStates, None
    <3>3. i \notin DOMAIN invoked /\ invoked' = [j \in DOMAIN invoked \cup {i} |-> IF j = i THEN call ELSE invoked[j]]
      BY <2>2 DEF Unused
    <3> QED BY <1>1, <3>2, <3>3 DEF CatalogTypes
  <2> QED BY <2>1, <2>2 DEF Respond
<1>3. \A tool \in ToolNames : Results[tool] \subseteq Results'[tool]
  BY <1>2 DEF Results, Arrived
<1>4. CatalogTypes'
  <2>1. NotAsked \in [running : BOOLEAN, told : ToldOf] /\ Untold \in ToldOf
    BY DEF NotAsked, Untold, ToldOf
  <2> QED BY <1>1, <1>2, <2>1 DEF CatalogTypes
<1> QED BY <1>1, <1>3, <1>4 DEF CatalogInv, Carried, Telling, KnownTold, NotAsked

LEMMA ContextKeeps == ASSUME CatalogInv, ApplyContext PROVE CatalogInv'
<1>1. /\ CatalogTypes /\ known' = registry /\ told' = [tool \in ToolNames |-> {registry[tool]} \ {None}]
      /\ UNCHANGED <<registry, awaiting, learned, invoked>> /\ ~awaiting.running
  BY DEF ApplyContext, CatalogInv
<1>2. CatalogTypes'
  BY <1>1 DEF CatalogTypes, ToldOf
<1>3. \A tool \in ToolNames : known'[tool] # None => known'[tool] \in told'[tool]
  BY <1>1
<1> QED BY <1>1, <1>2, <1>3 DEF CatalogInv, Carried, Telling, KnownTold

LEMMA ResolveKeeps == ASSUME CatalogInv, NEW i \in DOMAIN invoked, Resolve(i) PROVE CatalogInv'
<1> PICK call : call = invoked[i]
  OBVIOUS
<1>1. /\ CatalogTypes /\ IsCall(call) /\ call.state = "waiting" /\ registry[call.tool] \in Nat
      /\ UNCHANGED <<registry, known, told, awaiting, learned>>
  BY DEF Resolve, CatalogInv, CatalogTypes, IsCall
<1>2. PICK new : IsCall(new) /\ new.state = "resolved" /\ invoked' = [invoked EXCEPT ![i] = new]
  <2>1. CASE ~call.help /\ Ready(call)
    <3> PICK new : new = [call EXCEPT !.state = "resolved", !.ran = registry[call.tool]]
      OBVIOUS
    <3>1. invoked' = [invoked EXCEPT ![i] = new]
      BY <2>1 DEF Resolve
    <3>2. IsCall(new) /\ new.state = "resolved"
      BY <1>1, <2>1 DEF Ready, IsCall, CallStates
    <3> QED BY <3>1, <3>2
  <2>2. CASE ~(~call.help /\ Ready(call))
    <3> PICK tells : tells = [tool \in {call.tool} |-> registry[tool]]
      OBVIOUS
    <3> PICK new : new = [call EXCEPT !.state = "resolved", !.knowledge = tells]
      OBVIOUS
    <3>1. invoked' = [invoked EXCEPT ![i] = new]
      BY <2>2 DEF Resolve
    <3>2. IsCall(new) /\ new.state = "resolved"
      BY <1>1 DEF IsCall, CallStates
    <3> QED BY <3>1, <3>2
  <2> QED BY <2>1, <2>2
<1>3. DOMAIN invoked' = DOMAIN invoked /\ \A j \in DOMAIN invoked : invoked'[j] = IF j = i THEN new ELSE invoked[j]
  BY <1>2
<1>4. CatalogTypes'
  BY <1>1, <1>2, <1>3 DEF CatalogTypes
<1>5. \A tool \in ToolNames : Results'[tool] = Results[tool]
  <2>1. \A j \in DOMAIN invoked : Arrived(j)' <=> Arrived(j)
    BY <1>1, <1>2, <1>3 DEF Arrived
  <2>2. \A j \in DOMAIN invoked : Arrived(j) => invoked'[j] = invoked[j]
    BY <1>1, <1>3 DEF Arrived
  <2> QED BY <1>3, <2>1, <2>2 DEF Results
<1> QED BY <1>1, <1>4, <1>5 DEF CatalogInv, Carried, Telling, KnownTold

LEMMA ArriveKeeps == ASSUME CatalogInv, NEW i \in DOMAIN invoked, Arrive(i) PROVE CatalogInv'
<1> PICK news : news = invoked[i].knowledge
  OBVIOUS
<1> PICK new : new = [invoked[i] EXCEPT !.state = "arrived"]
  OBVIOUS
<1>1. /\ CatalogTypes /\ IsCall(invoked[i]) /\ invoked[i].state = "resolved" /\ invoked' = [invoked EXCEPT ![i] = new]
      /\ known' = [tool \in ToolNames |-> IF tool \in DOMAIN news THEN news[tool] ELSE known[tool]]
      /\ learned' = [tool \in ToolNames |-> learned[tool] \cup (IF tool \in DOMAIN news THEN {news[tool]} ELSE {})]
      /\ UNCHANGED <<registry, told, awaiting>>
  BY DEF Arrive, CatalogInv, CatalogTypes
<1>2. IsCall(new) /\ new.state = "arrived" /\ new.knowledge = news
  BY <1>1 DEF IsCall, CallStates
<1>3. DOMAIN invoked' = DOMAIN invoked /\ \A j \in DOMAIN invoked : invoked'[j] = IF j = i THEN new ELSE invoked[j]
  BY <1>1
<1>4. \A tool \in DOMAIN news : news[tool] \in Nat
  BY <1>1 DEF IsCall
<1>5. CatalogTypes'
  <2>1. known' \in [ToolNames -> Nat] /\ learned' \in ToldOf
    BY <1>1, <1>4 DEF CatalogTypes, ToldOf
  <2>2. invoked' = [j \in DOMAIN invoked' |-> invoked'[j]] /\ \A j \in DOMAIN invoked' : IsCall(invoked'[j])
    BY <1>1, <1>2, <1>3 DEF CatalogTypes
  <2> QED BY <1>1, <2>1, <2>2 DEF CatalogTypes
<1>6. ASSUME NEW tool \in ToolNames
      PROVE  Results[tool] \subseteq Results'[tool] /\ (tool \in DOMAIN news => news[tool] \in Results'[tool])
  <2>1. \A j \in DOMAIN invoked : Arrived(j) => Arrived(j)' /\ invoked'[j] = invoked[j]
    BY <1>1, <1>3 DEF Arrived
  <2>2. Arrived(i)' /\ invoked'[i] = new
    BY <1>2, <1>3 DEF Arrived
  <2> QED BY <1>2, <1>3, <2>1, <2>2 DEF Results
<1>7. \A tool \in ToolNames : known'[tool] = IF tool \in DOMAIN news THEN news[tool] ELSE known[tool]
  BY <1>1
<1>8. Carried'
  BY <1>1, <1>6, <1>7 DEF CatalogInv, Carried
<1>9. KnownTold' /\ Telling'
  BY <1>1, <1>7 DEF CatalogInv, KnownTold, Telling
<1> QED BY <1>5, <1>8, <1>9 DEF CatalogInv

LEMMA RestartKeeps == ASSUME CatalogInv, RestartTools PROVE CatalogInv'
<1>1. /\ CatalogTypes /\ awaiting' = NotAsked /\ learned' = Untold /\ UNCHANGED <<known, told>>
      /\ invoked' = [i \in DOMAIN invoked |->
           IF invoked[i].state \in {"waiting", "resolved"} THEN [invoked[i] EXCEPT !.state = "arrived", !.knowledge = <<>>]
           ELSE invoked[i]]
  BY DEF RestartTools, CatalogInv
<1>2. registry' \in [ToolNames -> Nat]
  <2>1. PICK version \in Versions : registry' \in [ToolNames -> {None, version}]
    BY DEF RestartTools
  <2>2. version \in Nat /\ None \in Nat
    BY DEF Versions, None
  <2> QED BY <2>1, <2>2
<1>3. ASSUME NEW i \in DOMAIN invoked
      PROVE  IsCall(invoked'[i]) /\ (Arrived(i) => invoked'[i] = invoked[i])
  <2>1. IsCall(invoked[i])
    BY <1>1 DEF CatalogTypes
  <2>2. CASE invoked[i].state \in {"waiting", "resolved"}
    <3> PICK new : new = [invoked[i] EXCEPT !.state = "arrived", !.knowledge = <<>>]
      OBVIOUS
    <3>1. IsCall(new)
      BY <2>1 DEF IsCall, CallStates
    <3> QED BY <1>1, <2>2, <3>1 DEF Arrived
  <2>3. CASE invoked[i].state \notin {"waiting", "resolved"}
    BY <1>1, <2>1, <2>3
  <2> QED BY <2>2, <2>3
<1>4. CatalogTypes'
  <2>1. NotAsked \in [running : BOOLEAN, told : ToldOf] /\ Untold \in ToldOf
    BY DEF NotAsked, Untold, ToldOf
  <2>2. DOMAIN invoked' = DOMAIN invoked /\ invoked' = [i \in DOMAIN invoked' |-> invoked'[i]]
    BY <1>1
  <2> QED BY <1>1, <1>2, <1>3, <2>1, <2>2 DEF CatalogTypes
<1>5. \A tool \in ToolNames : Results[tool] \subseteq Results'[tool]
  <2>1. DOMAIN invoked' = DOMAIN invoked
    BY <1>1
  <2> QED BY <1>3, <2>1 DEF Results, Arrived
<1> QED BY <1>1, <1>4, <1>5 DEF CatalogInv, Carried, Telling, KnownTold, NotAsked

LEMMA CatalogKept == CatalogInv /\ [CatalogNext]_catalogVars => CatalogInv'
<1> SUFFICES ASSUME CatalogInv, [CatalogNext]_catalogVars PROVE CatalogInv'
  OBVIOUS
<1>1. CASE UNCHANGED catalogVars
  BY <1>1 DEF catalogVars, CatalogInv, CatalogTypes, Carried, Telling, KnownTold, Results, Arrived
<1> QED BY <1>1, ReplaceKeeps, StepKeeps, RespondKeeps, ContextKeeps, RestartKeeps, ResolveKeeps, ArriveKeeps DEF CatalogNext

(* A call runs a version its agent was told of, and what the session       *)
(* carries for its agent while a request runs is what the agent was told,  *)
(* however tools are replaced, removed and brought back (tools.rs,         *)
(* runner.rs).                                                             *)
THEOREM AgentsAreTold == CatalogSpec => []CatalogHonest
<1>1. CatalogInv => CatalogHonest
  BY DEF CatalogInv, CatalogTypes, IsCall, CatalogHonest, RunsAsTold
<1> QED BY <1>1, CatalogStarts, CatalogKept, PTL DEF CatalogSpec
-----------------------------------------------------------------------------
(***************************************************************************)
(* The profiles' documents.  A worker follows the document from when it    *)
(* has read it until it writes: either the configuration is still the one  *)
(* it has read, or it has been overtaken.  And the last generation of an   *)
(* account's credential is in the document, or in the hands of one worker. *)
(***************************************************************************)
\* What the state holds.
Documents == [config : Nat, account : Accounts \cup {""}, token : Nat, over : BOOLEAN]
Phases == {"idle", "forget", "renew", "probe", "commit", "save", "status", "write"}
Kinds == {"", "put", "delete", "execute", "probe"}
Doings == [phase : Phases, kind : Kinds, read : Documents, token : Nat, over : BOOLEAN]

CredentialTypes ==
  /\ document \in Documents /\ work \in [Workers -> Doings]
  /\ rotates \in BOOLEAN /\ issued \in [Accounts -> Nat] /\ puts \in Seq(Accounts) /\ last \in Nat

\* A worker that has read the document, might write it, or has renewed its
\* credential and not written it.
Reads(doing) == doing.phase \notin {"idle", "forget"}
Writes(doing) == doing.kind = "execute" \/ doing.phase \in {"save", "status"}
Holds(doing) == doing.phase \in {"write", "probe", "commit", "save"} /\ doing.token # doing.read.token

\* A document, on disk or read by a worker, is of a put; its credential, and the
\* one the worker has, was issued.
Sound(doc) == doc.config \in 1..Len(puts) /\ doc.account = puts[doc.config] /\ doc.token <= issued[doc.account]
Soundness ==
  /\ document = NoDocument \/ Sound(document)
  /\ \A w \in Workers : Reads(work[w]) => Sound(work[w].read) /\ work[w].token <= issued[work[w].read.account]

\* An execution only renews and writes, a write is of a renewed credential, and
\* a worker is overtaken only where it might write.
Phased(doing) ==
  /\ doing.kind = "execute" => doing.phase \in {"renew", "write"}
  /\ doing.phase = "renew" => doing.token = doing.read.token
  /\ doing.phase = "write" => doing.kind = "execute"
  /\ doing.phase \in {"write", "save"} => doing.token # doing.read.token
  /\ doing.over => Writes(doing)
Phasing == \A w \in Workers : Phased(work[w])

\* A worker that might write is overtaken once the document has another
\* configuration; while the document is the client's, what it has read is too.
Follows(doing) ==
  Writes(doing) =>
    /\ ~doing.over => (doing.read.config = document.config /\ (document.over => doing.read.over))
    /\ (doing.read.config = document.config /\ ~document.over) => (~doing.over /\ ~doing.read.over)
Following == \A w \in Workers : Follows(work[w])

\* A renewed credential that is not written is the last one issued, and in
\* nobody else's hands ...
OneHolder ==
  rotates => \A w \in Workers : (Holds(work[w]) /\ work[w].read.account \notin lost) =>
    /\ work[w].token = issued[work[w].read.account]
    /\ \A v \in Workers : (Reads(work[v]) /\ work[v].read.account = work[w].read.account) =>
         work[v].read.token < issued[work[w].read.account] /\ (Holds(work[v]) => v = w)
    /\ (document # NoDocument /\ document.account = work[w].read.account) => document.token < issued[work[w].read.account]

\* ... and unless there is one, the document has the last one issued.
Holder(w) == Holds(work[w]) /\ work[w].read.account = document.account /\ work[w].read.token = document.token
Current ==
  (rotates /\ document # NoDocument /\ document.account \notin lost) =>
    document.token = issued[document.account] \/ \E w \in Workers : Holder(w)

Settled == CredentialTypes /\ Soundness /\ Phasing /\ Following /\ PutLasts
CredentialInv == Settled /\ StatusOwn /\ OneHolder /\ Current

LEMMA DocumentsExist == NoDocument \in Documents /\ NoDocument.config = 0 /\ ~NoDocument.over
  BY DEF NoDocument, Documents

LEMMA IdleIs ==
  /\ Idle \in Doings /\ Idle.phase = "idle" /\ Idle.kind = "" /\ ~Idle.over /\ ~Reads(Idle) /\ ~Writes(Idle) /\ ~Holds(Idle)
  /\ Phased(Idle) /\ Follows(Idle)
  BY DocumentsExist DEF Idle, Doings, Phases, Kinds, Reads, Writes, Holds, Phased, Follows

LEMMA CredentialsStart == CredentialsInit => CredentialInv
<1> SUFFICES ASSUME CredentialsInit PROVE CredentialInv
  OBVIOUS
<1>1. CredentialTypes
  <2>1. work \in [Workers -> Doings]
    BY IdleIs DEF CredentialsInit
  <2>2. document \in Documents /\ puts \in Seq(Accounts) /\ last \in Nat
    BY DocumentsExist DEF CredentialsInit
  <2>3. issued \in [Accounts -> Nat] /\ rotates \in BOOLEAN
    BY DEF CredentialsInit
  <2> QED BY <2>1, <2>2, <2>3 DEF CredentialTypes
<1>2. Soundness /\ Phasing /\ Following /\ PutLasts
  BY DocumentsExist, IdleIs DEF CredentialsInit, Soundness, Phasing, Following, PutLasts
<1>3. StatusOwn /\ OneHolder /\ Current
  BY IdleIs DEF CredentialsInit, StatusOwn, OneHolder, Current
<1> QED BY <1>1, <1>2, <1>3 DEF CredentialInv, Settled

\* A stored document has a configuration, and its account an issued credential.
LEMMA DocumentIs ==
  ASSUME Settled, document # NoDocument
  PROVE  Sound(document) /\ document.config # 0 /\ document.account \in Accounts /\ issued[document.account] \in Nat
  BY DEF Settled, CredentialTypes, Soundness, Sound

LEMMA ReadIs ==
  ASSUME Settled, NEW w \in Workers, Reads(work[w])
  PROVE  /\ Sound(work[w].read) /\ work[w].read.config # 0 /\ work[w].token <= issued[work[w].read.account]
         /\ work[w].read.account \in Accounts /\ issued[work[w].read.account] \in Nat
  BY DEF Settled, CredentialTypes, Soundness, Sound

LEMMA IssuedStays ==
  ASSUME Settled, UNCHANGED issued
  PROVE  issued' \in [Accounts -> Nat] /\ \A a \in Accounts : issued[a] <= issued'[a]
  BY DEF Settled, CredentialTypes

\* A step of one worker that neither writes the document nor has a credential
\* renewed: what is to be shown of its new doing.
LEMMA QuietSettles ==
  ASSUME Settled, NEW w \in Workers, NEW new \in Doings, work' = [work EXCEPT ![w] = new],
         UNCHANGED <<document, puts, last, rotates>>,
         issued' \in [Accounts -> Nat], \A a \in Accounts : issued[a] <= issued'[a],
         Reads(new) => Sound(new.read) /\ new.token <= issued'[new.read.account], Phased(new), Follows(new)
  PROVE  Settled'
<1>1. CredentialTypes'
  BY DEF Settled, CredentialTypes
<1>2. \A v \in Workers : work'[v] = IF v = w THEN new ELSE work[v]
  BY DEF Settled, CredentialTypes
<1>3. Soundness'
  <2>1. ASSUME NEW doc \in Documents, Sound(doc) PROVE Sound(doc)'
    <3>1. puts[doc.config] \in Accounts /\ doc.token \in Nat
      <4> PICK config : config = doc.config
        OBVIOUS
      <4>1. config \in 1..Len(puts) /\ puts \in Seq(Accounts)
        BY <2>1 DEF Settled, CredentialTypes, Sound
      <4>2. puts[config] \in Accounts
        BY <4>1
      <4> QED BY <4>2 DEF Documents
    <3>2. doc.token <= issued[doc.account] /\ doc.account \in Accounts
      BY <2>1, <3>1 DEF Sound
    <3>3. doc.token <= issued'[doc.account]
      BY <3>1, <3>2 DEF Settled, CredentialTypes
    <3> QED BY <2>1, <3>3 DEF Sound
  <2>2. document \in Documents /\ \A v \in Workers : work[v].read \in Documents
    BY DEF Settled, CredentialTypes, Doings
  <2>3. new.read \in Documents
    BY DEF Doings
  <2>4. document = NoDocument \/ Sound(document)'
    BY <2>1, <2>2 DEF Settled, Soundness
  <2>5. ASSUME NEW v \in Workers, Reads(work'[v]) PROVE Sound(work[v].read)' /\ work'[v].token <= issued'[work'[v].read.account]
    <3>1. CASE v = w
      <4>1. Sound(new.read)' /\ new.token <= issued'[new.read.account]
        BY <1>2, <2>1, <2>3, <2>5, <3>1
      <4> QED BY <1>2, <3>1, <4>1
    <3>2. CASE v # w
      <4> PICK doc \in Documents : doc = work[v].read
        BY <2>2
      <4>1. Sound(doc) /\ work'[v].read = doc
        BY <1>2, <2>5, <3>2 DEF Settled, Soundness
      <4>2. Sound(doc)'
        BY <2>1, <4>1
      <4>3. doc.account \in Accounts
        <5> PICK config : config = doc.config
          OBVIOUS
        <5>1. config \in 1..Len(puts) /\ puts \in Seq(Accounts) /\ doc.account = puts[config]
          BY <4>1 DEF Settled, CredentialTypes, Sound
        <5> QED BY <5>1
      <4>4. work[v].token \in Nat /\ work[v].token <= issued[doc.account]
        BY <1>2, <2>5, <3>2 DEF Settled, Soundness, CredentialTypes, Doings
      <4>5. work[v].token <= issued'[doc.account]
        BY <4>3, <4>4 DEF Settled, CredentialTypes
      <4> QED BY <1>2, <3>2, <4>1, <4>2, <4>5
    <3> QED BY <3>1, <3>2
  <2> QED BY <2>4, <2>5 DEF Soundness
<1>4. Phasing'
  BY <1>2 DEF Settled, Phasing
<1>5. Following'
  BY <1>2 DEF Settled, Following, Follows
<1>6. PutLasts'
  BY DEF Settled, PutLasts
<1> QED BY <1>1, <1>3, <1>4, <1>5, <1>6 DEF Settled

LEMMA QuietHolds ==
  ASSUME Settled, OneHolder, Current, NEW w \in Workers, NEW new \in Doings, work' = [work EXCEPT ![w] = new],
         UNCHANGED <<document, puts, last, rotates>>, lost \subseteq lost',
         \A a : a \notin lost' => issued'[a] = issued[a],
         Reads(new) => \/ document # NoDocument /\ new.read.account = document.account /\ new.read.token = document.token
                       \/ Reads(work[w]) /\ new.read.account = work[w].read.account /\ new.read.token = work[w].read.token,
         Holds(new) => /\ Holds(work[w]) /\ new.token = work[w].token
                       /\ new.read.account = work[w].read.account /\ new.read.token = work[w].read.token,
         Holds(work[w]) => Holds(new) \/ work[w].read.account \in lost' \/ document = NoDocument \/ ~Holder(w)
  PROVE  OneHolder' /\ Current'
<1>1. \A v \in Workers : work'[v] = IF v = w THEN new ELSE work[v]
  BY DEF Settled, CredentialTypes
<1>2. ASSUME rotates, NEW u \in Workers, Holds(work'[u]), work'[u].read.account \notin lost'
      PROVE  /\ work'[u].token = issued'[work'[u].read.account]
             /\ \A v \in Workers : (Reads(work'[v]) /\ work'[v].read.account = work'[u].read.account) =>
                  work'[v].read.token < issued'[work'[u].read.account] /\ (Holds(work'[v]) => v = u)
             /\ (document # NoDocument /\ document.account = work'[u].read.account) => document.token < issued'[work'[u].read.account]
  <2>1. /\ Holds(work[u]) /\ work[u].token = work'[u].token /\ work[u].read.account = work'[u].read.account
        /\ work[u].read.account \notin lost /\ issued'[work[u].read.account] = issued[work[u].read.account]
    BY <1>1, <1>2
  <2>2. /\ work[u].token = issued[work[u].read.account]
        /\ \A v \in Workers : (Reads(work[v]) /\ work[v].read.account = work[u].read.account) =>
             work[v].read.token < issued[work[u].read.account] /\ (Holds(work[v]) => v = u)
        /\ (document # NoDocument /\ document.account = work[u].read.account) => document.token < issued[work[u].read.account]
    BY <1>2, <2>1 DEF OneHolder
  <2>3. ASSUME NEW v \in Workers, Reads(work'[v]), work'[v].read.account = work'[u].read.account
        PROVE  work'[v].read.token < issued[work'[u].read.account] /\ (Holds(work'[v]) => v = u)
    <3>1. Holds(work'[v]) => Holds(work[v]) /\ Reads(work[v]) /\ work[v].read.account = work'[v].read.account
      BY <1>1 DEF Holds, Reads
    <3>2. Holds(work'[v]) => v = u
      BY <2>1, <2>2, <2>3, <3>1
    <3>3. work'[v].read.token < issued[work'[u].read.account]
      BY <1>1, <2>1, <2>2, <2>3
    <3> QED BY <3>2, <3>3
  <2> QED BY <2>1, <2>2, <2>3
<1>3. OneHolder'
  BY <1>2 DEF OneHolder
<1>4. ASSUME rotates, document # NoDocument, document.account \notin lost', document.token # issued'[document.account]
      PROVE  \E u \in Workers : Holder(u)'
  <2>1. PICK u \in Workers : Holder(u)
    BY <1>4 DEF Current
  <2>2. Holder(u)'
    BY <1>1, <1>4, <2>1 DEF Holder
  <2> QED BY <2>2
<1>5. Current'
  BY <1>4 DEF Current
<1> QED BY <1>3, <1>5

\* A change of the configuration overtakes every worker that might write.
LEMMA OvertakeIs ==
  ASSUME Settled, NEW config \in Nat
  PROVE  /\ Overtake(config) \in [Workers -> Doings]
         /\ \A v \in Workers :
              /\ Overtake(config)[v].phase = work[v].phase /\ Overtake(config)[v].kind = work[v].kind
              /\ Overtake(config)[v].read = work[v].read /\ Overtake(config)[v].token = work[v].token
              /\ Overtake(config)[v].over <=> (work[v].over \/ (config # document.config /\ Writes(work[v])))
<1> SUFFICES ASSUME NEW v \in Workers
    PROVE  /\ Overtake(config)[v] \in Doings
           /\ Overtake(config)[v].phase = work[v].phase /\ Overtake(config)[v].kind = work[v].kind
           /\ Overtake(config)[v].read = work[v].read /\ Overtake(config)[v].token = work[v].token
           /\ Overtake(config)[v].over <=> (work[v].over \/ (config # document.config /\ Writes(work[v])))
  BY DEF Overtake
<1>1. work[v] \in Doings
  BY DEF Settled, CredentialTypes
<1> PICK over \in BOOLEAN : over = (work[v].over \/ (config # document.config /\ Overtaken(v)))
  OBVIOUS
<1>2. Overtake(config)[v] = [work[v] EXCEPT !.over = over]
  BY DEF Overtake
<1>3. over <=> (work[v].over \/ (config # document.config /\ Writes(work[v])))
  BY DEF Overtaken, Writes
<1> QED BY <1>1, <1>2, <1>3 DEF Doings

\* What such a change leaves, with one worker going on to another phase.
LEMMA OvertakenIs ==
  ASSUME Settled, NEW config \in Nat, NEW w \in Workers, NEW new \in Doings,
         work' = [Overtake(config) EXCEPT ![w] = new]
  PROVE  /\ work' \in [Workers -> Doings] /\ work'[w] = new
         /\ \A v \in Workers \ {w} :
              /\ work'[v].phase = work[v].phase /\ work'[v].kind = work[v].kind
              /\ work'[v].read = work[v].read /\ work'[v].token = work[v].token
              /\ work'[v].over <=> (work[v].over \/ (config # document.config /\ Writes(work[v])))
              /\ Reads(work'[v]) <=> Reads(work[v])
              /\ Writes(work'[v]) <=> Writes(work[v])
              /\ Holds(work'[v]) <=> Holds(work[v])
<1>1. work' \in [Workers -> Doings] /\ work'[w] = new /\ \A v \in Workers \ {w} : work'[v] = Overtake(config)[v]
  BY OvertakeIs
<1> QED BY <1>1, OvertakeIs DEF Reads, Writes, Holds

\* The same for a change of the document: what is to be shown of the new
\* document and the one worker.
LEMMA ChangeSettles ==
  ASSUME Settled, NEW w \in Workers, NEW new \in Doings, work' = [Overtake(document'.config) EXCEPT ![w] = new],
         document' \in Documents, puts' \in Seq(Accounts), last' \in Nat, UNCHANGED <<issued, rotates>>,
         Len(puts) <= Len(puts'), \A i \in 1..Len(puts) : puts'[i] = puts[i],
         document' = NoDocument \/ Sound(document)',
         Reads(new) => Sound(new.read)' /\ new.token <= issued[new.read.account], Phased(new), Follows(new)', PutLasts',
         \A v \in Workers \ {w} : (Writes(work[v]) /\ work[v].read.config = document'.config) =>
            \/ document'.config = document.config /\ (document'.over <=> document.over)
            \/ document'.over /\ (work[v].over \/ work[v].read.over \/ document'.config # document.config)
  PROVE  Settled'
<1>1. /\ document'.config \in Nat
      /\ work' \in [Workers -> Doings] /\ work'[w] = new
  BY OvertakenIs DEF Documents
<1>2. \A v \in Workers \ {w} :
        /\ work'[v].phase = work[v].phase /\ work'[v].kind = work[v].kind
        /\ work'[v].read = work[v].read /\ work'[v].token = work[v].token
        /\ work'[v].over <=> (work[v].over \/ (document'.config # document.config /\ Writes(work[v])))
        /\ Reads(work'[v]) <=> Reads(work[v])
        /\ Writes(work'[v]) <=> Writes(work[v])
  BY <1>1, OvertakenIs
<1>3. CredentialTypes'
  BY <1>1 DEF Settled, CredentialTypes
<1>4. Soundness'
  <2>1. ASSUME NEW v \in Workers, Reads(work'[v]) PROVE Sound(work[v].read)' /\ work'[v].token <= issued'[work'[v].read.account]
    <3>1. CASE v = w
      BY <1>1, <2>1, <3>1 DEF Sound
    <3>2. CASE v # w
      <4>1. /\ Reads(work[v]) /\ work'[v].read = work[v].read /\ Sound(work[v].read)
            /\ work'[v].token = work[v].token /\ work[v].token <= issued[work[v].read.account]
        BY <1>2, <2>1, <3>2 DEF Settled, Soundness
      <4> PICK doc : doc = work[v].read
        OBVIOUS
      <4>2. doc.config \in 1..Len(puts) /\ doc.account = puts[doc.config] /\ doc.token <= issued[doc.account]
        BY <4>1 DEF Sound
      <4>3. doc.config \in 1..Len(puts') /\ puts'[doc.config] = puts[doc.config]
        <5>1. Len(puts) \in Nat /\ Len(puts') \in Nat
          BY DEF Settled, CredentialTypes
        <5> QED BY <4>2, <5>1
      <4>4. work'[v].read = doc /\ issued' = issued /\ work'[v].token <= issued[doc.account]
        BY <4>1
      <4> QED BY <4>2, <4>3, <4>4 DEF Sound
    <3> QED BY <3>1, <3>2
  <2> QED BY <2>1 DEF Soundness
<1>5. Phasing'
  <2>1. ASSUME NEW v \in Workers \ {w} PROVE Phased(work'[v])
    BY <1>2 DEF Settled, Phasing, Phased
  <2> QED BY <1>1, <2>1 DEF Phasing
<1>6. Following'
  <2>1. ASSUME NEW v \in Workers \ {w}, Writes(work'[v]) PROVE Follows(work[v])'
    <3>1. Writes(work[v]) /\ Follows(work[v]) /\ work'[v].read = work[v].read
      BY <1>2, <2>1 DEF Settled, Following
    <3>2. CASE work[v].read.config = document'.config
      BY <1>2, <3>1, <3>2 DEF Follows
    <3>3. CASE work[v].read.config # document'.config
      BY <1>2, <3>1, <3>3 DEF Follows
    <3> QED BY <3>2, <3>3
  <2> QED BY <1>1, <2>1 DEF Following, Follows
<1> QED BY <1>3, <1>4, <1>5, <1>6 DEF Settled

LEMMA ReadingIs ==
  ASSUME Settled, document # NoDocument, NEW kind \in {"probe", "execute"}, kind = "execute" => Stale(document)
  PROVE  LET new == Reading(kind, document) IN
         /\ new \in Doings /\ new.read = document /\ new.token = document.token
         /\ ~Holds(new) /\ Sound(new.read) /\ Phased(new) /\ Follows(new)
<1> PICK new : new = Reading(kind, document)
  OBVIOUS
<1>1. /\ new.phase \in {"renew", "probe"} /\ (kind = "execute" => new.phase = "renew") /\ new.kind = kind
      /\ new.read = document /\ new.token = document.token /\ ~new.over
      /\ new = [phase |-> new.phase, kind |-> kind, read |-> document, token |-> document.token, over |-> FALSE]
  BY DEF Reading
<1>2. document \in Documents
  BY DEF Settled, CredentialTypes
<1>3. document.token \in Nat
  BY <1>2 DEF Documents
<1>4. new \in Doings
  <2> PICK phase : phase = new.phase
    OBVIOUS
  <2>1. phase \in Phases /\ kind \in Kinds
    BY <1>1 DEF Phases, Kinds
  <2>2. new = [phase |-> phase, kind |-> kind, read |-> document, token |-> document.token, over |-> FALSE]
    BY <1>1
  <2> QED BY <1>2, <1>3, <2>1, <2>2 DEF Doings
<1>5. ~Holds(new) /\ Phased(new) /\ Follows(new)
  BY <1>1 DEF Holds, Phased, Follows
<1> QED BY <1>1, <1>4, <1>5, DocumentIs

\* What a worker's step changes the status of the profile is not about.
LEMMA StatusStays ==
  ASSUME StatusOwn, Settled, NEW w \in Workers, NEW new, work' = [work EXCEPT ![w] = new], work[w].phase # "forget",
         UNCHANGED <<document, status>>
  PROVE  StatusOwn'
<1>1. ASSUME \E v \in Workers : Busy(v, "forget") PROVE \E v \in Workers : Busy(v, "forget")'
  <2>1. PICK v \in Workers : Busy(v, "forget")
    BY <1>1
  <2>2. work'[v] = work[v]
    BY <2>1 DEF Busy, Settled, CredentialTypes
  <2> QED BY <2>1, <2>2 DEF Busy
<1> QED BY <1>1 DEF StatusOwn

LEMMA StartKeeps ==
  ASSUME CredentialInv, NEW w \in Workers, NEW kind \in {"execute", "probe"}, Start(w, kind)
  PROVE  CredentialInv'
<1> PICK new : new = Reading(kind, document)
  OBVIOUS
<1>1. /\ Settled /\ StatusOwn /\ OneHolder /\ Current /\ document # NoDocument /\ work[w].phase = "idle"
      /\ work' = [work EXCEPT ![w] = new]
      /\ UNCHANGED <<document, status, rotates, issued, expired, puts, last, lost, losses>>
  BY DEF Start, Busy, CredentialInv
<1>2. new \in Doings /\ new.read = document /\ ~Holds(new) /\ Sound(new.read) /\ new.token = document.token /\ Phased(new) /\ Follows(new)
  BY <1>1, ReadingIs DEF Start
<1>3. ~Holds(work[w])
  BY <1>1 DEF Holds
<1>4. Settled'
  BY <1>1, <1>2, IssuedStays, QuietSettles DEF Sound
<1>5. OneHolder' /\ Current'
  BY <1>1, <1>2, <1>3, QuietHolds
<1>6. StatusOwn'
  BY <1>1, StatusStays
<1> QED BY <1>4, <1>5, <1>6 DEF CredentialInv

LEMMA RemoveProbeKeeps ==
  ASSUME CredentialInv, NEW w \in Workers, RemoveProbe(w)
  PROVE  CredentialInv'
<1> PICK new : new = IF work[w].kind = "put" /\ document # NoDocument THEN Reading("probe", document) ELSE Idle
  OBVIOUS
<1>1. /\ Settled /\ OneHolder /\ Current /\ work[w].phase = "forget" /\ status' = NoStatus
      /\ work' = [work EXCEPT ![w] = new]
      /\ UNCHANGED <<document, rotates, issued, expired, puts, last, lost, losses>>
  BY DEF RemoveProbe, Busy, CredentialInv
<1>2. new \in Doings /\ ~Holds(new) /\ Phased(new) /\ Follows(new)
      /\ (Reads(new) => document # NoDocument /\ new.read = document /\ Sound(new.read) /\ new.token = document.token)
  <2>1. CASE work[w].kind = "put" /\ document # NoDocument
    BY <1>1, <2>1, ReadingIs
  <2>2. CASE ~(work[w].kind = "put" /\ document # NoDocument)
    BY <2>2, IdleIs
  <2> QED BY <2>1, <2>2
<1>3. ~Holds(work[w])
  BY <1>1 DEF Holds
<1>4. Settled'
  BY <1>1, <1>2, IssuedStays, QuietSettles DEF Sound
<1>5. OneHolder' /\ Current'
  BY <1>1, <1>2, <1>3, QuietHolds
<1>6. StatusOwn'
  BY <1>1 DEF StatusOwn
<1> QED BY <1>4, <1>5, <1>6 DEF CredentialInv

\* The doing of a worker that goes on to another phase.
LEMMA GoesOn ==
  ASSUME NEW doing \in Doings, NEW phase \in Phases, NEW new, new = [doing EXCEPT !.phase = phase]
  PROVE  /\ new \in Doings /\ new.phase = phase /\ new.kind = doing.kind /\ new.read = doing.read
         /\ new.token = doing.token /\ new.over = doing.over
  BY DEF Doings

\* A failed renewal leaves a worker with the credential it has read.
LEMMA FailedIs ==
  ASSUME Settled, NEW w \in Workers, work[w].phase \in {"renew", "probe"}, FailedRenewal(w)
  PROVE  \E new \in Doings :
           /\ work' = [work EXCEPT ![w] = new] /\ ~Holds(new) /\ Phased(new) /\ (Follows(work[w]) => Follows(new))
           /\ Reads(new) => new.read = work[w].read /\ new.token = new.read.token
<1>1. work[w] \in Doings /\ Phased(work[w])
  BY DEF Settled, CredentialTypes, Phasing
<1>2. CASE work[w].kind = "execute"
  <2>1. work' = [work EXCEPT ![w] = Idle]
    BY <1>2 DEF FailedRenewal
  <2> QED BY <2>1, IdleIs
<1>3. CASE work[w].kind # "execute"
  <2> PICK new : new = [work[w] EXCEPT !.phase = "commit", !.token = work[w].read.token]
    OBVIOUS
  <2>1. work' = [work EXCEPT ![w] = new]
    BY <1>3 DEF FailedRenewal
  <2>2. /\ new \in Doings /\ new.phase = "commit" /\ new.kind = work[w].kind /\ new.read = work[w].read
        /\ new.token = new.read.token /\ new.over = work[w].over
    BY <1>1 DEF Doings, Documents, Phases
  <2>3. ~Writes(work[w]) /\ ~Writes(new) /\ ~Holds(new)
    BY <1>3, <2>2 DEF Writes, Holds
  <2>4. Phased(new) /\ Follows(new)
    BY <1>1, <1>3, <2>2, <2>3 DEF Phased, Follows
  <2> QED BY <2>1, <2>2, <2>3, <2>4
<1> QED BY <1>2, <1>3

\* A worker that gives its renewal up, with what it has renewed counted as lost.
LEMMA FailedKeeps ==
  ASSUME CredentialInv, NEW w \in Workers, work[w].phase \in {"renew", "probe"}, FailedRenewal(w),
         UNCHANGED <<document, status, rotates, puts, last>>, lost \subseteq lost',
         issued' \in [Accounts -> Nat], \A a \in Accounts : issued[a] <= issued'[a],
         \A a : a \notin lost' => issued'[a] = issued[a],
         Holds(work[w]) => work[w].read.account \in lost'
  PROVE  CredentialInv'
<1>1. Settled /\ StatusOwn /\ OneHolder /\ Current /\ Follows(work[w])
  BY DEF CredentialInv, Settled, Following
<1>2. PICK new \in Doings :
           /\ work' = [work EXCEPT ![w] = new] /\ ~Holds(new) /\ Phased(new) /\ Follows(new)
           /\ Reads(new) => new.read = work[w].read /\ new.token = new.read.token
  BY <1>1, FailedIs
<1>3. Reads(work[w]) /\ Sound(work[w].read)
  BY <1>1, ReadIs DEF Reads
<1>4. Settled'
  <2>1. work[w].read.account \in Accounts /\ work[w].read.token \in Nat
    BY <1>1, <1>3, ReadIs DEF Settled, CredentialTypes, Doings, Documents
  <2>2. work[w].read.token <= issued[work[w].read.account] /\ issued[work[w].read.account] \in Nat
    BY <1>1, <1>3, ReadIs DEF Sound
  <2>3. work[w].read.token <= issued'[work[w].read.account]
    BY <2>1, <2>2
  <2> QED BY <1>1, <1>2, <1>3, <2>3, QuietSettles
<1>5. OneHolder' /\ Current'
  BY <1>1, <1>2, <1>3, QuietHolds
<1>6. StatusOwn'
  BY <1>1, <1>2, StatusStays
<1> QED BY <1>4, <1>5, <1>6 DEF CredentialInv

LEMMA RefusedKeeps ==
  ASSUME CredentialInv, NEW w \in Workers, RenewRefused(w)
  PROVE  CredentialInv'
<1>1. Phased(work[w]) /\ work[w].phase = "renew"
  BY DEF RenewRefused, Busy, CredentialInv, Settled, Phasing
<1>2. ~Holds(work[w])
  BY <1>1 DEF Holds
<1>3. Settled
  BY DEF CredentialInv
<1> QED BY <1>1, <1>2, <1>3, IssuedStays, FailedKeeps DEF RenewRefused

LEMMA ProbeKeeps ==
  ASSUME CredentialInv, NEW w \in Workers, NEW ok \in BOOLEAN, Probe(w, ok)
  PROVE  CredentialInv'
<1>1. CASE ~ok
  <2>1. /\ work[w].phase = "probe" /\ FailedRenewal(w) /\ UNCHANGED <<document, status, rotates, issued, expired, puts, last>>
        /\ lost' = IF work[w].token # work[w].read.token THEN lost \cup {work[w].read.account} ELSE lost
    BY <1>1 DEF Probe, Busy
  <2>2. Holds(work[w]) => work[w].read.account \in lost'
    BY <2>1 DEF Holds
  <2>3. Settled
    BY DEF CredentialInv
  <2> QED BY <2>1, <2>2, <2>3, IssuedStays, FailedKeeps
<1>2. CASE ok
  <2> PICK new : new = [work[w] EXCEPT !.phase = "commit"]
    OBVIOUS
  <2>1. /\ Settled /\ StatusOwn /\ OneHolder /\ Current /\ work[w].phase = "probe" /\ work' = [work EXCEPT ![w] = new]
        /\ UNCHANGED <<document, status, rotates, issued, expired, puts, last, lost, losses>>
    BY <1>2 DEF Probe, Busy, CredentialInv
  <2>2. /\ new \in Doings /\ new.phase = "commit" /\ new.kind = work[w].kind /\ new.read = work[w].read
        /\ new.token = work[w].token /\ new.over = work[w].over
    BY <2>1, GoesOn DEF Settled, CredentialTypes, Phases
  <2>3. Phased(work[w]) /\ Reads(work[w]) /\ Sound(work[w].read) /\ (Holds(new) <=> Holds(work[w]))
    BY <2>1, <2>2, ReadIs DEF Settled, Phasing, Reads, Holds
  <2>4. Phased(new) /\ Follows(new)
    BY <2>1, <2>2, <2>3 DEF Phased, Follows, Writes
  <2>5. Settled'
    BY <2>1, <2>2, <2>3, <2>4, ReadIs, IssuedStays, QuietSettles
  <2>6. OneHolder' /\ Current'
    BY <2>1, <2>2, <2>3, QuietHolds
  <2>7. StatusOwn'
    BY <2>1, StatusStays
  <2> QED BY <2>5, <2>6, <2>7 DEF CredentialInv
<1> QED BY <1>1, <1>2

LEMMA CommitKeeps ==
  ASSUME CredentialInv, NEW w \in Workers, CommitAuth(w)
  PROVE  CredentialInv'
<1> PICK read : read = [document EXCEPT !.account = work[w].read.account]
  OBVIOUS
<1> PICK phase : phase = IF Renewed(w) THEN "save" ELSE "status"
  OBVIOUS
<1> PICK new : new = IF document = NoDocument \/ ~Unchanged(work[w].read) THEN Idle ELSE [work[w] EXCEPT !.phase = phase, !.read = read]
  OBVIOUS
<1>1. /\ Settled /\ StatusOwn /\ OneHolder /\ Current /\ work[w].phase = "commit" /\ work' = [work EXCEPT ![w] = new]
      /\ UNCHANGED <<document, status, rotates, issued, expired, puts, last, lost, losses>>
  BY DEF CommitAuth, Busy, CredentialInv
<1>2. /\ work[w] \in Doings /\ document \in Documents /\ Phased(work[w]) /\ Reads(work[w]) /\ Sound(work[w].read)
  BY <1>1, ReadIs DEF Settled, CredentialTypes, Phasing, Reads
<1>3. StatusOwn'
  BY <1>1, StatusStays
<1>4. CASE document = NoDocument \/ ~Unchanged(work[w].read)
  <2>1. new = Idle
    BY <1>4
  <2>2. Holds(work[w]) => document = NoDocument \/ ~Holder(w)
    BY <1>4 DEF Unchanged, Auth, Holder
  <2>3. Settled'
    BY <1>1, <2>1, IdleIs, IssuedStays, QuietSettles
  <2>4. OneHolder' /\ Current'
    BY <1>1, <2>1, <2>2, IdleIs, QuietHolds
  <2> QED BY <1>3, <2>3, <2>4 DEF CredentialInv
<1>5. CASE document # NoDocument /\ Unchanged(work[w].read)
  <2>1. document.account = work[w].read.account /\ document.token = work[w].read.token
    BY <1>5 DEF Unchanged, Auth
  <2>2. read = document
    BY <1>2, <2>1 DEF Documents
  <2>3. new = [work[w] EXCEPT !.phase = phase, !.read = document] /\ phase \in Phases
    BY <1>5, <2>2 DEF Phases
  <2>4. /\ new \in Doings /\ new.phase = phase /\ new.kind = work[w].kind /\ new.read = document
        /\ new.token = work[w].token /\ new.over = work[w].over
    BY <1>2, <2>3 DEF Doings
  <2>5. phase \in {"save", "status"} /\ (phase = "save" <=> work[w].token # work[w].read.token)
    BY DEF Renewed
  <2>6. ~work[w].over /\ Writes(new) /\ Reads(new) /\ new.kind # "execute"
    BY <1>1, <1>2, <2>4, <2>5 DEF Phased, Writes, Reads
  <2>7. Phased(new) /\ Follows(new)
    BY <2>1, <2>4, <2>5, <2>6 DEF Phased, Follows
  <2>8. Holds(new) <=> Holds(work[w])
    BY <1>1, <2>1, <2>4, <2>5 DEF Holds
  <2>9. Settled'
    <3>1. Sound(document) /\ new.token <= issued[document.account]
      BY <1>1, <1>2, <1>5, <2>1, <2>4, DocumentIs, ReadIs
    <3> QED BY <1>1, <2>4, <2>7, <3>1, IssuedStays, QuietSettles
  <2>10. OneHolder' /\ Current'
    BY <1>1, <1>5, <2>1, <2>4, <2>8, QuietHolds
  <2> QED BY <1>3, <2>9, <2>10 DEF CredentialInv
<1> QED BY <1>4, <1>5

LEMMA UpsertKeeps ==
  ASSUME CredentialInv, NEW w \in Workers, UpsertProbe(w)
  PROVE  CredentialInv'
<1>1. /\ Settled /\ OneHolder /\ Current /\ work[w].phase = "status" /\ work' = [work EXCEPT ![w] = Idle]
      /\ status' = [account |-> work[w].read.account, late |-> work[w].over]
      /\ UNCHANGED <<document, rotates, issued, expired, puts, last, lost, losses>>
  BY DEF UpsertProbe, Busy, CredentialInv
<1>2. Settled'
  BY <1>1, IdleIs, IssuedStays, QuietSettles
<1>3. ~Holds(work[w])
  BY <1>1 DEF Holds
<1>4. OneHolder' /\ Current'
  BY <1>1, <1>3, IdleIs, QuietHolds
<1>5. StatusOwn'
  <2>1. CASE work[w].over \/ document = NoDocument
    BY <1>1, <2>1 DEF StatusOwn
  <2>2. CASE ~work[w].over /\ document # NoDocument
    <3>1. Reads(work[w]) /\ Writes(work[w]) /\ Follows(work[w])
      BY <1>1 DEF Reads, Writes, Settled, Following
    <3>2. work[w].read.config = document.config
      BY <2>2, <3>1 DEF Follows
    <3>3. work[w].read.account = document.account
      BY <1>1, <2>2, <3>1, <3>2, ReadIs, DocumentIs DEF Sound
    <3> QED BY <1>1, <3>3 DEF StatusOwn
  <2> QED BY <2>1, <2>2
<1> QED BY <1>2, <1>4, <1>5 DEF CredentialInv

\* A renewal issues the next generation, and if its answer is heard the worker holds it.
LEMMA HeardKeeps ==
  ASSUME CredentialInv, NEW w \in Workers, Renew(w, TRUE)
  PROVE  CredentialInv'
<1> PICK a : a = work[w].read.account
  OBVIOUS
<1> PICK next : next = issued[a] + 1
  OBVIOUS
<1> PICK phase : phase = IF work[w].kind = "execute" THEN "write" ELSE "probe"
  OBVIOUS
<1> PICK new : new = [work[w] EXCEPT !.token = next, !.phase = phase]
  OBVIOUS
<1>1. /\ Settled /\ StatusOwn /\ OneHolder /\ Current /\ work[w].phase = "renew" /\ Accepted(work[w].read)
      /\ issued' = [issued EXCEPT ![a] = next]
      /\ UNCHANGED <<document, status, rotates, expired, puts, last, lost, losses>>
  BY DEF Renew, Busy, CredentialInv
<1>2. work' = [work EXCEPT ![w] = new]
  BY DEF Renew, Settled, CredentialTypes
<1>3. /\ work \in [Workers -> Doings] /\ work[w] \in Doings /\ Phased(work[w]) /\ Reads(work[w]) /\ ~Holds(work[w])
      /\ Follows(work[w]) /\ Sound(work[w].read) /\ a \in Accounts /\ issued[a] \in Nat /\ next \in Nat
      /\ work[w].read.token \in Nat
  <2>1. work \in [Workers -> Doings] /\ work[w] \in Doings /\ Phased(work[w]) /\ Follows(work[w])
    BY <1>1 DEF Settled, CredentialTypes, Phasing, Following
  <2>2. Reads(work[w]) /\ ~Holds(work[w])
    BY <1>1 DEF Reads, Holds
  <2>3. Sound(work[w].read) /\ a \in Accounts /\ issued[a] \in Nat
    BY <1>1, <2>2, ReadIs
  <2>4. work[w].read.token \in Nat
    BY <2>1 DEF Doings, Documents
  <2> QED BY <2>1, <2>2, <2>3, <2>4
<1>4. /\ new \in Doings /\ new.phase = phase /\ new.kind = work[w].kind /\ new.read = work[w].read
      /\ new.token = next /\ new.over = work[w].over
  BY <1>3 DEF Doings, Phases
<1>5. work[w].read.token <= issued[a] /\ new.token # new.read.token
  BY <1>3, <1>4 DEF Sound
<1>6. /\ phase \in {"write", "probe"} /\ (phase = "write" <=> work[w].kind = "execute")
      /\ Holds(new) /\ (Writes(new) <=> Writes(work[w]))
  BY <1>1, <1>4, <1>5 DEF Holds, Writes
<1>7. Phased(new) /\ Follows(new)
  BY <1>1, <1>3, <1>4, <1>5, <1>6 DEF Phased, Follows
<1>8. /\ issued' \in [Accounts -> Nat] /\ \A b \in Accounts : issued[b] <= issued'[b]
      /\ issued'[a] = next /\ \A b : b # a => issued'[b] = issued[b]
  BY <1>1, <1>3 DEF Settled, CredentialTypes
<1>9. Settled'
  <2>1. Sound(new.read) /\ new.token <= issued'[new.read.account]
    BY <1>3, <1>4, <1>8
  <2> QED BY <1>1, <1>2, <1>4, <1>7, <1>8, <2>1, QuietSettles
<1>10. \A v \in Workers : work'[v] = IF v = w THEN new ELSE work[v]
  BY <1>2, <1>3
<1>11. ASSUME rotates, NEW u \in Workers, Holds(work[u]), work[u].read.account \notin lost PROVE work[u].read.account # a
  <2>1. work[w].read.token = issued[a]
    BY <1>1, <1>11 DEF Accepted
  <2>2. work[u].read.account = a => work[w].read.token < issued[a]
    BY <1>1, <1>3, <1>11 DEF OneHolder
  <2> QED BY <1>3, <2>1, <2>2
<1>12. ASSUME rotates, NEW u \in Workers, Holds(work'[u]), work'[u].read.account \notin lost
       PROVE  /\ work'[u].token = issued'[work'[u].read.account]
              /\ \A v \in Workers : (Reads(work'[v]) /\ work'[v].read.account = work'[u].read.account) =>
                   work'[v].read.token < issued'[work'[u].read.account] /\ (Holds(work'[v]) => v = u)
              /\ (document # NoDocument /\ document.account = work'[u].read.account) => document.token < issued'[work'[u].read.account]
  <2>1. CASE u = w
    <3>1. work'[u].token = issued'[work'[u].read.account] /\ work'[u].read.account = a
      BY <1>4, <1>8, <1>10, <2>1
    <3>2. ASSUME NEW v \in Workers, Reads(work'[v]), work'[v].read.account = a
          PROVE  work'[v].read.token < next /\ (Holds(work'[v]) => v = w)
      <4>1. Reads(work[v]) /\ work'[v].read = work[v].read
        BY <1>3, <1>4, <1>10, <3>2
      <4>2. work[v].read.token <= issued[a] /\ work[v].read.token \in Nat
        BY <1>1, <1>3, <3>2, <4>1, ReadIs DEF Sound, Doings, Documents
      <4>3. Holds(work'[v]) => v = w
        BY <1>10, <1>11, <1>12, <2>1, <3>1, <3>2
      <4> QED BY <1>3, <4>1, <4>2, <4>3
    <3>3. (document # NoDocument /\ document.account = a) => document.token < next
      <4>1. document.token \in Nat
        BY <1>1 DEF Settled, CredentialTypes, Documents
      <4> QED BY <1>1, <1>3, <4>1, DocumentIs DEF Sound
    <3> QED BY <1>8, <2>1, <3>1, <3>2, <3>3
  <2>2. CASE u # w
    <3>1. work'[u] = work[u] /\ work[u].read.account # a
      BY <1>10, <1>11, <1>12, <2>2
    <3>2. issued'[work[u].read.account] = issued[work[u].read.account]
      BY <1>8, <3>1
    <3>3. \A v \in Workers : work'[v].read.account = work[u].read.account => v # w /\ work'[v] = work[v]
      BY <1>4, <1>10, <3>1
    <3>4. /\ work[u].token = issued[work[u].read.account]
          /\ \A v \in Workers : (Reads(work[v]) /\ work[v].read.account = work[u].read.account) =>
               work[v].read.token < issued[work[u].read.account] /\ (Holds(work[v]) => v = u)
          /\ (document # NoDocument /\ document.account = work[u].read.account) => document.token < issued[work[u].read.account]
      BY <1>1, <1>12, <3>1 DEF OneHolder
    <3> QED BY <3>1, <3>2, <3>3, <3>4
  <2> QED BY <2>1, <2>2
<1>13. OneHolder'
  BY <1>1, <1>12 DEF OneHolder
<1>14. ASSUME rotates, document # NoDocument, document.account \notin lost, document.token # issued'[document.account]
       PROVE  \E u \in Workers : Holder(u)'
  <2>1. CASE document.account = a
    <3>1. \A u \in Workers : ~Holder(u)
      BY <1>11, <1>14, <2>1 DEF Holder
    <3>2. document.token = issued[a] /\ work[w].read.token = issued[a]
      BY <1>1, <1>14, <2>1, <3>1 DEF Current, Accepted
    <3>3. Holder(w)'
      BY <1>1, <1>4, <1>6, <1>10, <2>1, <3>2 DEF Holder
    <3> QED BY <3>3
  <2>2. CASE document.account # a
    <3>1. PICK u \in Workers : Holder(u)
      BY <1>1, <1>8, <1>14, <2>2 DEF Current
    <3>2. work'[u] = work[u]
      BY <1>3, <1>10, <3>1 DEF Holder
    <3>3. Holder(u)'
      BY <1>1, <3>1, <3>2 DEF Holder
    <3> QED BY <3>3
  <2> QED BY <2>1, <2>2
<1>15. Current'
  BY <1>1, <1>14 DEF Current
<1>16. StatusOwn'
  BY <1>1, <1>2, StatusStays
<1> QED BY <1>9, <1>13, <1>15, <1>16 DEF CredentialInv

LEMMA RenewKeeps ==
  ASSUME CredentialInv, NEW w \in Workers, NEW heard \in BOOLEAN, Renew(w, heard)
  PROVE  CredentialInv'
<1>1. CASE heard
  BY <1>1, HeardKeeps
<1>2. CASE ~heard
  <2> PICK a : a = work[w].read.account
    OBVIOUS
  <2>1. /\ Settled /\ work[w].phase = "renew" /\ FailedRenewal(w) /\ lost' = lost \cup {a}
        /\ issued' = [issued EXCEPT ![a] = issued[a] + 1]
        /\ UNCHANGED <<document, status, rotates, expired, puts, last>>
    BY <1>2 DEF Renew, Busy, CredentialInv
  <2>2. issued \in [Accounts -> Nat] /\ ~Holds(work[w]) /\ a \in Accounts
    BY <2>1, ReadIs DEF Settled, CredentialTypes, Reads, Holds
  <2>3. /\ issued' \in [Accounts -> Nat] /\ \A b \in Accounts : issued[b] <= issued'[b]
        /\ \A b : b \notin lost' => issued'[b] = issued[b]
    BY <2>1, <2>2
  <2> QED BY <2>1, <2>2, <2>3, FailedKeeps
<1> QED BY <1>1, <1>2

\* A worker that writes back a document writes the last credential issued.
LEMMA WriteKeeps ==
  ASSUME CredentialInv, NEW w \in Workers, work[w].phase \in {"write", "save"}, NEW new \in Doings,
         document' = [work[w].read EXCEPT !.token = work[w].token, !.over = @ \/ work[w].over],
         work' = [Overtake(work[w].read.config) EXCEPT ![w] = new],
         UNCHANGED <<status, rotates, issued, puts, last, lost>>,
         new = Idle \/ (work[w].phase = "save" /\ new = [Overtake(work[w].read.config)[w] EXCEPT !.phase = "status"])
  PROVE  CredentialInv'
<1> PICK read : read = work[w].read
  OBVIOUS
<1> PICK over \in BOOLEAN : over = (work[w].read.over \/ work[w].over)
  OBVIOUS
<1>1. /\ Settled /\ StatusOwn /\ OneHolder /\ Current
      /\ work[w] \in Doings /\ Phased(work[w]) /\ Follows(work[w])
  BY DEF CredentialInv, Settled, CredentialTypes, Phasing, Following
<1>2. /\ read \in Documents /\ work[w].token \in Nat /\ read.config \in Nat /\ read.account \in Accounts \cup {""}
  BY <1>1 DEF Doings, Documents
<1>3. Reads(work[w]) /\ Writes(work[w]) /\ Holds(work[w])
  BY <1>1 DEF Reads, Writes, Holds, Phased
<1>4. Sound(read) /\ read.config # 0 /\ read.account \in Accounts /\ issued[read.account] \in Nat
  BY <1>1, <1>3, ReadIs
<1>5. /\ document' \in Documents /\ document'.config = read.config /\ document'.account = read.account
      /\ document'.token = work[w].token /\ document'.over = over
  BY <1>2 DEF Documents
<1>6. /\ read.config = document.config => (document'.over <=> document.over)
      /\ read.config # document.config => document'.over
      /\ ~document'.over => ~work[w].over /\ ~read.over /\ ~document.over /\ read.config = document.config
  BY <1>1, <1>3, <1>5 DEF Follows
<1>7. /\ new = Idle \/ /\ new.phase = "status" /\ work[w].phase = "save" /\ new.token = work[w].token
                       /\ new.read = read /\ new.kind = work[w].kind
                       /\ (new.over <=> work[w].over \/ read.config # document.config)
  <2>1. /\ Overtake(read.config)[w] \in Doings /\ Overtake(read.config)[w].read = read
        /\ Overtake(read.config)[w].kind = work[w].kind /\ Overtake(read.config)[w].token = work[w].token
        /\ Overtake(read.config)[w].over <=> (work[w].over \/ read.config # document.config)
    BY <1>1, <1>2, <1>3, OvertakeIs, ZenonT(40)
  <2>2. CASE new # Idle
    <3>1. new = [Overtake(read.config)[w] EXCEPT !.phase = "status"]
      BY <2>2
    <3>2. /\ new.phase = "status" /\ new.kind = Overtake(read.config)[w].kind
          /\ new.token = Overtake(read.config)[w].token
          /\ new.read = Overtake(read.config)[w].read /\ new.over = Overtake(read.config)[w].over
      BY <2>1, <3>1, GoesOn, SMTT(30) DEF Phases
    <3> QED BY <2>1, <2>2, <3>2
  <2> QED BY <2>2
<1>8. ~Holds(new) /\ Phased(new)
  BY <1>1, <1>7, IdleIs DEF Holds, Phased, Writes
<1>9. Follows(new)'
  <2>1. CASE new = Idle
    BY <2>1, IdleIs DEF Follows
  <2>2. CASE new # Idle
    BY <1>5, <1>6, <1>7, <2>2 DEF Follows
  <2> QED BY <2>1, <2>2
<1>10. Sound(document)' /\ (Reads(new) => Sound(new.read)' /\ new.token <= issued[new.read.account])
  <2>1. work[w].token <= issued[read.account]
    BY <1>1, <1>3, ReadIs
  <2>2. Sound(document)' /\ Sound(read)'
    BY <1>4, <1>5, <2>1 DEF Sound
  <2> QED BY <1>7, <2>1, <2>2, IdleIs
<1>11. PutLasts'
  BY <1>1, <1>5, <1>6 DEF Settled, PutLasts
<1>12. Settled'
  <2>1. \A v \in Workers \ {w} : (Writes(work[v]) /\ work[v].read.config = document'.config) =>
            \/ document'.config = document.config /\ (document'.over <=> document.over)
            \/ document'.over /\ (work[v].over \/ work[v].read.over \/ document'.config # document.config)
    BY <1>5, <1>6
  <2>2. puts' \in Seq(Accounts) /\ last' \in Nat /\ Len(puts) <= Len(puts') /\ \A i \in 1..Len(puts) : puts'[i] = puts[i]
    BY <1>1 DEF Settled, CredentialTypes
  <2>3. work' = [Overtake(document'.config) EXCEPT ![w] = new]
    BY <1>5
  <2>4. document' = NoDocument \/ Sound(document)'
    BY <1>10
  <2>5. Reads(new) => Sound(new.read)' /\ new.token <= issued[new.read.account]
    BY <1>10
  <2> QED BY <1>1, <1>5, <1>8, <1>9, <1>11, <2>1, <2>2, <2>3, <2>4, <2>5, ChangeSettles
<1>13. /\ work'[w] = new
       /\ \A v \in Workers \ {w} :
            /\ work'[v].phase = work[v].phase /\ work'[v].read = work[v].read /\ work'[v].token = work[v].token
            /\ Reads(work'[v]) <=> Reads(work[v])
            /\ Holds(work'[v]) <=> Holds(work[v])
  BY <1>1, <1>2, OvertakenIs, ZenonT(40)
<1>14. ASSUME rotates, NEW u \in Workers, Holds(work'[u]), work'[u].read.account \notin lost
       PROVE  /\ work'[u].token = issued[work'[u].read.account]
              /\ \A v \in Workers : (Reads(work'[v]) /\ work'[v].read.account = work'[u].read.account) =>
                   work'[v].read.token < issued[work'[u].read.account] /\ (Holds(work'[v]) => v = u)
              /\ (document' # NoDocument /\ document'.account = work'[u].read.account) => document'.token < issued[work'[u].read.account]
  <2>1. u \in Workers \ {w} /\ Holds(work[u]) /\ work'[u].read = work[u].read /\ work'[u].token = work[u].token
    BY <1>8, <1>13, <1>14
  <2>2. /\ work[u].token = issued[work[u].read.account]
        /\ \A v \in Workers : (Reads(work[v]) /\ work[v].read.account = work[u].read.account) =>
             work[v].read.token < issued[work[u].read.account] /\ (Holds(work[v]) => v = u)
    BY <1>1, <1>14, <2>1 DEF OneHolder
  <2>3. work[u].read.account # read.account
    BY <1>3, <2>1, <2>2
  <2>4. ASSUME NEW v \in Workers, Reads(work'[v]), work'[v].read.account = work'[u].read.account
        PROVE  work'[v].read.token < issued[work'[u].read.account] /\ (Holds(work'[v]) => v = u)
    <3>1. v # w
      <4>1. Reads(new) => new.read.account = read.account
        BY <1>7, IdleIs
      <4>2. work'[w] = new
        BY <1>13
      <4>3. work'[u].read.account # read.account
        BY <2>1, <2>3
      <4> QED BY <2>4, <4>1, <4>2, <4>3
    <3>2. Reads(work[v]) /\ work'[v].read = work[v].read /\ (Holds(work'[v]) <=> Holds(work[v]))
      BY <1>13, <2>4, <3>1
    <3> QED BY <2>1, <2>2, <2>4, <3>2
  <2> QED BY <1>5, <2>1, <2>2, <2>3, <2>4
<1>15. OneHolder'
  BY <1>14 DEF OneHolder
<1>16. Current'
  <2>1. ASSUME rotates, document'.account \notin lost PROVE document'.token = issued[document'.account]
    BY <1>1, <1>3, <1>5, <2>1 DEF OneHolder
  <2> QED BY <2>1 DEF Current
<1>17. StatusOwn'
  <2>1. CASE document'.over
    BY <2>1 DEF StatusOwn
  <2>2. CASE ~document'.over
    <3>1. document # NoDocument /\ ~document.over /\ document'.account = document.account
      <4>1. read.config = document.config /\ ~document.over
        BY <1>6, <2>2
      <4>2. document # NoDocument
        BY <1>4, <4>1, DocumentsExist
      <4> QED BY <1>1, <1>4, <1>5, <4>1, <4>2, DocumentIs DEF Sound
    <3>2. ASSUME NEW v \in Workers, Busy(v, "forget") PROVE Busy(v, "forget")'
      <4>1. v # w
        BY <3>2 DEF Busy
      <4> QED BY <1>13, <3>2, <4>1 DEF Busy
    <3> QED BY <1>1, <3>1, <3>2 DEF StatusOwn
  <2> QED BY <2>1, <2>2
<1> QED BY <1>12, <1>15, <1>16, <1>17 DEF CredentialInv

LEMMA WriteBackKeeps == ASSUME CredentialInv, NEW w \in Workers, WriteBack(w) PROVE CredentialInv'
  BY WriteKeeps, IdleIs DEF WriteBack, Busy

LEMMA SaveKeeps == ASSUME CredentialInv, NEW w \in Workers, SaveAuth(w) PROVE CredentialInv'
<1> PICK config : config = work[w].read.config
  OBVIOUS
<1> PICK new : new = [Overtake(config)[w] EXCEPT !.phase = "status"]
  OBVIOUS
<1>1. Settled /\ config \in Nat /\ work[w].phase = "save"
  BY DEF CredentialInv, Settled, CredentialTypes, Doings, Documents, SaveAuth, Busy
<1>2. Overtake(config) \in [Workers -> Doings]
  BY <1>1, OvertakeIs
<1>3. new \in Doings
  BY <1>2, GoesOn DEF Phases
<1>4. work' = [Overtake(config) EXCEPT ![w] = new]
  BY <1>2 DEF SaveAuth
<1> QED BY <1>1, <1>3, <1>4, WriteKeeps DEF SaveAuth

\* What the client does next to what the workers do.
LEMMA ClientIs ==
  ASSUME NEW kind \in {"put", "delete"}, NEW new, new = [Idle EXCEPT !.phase = "forget", !.kind = kind]
  PROVE  /\ new \in Doings /\ new.phase = "forget" /\ ~Reads(new) /\ ~Writes(new) /\ ~Holds(new) /\ Phased(new)
<1>1. new \in Doings /\ new.phase = "forget" /\ new.kind = kind /\ ~new.over
  BY IdleIs DEF Doings, Phases, Kinds
<1> QED BY <1>1 DEF Reads, Writes, Holds, Phased

LEMMA PutKeeps == ASSUME CredentialInv, NEW w \in Workers, NEW account \in Accounts, Put(w, account) PROVE CredentialInv'
<1> PICK new : new = [Idle EXCEPT !.phase = "forget", !.kind = "put"]
  OBVIOUS
<1> PICK config : config = Len(puts) + 1
  OBVIOUS
<1>1. /\ Settled /\ OneHolder /\ Current /\ work[w].phase = "idle"
      /\ puts' = Append(puts, account) /\ last' = config
      /\ document' = [config |-> config, account |-> account, token |-> 0, over |-> FALSE]
      /\ work' = [Overtake(config) EXCEPT ![w] = new]
      /\ lost' = IF issued[account] > 0 THEN lost \cup {account} ELSE lost
      /\ UNCHANGED <<status, rotates, issued, expired, losses>>
  BY DEF Put, Busy, CredentialInv
<1>2. new \in Doings /\ new.phase = "forget" /\ ~Reads(new) /\ ~Writes(new) /\ ~Holds(new) /\ Phased(new)
  BY ClientIs
<1>3. /\ puts \in Seq(Accounts) /\ puts' \in Seq(Accounts) /\ Len(puts) \in Nat /\ config \in Nat
      /\ Len(puts') = config /\ puts'[config] = account /\ \A i \in 1..Len(puts) : puts'[i] = puts[i]
      /\ issued[account] \in Nat
  BY <1>1 DEF Settled, CredentialTypes
<1>4. /\ document' \in Documents /\ document'.config = config /\ document'.account = account /\ document'.token = 0
      /\ ~document'.over
  BY <1>1, <1>3 DEF Documents
<1>5. Sound(document)'
  <2>1. config \in 1..Len(puts')
    BY <1>3
  <2> QED BY <1>1, <1>3, <1>4, <2>1 DEF Sound
<1>6. ASSUME NEW v \in Workers, Writes(work[v]) PROVE Reads(work[v]) /\ work[v].read.config # config
  <2>1. Reads(work[v])
    BY <1>1, <1>6 DEF Settled, Phasing, Phased, Writes, Reads
  <2>2. work[v].read.config \in 1..Len(puts)
    BY <1>1, <2>1, ReadIs DEF Sound
  <2> QED BY <1>3, <2>1, <2>2
<1>7. Follows(new)' /\ PutLasts'
  BY <1>1, <1>2, <1>4 DEF Follows, PutLasts
<1>8. Settled'
  <2>1. work' = [Overtake(document'.config) EXCEPT ![w] = new] /\ Len(puts) <= Len(puts') /\ last' \in Nat
    BY <1>1, <1>3, <1>4
  <2> QED BY <1>1, <1>2, <1>3, <1>4, <1>5, <1>6, <1>7, <2>1, ChangeSettles
<1>9. /\ work'[w] = new
      /\ \A v \in Workers \ {w} :
           /\ work'[v].read = work[v].read /\ work'[v].token = work[v].token
           /\ Reads(work'[v]) <=> Reads(work[v])
           /\ Holds(work'[v]) <=> Holds(work[v])
  BY <1>1, <1>2, <1>3, OvertakenIs
<1>10. ASSUME rotates, NEW u \in Workers, Holds(work'[u]), work'[u].read.account \notin lost'
       PROVE  /\ work'[u].token = issued[work'[u].read.account]
              /\ \A v \in Workers : (Reads(work'[v]) /\ work'[v].read.account = work'[u].read.account) =>
                   work'[v].read.token < issued[work'[u].read.account] /\ (Holds(work'[v]) => v = u)
              /\ (document' # NoDocument /\ document'.account = work'[u].read.account) => document'.token < issued[work'[u].read.account]
  <2>1. u # w /\ Holds(work[u]) /\ work'[u].read = work[u].read /\ work'[u].token = work[u].token
    BY <1>2, <1>9, <1>10
  <2>2. /\ work[u].token = issued[work[u].read.account]
        /\ \A v \in Workers : (Reads(work[v]) /\ work[v].read.account = work[u].read.account) =>
             work[v].read.token < issued[work[u].read.account] /\ (Holds(work[v]) => v = u)
    BY <1>1, <1>10, <2>1 DEF OneHolder
  <2>3. ASSUME NEW v \in Workers, Reads(work'[v]), work'[v].read.account = work'[u].read.account
        PROVE  work'[v].read.token < issued[work'[u].read.account] /\ (Holds(work'[v]) => v = u)
    BY <1>2, <1>9, <2>1, <2>2, <2>3
  <2>4. work[u].read.account = account => 0 < issued[account]
    <3>1. Reads(work[u]) /\ work[u].read.token \in Nat
      BY <1>1, <2>1 DEF Holds, Reads, Settled, CredentialTypes, Doings, Documents
    <3> QED BY <1>3, <2>2, <3>1
  <2> QED BY <1>4, <2>1, <2>2, <2>3, <2>4
<1>11. OneHolder'
  BY <1>1, <1>10 DEF OneHolder
<1>12. Current'
  <2>1. account \notin lost' => issued[account] = 0
    BY <1>1, <1>3
  <2> QED BY <1>1, <1>4, <2>1 DEF Current
<1>13. StatusOwn'
  BY <1>2, <1>9 DEF StatusOwn, Busy
<1> QED BY <1>8, <1>11, <1>12, <1>13 DEF CredentialInv

LEMMA DeleteKeeps == ASSUME CredentialInv, NEW w \in Workers, Delete(w) PROVE CredentialInv'
<1> PICK new : new = [Idle EXCEPT !.phase = "forget", !.kind = "delete"]
  OBVIOUS
<1>1. /\ Settled /\ OneHolder /\ Current /\ work[w].phase = "idle" /\ document' = NoDocument /\ last' = 0
      /\ work' = [Overtake(0) EXCEPT ![w] = new]
      /\ UNCHANGED <<status, rotates, issued, expired, puts, lost, losses>>
  BY DEF Delete, Busy, CredentialInv
<1>2. new \in Doings /\ new.phase = "forget" /\ ~Reads(new) /\ ~Writes(new) /\ ~Holds(new) /\ Phased(new)
  BY ClientIs
<1>3. ASSUME NEW v \in Workers, Writes(work[v]) PROVE work[v].read.config # 0
  <2>1. Reads(work[v])
    BY <1>1, <1>3 DEF Settled, Phasing, Phased, Writes, Reads
  <2> QED BY <1>1, <2>1, ReadIs
<1>4. document' \in Documents /\ document'.config = 0 /\ Follows(new)' /\ PutLasts'
  BY <1>1, <1>2, DocumentsExist DEF Follows, PutLasts
<1>5. Settled'
  <2>1. puts' \in Seq(Accounts) /\ last' \in Nat /\ Len(puts) <= Len(puts') /\ \A i \in 1..Len(puts) : puts'[i] = puts[i]
    BY <1>1 DEF Settled, CredentialTypes
  <2>2. work' = [Overtake(document'.config) EXCEPT ![w] = new]
    BY <1>1, <1>4
  <2> QED BY <1>1, <1>2, <1>3, <1>4, <2>1, <2>2, ChangeSettles
<1>6. /\ work'[w] = new
      /\ \A v \in Workers \ {w} :
           /\ work'[v].read = work[v].read /\ work'[v].token = work[v].token
           /\ Reads(work'[v]) <=> Reads(work[v])
           /\ Holds(work'[v]) <=> Holds(work[v])
  BY <1>1, <1>2, OvertakenIs
<1>7. OneHolder'
  BY <1>1, <1>2, <1>6 DEF OneHolder
<1>8. Current' /\ StatusOwn'
  BY <1>1 DEF Current, StatusOwn
<1> QED BY <1>5, <1>7, <1>8 DEF CredentialInv

LEMMA CrashKeeps == ASSUME CredentialInv, Crash PROVE CredentialInv'
<1>1. /\ Settled /\ OneHolder /\ Current /\ work' = [w \in Workers |-> Idle] /\ status' = NoStatus /\ lost' = LostWith(Workers)
      /\ UNCHANGED <<document, rotates, issued, expired, puts, last>>
  BY DEF Crash, CredentialInv
<1>2. CredentialTypes' /\ Soundness' /\ Phasing' /\ Following' /\ PutLasts'
  <2>1. CredentialTypes'
    BY <1>1, IdleIs DEF Settled, CredentialTypes
  <2>2. Soundness' /\ Phasing' /\ PutLasts'
    BY <1>1, IdleIs DEF Settled, Soundness, Phasing, PutLasts, Sound
  <2>3. Following'
    BY <1>1, IdleIs DEF Following, Follows
  <2> QED BY <2>1, <2>2, <2>3
<1>3. OneHolder' /\ StatusOwn'
  BY <1>1, IdleIs DEF OneHolder, StatusOwn
<1>4. Current'
  <2>1. ASSUME NEW w \in Workers, Holds(work[w]) PROVE work[w].read.account \in lost'
    BY <1>1, <2>1 DEF Holds, LostWith, Unsaved
  <2> QED BY <1>1, <2>1 DEF Current, Holder, LostWith
<1> QED BY <1>2, <1>3, <1>4 DEF CredentialInv, Settled

LEMMA CredentialKept == CredentialInv /\ [CredentialsNext]_credentialVars => CredentialInv'
<1> SUFFICES ASSUME CredentialInv, [CredentialsNext]_credentialVars PROVE CredentialInv'
  OBVIOUS
<1>1. CASE UNCHANGED <<document, status, work, rotates, issued, puts, last, lost>>
  BY <1>1 DEF CredentialInv, Settled, CredentialTypes, Soundness, Sound, Phasing, Following, Follows, PutLasts, StatusOwn,
       Busy, OneHolder, Current, Holder
<1>2. CASE \E w \in Workers : Act(w)
  <2>1. PICK w \in Workers : Act(w)
    BY <1>2
  <2> QED BY <2>1, PutKeeps, DeleteKeeps, RemoveProbeKeeps, StartKeeps, RenewKeeps, ProbeKeeps, RefusedKeeps,
        WriteBackKeeps, CommitKeeps, SaveKeeps, UpsertKeeps DEF Act
<1> QED BY <1>1, <1>2, CrashKeeps DEF CredentialsNext, Expire, credentialVars

(* A profile's configuration is never combined with another account's      *)
(* credential, the client's last put stands unless a write of what was     *)
(* read before undoes it, a status is of the account it is shown for, and  *)
(* at rest the stored credential is the one the provider accepts, for any  *)
(* number of requests, probes, puts and crashes (profiles.rs).             *)
THEOREM ProfilesAreHonest == CredentialsSpec => []ProfileHonest
<1>1. CredentialInv => KeysBelong /\ PutLasts /\ StatusOwn
  BY DEF CredentialInv, Settled, Soundness, Sound, KeysBelong
<1>2. CredentialInv => TokenCurrent
  <2>1. ASSUME NEW w \in Workers, Busy(w, "idle") PROVE ~Holder(w)
    BY <2>1 DEF Busy, Holder, Holds
  <2> QED BY <2>1 DEF CredentialInv, Current, TokenCurrent
<1>3. CredentialInv => ProfileHonest
  BY <1>1, <1>2 DEF ProfileHonest
<1> QED BY <1>3, CredentialsStart, CredentialKept, PTL DEF CredentialsSpec
-----------------------------------------------------------------------------
(***************************************************************************)
(* The connection to the Codex provider.  Unless a request was aborted     *)
(* after it was sent, the continuation stands for what the provider knows  *)
(* behind its id, nothing is under way between requests, and what is under *)
(* way while a request waits is its own and whole.                         *)
(***************************************************************************)
\* What the state holds.
Named == Profiles \cup {""}
Rated == Efforts \cup {""}
Entries == [kind : {"input", "document", "output", "rebuilt"}, of : Nat, n : Nat, profile : Named]
Events == {event \in [type : {"item", "completed", "failed", "closed"}, of : 0..MaxAsked, n : 0..OutputSize, profile : Named] :
             event.type = "item" => event.n # 0}
Kepts == [id : 0..MaxAsked, effort : Rated, input : Seq(Entries), items : Seq(Entries)]
Links == [socket : {"none", "open", "closed"}, profile : Named, kept : Kepts]
Exchanges == [id : 0..MaxAsked, profile : Named, seen : Seq(Entries), logical : Seq(Entries),
           sent : 0..OutputSize, tainted : BOOLEAN]
AskedTypes ==
  /\ DOMAIN asked = {"pc", "id", "profile", "effort", "input", "got"}
  /\ asked.pc \in {"rest", "lock", "read"} /\ asked.id \in 0..MaxAsked /\ (asked.pc # "rest" => asked.id # 0)
  /\ asked.profile \in Named /\ asked.effort \in Rated /\ asked.input \in Seq(Entries)
  /\ asked.pc # "read" => DOMAIN asked.got = {}
  /\ DOMAIN asked.got \subseteq 1..OutputSize /\ \A n \in DOMAIN asked.got : asked.got[n] \in Events
CodexTypes ==
  /\ transcript \in Seq(Entries) /\ AskedTypes /\ link \in Links /\ frames \in Seq(Events) /\ serving \in Seq(Exchanges)
  /\ contexts \in [1..MaxAsked -> Seq(Entries)] /\ tainted \in BOOLEAN

\* The continuation stands for what the provider knows behind its id.
Continues ==
  link.kept.id # 0 =>
    /\ link.kept.id \in 1..asked.id /\ (asked.pc # "rest" => link.kept.id # asked.id)
    /\ contexts[link.kept.id] = link.kept.input \o link.kept.items

\* Between requests nothing is under way on the connection.
Quiet == asked.pc # "read" => serving = <<>> /\ \A i \in 1..Len(frames) : frames[i].type = "closed"

\* While a request waits, what is under way is its own: the provider serves it, what
\* has been read and what is on its way are its items, none is missing, and after the
\* end there is only the close.
Waits(n, i) == n \in DOMAIN asked.got \/ \E j \in 1..i : frames[j].type = "item" /\ frames[j].n = n
OwnServed ==
  serving # <<>> =>
    /\ Len(serving) = 1 /\ serving[1].id = asked.id /\ serving[1].profile = asked.profile /\ serving[1].seen = asked.input
    /\ \A n \in 1..serving[1].sent : Waits(n, Len(frames))
    /\ \A i \in 1..Len(frames) : frames[i].type # "completed"
OwnFrames ==
  /\ \A n \in DOMAIN asked.got : asked.got[n].of = asked.id /\ asked.got[n].profile = asked.profile
  /\ \A i \in 1..Len(frames) : frames[i].type \in {"item", "completed"} =>
       frames[i].of = asked.id /\ frames[i].profile = asked.profile
  /\ \A i \in 1..Len(frames) : frames[i].type = "completed" =>
       /\ contexts[asked.id] = asked.input \o Output(asked.id, asked.profile)
       /\ \A n \in 1..OutputSize : Waits(n, i - 1)
       /\ \A j \in (i + 1)..Len(frames) : frames[j].type = "closed"
InStep == asked.pc = "read" => OwnServed /\ OwnFrames

Undisturbed == ~tainted => Continues /\ Quiet /\ InStep
CodexInv == CodexTypes /\ Undisturbed /\ CodexExact

LEMMA EmptyIs == (\A S : <<>> \in Seq(S)) /\ DOMAIN <<>> = {} /\ Len(<<>>) = 0
  OBVIOUS

LEMMA SizeIs == OutputSize \in Nat /\ OutputSize # 0
  BY DEF OutputSize

LEMMA FunctionIsSeq == ASSUME NEW S, NEW k \in Nat, NEW f \in [1..k -> S] PROVE f \in Seq(S)
  OBVIOUS

LEMMA EntryIs ==
  ASSUME NEW kind \in {"input", "document", "output", "rebuilt"}, NEW of \in Nat, NEW k \in Nat, NEW profile \in Named
  PROVE  [kind |-> kind, of |-> of, n |-> k, profile |-> profile] \in Entries
  BY DEF Entries

LEMMA SequencesEqual ==
  ASSUME NEW S, NEW s \in Seq(S), NEW t \in Seq(S), Len(s) = Len(t), \A i \in 1..Len(s) : s[i] = t[i]
  PROVE  s = t
  OBVIOUS

LEMMA OutputIs ==
  ASSUME NEW n \in Nat, NEW profile \in Named
  PROVE  /\ Output(n, profile) \in Seq(Entries) /\ DOMAIN Output(n, profile) = 1..OutputSize
         /\ Output(n, profile) = [i \in 1..OutputSize |-> Output(n, profile)[i]]
         /\ \A i \in 1..OutputSize : Output(n, profile)[i] \in Entries
<1>1. ASSUME NEW i \in 1..OutputSize PROVE Output(n, profile)[i] \in Entries
  <2>1. i \in Nat
    BY SizeIs
  <2>2. Output(n, profile)[i] = [kind |-> "output", of |-> n, n |-> i, profile |-> profile]
    BY DEF Output
  <2> QED BY <2>1, <2>2, EntryIs
<1>2. DOMAIN Output(n, profile) = 1..OutputSize /\ Output(n, profile) = [i \in 1..OutputSize |-> Output(n, profile)[i]]
  BY DEF Output
<1>3. Output(n, profile) \in [1..OutputSize -> Entries]
  BY <1>1, <1>2
<1>4. Output(n, profile) \in Seq(Entries)
  BY <1>3, SizeIs, FunctionIsSeq
<1> QED BY <1>1, <1>2, <1>4

LEMMA RenderedIs ==
  ASSUME transcript \in Seq(Entries), NEW profile
  PROVE  Rendered(profile) \in Seq(Entries)
<1>1. \A i \in 1..Len(transcript) : Rendered(profile)[i] \in Entries
  <2> SUFFICES ASSUME NEW i \in 1..Len(transcript) PROVE Rendered(profile)[i] \in Entries
    OBVIOUS
  <2>1. transcript[i] \in Entries
    OBVIOUS
  <2>2. [transcript[i] EXCEPT !.kind = "rebuilt"] \in Entries
    BY <2>1 DEF Entries
  <2> QED BY <2>1, <2>2 DEF Rendered
<1>2. DOMAIN Rendered(profile) = 1..Len(transcript) /\ Rendered(profile) = [i \in DOMAIN transcript |-> Rendered(profile)[i]]
  BY DEF Rendered
<1>3. Rendered(profile) \in [1..Len(transcript) -> Entries]
  BY <1>1, <1>2
<1> QED BY <1>3

LEMMA PrefixJoins ==
  ASSUME NEW s \in Seq(Entries), NEW t \in Seq(Entries), IsPrefix(s, t)
  PROVE  SubSeq(t, Len(s) + 1, Len(t)) \in Seq(Entries) /\ s \o SubSeq(t, Len(s) + 1, Len(t)) = t
<1> PICK rest : rest = SubSeq(t, Len(s) + 1, Len(t))
  OBVIOUS
<1>1. Len(s) \in Nat /\ Len(t) \in Nat /\ Len(s) <= Len(t) /\ \A i \in 1..Len(s) : s[i] = t[i]
  <2>1. Len(s) \in Nat /\ Len(t) \in Nat /\ Len(s) <= Len(t) /\ SubSeq(s, 1, Len(s)) = SubSeq(t, 1, Len(s))
    BY DEF IsPrefix
  <2>2. ASSUME NEW i \in 1..Len(s) PROVE s[i] = t[i]
    <3>1. SubSeq(s, 1, Len(s))[i] = s[i] /\ SubSeq(t, 1, Len(s))[i] = t[i]
      BY <2>1
    <3> QED BY <2>1, <3>1
  <2> QED BY <2>1, <2>2
<1>2. rest \in Seq(Entries) /\ Len(rest) = Len(t) - Len(s) /\ \A i \in 1..Len(rest) : rest[i] = t[Len(s) + i]
  BY <1>1
<1>3. Len(s \o rest) = Len(t) /\ \A i \in 1..Len(t) : (s \o rest)[i] = t[i]
  BY <1>1, <1>2
<1>4. s \o rest \in Seq(Entries)
  BY <1>2
<1>5. s \o rest = t
  BY <1>3, <1>4, SequencesEqual
<1> QED BY <1>2, <1>5

LEMMA NoLinkIs == NoLink \in Links /\ NoLink.kept.id = 0 /\ NoLink.socket = "none"
<1>1. PICK blank : blank = "" /\ blank \in Named /\ blank \in Rated
  BY Zenon DEF Named, Rated
<1>2. PICK none : none = <<>> /\ none \in Seq(Entries)
  BY EmptyIs
<1>3. PICK kept : kept = [id |-> 0, effort |-> blank, input |-> none, items |-> none]
  OBVIOUS
<1>4. NoLink = [socket |-> "none", profile |-> blank, kept |-> kept]
  BY <1>1, <1>2, <1>3, Zenon DEF NoLink, NoContinuation
<1>5. kept \in Kepts /\ kept.id = 0
  <2>1. 0 \in 0..MaxAsked
    BY CodexAssumption
  <2> QED BY <1>1, <1>2, <1>3, <2>1 DEF Kepts
<1> QED BY <1>1, <1>4, <1>5 DEF Links

\* A connection that was dropped.
LEMMA ResetIs ==
  ASSUME Reset, AskedTypes', transcript' \in Seq(Entries), asked'.pc # "read", \A a \in answers' : a.tainted \/ a.of = a.asked
  PROVE  CodexInv'
<1>1. link' \in Links /\ link'.kept.id = 0
  BY NoLinkIs DEF Reset
<1>2. frames' \in Seq(Events) /\ serving' \in Seq(Exchanges) /\ tainted' \in BOOLEAN
  BY EmptyIs DEF Reset
<1>3. contexts' \in [1..MaxAsked -> Seq(Entries)]
  BY EmptyIs DEF Reset
<1>4. CodexTypes'
  BY <1>1, <1>2, <1>3 DEF CodexTypes
<1>5. Undisturbed'
  BY <1>1, EmptyIs DEF Reset, Undisturbed, Continues, Quiet, InStep
<1>6. CodexExact'
  BY DEF Reset, CodexExact
<1> QED BY <1>4, <1>5, <1>6 DEF CodexInv

LEMMA NoAskIs ==
  /\ NoAsk.pc = "rest" /\ NoAsk.id = 0 /\ DOMAIN NoAsk.got = {} /\ NoAsk.input = <<>> /\ NoAsk.profile \in Named /\ NoAsk.effort \in Rated
  /\ DOMAIN NoAsk = {"pc", "id", "profile", "effort", "input", "got"}
<1>1. PICK blank : blank = "" /\ blank \in Named /\ blank \in Rated
  BY Zenon DEF Named, Rated
<1>2. PICK none : none = <<>> /\ DOMAIN none = {}
  BY EmptyIs
<1>3. NoAsk = [pc |-> "rest", id |-> 0, profile |-> blank, effort |-> blank, input |-> none, got |-> none]
  BY <1>1, <1>2, Zenon DEF NoAsk
<1> QED BY <1>1, <1>2, <1>3

LEMMA RestIs ==
  ASSUME NEW id \in 0..MaxAsked, asked' = [NoAsk EXCEPT !.id = id]
  PROVE  AskedTypes' /\ asked'.pc = "rest" /\ asked'.id = id
<1>1. asked'.pc = "rest" /\ asked'.id = id /\ DOMAIN asked' = DOMAIN NoAsk /\ asked'.got = NoAsk.got
      /\ asked'.input = NoAsk.input /\ asked'.profile = NoAsk.profile /\ asked'.effort = NoAsk.effort
  BY NoAskIs
<1> QED BY <1>1, NoAskIs, EmptyIs DEF AskedTypes

LEMMA CodexStarts == CodexInit => CodexInv
<1> SUFFICES ASSUME CodexInit PROVE CodexInv
  OBVIOUS
<1>1. link \in Links /\ link.kept.id = 0
  BY NoLinkIs DEF CodexInit
<1>2. AskedTypes /\ asked.pc = "rest"
  <2>1. asked = NoAsk
    BY DEF CodexInit
  <2>2. 0 \in 0..MaxAsked
    BY CodexAssumption
  <2> QED BY <2>1, <2>2, NoAskIs, EmptyIs DEF AskedTypes
<1>3. contexts \in [1..MaxAsked -> Seq(Entries)]
  BY EmptyIs DEF CodexInit
<1>4. frames = <<>> /\ serving = <<>> /\ transcript = <<>> /\ tainted = FALSE /\ answers = {}
  BY DEF CodexInit
<1>5. CodexTypes
  BY <1>1, <1>2, <1>3, <1>4, EmptyIs DEF CodexTypes
<1>6. Undisturbed /\ CodexExact
  BY <1>1, <1>2, <1>4, EmptyIs DEF Undisturbed, Continues, Quiet, InStep, CodexExact
<1> QED BY <1>5, <1>6 DEF CodexInv

LEMMA DroppedKeeps ==
  ASSUME CodexInv, Failed, UNCHANGED <<transcript, answers>>
  PROVE  CodexInv'
<1>1. transcript \in Seq(Entries) /\ asked.id \in 0..MaxAsked /\ \A a \in answers : a.tainted \/ a.of = a.asked
  BY DEF CodexInv, CodexTypes, AskedTypes, CodexExact
<1>2. AskedTypes' /\ asked'.pc = "rest"
  BY <1>1, RestIs DEF Failed
<1> QED BY <1>1, <1>2, ResetIs DEF Failed

LEMMA AppendIs ==
  ASSUME NEW S, NEW s \in Seq(S), NEW e \in S
  PROVE  /\ Append(s, e) \in Seq(S) /\ Len(Append(s, e)) = Len(s) + 1 /\ Len(s) \in Nat
         /\ \A i \in 1..Len(s) : Append(s, e)[i] = s[i]
         /\ Append(s, e)[Len(s) + 1] = e
  OBVIOUS

LEMMA TailIs ==
  ASSUME NEW S, NEW s \in Seq(S), s # <<>>
  PROVE  /\ Tail(s) \in Seq(S) /\ Len(Tail(s)) = Len(s) - 1 /\ Len(s) \in Nat \ {0} /\ Head(s) = s[1] /\ s[1] \in S
         /\ \A i \in 1..Len(Tail(s)) : Tail(s)[i] = s[i + 1]
  OBVIOUS

LEMMA ConcatIs == ASSUME NEW S, NEW s \in Seq(S), NEW t \in Seq(S) PROVE s \o t \in Seq(S)
  OBVIOUS

LEMMA ToldIs == ASSUME NEW k \in Nat PROVE Input(k) \in Entries /\ Document(k) \in Entries
<1>1. PICK blank : blank = "" /\ blank \in Named
  BY Zenon DEF Named
<1>2. /\ Input(k) = [kind |-> "input", of |-> k, n |-> 0, profile |-> blank]
      /\ Document(k) = [kind |-> "document", of |-> k, n |-> 0, profile |-> blank]
  BY <1>1, Zenon DEF Input, Document
<1> QED BY <1>1, <1>2, EntryIs

LEMMA NamesIn == (\A profile \in Profiles : profile \in Named) /\ (\A effort \in Efforts : effort \in Rated)
  BY Zenon DEF Named, Rated

LEMMA BeginKeeps ==
  ASSUME CodexInv, NEW profile \in Profiles, NEW effort \in Efforts, NEW fresh \in BOOLEAN, Begin(profile, effort, fresh)
  PROVE  CodexInv'
<1>1. /\ CodexTypes /\ AskedTypes /\ Undisturbed /\ CodexExact /\ asked.pc = "rest" /\ asked.id + 1 \in 1..MaxAsked /\ asked.id \in Nat
      /\ UNCHANGED <<providerFaults, answers>>
  BY CodexAssumption DEF CodexInv, CodexTypes, AskedTypes, Begin
<1>2. AskedTypes' /\ asked'.pc = "lock" /\ asked'.id = asked.id + 1
  <2>1. /\ asked'.pc = "lock" /\ asked'.id = asked.id + 1 /\ DOMAIN asked' = DOMAIN NoAsk /\ asked'.got = NoAsk.got
        /\ asked'.input = NoAsk.input /\ asked'.profile = profile /\ asked'.effort = effort
    BY NoAskIs DEF Begin
  <2> QED BY <1>1, <2>1, NoAskIs, NamesIn, EmptyIs DEF AskedTypes
<1>3. transcript' \in Seq(Entries)
  <2>1. Input(asked.id + 1) \in Entries
    BY <1>1, ToldIs
  <2>2. Append(transcript, Input(asked.id + 1)) \in Seq(Entries)
    BY <1>1, <2>1, AppendIs DEF CodexTypes
  <2> QED BY <1>1, <2>2 DEF Begin, CodexTypes
<1>4. CASE Reset
  BY <1>1, <1>2, <1>3, <1>4, ResetIs DEF CodexExact
<1>5. CASE UNCHANGED <<link, frames, serving, contexts, tainted>>
  <2>1. CodexTypes'
    BY <1>1, <1>2, <1>3, <1>5 DEF CodexTypes
  <2>2. Undisturbed'
    <3>1. ~tainted => Continues'
      <4> PICK kept : kept = link.kept
        OBVIOUS
      <4>1. ASSUME ~tainted, kept.id # 0
            PROVE  kept.id \in 1..asked.id /\ contexts[kept.id] = kept.input \o kept.items
        BY <1>1, <4>1 DEF Undisturbed, Continues
      <4>2. \A id \in 1..asked.id : id \in 1..asked'.id /\ id # asked'.id
        BY <1>1, <1>2
      <4> QED BY <1>5, <4>1, <4>2 DEF Continues
    <3>2. ~tainted => Quiet' /\ InStep'
      BY <1>1, <1>2, <1>5 DEF Undisturbed, Quiet, InStep
    <3> QED BY <1>5, <3>1, <3>2 DEF Undisturbed
  <2>3. CodexExact'
    BY <1>1, <1>5 DEF CodexExact
  <2> QED BY <2>1, <2>2, <2>3 DEF CodexInv
<1> QED BY <1>4, <1>5 DEF Begin

LEMMA ConnectKeeps == ASSUME CodexInv, Connect PROVE CodexInv'
<1>1. /\ CodexTypes /\ Undisturbed /\ CodexExact /\ asked.profile \in Named
      /\ UNCHANGED <<transcript, asked, frames, serving, contexts, providerFaults, tainted, answers>>
  BY DEF CodexInv, CodexTypes, AskedTypes, Connect
<1>2. link' \in Links /\ link'.kept.id = 0
  BY <1>1, NoLinkIs DEF Connect, Links
<1>3. CodexTypes'
  BY <1>1, <1>2 DEF CodexTypes, AskedTypes
<1>4. Undisturbed'
  <2>1. asked'.pc = "lock"
    BY <1>1 DEF Connect
  <2>2. ~tainted => Continues' /\ Quiet' /\ InStep'
    BY <1>1, <1>2, <2>1 DEF Undisturbed, Continues, Quiet, InStep
  <2> QED BY <1>1, <2>2 DEF Undisturbed
<1>5. CodexExact'
  BY <1>1 DEF CodexExact
<1> QED BY <1>3, <1>4, <1>5 DEF CodexInv

LEMMA SendKeeps == ASSUME CodexInv, Send PROVE CodexInv'
<1> PICK input : input = Rendered(asked.profile)
  OBVIOUS
<1> PICK done : done = link.kept.input \o link.kept.items
  OBVIOUS
<1> PICK delta : delta = SubSeq(input, Len(done) + 1, Len(input))
  OBVIOUS
<1> PICK shown : shown = IF Fits(link.kept, input) THEN contexts[link.kept.id] \o delta ELSE input
  OBVIOUS
<1> PICK request : request = [id |-> asked.id, profile |-> asked.profile, seen |-> shown, logical |-> input,
                              sent |-> 0, tainted |-> tainted]
  OBVIOUS
<1>1. /\ CodexTypes /\ AskedTypes /\ Undisturbed /\ CodexExact /\ asked.pc = "lock"
      /\ asked' = [asked EXCEPT !.pc = "read", !.input = input] /\ serving' = Append(serving, request)
      /\ UNCHANGED <<transcript, link, frames, contexts, providerFaults, tainted, answers>>
  BY DEF CodexInv, CodexTypes, Send
<1>2. input \in Seq(Entries)
  BY <1>1, RenderedIs DEF CodexTypes
<1>3. link.kept \in Kepts /\ done \in Seq(Entries)
  BY <1>1 DEF CodexTypes, Links, Kepts
<1>4. ASSUME Fits(link.kept, input)
      PROVE  contexts[link.kept.id] \in Seq(Entries) /\ delta \in Seq(Entries) /\ done \o delta = input
  <2>1. link.kept.id # 0 /\ IsPrefix(done, input)
    BY <1>4 DEF Fits
  <2>2. link.kept.id \in 1..MaxAsked
    BY <1>3, <2>1, CodexAssumption DEF Kepts
  <2>3. contexts[link.kept.id] \in Seq(Entries)
    BY <1>1, <2>2 DEF CodexTypes
  <2>4. /\ SubSeq(input, Len(done) + 1, Len(input)) \in Seq(Entries)
        /\ done \o SubSeq(input, Len(done) + 1, Len(input)) = input
    BY <1>2, <1>3, <2>1, PrefixJoins
  <2> QED BY <2>3, <2>4
<1>5. shown \in Seq(Entries)
  <2>1. Fits(link.kept, input) => contexts[link.kept.id] \o delta \in Seq(Entries)
    BY <1>4, ConcatIs
  <2> QED BY <1>2, <2>1
<1>6. ~tainted => shown = input
  BY <1>1, <1>4 DEF Undisturbed, Continues, Fits
<1>7. request \in Exchanges
  <2>1. asked.id \in 0..MaxAsked /\ asked.profile \in Named /\ tainted \in BOOLEAN /\ 0 \in 0..OutputSize
    BY <1>1, SizeIs DEF CodexTypes, AskedTypes
  <2> QED BY <1>2, <1>5, <2>1 DEF Exchanges
<1>8. /\ asked'.pc = "read" /\ asked'.input = input /\ asked'.id = asked.id /\ asked'.profile = asked.profile
      /\ asked'.effort = asked.effort /\ asked'.got = asked.got /\ DOMAIN asked' = DOMAIN asked
  BY <1>1 DEF AskedTypes
<1>9. AskedTypes'
  BY <1>1, <1>2, <1>8 DEF AskedTypes
<1>10. serving \in Seq(Exchanges) /\ serving' \in Seq(Exchanges)
  BY <1>1, <1>7, AppendIs DEF CodexTypes
<1>11. CodexTypes'
  BY <1>1, <1>9, <1>10 DEF CodexTypes
<1>12. ASSUME ~tainted PROVE Continues' /\ Quiet' /\ InStep'
  <2>1. /\ Continues /\ serving = <<>> /\ \A i \in 1..Len(frames) : frames[i].type = "closed"
    BY <1>1, <1>12 DEF Undisturbed, Quiet
  <2>2. Len(serving') = 1 /\ serving'[1] = request
    BY <1>1, <1>7, <2>1, EmptyIs, AppendIs
  <2>3. Continues' /\ Quiet'
    BY <1>1, <1>8, <2>1 DEF Continues, Quiet
  <2>4. request.id = asked.id /\ request.profile = asked.profile /\ request.seen = input /\ request.sent = 0
    BY <1>6, <1>12
  <2>5. OwnServed'
    <3>1. /\ serving'[1].id = asked'.id /\ serving'[1].profile = asked'.profile /\ serving'[1].seen = asked'.input
      BY <1>8, <2>2, <2>4
    <3>3. serving'[1].sent = 0 /\ \A n \in 1..0 : FALSE
      BY <2>2, <2>4
    <3>2. \A i \in 1..Len(frames') : frames'[i].type # "completed"
      BY <1>1, <2>1
    <3> QED BY <2>2, <3>1, <3>2, <3>3 DEF OwnServed
  <2>6. DOMAIN asked.got = {}
    BY <1>1 DEF AskedTypes
  <2>7. OwnFrames'
    BY <1>1, <1>8, <2>1, <2>6 DEF OwnFrames
  <2> QED BY <2>3, <2>5, <2>7 DEF InStep
<1>13. CodexExact'
  <2>1. request.tainted \/ request.seen = request.logical
    BY <1>6
  <2>2. ASSUME NEW i \in DOMAIN serving' PROVE serving'[i].tainted \/ serving'[i].seen = serving'[i].logical
    <3>1. CASE i \in 1..Len(serving)
      BY <1>1, <1>7, <1>10, <3>1, AppendIs DEF CodexExact
    <3>2. CASE i = Len(serving) + 1
      <4>1. serving'[i] = request
        BY <1>1, <1>7, <1>10, <3>2, AppendIs
      <4> QED BY <2>1, <4>1
    <3>3. i \in 1..(Len(serving) + 1)
      BY <1>1, <1>7, <1>10, AppendIs
    <3> QED BY <1>10, <3>1, <3>2, <3>3
  <2> QED BY <1>1, <2>2 DEF CodexExact
<1> QED BY <1>1, <1>11, <1>12, <1>13 DEF CodexInv, Undisturbed

\* The provider serves only while a request waits for it.
LEMMA ServingIs ==
  ASSUME CodexInv, serving # <<>>
  PROVE  /\ Head(serving) = serving[1] /\ serving[1] \in Exchanges /\ Len(serving) \in Nat \ {0}
         /\ ~tainted => /\ asked.pc = "read" /\ OwnServed /\ OwnFrames /\ Continues /\ asked.id \in 1..MaxAsked
                        /\ serving[1].id = asked.id /\ serving[1].profile = asked.profile /\ Len(serving) = 1
<1>1. serving \in Seq(Exchanges) /\ AskedTypes /\ Undisturbed
  BY DEF CodexInv, CodexTypes
<1>2. Head(serving) = serving[1] /\ serving[1] \in Exchanges /\ Len(serving) \in Nat \ {0}
  BY <1>1, TailIs
<1>3. ASSUME ~tainted
      PROVE  /\ asked.pc = "read" /\ OwnServed /\ OwnFrames /\ Continues /\ asked.id \in 1..MaxAsked
             /\ serving[1].id = asked.id /\ serving[1].profile = asked.profile /\ Len(serving) = 1
  <2>1. asked.pc = "read" /\ OwnServed /\ OwnFrames /\ Continues
    BY <1>1, <1>3 DEF Undisturbed, Quiet, InStep
  <2>2. asked.id \in 1..MaxAsked
    BY <1>1, <2>1, CodexAssumption DEF AskedTypes
  <2> QED BY <2>1, <2>2 DEF OwnServed
<1> QED BY <1>2, <1>3

LEMMA EventIs ==
  ASSUME NEW type \in {"item", "completed", "failed", "closed"}, NEW of \in 0..MaxAsked, NEW k \in 0..OutputSize, NEW profile \in Named,
         type = "item" => k # 0
  PROVE  [type |-> type, of |-> of, n |-> k, profile |-> profile] \in Events
  BY DEF Events

\* An event the pump passes on: what waited for a request still does.
LEMMA PassedOn ==
  ASSUME CodexTypes, NEW event \in Events, NEW size, size = Len(frames), frames' = Append(frames, event), UNCHANGED asked
  PROVE  /\ frames' \in Seq(Events) /\ Len(frames') = size + 1 /\ size \in Nat
         /\ \A i \in 1..size : frames'[i] = frames[i]
         /\ frames'[size + 1] = event
         /\ \A i \in 1..(size + 1) : (i \in 1..size /\ frames'[i] = frames[i]) \/ (i = size + 1 /\ frames'[i] = event)
         /\ \A k, i \in Nat : i <= size /\ Waits(k, i) => Waits(k, i)' /\ Waits(k, size + 1)'
         /\ event.type = "item" => Waits(event.n, size + 1)'
<1>1. /\ frames' \in Seq(Events) /\ Len(frames') = size + 1 /\ size \in Nat
      /\ \A i \in 1..size : frames'[i] = frames[i]
      /\ frames'[size + 1] = event
  BY AppendIs DEF CodexTypes
<1>2. ASSUME NEW k \in Nat, NEW i \in Nat, i <= size, Waits(k, i) PROVE Waits(k, i)' /\ Waits(k, size + 1)'
  <2>1. CASE k \in DOMAIN asked.got
    BY <2>1 DEF Waits
  <2>2. CASE k \notin DOMAIN asked.got
    <3>1. PICK j \in 1..i : frames[j].type = "item" /\ frames[j].n = k
      BY <1>2, <2>2 DEF Waits
    <3>2. frames'[j] = frames[j] /\ j \in 1..i /\ j \in 1..(size + 1)
      BY <1>1, <1>2
    <3> QED BY <3>1, <3>2 DEF Waits
  <2> QED BY <2>1, <2>2
<1>3. ASSUME event.type = "item" PROVE Waits(event.n, size + 1)'
  BY <1>1, <1>3 DEF Waits
<1>4. ASSUME NEW i \in 1..(size + 1) PROVE (i \in 1..size /\ frames'[i] = frames[i]) \/ (i = size + 1 /\ frames'[i] = event)
  <2>1. CASE i = size + 1
    BY <1>1, <2>1
  <2>2. CASE i # size + 1
    BY <1>1, <2>2
  <2> QED BY <2>1, <2>2
<1> QED BY <1>1, <1>2, <1>3, <1>4

LEMMA ServeItemKeeps == ASSUME CodexInv, ServeItem PROVE CodexInv'
<1> PICK request : request = serving[1]
  OBVIOUS
<1> PICK new : new = [request EXCEPT !.sent = request.sent + 1]
  OBVIOUS
<1> PICK event : event = Frame("item", request, request.sent + 1)
  OBVIOUS
<1> PICK size : size = Len(frames)
  OBVIOUS
<1>1. /\ CodexTypes /\ AskedTypes /\ CodexExact /\ serving # <<>> /\ request \in Exchanges /\ request.sent < OutputSize
      /\ serving' = [serving EXCEPT ![1] = new] /\ frames' = Append(frames, event)
      /\ UNCHANGED <<transcript, asked, link, contexts, providerFaults, tainted, answers>>
  BY ServingIs DEF CodexInv, CodexTypes, ServeItem
<1>2. request.sent + 1 \in 0..OutputSize /\ request.sent + 1 # 0 /\ request.sent \in Nat
  BY <1>1, SizeIs DEF Exchanges
<1>3. /\ new \in Exchanges /\ new.sent = request.sent + 1 /\ new.id = request.id /\ new.profile = request.profile
      /\ new.seen = request.seen /\ new.logical = request.logical /\ new.tainted = request.tainted
  BY <1>1, <1>2 DEF Exchanges
<1>4. /\ event \in Events /\ event.type = "item" /\ event.of = request.id /\ event.n = request.sent + 1
      /\ event.profile = request.profile
  BY <1>1, <1>2, EventIs DEF Frame, Exchanges
<1>5. /\ serving' \in Seq(Exchanges) /\ Len(serving') = Len(serving) /\ serving'[1] = new
      /\ \A i \in 1..Len(serving) : i # 1 => serving'[i] = serving[i]
  BY <1>1, <1>3, SMTT(30) DEF CodexTypes
<1>6. /\ frames' \in Seq(Events) /\ Len(frames') = size + 1 /\ size \in Nat
      /\ \A i \in 1..size : frames'[i] = frames[i]
      /\ frames'[size + 1] = event
      /\ \A k, i \in Nat : i <= size /\ Waits(k, i) => Waits(k, size + 1)'
      /\ Waits(event.n, size + 1)'
  BY <1>1, <1>4, PassedOn
<1>7. CodexTypes'
  BY <1>1, <1>5, <1>6 DEF CodexTypes, AskedTypes
<1>8. ASSUME ~tainted PROVE Continues' /\ Quiet' /\ InStep'
  <2>0. /\ asked.pc = "read" /\ OwnServed /\ OwnFrames /\ Continues
        /\ serving[1].id = asked.id /\ serving[1].profile = asked.profile /\ Len(serving) = 1
    BY <1>1, <1>8, ServingIs
  <2>1. /\ asked.pc = "read" /\ OwnServed /\ OwnFrames /\ Continues /\ request.id = asked.id /\ request.profile = asked.profile
        /\ Len(serving) = 1
    BY <2>0
  <2>2. Continues' /\ Quiet'
    BY <1>1, <2>1 DEF Continues, Quiet
  <2>3. \A i \in 1..Len(frames') : (i \in 1..size /\ frames'[i] = frames[i]) \/ frames'[i] = event
    <3> SUFFICES ASSUME NEW i \in 1..(size + 1) PROVE (i \in 1..size /\ frames'[i] = frames[i]) \/ frames'[i] = event
      BY <1>6
    <3>1. CASE i = size + 1
      BY <1>6, <3>1
    <3>2. CASE i # size + 1
      BY <1>6, <3>2
    <3> QED BY <3>1, <3>2
  <2>4. \A i \in 1..Len(frames') : frames'[i].type # "completed"
    BY <1>1, <1>4, <2>1, <2>3 DEF OwnServed
  <2>5. OwnServed'
    <3>1. ASSUME NEW k \in 1..new.sent PROVE Waits(k, size + 1)'
      <4>1. CASE k = new.sent
        BY <1>3, <1>4, <1>6, <4>1
      <4>2. CASE k # new.sent
        <5>1. k \in 1..request.sent /\ k \in Nat
          BY <1>2, <1>3, <4>2
        <5>2. Waits(k, size)
          BY <1>1, <2>1, <5>1 DEF OwnServed
        <5> QED BY <1>6, <5>1, <5>2
      <4> QED BY <4>1, <4>2
    <3>2. Len(serving') = 1 /\ serving'[1].id = asked'.id /\ serving'[1].profile = asked'.profile /\ serving'[1].seen = asked'.input
      BY <1>1, <1>3, <1>5, <2>1 DEF OwnServed
    <3>3. \A k \in 1..serving'[1].sent : Waits(k, Len(frames))'
      BY <1>5, <1>6, <3>1 DEF Waits
    <3> QED BY <2>4, <3>2, <3>3 DEF OwnServed
  <2>6. OwnFrames'
    <3>2. \A i \in 1..Len(frames') : frames'[i].type = "item" => frames'[i].of = asked.id /\ frames'[i].profile = asked.profile
      BY <1>4, <2>1, <2>3 DEF OwnFrames
    <3> QED BY <1>1, <2>1, <2>4, <3>2, ZenonT(40) DEF OwnFrames
  <2> QED BY <2>2, <2>5, <2>6 DEF InStep
<1>9. CodexExact'
  <2>1. ASSUME NEW i \in DOMAIN serving' PROVE serving'[i].tainted \/ serving'[i].seen = serving'[i].logical
    <3>1. i \in 1..Len(serving) /\ (serving[i].tainted \/ serving[i].seen = serving[i].logical)
      BY <1>1, <1>5 DEF CodexExact, CodexTypes
    <3>2. CASE i = 1
      BY <1>3, <1>5, <3>1, <3>2
    <3>3. CASE i # 1
      BY <1>5, <3>1, <3>3
    <3> QED BY <3>2, <3>3
  <2> QED BY <1>1, <2>1 DEF CodexExact
<1> QED BY <1>1, <1>7, <1>8, <1>9 DEF CodexInv, Undisturbed

\* A request that has ended at the provider.
LEMMA EndedIs ==
  ASSUME CodexInv, serving # <<>>, serving' = Tail(serving), UNCHANGED answers
  PROVE  CodexExact' /\ serving' \in Seq(Exchanges) /\ (Len(serving) = 1 => serving' = <<>>)
<1>1. /\ serving \in Seq(Exchanges) /\ CodexExact /\ serving' \in Seq(Exchanges) /\ Len(serving') = Len(serving) - 1
      /\ Len(serving) \in Nat \ {0} /\ \A i \in 1..Len(serving') : serving'[i] = serving[i + 1]
  BY TailIs DEF CodexInv, CodexTypes
<1>2. ASSUME NEW i \in DOMAIN serving' PROVE serving'[i].tainted \/ serving'[i].seen = serving'[i].logical
  <2>1. i \in 1..Len(serving') /\ i + 1 \in DOMAIN serving
    BY <1>1
  <2> QED BY <1>1, <2>1 DEF CodexExact
<1>3. CodexExact'
  BY <1>1, <1>2 DEF CodexExact
<1>4. Len(serving) = 1 => serving' = <<>>
  BY <1>1
<1> QED BY <1>1, <1>3, <1>4

LEMMA FrameOf ==
  ASSUME NEW type, NEW request, NEW k
  PROVE  /\ Frame(type, request, k).type = type /\ Frame(type, request, k).of = request.id
         /\ Frame(type, request, k).n = k /\ Frame(type, request, k).profile = request.profile
  BY DEF Frame

LEMMA ServeCompletedKeeps == ASSUME CodexInv, ServeCompleted PROVE CodexInv'
<1> PICK request : request = serving[1]
  OBVIOUS
<1> PICK output : output = Output(request.id, request.profile)
  OBVIOUS
<1> PICK event : event = Frame("completed", request, 0)
  OBVIOUS
<1> PICK size : size = Len(frames)
  OBVIOUS
<1>1. /\ CodexTypes /\ AskedTypes /\ serving # <<>> /\ request \in Exchanges /\ request.sent = OutputSize
      /\ serving' = Tail(serving) /\ frames' = Append(frames, event)
      /\ contexts' = [contexts EXCEPT ![request.id] = request.seen \o output]
      /\ UNCHANGED <<transcript, asked, link, providerFaults, tainted, answers>>
  BY ServingIs DEF CodexInv, CodexTypes, ServeCompleted
<1>2. /\ event \in Events /\ event.type = "completed" /\ event.of = request.id /\ event.profile = request.profile
  <2>1. 0 \in 0..OutputSize /\ request.id \in 0..MaxAsked /\ request.profile \in Named
    BY <1>1, SizeIs DEF Exchanges
  <2> QED BY <2>1, EventIs DEF Frame
<1>3. request.seen \o output \in Seq(Entries)
  <2>1. request.id \in Nat /\ request.profile \in Named /\ request.seen \in Seq(Entries)
    BY <1>1 DEF Exchanges
  <2>2. output \in Seq(Entries)
    BY <2>1, OutputIs
  <2> QED BY <2>1, <2>2, ConcatIs
<1>4. /\ frames' \in Seq(Events) /\ Len(frames') = size + 1 /\ size \in Nat
      /\ \A i \in 1..(size + 1) : (i \in 1..size /\ frames'[i] = frames[i]) \/ (i = size + 1 /\ frames'[i] = event)
      /\ \A k, i \in Nat : i <= size /\ Waits(k, i) => Waits(k, i)'
  BY <1>1, <1>2, PassedOn
<1>5. CodexExact' /\ serving' \in Seq(Exchanges) /\ (Len(serving) = 1 => serving' = <<>>)
  BY <1>1, EndedIs
<1>6. CodexTypes'
  BY <1>1, <1>3, <1>4, <1>5 DEF CodexTypes, AskedTypes
<1>7. ASSUME ~tainted PROVE Continues' /\ Quiet' /\ InStep'
  <2>0. /\ asked.pc = "read" /\ OwnServed /\ OwnFrames /\ Continues /\ asked.id \in 1..MaxAsked
        /\ serving[1].id = asked.id /\ serving[1].profile = asked.profile /\ Len(serving) = 1
    BY <1>1, <1>7, ServingIs
  <2>1. /\ request.id = asked.id /\ request.profile = asked.profile /\ serving' = <<>> /\ request.seen = asked.input
        /\ \A i \in 1..Len(frames) : frames[i].type # "completed"
    BY <1>1, <1>5, <2>0 DEF OwnServed
  <2>2. Continues'
    <3> PICK kept : kept = link.kept
      OBVIOUS
    <3> SUFFICES ASSUME kept.id # 0
                 PROVE  kept.id \in 1..asked.id /\ kept.id # asked.id /\ contexts'[kept.id] = kept.input \o kept.items
      BY <1>1, <2>0 DEF Continues
    <3>1. kept.id \in 1..asked.id /\ kept.id # asked.id /\ contexts[kept.id] = kept.input \o kept.items
      BY <2>0 DEF Continues
    <3>2. DOMAIN contexts = 1..MaxAsked /\ kept.id \in 1..MaxAsked /\ kept.id # request.id
      <4>1. DOMAIN contexts = 1..MaxAsked
        BY <1>1 DEF CodexTypes
      <4>2. kept.id \in 1..MaxAsked
        BY <2>0, <3>1, CodexAssumption
      <4> QED BY <2>1, <3>1, <4>1, <4>2
    <3>3. contexts'[kept.id] = contexts[kept.id]
      BY <1>1, <3>2
    <3> QED BY <3>1, <3>3
  <2>3. Quiet' /\ OwnServed'
    BY <1>1, <2>0, <2>1 DEF Quiet, OwnServed
  <2>4. contexts'[asked.id] = asked.input \o Output(asked.id, asked.profile)
    BY <1>1, <2>0, <2>1 DEF CodexTypes
  <2>5. \A k \in 1..OutputSize : Waits(k, size)'
    <3> SUFFICES ASSUME NEW k \in 1..OutputSize PROVE Waits(k, size)'
      OBVIOUS
    <3>1. k \in Nat
      BY SizeIs
    <3>2. Waits(k, size)
      BY <1>1, <2>0 DEF OwnServed
    <3> QED BY <1>4, <3>1, <3>2
  <2>6. OwnFrames'
    <3>1. \A i \in 1..Len(frames') : frames'[i].type \in {"item", "completed"} =>
            frames'[i].of = asked.id /\ frames'[i].profile = asked.profile
      BY <1>2, <1>4, <2>0, <2>1 DEF OwnFrames
    <3>2. ASSUME NEW i \in 1..Len(frames'), frames'[i].type = "completed"
          PROVE  /\ \A k \in 1..OutputSize : Waits(k, i - 1)'
                 /\ \A j \in (i + 1)..Len(frames') : frames'[j].type = "closed"
      <4>1. i = size + 1
        BY <1>4, <2>1, <3>2
      <4>2. i - 1 = size /\ \A j \in (i + 1)..Len(frames') : FALSE
        BY <1>4, <4>1
      <4>3. \A k \in 1..OutputSize : Waits(k, i - 1)'
        BY <2>5, <4>2 DEF Waits
      <4> QED BY <4>2, <4>3
    <3>3. \A i \in 1..Len(frames') : frames'[i].type = "completed" =>
            /\ \A k \in 1..OutputSize : Waits(k, i - 1)'
            /\ \A j \in (i + 1)..Len(frames') : frames'[j].type = "closed"
      BY <3>2
    <3>4. \A k \in DOMAIN asked'.got : asked'.got[k].of = asked'.id /\ asked'.got[k].profile = asked'.profile
      BY <1>1, <2>0 DEF OwnFrames
    <3>5. \A i \in 1..Len(frames') : frames'[i].type \in {"item", "completed"} =>
            frames'[i].of = asked'.id /\ frames'[i].profile = asked'.profile
      BY <1>1, <3>1
    <3>6. contexts'[asked'.id] = asked'.input \o Output(asked'.id, asked'.profile)
      BY <1>1, <2>4
    <3>7. \A i \in 1..Len(frames') : frames'[i].type = "completed" =>
            /\ contexts'[asked'.id] = asked'.input \o Output(asked'.id, asked'.profile)
            /\ \A n \in 1..OutputSize : Waits(n, i - 1)'
            /\ \A j \in (i + 1)..Len(frames') : frames'[j].type = "closed"
      BY <3>3, <3>6
    <3> QED BY <3>4, <3>5, <3>7 DEF OwnFrames
  <2> QED BY <2>2, <2>3, <2>6 DEF InStep
<1> QED BY <1>1, <1>5, <1>6, <1>7 DEF CodexInv, Undisturbed

LEMMA ServeFailedKeeps == ASSUME CodexInv, ServeFailed PROVE CodexInv'
<1> PICK request : request = serving[1]
  OBVIOUS
<1> PICK event : event = Frame("failed", request, 0)
  OBVIOUS
<1> PICK size : size = Len(frames)
  OBVIOUS
<1>1. /\ CodexTypes /\ AskedTypes /\ serving # <<>> /\ request \in Exchanges
      /\ serving' = Tail(serving) /\ frames' = Append(frames, event)
      /\ UNCHANGED <<transcript, asked, link, contexts, tainted, answers>>
  BY ServingIs DEF CodexInv, CodexTypes, ServeFailed
<1>2. event \in Events /\ event.type = "failed"
  <2>1. 0 \in 0..OutputSize /\ request.id \in 0..MaxAsked /\ request.profile \in Named
    BY <1>1, SizeIs DEF Exchanges
  <2> QED BY <2>1, EventIs DEF Frame
<1>4. /\ frames' \in Seq(Events) /\ Len(frames') = size + 1 /\ size \in Nat
      /\ \A i \in 1..(size + 1) : (i \in 1..size /\ frames'[i] = frames[i]) \/ (i = size + 1 /\ frames'[i] = event)
  BY <1>1, <1>2, PassedOn
<1>5. CodexExact' /\ serving' \in Seq(Exchanges) /\ (Len(serving) = 1 => serving' = <<>>)
  BY <1>1, EndedIs
<1>6. CodexTypes'
  BY <1>1, <1>4, <1>5 DEF CodexTypes, AskedTypes
<1>7. ASSUME ~tainted PROVE Continues' /\ Quiet' /\ InStep'
  <2>0. /\ asked.pc = "read" /\ OwnServed /\ OwnFrames /\ Continues /\ Len(serving) = 1
    BY <1>1, <1>7, ServingIs
  <2>1. serving' = <<>> /\ \A i \in 1..Len(frames) : frames[i].type # "completed"
    BY <1>1, <1>5, <2>0 DEF OwnServed
  <2>2. Continues' /\ Quiet' /\ OwnServed'
    BY <1>1, <2>0, <2>1 DEF Continues, Quiet, OwnServed
  <2>3. \A i \in 1..Len(frames') : frames'[i].type # "completed"
    BY <1>2, <1>4, <2>1
  <2>4. \A i \in 1..Len(frames') : frames'[i].type = "item" => frames'[i].of = asked.id /\ frames'[i].profile = asked.profile
    BY <1>2, <1>4, <2>0 DEF OwnFrames
  <2>5. OwnFrames'
    BY <1>1, <2>0, <2>3, <2>4 DEF OwnFrames
  <2> QED BY <2>2, <2>5 DEF InStep
<1> QED BY <1>1, <1>5, <1>6, <1>7 DEF CodexInv, Undisturbed

LEMMA ServeAgainKeeps == ASSUME CodexInv, ServeAgain PROVE CodexInv'
<1> PICK request : request = serving[1]
  OBVIOUS
<1> PICK event : event = Frame("item", request, request.sent)
  OBVIOUS
<1> PICK size : size = Len(frames)
  OBVIOUS
<1>1. /\ CodexTypes /\ AskedTypes /\ CodexExact /\ serving # <<>> /\ request \in Exchanges /\ request.sent > 0
      /\ frames' = Append(frames, event)
      /\ UNCHANGED <<transcript, asked, link, serving, contexts, tainted, answers>>
  BY ServingIs DEF CodexInv, CodexTypes, ServeAgain
<1>2. event \in Events /\ event.type = "item" /\ event.of = request.id /\ event.profile = request.profile
  <2>1. request.sent \in 0..OutputSize /\ request.sent # 0 /\ request.id \in 0..MaxAsked /\ request.profile \in Named
    BY <1>1, SizeIs DEF Exchanges
  <2> QED BY <2>1, EventIs DEF Frame
<1>4. /\ frames' \in Seq(Events) /\ Len(frames') = size + 1 /\ size \in Nat
      /\ \A i \in 1..(size + 1) : (i \in 1..size /\ frames'[i] = frames[i]) \/ (i = size + 1 /\ frames'[i] = event)
      /\ \A k, i \in Nat : i <= size /\ Waits(k, i) => Waits(k, size + 1)'
  BY <1>1, <1>2, PassedOn
<1>6. CodexTypes'
  BY <1>1, <1>4 DEF CodexTypes, AskedTypes
<1>7. ASSUME ~tainted PROVE Continues' /\ Quiet' /\ InStep'
  <2>0. /\ asked.pc = "read" /\ OwnServed /\ OwnFrames /\ Continues
        /\ serving[1].id = asked.id /\ serving[1].profile = asked.profile /\ Len(serving) = 1
    BY <1>1, <1>7, ServingIs
  <2>1. \A i \in 1..Len(frames) : frames[i].type # "completed"
    BY <1>1, <2>0 DEF OwnServed
  <2>2. Continues' /\ Quiet'
    BY <1>1, <2>0 DEF Continues, Quiet
  <2>3. \A i \in 1..Len(frames') : frames'[i].type # "completed"
    BY <1>2, <1>4, <2>1
  <2>4. \A i \in 1..Len(frames') : frames'[i].type = "item" => frames'[i].of = asked.id /\ frames'[i].profile = asked.profile
    BY <1>2, <1>4, <2>0 DEF OwnFrames
  <2>5. OwnFrames'
    BY <1>1, <2>0, <2>3, <2>4, ZenonT(40) DEF OwnFrames
  <2>6. OwnServed'
    <3>1. ASSUME NEW k \in 1..request.sent PROVE Waits(k, size + 1)'
      <4>1. k \in Nat
        BY <1>1, SizeIs DEF Exchanges
      <4>2. Waits(k, size)
        BY <1>1, <2>0 DEF OwnServed
      <4> QED BY <1>4, <4>1, <4>2
    <3>2. \A k \in 1..serving'[1].sent : Waits(k, Len(frames))'
      BY <1>1, <1>4, <3>1 DEF Waits
    <3> QED BY <1>1, <2>0, <2>3, <3>2 DEF OwnServed
  <2> QED BY <2>2, <2>5, <2>6 DEF InStep
<1>8. CodexExact'
  BY <1>1 DEF CodexExact
<1> QED BY <1>1, <1>6, <1>7, <1>8 DEF CodexInv, Undisturbed

LEMMA CloseKeeps == ASSUME CodexInv, Close PROVE CodexInv'
<1> PICK event : event = Frame("closed", [id |-> 0, profile |-> link.profile], 0)
  OBVIOUS
<1> PICK size : size = Len(frames)
  OBVIOUS
<1>1. /\ CodexTypes /\ AskedTypes /\ CodexExact /\ serving' = <<>> /\ frames' = Append(frames, event)
      /\ link' = [link EXCEPT !.socket = "closed"] /\ link \in Links
      /\ UNCHANGED <<transcript, asked, contexts, tainted, answers>>
  BY DEF CodexInv, CodexTypes, Close
<1>2. event \in Events /\ event.type = "closed"
  <2>1. 0 \in 0..OutputSize /\ 0 \in 0..MaxAsked /\ link.profile \in Named
    BY <1>1, SizeIs, CodexAssumption DEF Links
  <2> QED BY <2>1, EventIs DEF Frame
<1>3. link' \in Links /\ link'.kept = link.kept
  BY <1>1 DEF Links
<1>4. /\ frames' \in Seq(Events) /\ Len(frames') = size + 1 /\ size \in Nat
      /\ \A i \in 1..(size + 1) : (i \in 1..size /\ frames'[i] = frames[i]) \/ (i = size + 1 /\ frames'[i] = event)
      /\ \A k, i \in Nat : i <= size /\ Waits(k, i) => Waits(k, i)'
  BY <1>1, <1>2, PassedOn
<1>5. CodexTypes'
  BY <1>1, <1>3, <1>4, EmptyIs DEF CodexTypes, AskedTypes
<1>6. ASSUME ~tainted PROVE Continues' /\ Quiet' /\ InStep'
  <2>1. Continues /\ Quiet /\ InStep
    BY <1>6 DEF CodexInv, Undisturbed
  <2>2. Continues'
    BY <1>1, <1>3, <2>1 DEF Continues
  <2>3. Quiet'
    BY <1>1, <1>2, <1>4, <2>1 DEF Quiet
  <2>4. ASSUME asked.pc = "read" PROVE OwnFrames'
    <3>0. OwnFrames
      BY <2>1, <2>4 DEF InStep
    <3>1. \A i \in 1..Len(frames') : frames'[i].type \in {"item", "completed"} =>
            frames'[i].of = asked.id /\ frames'[i].profile = asked.profile
      BY <1>2, <1>4, <3>0 DEF OwnFrames
    <3>2. ASSUME NEW i \in 1..Len(frames'), frames'[i].type = "completed"
          PROVE  /\ contexts[asked.id] = asked.input \o Output(asked.id, asked.profile)
                 /\ \A k \in 1..OutputSize : Waits(k, i - 1)'
                 /\ \A j \in (i + 1)..Len(frames') : frames'[j].type = "closed"
      <4>1. i \in 1..size /\ frames[i].type = "completed" /\ i - 1 \in Nat /\ i - 1 <= size
        BY <1>2, <1>4, <3>2
      <4>2. /\ contexts[asked.id] = asked.input \o Output(asked.id, asked.profile)
            /\ \A k \in 1..OutputSize : Waits(k, i - 1)
            /\ \A j \in (i + 1)..size : frames[j].type = "closed"
        BY <3>0, <4>1 DEF OwnFrames
      <4>3. \A k \in 1..OutputSize : Waits(k, i - 1)'
        <5> SUFFICES ASSUME NEW k \in 1..OutputSize PROVE Waits(k, i - 1)'
          OBVIOUS
        <5>1. k \in Nat /\ Waits(k, i - 1)
          BY <4>2, SizeIs
        <5> QED BY <1>4, <4>1, <5>1
      <4>4. ASSUME NEW j \in (i + 1)..Len(frames') PROVE frames'[j].type = "closed"
        <5>1. j \in 1..(size + 1) /\ (j \in 1..size => j \in (i + 1)..size)
          BY <1>4, <4>1
        <5> QED BY <1>2, <1>4, <4>2, <5>1
      <4> QED BY <4>2, <4>3, <4>4
    <3> QED BY <1>1, <3>0, <3>1, <3>2 DEF OwnFrames
  <2>5. OwnServed'
    BY <1>1 DEF OwnServed
  <2> QED BY <1>1, <2>2, <2>3, <2>4, <2>5 DEF InStep
<1>7. CodexExact'
  BY <1>1, EmptyIs DEF CodexExact
<1> QED BY <1>1, <1>5, <1>6, <1>7 DEF CodexInv, Undisturbed

LEMMA TakenIs ==
  ASSUME CodexTypes, frames # <<>>, frames' = Tail(frames), NEW size, size = Len(frames)
  PROVE  /\ frames' \in Seq(Events) /\ Len(frames') = size - 1 /\ size \in Nat \ {0}
         /\ Head(frames) = frames[1] /\ frames[1] \in Events
         /\ \A i \in 1..(size - 1) : frames'[i] = frames[i + 1] /\ i + 1 \in 1..size
  BY TailIs DEF CodexTypes

LEMMA ReadItemKeeps == ASSUME CodexInv, ReadItem PROVE CodexInv'
<1> PICK event : event = frames[1]
  OBVIOUS
<1> PICK size : size = Len(frames)
  OBVIOUS
<1> PICK got : got = asked.got
  OBVIOUS
<1> PICK more : more = [k \in DOMAIN got \cup {event.n} |-> IF k \in DOMAIN got THEN got[k] ELSE event]
  OBVIOUS
<1>1. /\ CodexTypes /\ AskedTypes /\ CodexExact /\ asked.pc = "read" /\ frames # <<>> /\ frames' = Tail(frames)
      /\ UNCHANGED <<transcript, link, serving, contexts, tainted, answers>>
  BY DEF CodexInv, CodexTypes, ReadItem, Event
<1>2. /\ frames' \in Seq(Events) /\ Len(frames') = size - 1 /\ size \in Nat \ {0}
      /\ Head(frames) = event /\ event \in Events
      /\ \A i \in 1..(size - 1) : frames'[i] = frames[i + 1] /\ i + 1 \in 1..size
  BY <1>1, TakenIs
<1>3. event.type = "item" /\ event.n \notin DOMAIN got /\ asked' = [asked EXCEPT !.got = more]
  BY <1>2 DEF ReadItem, Event
<1>4. /\ DOMAIN more = DOMAIN got \cup {event.n} /\ more[event.n] = event
      /\ \A k \in DOMAIN got : more[k] = got[k]
  BY <1>3
<1>5. /\ DOMAIN asked' = DOMAIN asked /\ asked'.pc = asked.pc /\ asked'.id = asked.id /\ asked'.profile = asked.profile
      /\ asked'.effort = asked.effort /\ asked'.input = asked.input /\ asked'.got = more
  BY <1>1, <1>3 DEF AskedTypes
<1>6. event.n \in 1..OutputSize
  BY <1>2, <1>3, SizeIs DEF Events
<1>7. AskedTypes'
  <2>1. DOMAIN more \subseteq 1..OutputSize /\ \A k \in DOMAIN more : more[k] \in Events
    BY <1>1, <1>2, <1>4, <1>6 DEF AskedTypes
  <2> QED BY <1>1, <1>5, <2>1 DEF AskedTypes
<1>8. CodexTypes'
  BY <1>1, <1>2, <1>7 DEF CodexTypes
<1>9. ASSUME NEW k, NEW i \in 0..(size - 1), Waits(k, i + 1) PROVE Waits(k, i)'
  <2>1. CASE k \in DOMAIN got
    BY <1>4, <1>5, <2>1 DEF Waits
  <2>2. CASE k \notin DOMAIN got
    <3>1. PICK j \in 1..(i + 1) : frames[j].type = "item" /\ frames[j].n = k
      BY <1>9, <2>2 DEF Waits
    <3>2. CASE j = 1
      BY <1>4, <1>5, <3>1, <3>2 DEF Waits
    <3>3. CASE j # 1
      <4>1. j - 1 \in 1..i /\ j - 1 \in 1..(size - 1) /\ (j - 1) + 1 = j
        BY <1>2, <3>3
      <4>2. frames'[j - 1] = frames[j]
        BY <1>2, <4>1
      <4> QED BY <3>1, <4>1, <4>2 DEF Waits
    <3> QED BY <3>2, <3>3
  <2> QED BY <2>1, <2>2
<1>10. ASSUME ~tainted PROVE Continues' /\ Quiet' /\ InStep'
  <2>1. Continues /\ OwnServed /\ OwnFrames
    BY <1>1, <1>10 DEF CodexInv, Undisturbed, InStep
  <2>2. Continues' /\ Quiet'
    BY <1>1, <1>5, <2>1 DEF Continues, Quiet
  <2>3. OwnServed'
    <3> SUFFICES ASSUME serving # <<>> PROVE OwnServed'
      BY <1>1 DEF OwnServed
    <3>0. /\ Len(serving) = 1 /\ serving[1].id = asked.id /\ serving[1].profile = asked.profile /\ serving[1].seen = asked.input
          /\ \A k \in 1..serving[1].sent : Waits(k, size)
          /\ \A i \in 1..size : frames[i].type # "completed"
      BY <2>1 DEF OwnServed
    <3>1. \A k \in 1..serving[1].sent : Waits(k, size - 1)'
      <4> SUFFICES ASSUME NEW k \in 1..serving[1].sent PROVE Waits(k, size - 1)'
        OBVIOUS
      <4>1. Waits(k, (size - 1) + 1)
        BY <1>2, <3>0
      <4>2. size - 1 \in 0..(size - 1)
        BY <1>2
      <4> QED BY <1>9, <4>1, <4>2
    <3>2. \A k \in 1..serving'[1].sent : Waits(k, Len(frames))'
      BY <1>1, <1>2, <3>1 DEF Waits
    <3>3. \A i \in 1..Len(frames') : frames'[i].type # "completed"
      BY <1>2, <3>0
    <3>4. Len(serving') = 1 /\ serving'[1].id = asked'.id /\ serving'[1].profile = asked'.profile /\ serving'[1].seen = asked'.input
      BY <1>1, <1>5, <3>0
    <3> QED BY <3>2, <3>3, <3>4 DEF OwnServed
  <2>4. OwnFrames'
    <3>1. event.of = asked.id /\ event.profile = asked.profile
      BY <1>2, <1>3, <2>1 DEF OwnFrames
    <3>2. \A k \in DOMAIN asked'.got : asked'.got[k].of = asked'.id /\ asked'.got[k].profile = asked'.profile
      BY <1>4, <1>5, <2>1, <3>1 DEF OwnFrames
    <3>3. \A i \in 1..Len(frames') : frames'[i].type \in {"item", "completed"} =>
            frames'[i].of = asked'.id /\ frames'[i].profile = asked'.profile
      BY <1>2, <1>5, <2>1, SMTT(30) DEF OwnFrames
    <3>4. ASSUME NEW i \in 1..Len(frames'), frames'[i].type = "completed"
          PROVE  /\ contexts'[asked'.id] = asked'.input \o Output(asked'.id, asked'.profile)
                 /\ \A k \in 1..OutputSize : Waits(k, i - 1)'
                 /\ \A j \in (i + 1)..Len(frames') : frames'[j].type = "closed"
      <4>1. i \in 1..(size - 1) /\ i + 1 \in 1..size /\ (i + 1) - 1 = i /\ frames[i + 1].type = "completed"
        BY <1>2, <3>4
      <4>2. /\ contexts[asked.id] = asked.input \o Output(asked.id, asked.profile)
            /\ \A k \in 1..OutputSize : Waits(k, i)
            /\ \A j \in ((i + 1) + 1)..size : frames[j].type = "closed"
        BY <2>1, <4>1 DEF OwnFrames
      <4>3. \A k \in 1..OutputSize : Waits(k, i - 1)'
        <5> SUFFICES ASSUME NEW k \in 1..OutputSize PROVE Waits(k, i - 1)'
          OBVIOUS
        <5>1. i - 1 \in 0..(size - 1) /\ (i - 1) + 1 = i
          BY <4>1
        <5>2. Waits(k, (i - 1) + 1)
          BY <4>2, <5>1
        <5> QED BY <1>9, <5>1, <5>2
      <4>4. ASSUME NEW j \in (i + 1)..Len(frames') PROVE frames'[j].type = "closed"
        <5>1. j \in 1..(size - 1) /\ j + 1 \in ((i + 1) + 1)..size
          BY <1>2, <4>1
        <5> QED BY <1>2, <4>2, <5>1
      <4>5. contexts'[asked'.id] = asked'.input \o Output(asked'.id, asked'.profile)
        BY <1>1, <1>5, <4>2
      <4> QED BY <4>3, <4>4, <4>5
    <3> QED BY <3>2, <3>3, <3>4 DEF OwnFrames
  <2> QED BY <2>2, <2>3, <2>4 DEF InStep
<1>11. CodexExact'
  BY <1>1 DEF CodexExact
<1> QED BY <1>1, <1>8, <1>10, <1>11 DEF CodexInv, Undisturbed

LEMMA ItemsAre ==
  ASSUME AskedTypes, \A n \in DOMAIN asked.got : \A k \in 1..n : k \in DOMAIN asked.got
  PROVE  [n \in DOMAIN asked.got |-> Output(asked.got[n].of, asked.got[n].profile)[n]] \in Seq(Entries)
<1> PICK items : items = [n \in DOMAIN asked.got |-> Output(asked.got[n].of, asked.got[n].profile)[n]]
  OBVIOUS
<1>1. DOMAIN items = DOMAIN asked.got /\ \A n \in DOMAIN asked.got : items[n] = Output(asked.got[n].of, asked.got[n].profile)[n]
  OBVIOUS
<1>2. \A n \in DOMAIN items : items[n] \in Entries
  <2> SUFFICES ASSUME NEW n \in DOMAIN asked.got PROVE items[n] \in Entries
    BY <1>1
  <2>1. n \in 1..OutputSize /\ asked.got[n] \in Events
    BY DEF AskedTypes
  <2>2. asked.got[n].of \in Nat /\ asked.got[n].profile \in Named
    BY <2>1, CodexAssumption DEF Events
  <2>3. Output(asked.got[n].of, asked.got[n].profile)[n] \in Entries
    BY <2>1, <2>2, OutputIs
  <2> QED BY <1>1, <2>3
<1>3. \E k \in Nat : DOMAIN items = 1..k
  <2>1. DOMAIN items \subseteq {1, 2} /\ (2 \in DOMAIN items => 1 \in DOMAIN items)
    <3>1. OutputSize = 2 /\ DOMAIN asked.got \subseteq 1..OutputSize
      BY DEF OutputSize, AskedTypes
    <3>2. 2 \in DOMAIN asked.got => 1 \in DOMAIN asked.got
      <4>1. 1 \in 1..2
        OBVIOUS
      <4> QED BY <4>1
    <3> QED BY <1>1, <3>1, <3>2
  <2>2. DOMAIN items = {} \/ DOMAIN items = {1} \/ DOMAIN items = {1, 2}
    BY <2>1
  <2>3. 1..0 = {} /\ 1..1 = {1} /\ 1..2 = {1, 2} /\ 0 \in Nat /\ 1 \in Nat /\ 2 \in Nat
    OBVIOUS
  <2> QED BY <2>2, <2>3
<1>4. PICK k \in Nat : DOMAIN items = 1..k
  BY <1>3
<1>5. items \in [1..k -> Entries]
  BY <1>1, <1>2, <1>4
<1> QED BY <1>5, FunctionIsSeq

LEMMA ReadCompletedKeeps == ASSUME CodexInv, ReadCompleted PROVE CodexInv'
<1> PICK event : event = frames[1]
  OBVIOUS
<1> PICK size : size = Len(frames)
  OBVIOUS
<1> PICK together : together = [n \in DOMAIN asked.got |-> Output(asked.got[n].of, asked.got[n].profile)[n]]
  OBVIOUS
<1> PICK items : items = IF asked.got = <<>> THEN Output(event.of, event.profile) ELSE together
  OBVIOUS
<1> PICK kept : kept = [id |-> event.of, effort |-> asked.effort, input |-> asked.input, items |-> items]
  OBVIOUS
<1>1. /\ CodexTypes /\ AskedTypes /\ CodexExact /\ asked.pc = "read" /\ frames # <<>> /\ frames' = Tail(frames)
      /\ asked.id \in 0..MaxAsked /\ asked' = [NoAsk EXCEPT !.id = asked.id]
      /\ UNCHANGED <<serving, contexts, tainted>>
  BY DEF CodexInv, CodexTypes, AskedTypes, ReadCompleted, Event
<1>2. /\ frames' \in Seq(Events) /\ Len(frames') = size - 1 /\ size \in Nat \ {0}
      /\ Head(frames) = event /\ event \in Events
      /\ \A i \in 1..(size - 1) : frames'[i] = frames[i + 1] /\ i + 1 \in 1..size
  BY <1>1, TakenIs
<1>3. /\ event.type = "completed" /\ \A n \in DOMAIN asked.got : \A k \in 1..n : k \in DOMAIN asked.got
      /\ link' = [link EXCEPT !.kept = kept] /\ transcript' = transcript \o items
      /\ answers' = answers \cup {[asked |-> asked.id, of |-> event.of, tainted |-> tainted]}
  BY <1>2 DEF ReadCompleted, Event
<1>4. AskedTypes' /\ asked'.pc = "rest" /\ asked'.id = asked.id
  BY <1>1, RestIs
<1>5. event.of \in 0..MaxAsked /\ event.of \in Nat /\ event.profile \in Named
  BY <1>2, CodexAssumption DEF Events
<1>6. items \in Seq(Entries)
  <2>1. together \in Seq(Entries)
    BY <1>1, <1>3, ItemsAre
  <2>2. Output(event.of, event.profile) \in Seq(Entries)
    BY <1>5, OutputIs
  <2> QED BY <2>1, <2>2
<1>7. kept \in Kepts /\ kept.id = event.of /\ kept.input = asked.input /\ kept.items = items
  BY <1>1, <1>5, <1>6 DEF AskedTypes, Kepts
<1>8. link' \in Links /\ link'.kept = kept
  BY <1>1, <1>3, <1>7 DEF CodexTypes, Links
<1>9. transcript' \in Seq(Entries)
  BY <1>1, <1>3, <1>6, ConcatIs DEF CodexTypes
<1>10. CodexTypes'
  BY <1>1, <1>2, <1>4, <1>8, <1>9 DEF CodexTypes
<1>11. ASSUME ~tainted PROVE event.of = asked.id /\ Continues' /\ Quiet' /\ InStep'
  <2>1. Continues /\ OwnServed /\ OwnFrames
    BY <1>1, <1>11 DEF CodexInv, Undisturbed, InStep
  <2>2. 1 \in 1..size /\ frames[1].type = "completed" /\ 1 - 1 = 0
    BY <1>2, <1>3
  <2>3. serving = <<>>
    BY <2>1, <2>2 DEF OwnServed
  <2>4. event.of = asked.id /\ event.profile = asked.profile
    BY <1>3, <2>1, <2>2 DEF OwnFrames
  <2>5. /\ contexts[asked.id] = asked.input \o Output(asked.id, asked.profile)
        /\ \A n \in 1..OutputSize : Waits(n, 0)
        /\ \A j \in (1 + 1)..size : frames[j].type = "closed"
    BY <2>1, <2>2 DEF OwnFrames
  <2>6. DOMAIN asked.got = 1..OutputSize
    <3>1. \A n \in 1..OutputSize : n \in DOMAIN asked.got
      BY <2>5 DEF Waits
    <3> QED BY <1>1, <3>1 DEF AskedTypes
  <2>7. items = Output(asked.id, asked.profile)
    <3>1. asked.got # <<>>
      BY <2>6, EmptyIs, SizeIs
    <3>2. together = [n \in 1..OutputSize |-> Output(asked.id, asked.profile)[n]]
      BY <2>1, <2>6 DEF OwnFrames
    <3>3. asked.id \in Nat /\ asked.profile \in Named
      BY <1>1, CodexAssumption DEF AskedTypes
    <3>4. Output(asked.id, asked.profile) = [n \in 1..OutputSize |-> Output(asked.id, asked.profile)[n]]
      BY <3>3, OutputIs
    <3> QED BY <3>1, <3>2, <3>4
  <2>8. asked.id \in 1..asked.id
    BY <1>1, CodexAssumption DEF AskedTypes
  <2>9. Continues'
    BY <1>1, <1>4, <1>7, <1>8, <2>4, <2>5, <2>7, <2>8 DEF Continues
  <2>10. \A i \in 1..Len(frames') : frames'[i].type = "closed"
    <3> SUFFICES ASSUME NEW i \in 1..Len(frames') PROVE frames'[i].type = "closed"
      OBVIOUS
    <3>1. i \in 1..(size - 1) /\ i + 1 \in (1 + 1)..size
      BY <1>2
    <3> QED BY <1>2, <2>5, <3>1
  <2>11. Quiet' /\ InStep'
    BY <1>1, <1>4, <2>3, <2>10 DEF Quiet, InStep
  <2> QED BY <2>4, <2>9, <2>11
<1>12. CodexExact'
  <2>1. tainted \/ event.of = asked.id
    BY <1>11
  <2> QED BY <1>1, <1>3, <2>1 DEF CodexExact
<1> QED BY <1>1, <1>10, <1>11, <1>12 DEF CodexInv, Undisturbed

LEMMA AbortKeeps == ASSUME CodexInv, Abort PROVE CodexInv'
<1>1. /\ CodexTypes /\ Undisturbed /\ CodexExact /\ asked.id \in 0..MaxAsked
      /\ asked' = [NoAsk EXCEPT !.id = asked.id] /\ tainted' = (tainted \/ asked.pc = "read")
      /\ UNCHANGED <<transcript, link, frames, serving, contexts, answers>>
  BY DEF CodexInv, CodexTypes, AskedTypes, Abort
<1>2. AskedTypes' /\ asked'.pc = "rest" /\ asked'.id = asked.id
  BY <1>1, RestIs
<1>3. CodexTypes'
  <2>1. tainted' \in BOOLEAN
    BY <1>1, Zenon
  <2> QED BY <1>1, <1>2, <2>1 DEF CodexTypes
<1>4. ASSUME ~tainted' PROVE Continues' /\ Quiet' /\ InStep'
  <2>1. ~tainted /\ asked.pc # "read"
    BY <1>1, <1>4, Zenon
  <2>2. Continues /\ Quiet
    BY <1>1, <2>1 DEF Undisturbed
  <2> QED BY <1>1, <1>2, <2>1, <2>2 DEF Continues, Quiet, InStep
<1>5. CodexExact'
  BY <1>1 DEF CodexExact
<1> QED BY <1>3, <1>4, <1>5 DEF CodexInv, Undisturbed

LEMMA NewGenerationKeeps == ASSUME CodexInv, NewGeneration PROVE CodexInv'
<1>1. /\ AskedTypes /\ CodexExact /\ asked.id \in Nat /\ asked.pc = "rest" /\ Reset
      /\ transcript' = <<Document(asked.id)>> /\ UNCHANGED <<asked, answers>>
  BY CodexAssumption DEF CodexInv, CodexTypes, AskedTypes, NewGeneration
<1>2. Document(asked.id) \in Entries
  BY <1>1, ToldIs
<1>3. transcript' \in Seq(Entries)
  BY <1>1, <1>2
<1>4. AskedTypes'
  BY <1>1 DEF AskedTypes
<1> QED BY <1>1, <1>3, <1>4, ResetIs DEF CodexExact

LEMMA ReleasedKeeps == ASSUME CodexInv, Refused PROVE CodexInv'
<1>1. /\ CodexTypes /\ AskedTypes /\ CodexExact /\ asked.id \in 0..MaxAsked /\ asked.id < MaxAsked /\ asked.pc = "rest" /\ Reset
      /\ asked' = [asked EXCEPT !.id = asked.id + 1] /\ UNCHANGED <<transcript, answers>>
  BY DEF CodexInv, CodexTypes, AskedTypes, Refused
<1>2. /\ DOMAIN asked' = DOMAIN asked /\ asked'.pc = asked.pc /\ asked'.id = asked.id + 1 /\ asked'.profile = asked.profile
      /\ asked'.effort = asked.effort /\ asked'.input = asked.input /\ asked'.got = asked.got
  BY <1>1 DEF AskedTypes
<1>3. asked.id + 1 \in 0..MaxAsked
  BY <1>1, CodexAssumption
<1>4. AskedTypes'
  BY <1>1, <1>2, <1>3 DEF AskedTypes
<1> QED BY <1>1, <1>2, <1>4, ResetIs DEF CodexTypes, CodexExact

LEMMA CodexKept == CodexInv /\ [CodexNext]_codexVars => CodexInv'
<1> SUFFICES ASSUME CodexInv, [CodexNext]_codexVars PROVE CodexInv'
  OBVIOUS
<1>1. CASE \E profile \in Profiles, effort \in Efforts, fresh \in BOOLEAN : Begin(profile, effort, fresh)
  BY <1>1, BeginKeeps
<1>2. CASE Connect \/ Send \/ ServeItem \/ ServeCompleted \/ ServeFailed \/ ServeAgain \/ Close
  BY <1>2, ConnectKeeps, SendKeeps, ServeItemKeeps, ServeCompletedKeeps, ServeFailedKeeps, ServeAgainKeeps, CloseKeeps
<1>3. CASE ReadItem \/ ReadCompleted \/ Abort \/ NewGeneration \/ Refused
  BY <1>3, ReadItemKeeps, ReadCompletedKeeps, AbortKeeps, NewGenerationKeeps, ReleasedKeeps
<1>4. CASE ConnectFails \/ SendFails \/ ReadFails \/ IdleTimeout
  BY <1>4, DroppedKeeps DEF ConnectFails, SendFails, ReadFails, IdleTimeout
<1>5. CASE UNCHANGED codexVars
  <2>1. UNCHANGED <<transcript, asked, link, frames, serving, contexts, tainted, answers>>
    BY <1>5 DEF codexVars
  <2>2. CodexTypes'
    BY <2>1 DEF CodexInv, CodexTypes, AskedTypes
  <2>3. (Continues => Continues') /\ (Quiet => Quiet')
    BY <2>1 DEF Continues, Quiet
  <2>4. OwnServed => OwnServed'
    BY <2>1 DEF OwnServed, Waits
  <2>5. ASSUME OwnFrames PROVE OwnFrames'
    <3>1. /\ \A n \in DOMAIN asked'.got : asked'.got[n].of = asked'.id /\ asked'.got[n].profile = asked'.profile
          /\ \A i \in 1..Len(frames') : frames'[i].type \in {"item", "completed"} =>
               frames'[i].of = asked'.id /\ frames'[i].profile = asked'.profile
      BY <2>1, <2>5 DEF OwnFrames
    <3>2. ASSUME NEW i \in 1..Len(frames'), frames'[i].type = "completed"
          PROVE  /\ contexts'[asked'.id] = asked'.input \o Output(asked'.id, asked'.profile)
                 /\ \A n \in 1..OutputSize : Waits(n, i - 1)'
                 /\ \A j \in (i + 1)..Len(frames') : frames'[j].type = "closed"
      <4>1. /\ contexts[asked.id] = asked.input \o Output(asked.id, asked.profile)
            /\ \A n \in 1..OutputSize : Waits(n, i - 1)
            /\ \A j \in (i + 1)..Len(frames) : frames[j].type = "closed"
        BY <2>1, <2>5, <3>2 DEF OwnFrames
      <4>2. \A n \in 1..OutputSize : Waits(n, i - 1)'
        BY <2>1, <4>1 DEF Waits
      <4> QED BY <2>1, <4>1, <4>2
    <3> QED BY <3>1, <3>2 DEF OwnFrames
  <2>6. Undisturbed'
    BY <2>1, <2>3, <2>4, <2>5 DEF CodexInv, Undisturbed, InStep
  <2>7. CodexExact'
    BY <2>1 DEF CodexInv, CodexExact
  <2> QED BY <2>2, <2>6, <2>7 DEF CodexInv
<1> QED BY <1>1, <1>2, <1>3, <1>4, <1>5 DEF CodexNext

\* What the Codex provider sees is the whole input of a request, and an answer is the
\* answer to the request that waits for it, except on a connection on which a request
\* was aborted after it was sent (codex_responses.rs, execute and read_response).
THEOREM AnswersAreOwn == CodexSpec => []CodexExact
<1>1. CodexInv => CodexExact
  BY DEF CodexInv
<1> QED BY <1>1, CodexStarts, CodexKept, PTL DEF CodexSpec
-----------------------------------------------------------------------------
(***************************************************************************)
(* The client of the local conversations.  A flag that blocks an operation *)
(* is matched by a request that takes it back.  Unless two messages of one *)
(* conversation crossed, one is sent at a time, the choice it has brought  *)
(* is the gateway's, and an unmarked choice is not being brought.          *)
(***************************************************************************)

\* What the client and a request are made of.
ViewFields == {"creating", "choice", "typed", "listed", "selected", "rows", "waiting", "cursor", "older", "sending",
               "canceling", "config", "busy", "dirty", "touched"}
AskFields == {"kind", "chat", "phase", "text", "value", "at", "page", "upto", "updated"}
ViewIs(v, m) ==
  /\ DOMAIN v = ViewFields
  /\ v.creating \in BOOLEAN /\ v.older \in BOOLEAN /\ v.sending \in BOOLEAN /\ v.canceling \in BOOLEAN
  /\ v.busy \in BOOLEAN /\ v.dirty \in BOOLEAN /\ v.touched \in BOOLEAN
  /\ v.selected \in m \cup {Nowhere} /\ (v.touched => v.selected # Nowhere)
ServerIs(s) == DOMAIN s = Chats /\ \A c \in Chats : DOMAIN s[c] = {"choice", "context"}

\* A request is of a conversation that exists; a creation may not have one yet.
IsAsk(r, m) ==
  /\ DOMAIN r = AskFields /\ r.updated \in BOOLEAN
  /\ r.chat \in m \cup {Nowhere} /\ (r.kind # "create" => r.chat \in m)
Asks(q, m) == (\E S : q \in Seq(S)) /\ \A i \in 1..Len(q) : IsAsk(q[i], m)

\* The flags of a view and the requests that will take them back.
OnItsWay(q, kind, chat) == \E i \in 1..Len(q) : q[i].kind = kind /\ q[i].chat = chat
WaitsCreation(q) == \E i \in 1..Len(q) : q[i].kind = "create"
WaitsContext(q, chat) == \E i \in 1..Len(q) : q[i].kind = "context" /\ q[i].chat = chat /\ q[i].at = 1
Unblocks(v, q) ==
  /\ v.sending => OnItsWay(q, "send", v.selected)
  /\ v.canceling => OnItsWay(q, "cancel", v.selected)
  /\ v.older => OnItsWay(q, "older", v.selected)
  /\ v.creating => WaitsCreation(q)
  /\ v.busy => WaitsContext(q, v.selected)

\* One message of a conversation is sent at a time; a choice it has brought is the
\* gateway's; and a choice that is not marked as changed is not being brought.
Lone(q) == \A i, j \in 1..Len(q) : q[i].kind = "send" /\ q[j].kind = "send" /\ q[i].chat = q[j].chat => i = j
Brought(q, s) == \A i \in 1..Len(q) : q[i].kind = "send" /\ q[i].updated => s[q[i].chat].choice = q[i].value
Agrees(v, q, s) ==
  v.touched /\ ~v.dirty =>
    /\ s[v.selected].choice = v.choice
    /\ \A i \in 1..Len(q) : q[i].kind = "send" /\ q[i].chat = v.selected => q[i].phase # "update"
ChoicesAgree(v, q, s) == Lone(q) /\ Brought(q, s) /\ Agrees(v, q, s)

ChatInv ==
  /\ made \subseteq Chats /\ crossed \in BOOLEAN
  /\ ViewIs(view, made) /\ ServerIs(server) /\ Asks(open, made)
  /\ Unblocks(view, open)
  /\ ~crossed => ChoicesAgree(view, open, server)

\* The lists of requests.
Longer(p, q, r) ==
  /\ Len(q) \in Nat /\ Len(p) = Len(q) + 1 /\ p[Len(q) + 1] = r
  /\ \A i \in 1..Len(q) : i \in 1..Len(p) /\ p[i] = q[i]
  /\ \A i \in 1..Len(p) : i \in 1..Len(q) \/ i = Len(q) + 1
Changed(p, q, i, r) == Len(p) = Len(q) /\ p[i] = r /\ \A j \in 1..Len(q) : j # i => p[j] = q[j]
Without(p, q, i) ==
  /\ \A k \in 1..Len(q) : k # i => \E j \in 1..Len(p) : p[j] = q[k]
  /\ \A j \in 1..Len(p) : \E k \in 1..Len(q) : k # i /\ p[j] = q[k]
LEMMA AskAppended ==
  ASSUME NEW q, NEW m, Asks(q, m), NEW r, IsAsk(r, m), NEW p, p = Append(q, r)
  PROVE  Asks(p, m) /\ Longer(p, q, r)
<1>1. PICK S : q \in Seq(S)
  BY DEF Asks
<1> PICK T : T = S \cup {r}
  OBVIOUS
<1>2. q \in Seq(T) /\ r \in T
  BY <1>1
<1>3. p \in Seq(T) /\ Len(q) \in Nat /\ Len(p) = Len(q) + 1 /\ p[Len(q) + 1] = r /\ \A i \in 1..Len(q) : p[i] = q[i]
  BY <1>2
<1>4. \A i \in 1..Len(p) : i \in 1..Len(q) \/ i = Len(q) + 1
  BY <1>3
<1>5. \A i \in 1..Len(p) : IsAsk(p[i], m)
  BY <1>3, <1>4 DEF Asks
<1> QED BY <1>3, <1>4, <1>5 DEF Asks, Longer

LEMMA AskChanged ==
  ASSUME NEW q, NEW m, NEW n, Asks(q, m), m \subseteq n, NEW i \in 1..Len(q), NEW r, IsAsk(r, n),
         NEW p, p = [q EXCEPT ![i] = r]
  PROVE  Asks(p, n) /\ Changed(p, q, i, r)
<1>1. PICK S : q \in Seq(S)
  BY DEF Asks
<1> PICK T : T = S \cup {r}
  OBVIOUS
<1>2. q \in Seq(T) /\ r \in T
  BY <1>1
<1>3. p \in Seq(T) /\ Len(p) = Len(q) /\ p[i] = r /\ \A j \in 1..Len(q) : j # i => p[j] = q[j]
  BY <1>2
<1>4. \A j \in 1..Len(q) : IsAsk(q[j], n)
  BY DEF Asks, IsAsk
<1>5. \A j \in 1..Len(p) : IsAsk(p[j], n)
  BY <1>3, <1>4
<1> QED BY <1>3, <1>5 DEF Asks, Changed

LEMMA Behind ==
  ASSUME NEW S, NEW a \in Seq(S), NEW b \in Seq(S), NEW j \in Nat, j > Len(a), j <= Len(a) + Len(b)
  PROVE  (a \o b)[j] = b[j - Len(a)]
  OBVIOUS

LEMMA Removed ==
  ASSUME NEW S, NEW q \in Seq(S), NEW i \in 1..Len(q), NEW p, p = RemoveAt(q, i)
  PROVE  /\ p \in Seq(S) /\ Len(q) \in Nat /\ Len(p) = Len(q) - 1
         /\ \A j \in 1..Len(p) : p[j] = q[IF j < i THEN j ELSE j + 1]
<1>1. Len(q) \in Nat /\ i \in Nat /\ i >= 1 /\ i <= Len(q)
  OBVIOUS
<1> PICK a : a = SubSeq(q, 1, i - 1)
  OBVIOUS
<1> PICK b : b = SubSeq(q, i + 1, Len(q))
  OBVIOUS
<1>2. a \in Seq(S) /\ Len(a) = i - 1 /\ \A j \in 1..(i - 1) : a[j] = q[j]
  <2>1. i - 1 \in 0..Len(q)
    BY <1>1
  <2>2. a = [j \in 1..(i - 1) |-> q[j]]
    BY <1>1
  <2>3. \A j \in 1..(i - 1) : q[j] \in S
    BY <1>1
  <2> QED BY <1>1, <2>2, <2>3
<1>3. b \in Seq(S) /\ Len(b) = Len(q) - i /\ \A j \in 1..(Len(q) - i) : b[j] = q[j + i]
  <2> PICK n : n = Len(q) - i
    OBVIOUS
  <2>0. n \in Nat /\ n = (Len(q) - (i + 1)) + 1
    BY <1>1
  <2>1. b = [j \in 1..n |-> q[j + i]]
    BY <1>1, <2>0
  <2>2. \A j \in 1..n : q[j + i] \in S
    BY <1>1, <2>0
  <2> QED BY <2>0, <2>1, <2>2
<1>4. p = a \o b
  BY DEF RemoveAt
<1>5. p \in Seq(S) /\ Len(p) = Len(q) - 1
  <2>1. p \in Seq(S) /\ Len(p) = Len(a) + Len(b)
    BY <1>2, <1>3, <1>4
  <2> QED BY <1>1, <1>2, <1>3, <2>1
<1>6. ASSUME NEW j \in 1..Len(p) PROVE p[j] = q[IF j < i THEN j ELSE j + 1]
  <2>1. CASE j < i
    <3>1. j \in 1..Len(a)
      BY <1>1, <1>2, <2>1
    <3> QED BY <1>2, <1>3, <1>4, <2>1, <3>1
  <2>2. CASE ~(j < i)
    <3> PICK k : k = j - Len(a)
      OBVIOUS
    <3>1. k \in 1..(Len(q) - i) /\ k + i = j + 1
      BY <1>1, <1>2, <1>5, <2>2
    <3>2. p[j] = b[k]
      <4>1. j \in Nat /\ j > i - 1 /\ j <= Len(q) - 1
        BY <1>1, <1>5, <2>2
      <4>2. Len(a) = i - 1 /\ Len(a) + Len(b) = Len(q) - 1 /\ Len(a) \in Nat
        <5>1. Len(a) = i - 1
          BY <1>2
        <5>2. Len(b) = Len(q) - i
          BY <1>3
        <5> PICK n \in Nat : n = Len(q)
          BY <1>1
        <5>3. i \in Nat /\ i >= 1 /\ i - 1 \in Nat /\ n - i \in Int
          BY <1>1
        <5>4. Len(b) = n - i
          BY <5>2
        <5>5. (i - 1) + (n - i) = n - 1
          BY <5>3
        <5>6. Len(a) + Len(b) = n - 1
          BY <5>1, <5>4, <5>5
        <5> QED BY <5>1, <5>3, <5>6
      <4>3. j > Len(a) /\ j <= Len(a) + Len(b)
        BY <4>1, <4>2
      <4> QED BY <1>2, <1>3, <1>4, <4>1, <4>3, Behind
    <3> QED BY <1>3, <2>2, <3>1, <3>2
  <2> QED BY <2>1, <2>2
<1> QED BY <1>1, <1>5, <1>6

LEMMA AskRemoved ==
  ASSUME NEW q, NEW m, Asks(q, m), NEW i \in 1..Len(q), NEW p, p = RemoveAt(q, i)
  PROVE  Asks(p, m) /\ Without(p, q, i) /\ (Lone(q) => Lone(p))
<1>1. PICK S : q \in Seq(S)
  BY DEF Asks
<1>2. /\ p \in Seq(S) /\ Len(q) \in Nat /\ Len(p) = Len(q) - 1
      /\ \A j \in 1..Len(p) : p[j] = q[IF j < i THEN j ELSE j + 1]
  BY <1>1, Removed
<1>3. ASSUME NEW k \in 1..Len(q), k # i PROVE \E j \in 1..Len(p) : p[j] = q[k]
  <2>1. CASE k < i
    <3>1. k \in 1..Len(p)
      BY <1>2, <2>1
    <3> QED BY <1>2, <2>1, <3>1
  <2>2. CASE k > i
    <3> PICK j : j = k - 1
      OBVIOUS
    <3>1. j \in 1..Len(p) /\ ~(j < i) /\ j + 1 = k
      BY <1>2, <2>2
    <3> QED BY <1>2, <3>1
  <2> QED BY <1>3, <2>1, <2>2
<1>4. ASSUME NEW j \in 1..Len(p) PROVE (IF j < i THEN j ELSE j + 1) \in 1..Len(q) /\ (IF j < i THEN j ELSE j + 1) # i
  BY <1>2
<1>5. \A j \in 1..Len(p) : \E k \in 1..Len(q) : k # i /\ p[j] = q[k]
  BY <1>2, <1>4
<1>6. \A j \in 1..Len(p) : IsAsk(p[j], m)
  BY <1>5 DEF Asks
<1>7. ASSUME Lone(q) PROVE Lone(p)
  <2> SUFFICES ASSUME NEW j \in 1..Len(p), NEW k \in 1..Len(p),
                      p[j].kind = "send", p[k].kind = "send", p[j].chat = p[k].chat
               PROVE  j = k
    BY DEF Lone
  <2> PICK g : g = IF j < i THEN j ELSE j + 1
    OBVIOUS
  <2> PICK h : h = IF k < i THEN k ELSE k + 1
    OBVIOUS
  <2>1. g \in 1..Len(q) /\ h \in 1..Len(q) /\ p[j] = q[g] /\ p[k] = q[h]
    BY <1>2, <1>4
  <2>2. g = h
    BY <1>7, <2>1 DEF Lone
  <2> QED BY <2>2
<1> QED BY <1>2, <1>3, <1>5, <1>6, <1>7 DEF Asks, Without

\* Nothing was asked for or answered.
SameFlags(v, w) ==
  /\ DOMAIN v = ViewFields /\ v.older \in BOOLEAN /\ (v.older => w.older)
  /\ v.selected = w.selected /\ v.sending = w.sending /\ v.canceling = w.canceling /\ v.creating = w.creating
  /\ v.busy = w.busy /\ v.dirty = w.dirty /\ v.touched = w.touched /\ v.choice = w.choice
LEMMA ViewLess ==
  ASSUME ChatInv, UNCHANGED <<open, server, made, crossed>>, SameFlags(view', view)
  PROVE  ChatInv'
<1> PICK v : v = view'
  OBVIOUS
<1>1. ViewIs(v, made)
  BY DEF ChatInv, ViewIs, SameFlags
<1>2. Unblocks(v, open)
  BY DEF ChatInv, Unblocks, SameFlags
<1>3. ~crossed => ChoicesAgree(v, open, server)
  BY DEF ChatInv, ChoicesAgree, Agrees, SameFlags
<1> QED BY <1>1, <1>2, <1>3 DEF ChatInv

\* What waits still waits when a list has no less.
NoLess(q, p) ==
  \A k \in 1..Len(q) : \E j \in 1..Len(p) : p[j].kind = q[k].kind /\ p[j].chat = q[k].chat /\ p[j].at = q[k].at
LEMMA StillWaits ==
  ASSUME NEW q, NEW p, NoLess(q, p), NEW v, Unblocks(v, q)
  PROVE  Unblocks(v, p)
  BY SMTT(30) DEF NoLess, Unblocks, OnItsWay, WaitsCreation, WaitsContext

\* The gateway handles a request.
LEMMA ServedAsk ==
  ASSUME ChatInv, NEW i \in 1..Len(open), NEW r, open' = [open EXCEPT ![i] = r], UNCHANGED <<view, made, crossed>>,
         IsAsk(r, made), r.kind = open[i].kind, r.chat = open[i].chat, r.at = open[i].at,
         r.kind = "send" => r.value = open[i].value /\ (r.updated => open[i].updated) /\ r.phase # "update",
         ServerIs(server'), \A c \in Chats : server'[c].choice = server[c].choice
  PROVE  ChatInv'
<1> PICK q : q = open
  OBVIOUS
<1> PICK p : p = open'
  OBVIOUS
<1>1. Asks(q, made) /\ i \in 1..Len(q) /\ p = [q EXCEPT ![i] = r] /\ made \subseteq made
  BY DEF ChatInv
<1>0. Asks(p, made) /\ Changed(p, q, i, r)
  BY <1>1, AskChanged
<1>2. Asks(p, made) /\ Len(p) = Len(q) /\ p[i] = r /\ \A j \in 1..Len(q) : j # i => p[j] = q[j]
  BY <1>0 DEF Changed
<1>3. \A k \in 1..Len(q) : p[k].kind = q[k].kind /\ p[k].chat = q[k].chat /\ p[k].at = q[k].at
  BY <1>2
<1>4. Unblocks(view, p)
  <2>1. \A k \in 1..Len(q) : \E j \in 1..Len(p) : p[j].kind = q[k].kind /\ p[j].chat = q[k].chat /\ p[j].at = q[k].at
    BY <1>2, <1>3
  <2>2. NoLess(q, p) /\ Unblocks(view, q)
    BY <2>1 DEF NoLess, ChatInv
  <2> QED BY <2>2, StillWaits
<1>5. ASSUME ~crossed PROVE ChoicesAgree(view, p, server')
  <2>1. Lone(q) /\ Brought(q, server) /\ Agrees(view, q, server)
    BY <1>5 DEF ChatInv, ChoicesAgree
  <2>2. Lone(p)
    BY <1>2, <1>3, <2>1 DEF Lone
  <2>3. \A j \in 1..Len(q) : p[j].kind = "send" => p[j].chat \in Chats /\ p[j].value = q[j].value /\ (p[j].updated => q[j].updated)
                                          /\ (p[j].phase = "update" => q[j].phase = "update")
    <3>1. \A j \in 1..Len(q) : p[j].kind = "send" => p[j].chat \in Chats
      <4>1. \A j \in 1..Len(p) : IsAsk(p[j], made)
        BY <1>2 DEF Asks
      <4> QED BY <1>2, <4>1 DEF ChatInv, IsAsk
    <3>2. \A j \in 1..Len(q) : p[j].kind = "send" => p[j].value = q[j].value /\ (p[j].updated => q[j].updated)
                                          /\ (p[j].phase = "update" => q[j].phase = "update")
      BY <1>2
    <3> QED BY <3>1, <3>2
  <2>4. Brought(p, server')
    BY <1>2, <1>3, <2>1, <2>3 DEF Brought
  <2>5. Agrees(view, p, server')
    <3>1. view.touched => view.selected \in Chats
      BY DEF ChatInv, ViewIs
    <3> QED BY <1>2, <1>3, <2>1, <2>3, <3>1 DEF Agrees
  <2> QED BY <2>2, <2>4, <2>5 DEF ChoicesAgree
<1> QED BY <1>2, <1>4, <1>5 DEF ChatInv

\* The client asks for something.
LEMMA AskedFor ==
  ASSUME ChatInv, NEW r, IsAsk(r, made), open' = Append(open, r), UNCHANGED <<server, made>>, crossed' \in BOOLEAN, crossed => crossed',
         NEW v, v = view', ViewIs(v, made), v.selected = view.selected, v.choice = view.choice, v.touched = view.touched,
         v.dirty = view.dirty,
         v.sending => view.sending \/ (r.kind = "send" /\ r.chat = view.selected),
         v.canceling => view.canceling \/ (r.kind = "cancel" /\ r.chat = view.selected),
         v.older => view.older \/ (r.kind = "older" /\ r.chat = view.selected),
         v.creating => view.creating \/ r.kind = "create",
         v.busy => view.busy \/ (r.kind = "context" /\ r.chat = view.selected /\ r.at = 1),
         r.kind = "send" => /\ r.updated = FALSE /\ r.chat = view.selected /\ (r.phase = "update" => view.dirty)
                            /\ (~crossed' => ~OnItsWay(open, "send", view.selected))
  PROVE  ChatInv'
<1> PICK q : q = open
  OBVIOUS
<1> PICK p : p = open'
  OBVIOUS
<1> PICK n : n = Len(q) + 1
  OBVIOUS
<1>1. Asks(q, made) /\ p = Append(q, r)
  BY DEF ChatInv
<1>2. /\ Asks(p, made) /\ n \in 1..Len(p) /\ p[n] = r
      /\ \A i \in 1..Len(q) : i \in 1..Len(p) /\ p[i] = q[i]
      /\ \A i \in 1..Len(p) : i \in 1..Len(q) \/ i = n
  <2>1. Asks(p, made) /\ Longer(p, q, r)
    BY <1>1, AskAppended
  <2> QED BY <2>1 DEF Longer
<1>3. Unblocks(v, p)
  <2>1. Unblocks(view, q)
    BY DEF ChatInv
  <2> QED BY <1>2, <2>1 DEF Unblocks, OnItsWay, WaitsCreation, WaitsContext
<1>4. ASSUME ~crossed' PROVE ChoicesAgree(v, p, server)
  <2>1. Lone(q) /\ Brought(q, server) /\ Agrees(view, q, server)
    BY <1>4 DEF ChatInv, ChoicesAgree
  <2>2. r.kind = "send" => \A i \in 1..Len(q) : ~(q[i].kind = "send" /\ q[i].chat = r.chat)
    BY <1>4 DEF OnItsWay
  <2>3. Lone(p)
    <3> SUFFICES ASSUME NEW i \in 1..Len(p), NEW j \in 1..Len(p), p[i].kind = "send", p[j].kind = "send", p[i].chat = p[j].chat
                 PROVE  i = j
      BY DEF Lone
    <3> QED BY <1>2, <2>1, <2>2 DEF Lone
  <2>4. Brought(p, server)
    BY <1>2, <2>1 DEF Brought
  <2>5. Agrees(v, p, server)
    BY <1>2, <2>1 DEF Agrees
  <2> QED BY <2>3, <2>4, <2>5 DEF ChoicesAgree
<1> QED BY <1>2, <1>3, <1>4 DEF ChatInv

\* The client takes an answer.
LEMMA TakenAsk ==
  ASSUME ChatInv, NEW i \in 1..Len(open), open' = RemoveAt(open, i), UNCHANGED <<server, made, crossed>>,
         NEW v, v = view', ViewIs(v, made), v.selected = view.selected, v.choice = view.choice, v.touched = view.touched,
         NEW r, r = open[i],
         v.sending => view.sending /\ ~(r.kind = "send" /\ r.chat = view.selected),
         v.canceling => view.canceling /\ ~(r.kind = "cancel" /\ r.chat = view.selected),
         v.older => view.older /\ ~(r.kind = "older" /\ r.chat = view.selected),
         v.creating => view.creating /\ r.kind # "create",
         v.busy => view.busy /\ ~(r.kind = "context" /\ r.chat = view.selected /\ r.at = 1),
         v.dirty \/ ~view.dirty \/ (r.kind = "send" /\ r.chat = view.selected /\ r.updated /\ r.value = view.choice)
  PROVE  ChatInv'
<1> PICK q : q = open
  OBVIOUS
<1> PICK p : p = open'
  OBVIOUS
<1>1. Asks(q, made) /\ p = RemoveAt(q, i) /\ i \in 1..Len(q) /\ q[i] = r
  BY DEF ChatInv
<1>0. Asks(p, made) /\ Without(p, q, i) /\ (Lone(q) => Lone(p))
  BY <1>1, AskRemoved
<1>2. /\ Asks(p, made) /\ (Lone(q) => Lone(p))
      /\ \A k \in 1..Len(q) : k # i => \E j \in 1..Len(p) : p[j] = q[k]
      /\ \A j \in 1..Len(p) : \E k \in 1..Len(q) : k # i /\ p[j] = q[k]
  BY <1>0 DEF Without
<1>3. Unblocks(v, p)
  <2>1. Unblocks(view, q)
    BY DEF ChatInv
  <2>2. ASSUME v.sending PROVE OnItsWay(p, "send", v.selected)
    <3>1. OnItsWay(q, "send", view.selected) /\ ~(r.kind = "send" /\ r.chat = view.selected)
      BY <2>1, <2>2 DEF Unblocks
    <3>2. PICK k \in 1..Len(q) : q[k].kind = "send" /\ q[k].chat = view.selected
      BY <3>1 DEF OnItsWay
    <3>3. k # i
      BY <1>1, <3>1, <3>2
    <3> QED BY <1>2, <3>2, <3>3 DEF OnItsWay
  <2>3. v.canceling => OnItsWay(p, "cancel", v.selected)
    BY <1>1, <1>2, <2>1 DEF Unblocks, OnItsWay
  <2>4. v.older => OnItsWay(p, "older", v.selected)
    BY <1>1, <1>2, <2>1 DEF Unblocks, OnItsWay
  <2>5. v.creating => WaitsCreation(p)
    BY <1>1, <1>2, <2>1 DEF Unblocks, WaitsCreation
  <2>6. v.busy => WaitsContext(p, v.selected)
    BY <1>1, <1>2, <2>1 DEF Unblocks, WaitsContext
  <2> QED BY <2>2, <2>3, <2>4, <2>5, <2>6 DEF Unblocks
<1>4. ASSUME ~crossed PROVE ChoicesAgree(v, p, server)
  <2>1. Lone(q) /\ Brought(q, server) /\ Agrees(view, q, server)
    BY <1>4 DEF ChatInv, ChoicesAgree
  <2>2. Brought(p, server)
    BY <1>2, <2>1 DEF Brought
  <2>3. ASSUME v.touched, ~v.dirty
        PROVE  /\ server[v.selected].choice = v.choice
               /\ \A j \in 1..Len(p) : p[j].kind = "send" /\ p[j].chat = v.selected => p[j].phase # "update"
    <3>1. CASE ~view.dirty
      <4>1. /\ server[view.selected].choice = view.choice
            /\ \A k \in 1..Len(q) : q[k].kind = "send" /\ q[k].chat = view.selected => q[k].phase # "update"
        BY <2>1, <2>3, <3>1 DEF Agrees
      <4>2. \A j \in 1..Len(p) : p[j].kind = "send" /\ p[j].chat = v.selected => p[j].phase # "update"
        BY <1>2, <4>1
      <4> QED BY <4>1, <4>2
    <3>2. CASE r.kind = "send" /\ r.chat = view.selected /\ r.updated /\ r.value = view.choice
      <4>1. server[v.selected].choice = v.choice
        BY <1>1, <2>1, <3>2 DEF Brought
      <4>2. \A j \in 1..Len(p) : ~(p[j].kind = "send" /\ p[j].chat = v.selected)
        BY <1>1, <1>2, <2>1, <3>2 DEF Lone
      <4> QED BY <4>1, <4>2
    <3> QED BY <2>3, <3>1, <3>2
  <2> QED BY <1>2, <2>1, <2>2, <2>3 DEF ChoicesAgree, Agrees
<1> QED BY <1>2, <1>3, <1>4 DEF ChatInv

Asked(r, kind, chat, phase) ==
  DOMAIN r = AskFields /\ r.kind = kind /\ r.chat = chat /\ r.phase = phase /\ r.updated = FALSE
LEMMA RequestIs ==
  ASSUME NEW kind, NEW chat, NEW phase
  PROVE  Asked(Request(kind, chat, phase), kind, chat, phase)
<1>1. \E none : Request(kind, chat, phase) =
        [kind |-> kind, chat |-> chat, phase |-> phase, text |-> none, value |-> 0, at |-> 0,
         page |-> <<>>, upto |-> 0, updated |-> FALSE]
  BY Zenon DEF Request
<1> QED BY <1>1 DEF AskFields, Asked

LEMMA FreshIs ==
  ASSUME NEW chat, NEW v, v = FreshView(chat)
  PROVE  /\ DOMAIN v = ViewFields /\ v.selected = chat /\ v.older = FALSE /\ v.sending = FALSE /\ v.creating = FALSE
         /\ v.canceling = FALSE /\ v.busy = FALSE /\ v.dirty = FALSE /\ v.touched = FALSE
<1>1. \E none, listed : v =
        [selected |-> chat, rows |-> <<>>, waiting |-> <<>>, cursor |-> 0, older |-> FALSE,
         sending |-> FALSE, canceling |-> FALSE, config |-> NoConfig, busy |-> FALSE, dirty |-> FALSE, touched |-> FALSE,
         creating |-> FALSE, choice |-> 1, typed |-> none, listed |-> listed]
  BY Zenon DEF FreshView
<1> QED BY <1>1 DEF ViewFields

LEMMA ChatStarts == ChatInit => ChatInv
<1> SUFFICES ASSUME ChatInit PROVE ChatInv
  OBVIOUS
<1>1. made \subseteq Chats
  <2>1. First \in Chats
    BY ChatAssumption DEF First
  <2> QED BY <2>1 DEF ChatInit
<1>2. /\ crossed = FALSE /\ open = <<>> /\ server = [c \in Chats |-> [choice |-> 1, context |-> 1]]
  BY DEF ChatInit
<1>3. view = FreshView(Nowhere)
  BY DEF ChatInit
<1>4. ViewIs(view, made) /\ Unblocks(view, open) /\ view.touched = FALSE
  <2> PICK v : v = view
    OBVIOUS
  <2>1. /\ DOMAIN v = ViewFields /\ v.selected = Nowhere /\ v.older = FALSE /\ v.sending = FALSE /\ v.creating = FALSE
        /\ v.canceling = FALSE /\ v.busy = FALSE /\ v.dirty = FALSE /\ v.touched = FALSE
    BY <1>3, FreshIs
  <2> QED BY <2>1 DEF ViewIs, Unblocks
<1>5. ServerIs(server)
  BY <1>2 DEF ServerIs
<1>6. Len(open) = 0 /\ open \in Seq({})
  BY <1>2
<1>7. Asks(open, made) /\ ChoicesAgree(view, open, server)
  BY <1>4, <1>6 DEF Asks, ChoicesAgree, Lone, Brought, Agrees
<1> QED BY <1>1, <1>2, <1>4, <1>5, <1>7 DEF ChatInv

LEMMA OutdateIs ==
  ASSUME NEW q, NEW m, Asks(q, m), NEW p, p = Outdate(q)
  PROVE  /\ Asks(p, m) /\ Len(p) = Len(q) /\ Len(q) \in Nat
         /\ \A i \in 1..Len(q) : /\ p[i].kind = q[i].kind /\ p[i].chat = q[i].chat /\ p[i].phase = q[i].phase
                                 /\ p[i].value = q[i].value /\ p[i].updated = q[i].updated
<1>1. PICK S : q \in Seq(S)
  BY DEF Asks
<1> PICK n \in Nat : n = Len(q)
  BY <1>1
<1> PICK f : f = [i \in 1..n |-> [q[i] EXCEPT !.at = 0]]
  OBVIOUS
<1> PICK T : T = S \cup {f[i] : i \in 1..n}
  OBVIOUS
<1>2. p = [i \in 1..n |-> IF q[i].kind = "context" THEN f[i] ELSE q[i]]
  BY DEF Outdate
<1>3. \A i \in 1..n : q[i] \in T /\ f[i] \in T
  BY <1>1
<1>4. p \in Seq(T) /\ Len(p) = n
  <2>1. p \in [1..n -> T]
    BY <1>2, <1>3
  <2> QED BY <2>1
<1>5. \A i \in 1..n : IsAsk(q[i], m)
  BY DEF Asks
<1>6. ASSUME NEW i \in 1..n
      PROVE  /\ IsAsk(p[i], m) /\ p[i].kind = q[i].kind /\ p[i].chat = q[i].chat /\ p[i].phase = q[i].phase
             /\ p[i].value = q[i].value /\ p[i].updated = q[i].updated
  <2> PICK r : r = q[i]
    OBVIOUS
  <2> PICK s : s = [r EXCEPT !.at = 0]
    OBVIOUS
  <2>1. IsAsk(r, m)
    BY <1>5
  <2>2. /\ IsAsk(s, m) /\ s.kind = r.kind /\ s.chat = r.chat /\ s.phase = r.phase /\ s.value = r.value /\ s.updated = r.updated
    BY <2>1 DEF IsAsk, AskFields
  <2>3. p[i] = r \/ p[i] = s
    BY <1>2
  <2> QED BY <2>1, <2>2, <2>3
<1> QED BY <1>4, <1>6 DEF Asks

\* Another conversation is opened, or none.
LEMMA ViewAnew ==
  ASSUME NEW q, Asks(q, made), ~crossed => Lone(q) /\ Brought(q, server), made \subseteq Chats, crossed \in BOOLEAN,
         ServerIs(server), UNCHANGED <<made, server, crossed>>, q = open', NEW v, v = view', ViewIs(v, made),
         ~v.sending, ~v.canceling, ~v.older, ~v.touched, v.creating => WaitsCreation(q), v.busy => WaitsContext(q, v.selected)
  PROVE  ChatInv'
<1>1. Unblocks(v, q)
  BY DEF Unblocks
<1>2. ~crossed => ChoicesAgree(v, q, server)
  BY DEF ChoicesAgree, Agrees
<1> QED BY <1>1, <1>2 DEF ChatInv

LEMMA ConversationOpens ==
  ASSUME NEW q, Asks(q, made), ~crossed => Lone(q) /\ Brought(q, server), made \subseteq Chats, crossed \in BOOLEAN,
         ServerIs(server), UNCHANGED <<made, server, crossed>>, NEW chat \in made, NEW kept, DOMAIN view = ViewFields,
         kept.creating \in BOOLEAN, kept.creating => WaitsCreation(q), OpenChat(chat, q, kept)
  PROVE  ChatInv'
<1> PICK out : out = Outdate(q)
  OBVIOUS
<1> PICK r : r = Request("page", chat, "sent")
  OBVIOUS
<1> PICK paged : paged = Append(out, r)
  OBVIOUS
<1> PICK s : s = AskContext(chat, 0)
  OBVIOUS
<1> PICK v : v = view'
  OBVIOUS
<1> PICK busy \in BOOLEAN : busy <=> "context" \in habit
  OBVIOUS
<1> PICK p : p = open'
  OBVIOUS
<1>1. /\ Asks(out, made) /\ Len(out) = Len(q) /\ Len(q) \in Nat
      /\ \A i \in 1..Len(q) : /\ out[i].kind = q[i].kind /\ out[i].chat = q[i].chat /\ out[i].phase = q[i].phase
                              /\ out[i].value = q[i].value /\ out[i].updated = q[i].updated
  BY OutdateIs
<1>2. IsAsk(r, made) /\ r.kind = "page" /\ r.chat = chat
  <2>1. DOMAIN r = AskFields /\ r.kind = "page" /\ r.chat = chat /\ r.updated = FALSE
    <3>1. Asked(r, "page", chat, "sent")
      BY RequestIs
    <3> QED BY <3>1 DEF Asked
  <2> QED BY <2>1 DEF IsAsk
<1>3. IsAsk(s, made) /\ s.kind = "context" /\ s.chat = chat /\ s.at = 1
  <2> PICK base : base = Request("context", chat, "sent")
    OBVIOUS
  <2>1. DOMAIN base = AskFields /\ base.kind = "context" /\ base.chat = chat /\ base.updated = FALSE
    <3>1. Asked(base, "context", chat, "sent")
      BY RequestIs
    <3> QED BY <3>1 DEF Asked
  <2>2. s = [base EXCEPT !.value = 0, !.at = 1]
    BY DEF AskContext
  <2>3. DOMAIN s = AskFields /\ s.kind = "context" /\ s.chat = chat /\ s.at = 1 /\ s.updated = FALSE
    BY <2>1, <2>2 DEF AskFields
  <2> QED BY <2>3 DEF IsAsk
<1>4. Asks(paged, made) /\ Longer(paged, out, r)
  BY <1>1, <1>2, AskAppended
<1> PICK more : more = Append(paged, s)
  OBVIOUS
<1>5. Asks(more, made) /\ Longer(more, paged, s)
  BY <1>3, <1>4, AskAppended
<1>6. p = IF busy THEN more ELSE paged
  BY DEF OpenChat
<1>7. /\ DOMAIN v = ViewFields /\ v.selected = chat /\ v.creating = kept.creating /\ v.busy = busy /\ v.older = FALSE
      /\ v.sending = FALSE /\ v.canceling = FALSE /\ v.touched = FALSE /\ v.dirty = FALSE
  <2>1. v = [x \in ViewFields |->
       CASE x = "busy" -> "context" \in habit
         [] x = "choice" -> IF kept.listed[chat] # 0 THEN kept.listed[chat] ELSE kept.choice
         [] x \in {"creating", "typed", "listed"} -> kept[x]
         [] OTHER -> FreshView(chat)[x]]
    BY DEF OpenChat
  <2> PICK fresh : fresh = FreshView(chat)
    OBVIOUS
  <2> PICK choice : choice = IF kept.listed[chat] # 0 THEN kept.listed[chat] ELSE kept.choice
    OBVIOUS
  <2>2. v = [x \in ViewFields |->
       CASE x = "busy" -> busy
         [] x = "choice" -> choice
         [] x \in {"creating", "typed", "listed"} -> kept[x]
         [] OTHER -> fresh[x]]
    BY <2>1
  <2>3. /\ DOMAIN v = ViewFields /\ v.selected = fresh.selected /\ v.creating = kept.creating /\ v.busy = busy /\ v.older = fresh.older
        /\ v.sending = fresh.sending /\ v.canceling = fresh.canceling /\ v.touched = fresh.touched /\ v.dirty = fresh.dirty
    BY <2>2 DEF ViewFields
  <2>4. /\ fresh.selected = chat /\ fresh.older = FALSE /\ fresh.sending = FALSE
        /\ fresh.canceling = FALSE /\ fresh.busy = FALSE /\ fresh.dirty = FALSE /\ fresh.touched = FALSE
    BY FreshIs
  <2> QED BY <2>3, <2>4
<1>8. ASSUME Lone(q) /\ Brought(q, server) PROVE Lone(p) /\ Brought(p, server)
  <2>1. Lone(out) /\ Brought(out, server)
    BY <1>1, <1>8, SMTT(30) DEF Lone, Brought
  <2>2. Lone(paged) /\ Brought(paged, server)
    BY <1>2, <1>4, <2>1 DEF Longer, Lone, Brought
  <2>3. Lone(more) /\ Brought(more, server)
    BY <1>3, <1>5, <2>2 DEF Longer, Lone, Brought
  <2> QED BY <1>6, <2>2, <2>3
<1>9. WaitsCreation(q) => WaitsCreation(p)
  <2>1. WaitsCreation(q) => WaitsCreation(paged)
    BY <1>1, <1>4 DEF Longer, WaitsCreation
  <2>2. WaitsCreation(paged) => WaitsCreation(more)
    BY <1>5 DEF Longer, WaitsCreation
  <2> QED BY <1>6, <2>1, <2>2
<1>10. busy => WaitsContext(p, chat)
  BY <1>3, <1>5, <1>6 DEF Longer, WaitsContext
<1>11. ViewIs(v, made) /\ ~v.sending /\ ~v.canceling /\ ~v.older /\ ~v.touched
  BY <1>7 DEF ViewIs
<1>12. Asks(p, made)
  BY <1>4, <1>5, <1>6
<1> QED BY <1>7, <1>8, <1>9, <1>10, <1>11, <1>12, ViewAnew

LEMMA ViewRests == ASSUME ChatInv PROVE SameFlags(view, view) /\ ViewIs(view, made)
  BY DEF ChatInv, ViewIs, SameFlags

LEMMA PageShown == ASSUME ChatInv, NEW page, NEW upto, ShowPage(page, upto) PROVE SameFlags(view', view)
<1> PICK waiting : waiting = Echoed(view.waiting, page)
  OBVIOUS
<1> PICK rows : rows = PageRows(page, waiting)
  OBVIOUS
<1> PICK cursor : cursor = CursorOf(page)
  OBVIOUS
<1> PICK w : w = view
  OBVIOUS
<1> PICK v : v = view'
  OBVIOUS
<1>1. v = [w EXCEPT !.rows = rows, !.waiting = waiting, !.cursor = cursor, !.older = FALSE]
  BY DEF ShowPage
<1>2. DOMAIN w = ViewFields
  BY DEF ChatInv, ViewIs
<1>3. SameFlags(v, w)
  BY <1>1, <1>2 DEF SameFlags, ViewFields
<1> QED BY <1>3

LEMMA StreamKeeps == ASSUME ChatInv, Streams PROVE ChatInv'
<1>1. UNCHANGED <<open, server, made, crossed>>
  BY DEF Streams
<1>2. SameFlags(view', view)
  <2>1. CASE UNCHANGED view
    BY <2>1, ViewRests
  <2>2. CASE CatchUpShown
    BY <2>2, PageShown DEF CatchUpShown
  <2>3. CASE ApplyEvent
    <3> PICK w : w = view
      OBVIOUS
    <3>1. DOMAIN w = ViewFields /\ w.older \in BOOLEAN
      BY DEF ChatInv, ViewIs
    <3>2. \E rows, waiting : view' = [w EXCEPT !.rows = rows] \/ view' = [w EXCEPT !.waiting = waiting]
      BY <2>3 DEF ApplyEvent
    <3>3. PICK rows, waiting : view' = [w EXCEPT !.rows = rows] \/ view' = [w EXCEPT !.waiting = waiting]
      BY <3>2
    <3> PICK v : v = view'
      OBVIOUS
    <3>4. SameFlags(v, w)
      <4>1. CASE v = [w EXCEPT !.rows = rows]
        BY <3>1, <4>1 DEF SameFlags, ViewFields
      <4>2. CASE v = [w EXCEPT !.waiting = waiting]
        BY <3>1, <4>2 DEF SameFlags, ViewFields
      <4> QED BY <3>3, <4>1, <4>2
    <3> QED BY <3>4
  <2> QED BY <2>1, <2>2, <2>3 DEF Streams, StreamOpens, CatchUpRead, CatchUpFails, StreamEnds, StreamAgain
<1> QED BY <1>1, <1>2, ViewLess

LEMMA PollKeeps == ASSUME ChatInv, Poll PROVE ChatInv'
<1> PICK w : w = view
  OBVIOUS
<1> PICK v : v = view'
  OBVIOUS
<1> PICK listed : listed = [c \in Chats |-> IF c \in made THEN server[c].choice ELSE 0]
  OBVIOUS
<1>1. DOMAIN w = ViewFields /\ w.older \in BOOLEAN
  BY DEF ChatInv, ViewIs
<1>2. v = [w EXCEPT !.listed = listed] /\ UNCHANGED <<open, server, made, crossed>>
  BY DEF Poll
<1>3. SameFlags(v, w)
  BY <1>1, <1>2 DEF SameFlags, ViewFields
<1> QED BY <1>2, <1>3, ViewLess

LEMMA ReplyKeeps == ASSUME ChatInv, NEW chat, Reply(chat) PROVE ChatInv'
<1>1. UNCHANGED <<open, server, made, crossed, view>>
  BY DEF Reply
<1> QED BY <1>1, ViewRests, ViewLess

LEMMA ChosenKeeps == ASSUME ChatInv, NEW value, Choose(value) PROVE ChatInv'
<1> PICK w : w = view
  OBVIOUS
<1> PICK v : v = view'
  OBVIOUS
<1> PICK there \in BOOLEAN : there <=> w.selected # Nowhere
  OBVIOUS
<1> PICK dirty \in BOOLEAN : dirty <=> (w.dirty \/ there)
  OBVIOUS
<1>1. ViewIs(w, made) /\ UNCHANGED <<open, server, made, crossed>>
  BY DEF ChatInv, Choose
<1>2. v = [w EXCEPT !.choice = value, !.dirty = (w.dirty \/ w.selected # Nowhere), !.touched = (w.selected # Nowhere)]
  BY DEF Choose
<1>3. v = [w EXCEPT !.choice = value, !.dirty = dirty, !.touched = there]
  BY <1>1, <1>2 DEF ViewIs
<1>4. /\ DOMAIN v = ViewFields /\ v.older = w.older /\ v.selected = w.selected /\ v.sending = w.sending
      /\ v.canceling = w.canceling /\ v.creating = w.creating /\ v.busy = w.busy /\ v.dirty = dirty /\ v.touched = there
  BY <1>1, <1>3 DEF ViewIs, ViewFields
<1>5. ViewIs(v, made) /\ (v.touched => v.dirty)
  BY <1>1, <1>4 DEF ViewIs
<1>6. Unblocks(v, open)
  BY <1>4 DEF ChatInv, Unblocks
<1>7. ~crossed => ChoicesAgree(v, open, server)
  BY <1>5 DEF ChatInv, ChoicesAgree, Agrees
<1> QED BY <1>1, <1>5, <1>6, <1>7 DEF ChatInv

LEMMA CancelKeeps == ASSUME ChatInv, CancelSession PROVE ChatInv'
<1> PICK w : w = view
  OBVIOUS
<1> PICK v : v = view'
  OBVIOUS
<1> PICK r : r = Request("cancel", w.selected, "sent")
  OBVIOUS
<1>1. ViewIs(w, made) /\ w.selected \in made
  BY DEF ChatInv, CancelSession, ViewIs
<1>2. v = [w EXCEPT !.canceling = TRUE] /\ open' = Append(open, r) /\ UNCHANGED <<server, made, crossed>>
  BY DEF CancelSession
<1>3. r.kind = "cancel" /\ r.chat = w.selected /\ DOMAIN r = AskFields /\ r.updated = FALSE
  <2>1. Asked(r, "cancel", w.selected, "sent")
    BY RequestIs
  <2> QED BY <2>1 DEF Asked
<1>4. IsAsk(r, made)
  BY <1>1, <1>3 DEF IsAsk
<1>5. /\ DOMAIN v = ViewFields /\ v.older = w.older /\ v.selected = w.selected /\ v.sending = w.sending /\ v.choice = w.choice
      /\ v.canceling = TRUE /\ v.creating = w.creating /\ v.busy = w.busy /\ v.dirty = w.dirty /\ v.touched = w.touched
  BY <1>1, <1>2 DEF ViewIs, ViewFields
<1>6. ViewIs(v, made) /\ crossed' \in BOOLEAN
  BY <1>1, <1>2, <1>5 DEF ViewIs, ChatInv
<1> QED BY <1>2, <1>3, <1>4, <1>5, <1>6, AskedFor

LEMMA LoadOlderKeeps == ASSUME ChatInv, LoadOlder PROVE ChatInv'
<1> PICK w : w = view
  OBVIOUS
<1> PICK v : v = view'
  OBVIOUS
<1> PICK base : base = Request("older", w.selected, "sent")
  OBVIOUS
<1> PICK r : r = [base EXCEPT !.at = w.cursor]
  OBVIOUS
<1>1. ViewIs(w, made) /\ w.selected \in made
  BY DEF ChatInv, LoadOlder, ViewIs
<1>2. v = [w EXCEPT !.older = TRUE] /\ open' = Append(open, r) /\ UNCHANGED <<server, made, crossed>>
  BY DEF LoadOlder
<1>3. r.kind = "older" /\ r.chat = w.selected /\ DOMAIN r = AskFields /\ r.updated = FALSE
  <2>1. Asked(base, "older", w.selected, "sent")
    BY RequestIs
  <2> QED BY <2>1 DEF Asked, AskFields
<1>4. IsAsk(r, made)
  BY <1>1, <1>3 DEF IsAsk
<1>5. /\ DOMAIN v = ViewFields /\ v.older = TRUE /\ v.selected = w.selected /\ v.sending = w.sending /\ v.choice = w.choice
      /\ v.canceling = w.canceling /\ v.creating = w.creating /\ v.busy = w.busy /\ v.dirty = w.dirty /\ v.touched = w.touched
  BY <1>1, <1>2 DEF ViewIs, ViewFields
<1>6. ViewIs(v, made) /\ crossed' \in BOOLEAN
  BY <1>1, <1>2, <1>5 DEF ViewIs, ChatInv
<1> QED BY <1>2, <1>3, <1>4, <1>5, <1>6, AskedFor

AskedContext(r, chat) ==
  DOMAIN r = AskFields /\ r.kind = "context" /\ r.chat = chat /\ r.at = 1 /\ r.updated = FALSE
LEMMA ContextIs ==
  ASSUME NEW chat, NEW value
  PROVE  AskedContext(AskContext(chat, value), chat)
<1> PICK r : r = AskContext(chat, value)
  OBVIOUS
<1> PICK base : base = Request("context", chat, "sent")
  OBVIOUS
<1>1. Asked(base, "context", chat, "sent")
  BY RequestIs
<1>2. r = [base EXCEPT !.value = value, !.at = 1]
  BY DEF AskContext
<1>3. AskedContext(r, chat)
  BY <1>1, <1>2 DEF Asked, AskFields, AskedContext
<1> QED BY <1>3

LEMMA ChooseContextKeeps == ASSUME ChatInv, NEW value, ChooseContext(value) PROVE ChatInv'
<1> PICK w : w = view
  OBVIOUS
<1> PICK v : v = view'
  OBVIOUS
<1> PICK r : r = AskContext(w.selected, value)
  OBVIOUS
<1>1. ViewIs(w, made) /\ w.selected \in made
  BY DEF ChatInv, ChooseContext, ViewIs
<1>2. v = [w EXCEPT !.busy = TRUE] /\ open' = Append(open, r) /\ UNCHANGED <<server, made, crossed>>
  BY DEF ChooseContext
<1>3. r.kind = "context" /\ r.chat = w.selected /\ DOMAIN r = AskFields /\ r.updated = FALSE /\ r.at = 1
  <2>1. AskedContext(r, w.selected)
    BY ContextIs
  <2> QED BY <2>1 DEF AskedContext
<1>4. IsAsk(r, made)
  BY <1>1, <1>3 DEF IsAsk
<1>5. /\ DOMAIN v = ViewFields /\ v.older = w.older /\ v.selected = w.selected /\ v.sending = w.sending /\ v.choice = w.choice
      /\ v.canceling = w.canceling /\ v.creating = w.creating /\ v.busy = TRUE /\ v.dirty = w.dirty /\ v.touched = w.touched
  BY <1>1, <1>2 DEF ViewIs, ViewFields
<1>6. ViewIs(v, made) /\ crossed' \in BOOLEAN
  BY <1>1, <1>2, <1>5 DEF ViewIs, ChatInv
<1> QED BY <1>2, <1>3, <1>4, <1>5, <1>6, AskedFor

LEMMA CreateKeeps == ASSUME ChatInv, NEW text, CreateSession(text) PROVE ChatInv'
<1> PICK w : w = view
  OBVIOUS
<1> PICK v : v = view'
  OBVIOUS
<1> PICK base : base = Request("create", Nowhere, "create")
  OBVIOUS
<1> PICK r : r = [base EXCEPT !.text = text, !.value = w.choice]
  OBVIOUS
<1>1. ViewIs(w, made)
  BY DEF ChatInv
<1>2. open' = Append(open, r) /\ UNCHANGED <<server, made, crossed>>
  BY Zenon DEF CreateSession
<1>3. \E none : v = [w EXCEPT !.creating = TRUE, !.typed = none]
  BY Zenon DEF CreateSession
<1>4. r.kind = "create" /\ r.chat = Nowhere /\ DOMAIN r = AskFields /\ r.updated = FALSE
  <2>1. Asked(base, "create", Nowhere, "create")
    BY RequestIs
  <2> QED BY <2>1 DEF Asked, AskFields
<1>5. IsAsk(r, made)
  BY <1>4 DEF IsAsk
<1>6. /\ DOMAIN v = ViewFields /\ v.older = w.older /\ v.selected = w.selected /\ v.sending = w.sending /\ v.choice = w.choice
      /\ v.canceling = w.canceling /\ v.creating = TRUE /\ v.busy = w.busy /\ v.dirty = w.dirty /\ v.touched = w.touched
  BY <1>1, <1>3 DEF ViewIs, ViewFields
<1>7. ViewIs(v, made) /\ crossed' \in BOOLEAN
  BY <1>1, <1>2, <1>6 DEF ViewIs, ChatInv
<1> QED BY <1>2, <1>4, <1>5, <1>6, <1>7, AskedFor

LEMMA ComposerKeeps == ASSUME ChatInv, NEW text, SendComposer(text) PROVE ChatInv'
<1> PICK w : w = view
  OBVIOUS
<1> PICK v : v = view'
  OBVIOUS
<1> PICK phase : phase = IF w.dirty THEN "update" ELSE "sent"
  OBVIOUS
<1> PICK base : base = Request("send", w.selected, phase)
  OBVIOUS
<1> PICK r : r = [base EXCEPT !.text = text, !.value = w.choice]
  OBVIOUS
<1>0. w.selected # Nowhere
  BY Zenon DEF SendComposer
<1>1. ViewIs(w, made) /\ w.selected \in made
  BY <1>0 DEF ChatInv, ViewIs
<1>2. open' = Append(open, r) /\ UNCHANGED <<server, made>> /\ crossed' = (crossed \/ InFlight("send", w.selected))
  BY Zenon DEF SendComposer
<1>3. \E none, rows, waiting : v = [w EXCEPT !.sending = TRUE, !.typed = none, !.rows = rows, !.waiting = waiting]
  BY Zenon DEF SendComposer
<1>4. r.kind = "send" /\ r.chat = w.selected /\ r.phase = phase /\ DOMAIN r = AskFields /\ r.updated = FALSE
  <2>1. Asked(base, "send", w.selected, phase)
    BY RequestIs
  <2> QED BY <2>1 DEF Asked, AskFields
<1>5. IsAsk(r, made)
  BY <1>1, <1>4 DEF IsAsk
<1>6. /\ DOMAIN v = ViewFields /\ v.older = w.older /\ v.selected = w.selected /\ v.sending = TRUE /\ v.choice = w.choice
      /\ v.canceling = w.canceling /\ v.creating = w.creating /\ v.busy = w.busy /\ v.dirty = w.dirty /\ v.touched = w.touched
  BY <1>1, <1>3 DEF ViewIs, ViewFields
<1>7. ViewIs(v, made)
  BY <1>1, <1>6 DEF ViewIs
<1> PICK flying \in BOOLEAN : flying <=> InFlight("send", w.selected)
  OBVIOUS
<1>8. crossed' \in BOOLEAN /\ (crossed => crossed') /\ (~crossed' => ~flying)
  BY <1>2 DEF ChatInv
<1>9. ~flying => ~OnItsWay(open, "send", view.selected)
  BY DEF InFlight, OnItsWay
<1>10. r.phase = "update" => view.dirty
  BY <1>4
<1>11. /\ v.selected = view.selected /\ v.choice = view.choice /\ v.touched = view.touched /\ v.dirty = view.dirty
       /\ v.sending => view.sending \/ (r.kind = "send" /\ r.chat = view.selected)
       /\ v.canceling => view.canceling
       /\ v.older => view.older
       /\ v.creating => view.creating
       /\ v.busy => view.busy
  BY <1>4, <1>6, Zenon
<1>12. r.kind = "send" => /\ r.updated = FALSE /\ r.chat = view.selected /\ (r.phase = "update" => view.dirty)
                          /\ (~crossed' => ~OnItsWay(open, "send", view.selected))
  BY <1>4, <1>8, <1>9, <1>10, Zenon
<1> QED BY <1>2, <1>5, <1>7, <1>8, <1>11, <1>12, AskedFor, ZenonT(40)

\* The gateway's answers.
LEMMA AnsweredKeeps ==
  ASSUME ChatInv, NEW i \in 1..Len(open), NEW ok \in BOOLEAN, NEW s, Answers(i, ok, s), UNCHANGED <<view, made, crossed>>,
         IsAsk(s, made), s.kind = open[i].kind, s.chat = open[i].chat, s.at = open[i].at,
         s.kind = "send" => s.value = open[i].value /\ s.updated = open[i].updated /\ s.phase # "update",
         ServerIs(server'), \A c \in Chats : server'[c].choice = server[c].choice
  PROVE  ChatInv'
<1> PICK r : r = IF ok THEN s ELSE [s EXCEPT !.phase = "failed"]
  OBVIOUS
<1>1. open' = [open EXCEPT ![i] = r]
  BY DEF Answers
<1>2. IsAsk(r, made) /\ r.kind = s.kind /\ r.chat = s.chat /\ r.at = s.at
  BY DEF IsAsk, AskFields
<1>3. r.value = s.value /\ r.updated = s.updated /\ (s.phase # "update" => r.phase # "update")
  BY DEF IsAsk, AskFields
<1> QED BY <1>1, <1>2, <1>3, ServedAsk

LEMMA AskIs == ASSUME ChatInv, NEW i \in 1..Len(open) PROVE IsAsk(open[i], made)
  BY DEF ChatInv, Asks

LEMMA SameServer == ASSUME ChatInv, UNCHANGED server PROVE ServerIs(server') /\ \A c \in Chats : server'[c].choice = server[c].choice
  BY DEF ChatInv

LEMMA ServePageKeeps == ASSUME ChatInv, NEW i \in 1..Len(open), NEW ok \in BOOLEAN, ServePage(i, ok), UNCHANGED crossed PROVE ChatInv'
<1> PICK o : o = open[i]
  OBVIOUS
<1> PICK page : page = PageOf(o.chat, o.at)
  OBVIOUS
<1> PICK upto : upto = Len(stored[o.chat])
  OBVIOUS
<1> PICK s : s = [o EXCEPT !.phase = "done", !.page = page, !.upto = upto]
  OBVIOUS
<1>1. IsAsk(o, made)
  BY AskIs
<1>2. Answers(i, ok, s) /\ UNCHANGED <<view, made, server>> /\ o.kind # "send"
  BY DEF ServePage
<1>3. IsAsk(s, made) /\ s.kind = o.kind /\ s.chat = o.chat /\ s.at = o.at
  BY <1>1 DEF IsAsk, AskFields
<1> QED BY <1>2, <1>3, SameServer, AnsweredKeeps

LEMMA ServeMessageKeeps == ASSUME ChatInv, NEW i \in 1..Len(open), NEW ok \in BOOLEAN, ServeMessage(i, ok), UNCHANGED crossed PROVE ChatInv'
<1> PICK o : o = open[i]
  OBVIOUS
<1> PICK s : s = [o EXCEPT !.phase = "done"]
  OBVIOUS
<1>1. IsAsk(o, made)
  BY AskIs
<1>2. Answers(i, ok, s) /\ UNCHANGED <<view, made, server>>
  BY DEF ServeMessage
<1>3. /\ IsAsk(s, made) /\ s.kind = o.kind /\ s.chat = o.chat /\ s.at = o.at /\ s.value = o.value /\ s.updated = o.updated
      /\ s.phase # "update"
  BY <1>1 DEF IsAsk, AskFields
<1> QED BY <1>2, <1>3, SameServer, AnsweredKeeps

LEMMA ServeCancelKeeps == ASSUME ChatInv, NEW i \in 1..Len(open), NEW ok \in BOOLEAN, ServeCancel(i, ok), UNCHANGED crossed PROVE ChatInv'
<1> PICK o : o = open[i]
  OBVIOUS
<1> PICK s : s = [o EXCEPT !.phase = "done"]
  OBVIOUS
<1>1. IsAsk(o, made)
  BY AskIs
<1>2. Answers(i, ok, s) /\ UNCHANGED <<view, made, server>>
  BY DEF ServeCancel
<1>3. /\ IsAsk(s, made) /\ s.kind = o.kind /\ s.chat = o.chat /\ s.at = o.at /\ s.value = o.value /\ s.updated = o.updated
      /\ s.phase # "update"
  BY <1>1 DEF IsAsk, AskFields
<1> QED BY <1>2, <1>3, SameServer, AnsweredKeeps

LEMMA ServeContextKeeps == ASSUME ChatInv, NEW i \in 1..Len(open), NEW ok \in BOOLEAN, ServeContext(i, ok), UNCHANGED crossed PROVE ChatInv'
<1> PICK o : o = open[i]
  OBVIOUS
<1> PICK chat : chat = o.chat
  OBVIOUS
<1> PICK value : value = IF o.value = 0 THEN server[chat].context ELSE o.value
  OBVIOUS
<1> PICK s : s = [o EXCEPT !.phase = "done", !.value = value]
  OBVIOUS
<1>1. IsAsk(o, made)
  BY AskIs
<1>2. /\ Answers(i, ok, s) /\ UNCHANGED <<view, made>> /\ o.kind = "context"
      /\ server' = [server EXCEPT ![chat].context = value]
  BY DEF ServeContext
<1>3. IsAsk(s, made) /\ s.kind = o.kind /\ s.chat = o.chat /\ s.at = o.at
  BY <1>1 DEF IsAsk, AskFields
<1>4. ServerIs(server') /\ \A c \in Chats : server'[c].choice = server[c].choice
  <2> PICK row : row = [server[chat] EXCEPT !.context = value]
    OBVIOUS
  <2>1. ServerIs(server) /\ chat \in Chats
    BY <1>1, <1>2 DEF ChatInv, IsAsk
  <2>2. DOMAIN row = {"choice", "context"} /\ row.choice = server[chat].choice
    BY <2>1 DEF ServerIs
  <2>3. server' = [server EXCEPT ![chat] = row]
    BY <1>2
  <2> QED BY <2>1, <2>2, <2>3 DEF ServerIs
<1> QED BY <1>2, <1>3, <1>4, AnsweredKeeps

LEMMA LostKeeps == ASSUME ChatInv, NEW i \in 1..Len(open), RequestLost(i), UNCHANGED crossed PROVE ChatInv'
<1> PICK o : o = open[i]
  OBVIOUS
<1> PICK r : r = [o EXCEPT !.phase = "failed"]
  OBVIOUS
<1>1. IsAsk(o, made)
  BY AskIs
<1>2. open' = [open EXCEPT ![i] = r] /\ UNCHANGED <<view, made, server>>
  BY DEF RequestLost
<1>3. /\ IsAsk(r, made) /\ r.kind = o.kind /\ r.chat = o.chat /\ r.at = o.at /\ r.value = o.value /\ r.updated = o.updated
      /\ r.phase # "update"
  BY <1>1 DEF IsAsk, AskFields
<1> QED BY <1>2, <1>3, SameServer, ServedAsk

LEMMA ServeChoiceKeeps == ASSUME ChatInv, NEW i \in 1..Len(open), NEW ok \in BOOLEAN, ServeChoice(i, ok), UNCHANGED crossed PROVE ChatInv'
<1> PICK q : q = open
  OBVIOUS
<1> PICK p : p = open'
  OBVIOUS
<1> PICK o : o = q[i]
  OBVIOUS
<1> PICK s : s = [o EXCEPT !.phase = "sent", !.updated = ok]
  OBVIOUS
<1>11. PICK r : r = IF ok THEN s ELSE [s EXCEPT !.phase = "failed"]
  OBVIOUS
<1> PICK row : row = [server[o.chat] EXCEPT !.choice = o.value]
  OBVIOUS
<1>1. /\ IsAsk(o, made) /\ Asks(q, made) /\ i \in 1..Len(q) /\ made \subseteq made /\ o.kind = "send" /\ o.phase = "update"
      /\ UNCHANGED <<view, made, crossed>>
  BY AskIs DEF ServeChoice, ChatInv
<1>2. p = [q EXCEPT ![i] = r] /\ server' = [server EXCEPT ![o.chat] = row]
  BY <1>11 DEF ServeChoice, Answers
<1>3. /\ IsAsk(s, made) /\ s.kind = o.kind /\ s.chat = o.chat /\ s.at = o.at /\ s.value = o.value /\ s.updated = ok
      /\ s.phase = "sent"
  BY <1>1 DEF IsAsk, AskFields
<1>4. /\ IsAsk(r, made) /\ r.kind = "send" /\ r.chat = o.chat /\ r.at = o.at /\ r.value = o.value /\ r.phase # "update"
  BY <1>1, <1>3, <1>11 DEF IsAsk, AskFields
<1>5. Asks(p, made) /\ Changed(p, q, i, r)
  <2>1. Asks(q, made) /\ i \in 1..Len(q) /\ p = [q EXCEPT ![i] = r] /\ made \subseteq made /\ IsAsk(r, made)
    BY <1>1, <1>2, <1>4
  <2> QED BY <2>1, AskChanged
<1>6. Len(p) = Len(q) /\ p[i] = r /\ \A j \in 1..Len(q) : j # i => p[j] = q[j]
  BY <1>5 DEF Changed
<1>7. \A k \in 1..Len(q) : p[k].kind = q[k].kind /\ p[k].chat = q[k].chat /\ p[k].at = q[k].at
  <2>1. r.kind = q[i].kind /\ r.chat = q[i].chat /\ r.at = q[i].at
    BY <1>1, <1>4
  <2> QED BY <1>6, <2>1
<1>8. Unblocks(view, p)
  <2>1. \A k \in 1..Len(q) : \E j \in 1..Len(p) : p[j].kind = q[k].kind /\ p[j].chat = q[k].chat /\ p[j].at = q[k].at
    BY <1>6, <1>7
  <2>2. NoLess(q, p) /\ Unblocks(view, q)
    BY <2>1 DEF NoLess, ChatInv
  <2> QED BY <2>2, StillWaits
<1>9. /\ ServerIs(server') /\ o.chat \in Chats /\ server'[o.chat].choice = o.value
      /\ \A c \in Chats : c # o.chat => server'[c] = server[c]
  <2>1. ServerIs(server) /\ o.chat \in Chats
    BY <1>1 DEF ChatInv, IsAsk
  <2>2. DOMAIN row = {"choice", "context"} /\ row.choice = o.value
    BY <2>1 DEF ServerIs
  <2> QED BY <1>2, <2>1, <2>2 DEF ServerIs
<1>10. ASSUME ~crossed PROVE ChoicesAgree(view, p, server')
  <2>1. Lone(q) /\ Brought(q, server) /\ Agrees(view, q, server)
    BY <1>10 DEF ChatInv, ChoicesAgree
  <2>2. Lone(p)
    BY <1>6, <1>7, <2>1 DEF Lone
  <2>3. \A j \in 1..Len(q) : q[j].kind = "send" => q[j].chat \in Chats
    <3>1. \A j \in 1..Len(q) : IsAsk(q[j], made)
      BY <1>1 DEF Asks
    <3> QED BY <3>1 DEF ChatInv, IsAsk
  <2>4. \A j \in 1..Len(q) : j # i /\ q[j].kind = "send" => q[j].chat # o.chat
    BY <1>1, <2>1 DEF Lone
  <2>5. Brought(p, server')
    <3> SUFFICES ASSUME NEW j \in 1..Len(p), p[j].kind = "send", p[j].updated
                 PROVE  server'[p[j].chat].choice = p[j].value
      BY DEF Brought
    <3>1. CASE j = i
      BY <1>4, <1>6, <1>9, <3>1
    <3>2. CASE j # i
      <4>1. j \in 1..Len(q) /\ p[j] = q[j]
        BY <1>6, <3>2
      <4>2. q[j].chat \in Chats /\ q[j].chat # o.chat /\ server[q[j].chat].choice = q[j].value
        BY <2>1, <2>3, <2>4, <3>2, <4>1 DEF Brought
      <4> QED BY <1>9, <4>1, <4>2
    <3> QED BY <3>1, <3>2
  <2>6. ASSUME view.touched, ~view.dirty
        PROVE  /\ server'[view.selected].choice = view.choice
               /\ \A j \in 1..Len(p) : p[j].kind = "send" /\ p[j].chat = view.selected => p[j].phase # "update"
    <3>1. /\ server[view.selected].choice = view.choice
          /\ \A j \in 1..Len(q) : q[j].kind = "send" /\ q[j].chat = view.selected => q[j].phase # "update"
      BY <2>1, <2>6 DEF Agrees
    <3>2. view.selected # o.chat
      BY <1>1, <3>1
    <3>3. view.selected \in Chats
      BY <2>6 DEF ChatInv, ViewIs
    <3>4. server'[view.selected].choice = view.choice
      BY <1>9, <3>1, <3>2, <3>3
    <3>5. \A j \in 1..Len(p) : p[j].kind = "send" /\ p[j].chat = view.selected => p[j].phase # "update"
      <4> SUFFICES ASSUME NEW j \in 1..Len(p), p[j].kind = "send", p[j].chat = view.selected PROVE p[j].phase # "update"
        OBVIOUS
      <4>1. CASE j = i
        BY <1>4, <1>6, <4>1
      <4>2. CASE j # i
        BY <1>6, <3>1, <4>2
      <4> QED BY <4>1, <4>2
    <3> QED BY <3>4, <3>5
  <2> QED BY <2>2, <2>5, <2>6 DEF ChoicesAgree, Agrees
<1> QED BY <1>1, <1>5, <1>8, <1>9, <1>10 DEF ChatInv

LEMMA ServeCreateKeeps == ASSUME ChatInv, NEW i \in 1..Len(open), NEW ok \in BOOLEAN, ServeCreate(i, ok), UNCHANGED crossed PROVE ChatInv'
<1> PICK q : q = open
  OBVIOUS
<1> PICK p : p = open'
  OBVIOUS
<1> PICK o : o = q[i]
  OBVIOUS
<1>0. PICK chat \in Chats \ made :
        /\ made' = made \cup {chat} /\ server' = [server EXCEPT ![chat].choice = o.value]
        /\ Answers(i, ok, [o EXCEPT !.phase = "sent", !.chat = IF ok THEN chat ELSE Nowhere])
  BY DEF ServeCreate
<1> PICK new : new = IF ok THEN chat ELSE Nowhere
  OBVIOUS
<1> PICK s : s = [o EXCEPT !.phase = "sent", !.chat = new]
  OBVIOUS
<1>11. PICK r : r = IF ok THEN s ELSE [s EXCEPT !.phase = "failed"]
  OBVIOUS
<1> PICK row : row = [server[chat] EXCEPT !.choice = o.value]
  OBVIOUS
<1> PICK m : m = made'
  OBVIOUS
<1>1. /\ IsAsk(o, made) /\ Asks(q, made) /\ i \in 1..Len(q) /\ o.kind = "create" /\ UNCHANGED <<view, crossed>>
      /\ m = made \cup {chat} /\ made \subseteq m /\ m \subseteq Chats
  BY <1>0, AskIs DEF ServeCreate, ChatInv
<1>2. p = [q EXCEPT ![i] = r] /\ server' = [server EXCEPT ![chat] = row]
  BY <1>0, <1>11 DEF Answers
<1>3. IsAsk(s, m) /\ s.kind = "create"
  BY <1>1 DEF IsAsk, AskFields
<1>4. IsAsk(r, m) /\ r.kind = "create"
  BY <1>3, <1>11 DEF IsAsk, AskFields
<1>5. Asks(p, m) /\ Changed(p, q, i, r)
  <2>1. Asks(q, made) /\ i \in 1..Len(q) /\ p = [q EXCEPT ![i] = r] /\ made \subseteq m /\ IsAsk(r, m)
    BY <1>1, <1>2, <1>4
  <2> QED BY <2>1, AskChanged
<1>6. Len(p) = Len(q) /\ p[i] = r /\ \A j \in 1..Len(q) : j # i => p[j] = q[j]
  BY <1>5 DEF Changed
<1>7. Unblocks(view, p)
  <2>1. Unblocks(view, q)
    BY DEF ChatInv
  <2>2. \A k \in 1..Len(q) : p[k].kind = q[k].kind /\ (q[k].kind # "create" => p[k] = q[k])
    BY <1>1, <1>4, <1>6
  <2> QED BY <1>6, <2>1, <2>2 DEF Unblocks, OnItsWay, WaitsCreation, WaitsContext
<1>8. ServerIs(server') /\ \A c \in made : server'[c] = server[c]
  <2>1. ServerIs(server)
    BY DEF ChatInv
  <2>2. DOMAIN row = {"choice", "context"}
    BY <2>1 DEF ServerIs
  <2> QED BY <1>1, <1>2, <2>1, <2>2 DEF ServerIs
<1>9. ASSUME ~crossed PROVE ChoicesAgree(view, p, server')
  <2>1. Lone(q) /\ Brought(q, server) /\ Agrees(view, q, server)
    BY <1>9 DEF ChatInv, ChoicesAgree
  <2>2. \A k \in 1..Len(q) : p[k].kind = "send" => p[k] = q[k]
    BY <1>4, <1>6
  <2>3. Lone(p)
    BY <1>6, <2>1, <2>2 DEF Lone
  <2>4. \A j \in 1..Len(q) : q[j].kind = "send" => q[j].chat \in made
    <3>1. \A j \in 1..Len(q) : IsAsk(q[j], made)
      BY <1>1 DEF Asks
    <3> QED BY <3>1 DEF IsAsk
  <2>5. Brought(p, server')
    BY <1>6, <1>8, <2>1, <2>2, <2>4 DEF Brought
  <2>6. Agrees(view, p, server')
    <3>1. view.touched => view.selected \in made
      BY DEF ChatInv, ViewIs
    <3> QED BY <1>6, <1>8, <2>1, <2>2, <3>1 DEF Agrees
  <2> QED BY <2>3, <2>5, <2>6 DEF ChoicesAgree
<1>10. ViewIs(view, m)
  BY <1>1 DEF ChatInv, ViewIs
<1> QED BY <1>1, <1>5, <1>7, <1>8, <1>9, <1>10 DEF ChatInv

\* The answers the client takes.
LEMMA TakenSame ==
  ASSUME ChatInv, NEW i \in 1..Len(open), open' = Dropped(i), UNCHANGED <<server, made, crossed>>, SameFlags(view', view),
         NEW r, r = open[i], r.kind = "send" => r.chat # view.selected, r.kind # "cancel", r.kind # "create",
         view'.older => ~(r.kind = "older" /\ r.chat = view.selected),
         ~(r.kind = "context" /\ r.chat = view.selected /\ r.at = 1)
  PROVE  ChatInv'
<1> PICK v : v = view'
  OBVIOUS
<1>1. ViewIs(v, made)
  BY DEF ChatInv, ViewIs, SameFlags
<1>2. open' = RemoveAt(open, i)
  BY DEF Dropped
<1>3. /\ v.selected = view.selected /\ v.choice = view.choice /\ v.touched = view.touched /\ v.dirty = view.dirty
      /\ v.sending = view.sending /\ v.canceling = view.canceling /\ (v.older => view.older) /\ v.creating = view.creating
      /\ v.busy = view.busy /\ view.dirty \in BOOLEAN
  BY DEF SameFlags, ChatInv, ViewIs
<1> QED BY <1>1, <1>2, <1>3, TakenAsk

LEMMA TakePageKeeps == ASSUME ChatInv, NEW i \in 1..Len(open), TakePage(i), UNCHANGED <<server, made, crossed>> PROVE ChatInv'
<1> PICK r : r = open[i]
  OBVIOUS
<1>1. r.kind = "page" /\ open' = Dropped(i)
  BY DEF TakePage, Takes
<1>2. SameFlags(view', view)
  BY PageShown, ViewRests DEF TakePage
<1> QED BY <1>1, <1>2, TakenSame

LEMMA TakeOlderKeeps == ASSUME ChatInv, NEW i \in 1..Len(open), TakeOlder(i), UNCHANGED <<server, made, crossed>> PROVE ChatInv'
<1> PICK r : r = open[i]
  OBVIOUS
<1> PICK w : w = view
  OBVIOUS
<1> PICK v : v = view'
  OBVIOUS
<1>1. r.kind = "older" /\ open' = Dropped(i) /\ r.phase \in {"done", "failed"}
  BY DEF TakeOlder, Takes
<1>2. DOMAIN w = ViewFields /\ w.older \in BOOLEAN
  BY DEF ChatInv, ViewIs
<1>3. CASE r.phase = "failed"
  <2>1. v = [w EXCEPT !.older = FALSE]
    BY <1>1, <1>3 DEF TakeOlder
  <2>2. SameFlags(v, w) /\ v.older = FALSE
    BY <1>2, <2>1 DEF SameFlags, ViewFields
  <2> QED BY <1>1, <2>2, TakenSame
<1>4. CASE r.phase = "done" /\ w.selected = r.chat
  <2>1. ShowOlder(r)
    BY <1>4 DEF TakeOlder, OnScreen
  <2>2. \E cursor, rows : v = [w EXCEPT !.cursor = cursor, !.older = FALSE, !.rows = rows]
    BY <2>1, Zenon DEF ShowOlder
  <2>3. SameFlags(v, w) /\ v.older = FALSE
    BY <1>2, <2>2 DEF SameFlags, ViewFields
  <2> QED BY <1>1, <2>3, TakenSame
<1>5. CASE r.phase = "done" /\ w.selected # r.chat
  <2>1. UNCHANGED view
    BY <1>5 DEF TakeOlder, OnScreen
  <2> QED BY <1>1, <1>5, <2>1, ViewRests, TakenSame
<1> QED BY <1>1, <1>3, <1>4, <1>5

LEMMA TakeCancelKeeps == ASSUME ChatInv, NEW i \in 1..Len(open), TakeCancel(i), UNCHANGED <<server, made, crossed>> PROVE ChatInv'
<1> PICK r : r = open[i]
  OBVIOUS
<1> PICK w : w = view
  OBVIOUS
<1> PICK v : v = view'
  OBVIOUS
<1>1. r.kind = "cancel" /\ open' = RemoveAt(open, i) /\ v = [w EXCEPT !.canceling = FALSE] /\ ViewIs(w, made)
  BY DEF TakeCancel, Takes, Dropped, ChatInv
<1>2. /\ DOMAIN v = ViewFields /\ v.older = w.older /\ v.selected = w.selected /\ v.sending = w.sending /\ v.choice = w.choice
      /\ v.canceling = FALSE /\ v.creating = w.creating /\ v.busy = w.busy /\ v.dirty = w.dirty /\ v.touched = w.touched
  BY <1>1 DEF ViewIs, ViewFields
<1>3. ViewIs(v, made) /\ w.dirty \in BOOLEAN
  BY <1>1, <1>2 DEF ViewIs
<1>4. /\ v.sending => w.sending /\ ~(r.kind = "send" /\ r.chat = w.selected)
      /\ v.canceling => w.canceling /\ ~(r.kind = "cancel" /\ r.chat = w.selected)
      /\ v.older => w.older /\ ~(r.kind = "older" /\ r.chat = w.selected)
      /\ v.creating => w.creating /\ r.kind # "create"
      /\ v.busy => w.busy /\ ~(r.kind = "context" /\ r.chat = w.selected /\ r.at = 1)
      /\ v.dirty \/ ~w.dirty
  BY <1>1, <1>2, <1>3
<1>5. /\ v.sending => view.sending /\ ~(r.kind = "send" /\ r.chat = view.selected)
      /\ v.canceling => view.canceling /\ ~(r.kind = "cancel" /\ r.chat = view.selected)
      /\ v.older => view.older /\ ~(r.kind = "older" /\ r.chat = view.selected)
      /\ v.creating => view.creating /\ r.kind # "create"
      /\ v.busy => view.busy /\ ~(r.kind = "context" /\ r.chat = view.selected /\ r.at = 1)
      /\ v.dirty \/ ~view.dirty
  BY <1>4, Zenon
<1>6. v.selected = view.selected /\ v.choice = view.choice /\ v.touched = view.touched
  BY <1>2, Zenon
<1> QED BY <1>1, <1>3, <1>5, <1>6, TakenAsk, ZenonT(30)

LEMMA TakeContextKeeps == ASSUME ChatInv, NEW i \in 1..Len(open), TakeContext(i), UNCHANGED <<server, made, crossed>> PROVE ChatInv'
<1> PICK r : r = open[i]
  OBVIOUS
<1> PICK w : w = view
  OBVIOUS
<1> PICK v : v = view'
  OBVIOUS
<1>1. r.kind = "context" /\ open' = Dropped(i) /\ ViewIs(w, made)
  BY DEF TakeContext, Takes, ChatInv
<1>2. CASE w.selected = r.chat /\ r.at = 1
  <2>1. \E config : v = [w EXCEPT !.busy = FALSE, !.config = config]
    BY <1>2, Zenon DEF TakeContext, OnScreen
  <2>2. /\ DOMAIN v = ViewFields /\ v.older = w.older /\ v.selected = w.selected /\ v.sending = w.sending /\ v.choice = w.choice
        /\ v.canceling = w.canceling /\ v.creating = w.creating /\ v.busy = FALSE /\ v.dirty = w.dirty /\ v.touched = w.touched
    BY <1>1, <2>1 DEF ViewIs, ViewFields
  <2>3. ViewIs(v, made) /\ w.dirty \in BOOLEAN /\ open' = RemoveAt(open, i)
    BY <1>1, <2>2 DEF ViewIs, Dropped
  <2> QED BY <1>1, <2>2, <2>3, TakenAsk
<1>3. CASE ~(w.selected = r.chat /\ r.at = 1)
  <2>1. UNCHANGED view
    BY <1>3 DEF TakeContext, OnScreen
  <2> QED BY <1>1, <1>3, <2>1, ViewRests, TakenSame
<1> QED BY <1>2, <1>3

LEMMA TakeSentKeeps == ASSUME ChatInv, NEW i \in 1..Len(open), TakeSent(i), UNCHANGED <<server, made, crossed>> PROVE ChatInv'
<1> PICK r : r = open[i]
  OBVIOUS
<1> PICK w : w = view
  OBVIOUS
<1> PICK v : v = view'
  OBVIOUS
<1>1. r.kind = "send" /\ open' = Dropped(i) /\ ViewIs(w, made) /\ r.phase \in {"done", "failed"} /\ IsAsk(r, made)
  BY AskIs DEF TakeSent, Takes, ChatInv
<1>2. CASE w.selected # r.chat
  <2>1. UNCHANGED view
    BY <1>2 DEF TakeSent, OnScreen
  <2> QED BY <1>1, <1>2, <2>1, ViewRests, TakenSame
<1>3. CASE w.selected = r.chat
  <2>1. PICK dirty \in BOOLEAN : dirty <=> (w.dirty /\ ~(r.updated /\ r.value = w.choice))
    OBVIOUS
  <2>2. dirty = (w.dirty /\ ~(r.updated /\ r.value = w.choice))
    BY <1>1, <2>1 DEF ViewIs
  <2>3. \/ v = [w EXCEPT !.sending = FALSE, !.dirty = dirty]
        \/ \E typed, rows, waiting :
             v = [w EXCEPT !.sending = FALSE, !.dirty = dirty, !.typed = typed, !.rows = rows, !.waiting = waiting]
    <3> PICK typed : typed = r.text
      OBVIOUS
    <3> PICK rows : rows = Rollback(typed).rows
      OBVIOUS
    <3> PICK waiting : waiting = Rollback(typed).waiting
      OBVIOUS
    <3>1. OnScreen(i)
      BY <1>3 DEF OnScreen
    <3>2. CASE r.phase = "done"
      BY <2>2, <3>1, <3>2 DEF TakeSent
    <3>3. CASE r.phase # "done"
      <4>1. ~(~OnScreen(i)) /\ ~(OnScreen(i) /\ open[i].phase = "done")
        BY <3>1, <3>3
      <4>2. view' = [view EXCEPT !.sending = FALSE, !.dirty = view.dirty /\ ~(open[i].updated /\ open[i].value = view.choice),
                                 !.typed = open[i].text, !.rows = Rollback(open[i].text).rows,
                                 !.waiting = Rollback(open[i].text).waiting]
        BY <4>1, Zenon DEF TakeSent
      <4> QED BY <2>2, <4>2
    <3> QED BY <3>2, <3>3
  <2>4. /\ DOMAIN v = ViewFields /\ v.older = w.older /\ v.selected = w.selected /\ v.sending = FALSE /\ v.choice = w.choice
        /\ v.canceling = w.canceling /\ v.creating = w.creating /\ v.busy = w.busy /\ v.dirty = dirty /\ v.touched = w.touched
    BY <1>1, <2>3 DEF ViewIs, ViewFields
  <2>5. ViewIs(v, made) /\ open' = RemoveAt(open, i)
    BY <1>1, <2>4 DEF ViewIs, Dropped
  <2>6. v.dirty \/ ~view.dirty \/ (r.kind = "send" /\ r.chat = view.selected /\ r.updated /\ r.value = view.choice)
    BY <1>1, <1>3, <2>1, <2>4
  <2> QED BY <1>1, <2>4, <2>5, <2>6, TakenAsk
<1> QED BY <1>2, <1>3

\* Going from conversation to conversation.
LEMMA SelectKeeps == ASSUME ChatInv, NEW chat, Select(chat) PROVE ChatInv'
<1> PICK q : q = open
  OBVIOUS
<1> PICK w : w = view
  OBVIOUS
<1>1. chat \in made /\ OpenChat(chat, q, w) /\ UNCHANGED <<made, server, crossed>>
  BY DEF Select
<1>2. /\ Asks(q, made) /\ (~crossed => Lone(q) /\ Brought(q, server)) /\ made \subseteq Chats /\ crossed \in BOOLEAN
      /\ ServerIs(server) /\ DOMAIN view = ViewFields /\ w.creating \in BOOLEAN /\ (w.creating => WaitsCreation(q))
  BY DEF ChatInv, ChoicesAgree, ViewIs, Unblocks
<1> QED BY <1>1, <1>2, ConversationOpens

LEMMA DeselectKeeps == ASSUME ChatInv, Deselect PROVE ChatInv'
<1> PICK q : q = open
  OBVIOUS
<1> PICK p : p = Outdate(q)
  OBVIOUS
<1> PICK w : w = view
  OBVIOUS
<1> PICK v : v = view'
  OBVIOUS
<1> PICK fresh : fresh = FreshView(Nowhere)
  OBVIOUS
<1>1. /\ v = [x \in DOMAIN w |-> IF x \in {"creating", "choice", "typed", "listed"} THEN w[x] ELSE fresh[x]]
      /\ p = open' /\ UNCHANGED <<made, server, crossed>>
  BY DEF Deselect
<1>2. /\ Asks(q, made) /\ (~crossed => Lone(q) /\ Brought(q, server)) /\ made \subseteq Chats /\ crossed \in BOOLEAN
      /\ ServerIs(server) /\ DOMAIN w = ViewFields /\ w.creating \in BOOLEAN /\ (w.creating => WaitsCreation(q))
  BY DEF ChatInv, ChoicesAgree, ViewIs, Unblocks
<1>3. /\ fresh.selected = Nowhere /\ fresh.older = FALSE /\ fresh.sending = FALSE
      /\ fresh.canceling = FALSE /\ fresh.busy = FALSE /\ fresh.dirty = FALSE /\ fresh.touched = FALSE
  BY FreshIs
<1>4. /\ DOMAIN v = ViewFields /\ v.selected = Nowhere /\ v.older = FALSE /\ v.sending = FALSE /\ v.creating = w.creating
      /\ v.canceling = FALSE /\ v.busy = FALSE /\ v.dirty = FALSE /\ v.touched = FALSE
  BY <1>1, <1>2, <1>3 DEF ViewFields
<1>5. ViewIs(v, made)
  BY <1>2, <1>4 DEF ViewIs
<1>6. /\ Asks(p, made) /\ Len(p) = Len(q)
      /\ \A i \in 1..Len(q) : /\ p[i].kind = q[i].kind /\ p[i].chat = q[i].chat
                              /\ p[i].value = q[i].value /\ p[i].updated = q[i].updated
  BY <1>2, OutdateIs
<1>7. ~crossed => Lone(p) /\ Brought(p, server)
  BY <1>2, <1>6 DEF Lone, Brought
<1>8. v.creating => WaitsCreation(p)
  BY <1>2, <1>4, <1>6 DEF WaitsCreation
<1> QED BY <1>1, <1>2, <1>4, <1>5, <1>6, <1>7, <1>8, ViewAnew

LEMMA TakeCreatedKeeps == ASSUME ChatInv, NEW i \in 1..Len(open), TakeCreated(i), UNCHANGED <<server, made, crossed>> PROVE ChatInv'
<1> PICK r : r = open[i]
  OBVIOUS
<1> PICK w : w = view
  OBVIOUS
<1> PICK v : v = view'
  OBVIOUS
<1> PICK typed : typed = IF r.phase = "failed" THEN r.text ELSE w.typed
  OBVIOUS
<1> PICK kept : kept = [w EXCEPT !.creating = FALSE, !.typed = typed]
  OBVIOUS
<1>1. r.kind = "create" /\ ViewIs(w, made) /\ IsAsk(r, made)
  BY AskIs DEF TakeCreated, Takes, ChatInv
<1>2. /\ DOMAIN kept = ViewFields /\ kept.older = w.older /\ kept.selected = w.selected /\ kept.sending = w.sending
      /\ kept.choice = w.choice /\ kept.canceling = w.canceling /\ kept.creating = FALSE /\ kept.busy = w.busy
      /\ kept.dirty = w.dirty /\ kept.touched = w.touched
  BY <1>1 DEF ViewIs, ViewFields
<1>3. CASE r.chat \in {Nowhere, w.selected}
  <2>1. v = kept /\ open' = RemoveAt(open, i)
    BY <1>3 DEF TakeCreated, Dropped
  <2>2. ViewIs(v, made) /\ w.dirty \in BOOLEAN
    BY <1>1, <1>2, <2>1 DEF ViewIs
  <2>3. /\ v.older = w.older /\ v.selected = w.selected /\ v.sending = w.sending /\ v.choice = w.choice
        /\ v.canceling = w.canceling /\ v.creating = FALSE /\ v.busy = w.busy /\ v.dirty = w.dirty /\ v.touched = w.touched
    BY <1>2, <2>1
  <2>4. r.kind = "create" /\ open' = RemoveAt(open, i)
    BY <1>1, <2>1
  <2> QED BY <2>2, <2>3, <2>4, TakenAsk
<1>4. CASE r.chat \notin {Nowhere, w.selected}
  <2> PICK q : q = open
    OBVIOUS
  <2> PICK p : p = RemoveAt(q, i)
    OBVIOUS
  <2> PICK chat : chat = r.chat
    OBVIOUS
  <2>1. chat \in made /\ OpenChat(chat, p, kept) /\ UNCHANGED <<made, server, crossed>>
    BY <1>1, <1>4 DEF TakeCreated, Dropped, IsAsk
  <2>2. /\ Asks(q, made) /\ (~crossed => Lone(q) /\ Brought(q, server)) /\ made \subseteq Chats /\ crossed \in BOOLEAN
        /\ ServerIs(server) /\ DOMAIN view = ViewFields
    BY DEF ChatInv, ChoicesAgree, ViewIs
  <2>3. Asks(p, made) /\ Without(p, q, i) /\ (Lone(q) => Lone(p))
    BY <2>2, AskRemoved
  <2>4. ~crossed => Lone(p) /\ Brought(p, server)
    BY <2>2, <2>3 DEF Without, Brought
  <2> QED BY <1>2, <2>1, <2>2, <2>3, <2>4, ConversationOpens
<1> QED BY <1>3, <1>4

LEMMA OpenLength == ASSUME ChatInv PROVE Len(open) \in Nat
  BY DEF ChatInv, Asks

LEMMA ChatKept == ChatInv /\ [ChatNext]_chatVars => ChatInv'
<1> SUFFICES ASSUME ChatInv, [ChatNext]_chatVars PROVE ChatInv'
  OBVIOUS
<1>1. CASE UserActs
  BY <1>1, SelectKeeps, DeselectKeeps, LoadOlderKeeps, CancelKeeps, ComposerKeeps, CreateKeeps, ChosenKeeps, ChooseContextKeeps DEF UserActs
<1>2. CASE Served
  <2>1. UNCHANGED crossed
    BY <1>2 DEF Served
  <2>2. PICK i \in 1..MaxOpen :
          /\ i <= Len(open)
          /\ \/ RequestLost(i)
             \/ \E ok \in BOOLEAN : ServePage(i, ok) \/ ServeChoice(i, ok) \/ ServeMessage(i, ok)
                                    \/ ServeCreate(i, ok) \/ ServeContext(i, ok) \/ ServeCancel(i, ok)
    BY <1>2 DEF Served
  <2>3. i \in 1..Len(open)
    BY <2>2, ChatAssumption, OpenLength
  <2> QED BY <2>1, <2>2, <2>3, LostKeeps, ServePageKeeps, ServeChoiceKeeps, ServeMessageKeeps, ServeCreateKeeps,
             ServeContextKeeps, ServeCancelKeeps
<1>3. CASE Taken
  <2>1. UNCHANGED <<server, made, crossed>>
    BY <1>3 DEF Taken
  <2>2. PICK i \in 1..MaxOpen :
          /\ i <= Len(open)
          /\ \/ TakePage(i) \/ TakeOlder(i) \/ TakeSent(i)
             \/ TakeCancel(i) \/ TakeContext(i) \/ TakeCreated(i)
    BY <1>3 DEF Taken
  <2>3. i \in 1..Len(open)
    BY <2>2, ChatAssumption, OpenLength
  <2> QED BY <2>1, <2>2, <2>3, TakePageKeeps, TakeOlderKeeps, TakeSentKeeps, TakeCancelKeeps, TakeContextKeeps, TakeCreatedKeeps
<1>4. CASE UNCHANGED chatVars
  <2>1. UNCHANGED <<open, server, made, crossed, view>>
    BY <1>4 DEF chatVars
  <2> QED BY <2>1, ViewRests, ViewLess
<1> QED BY <1>1, <1>2, <1>3, <1>4, PollKeeps, ReplyKeeps, StreamKeeps DEF ChatNext

\* An operation of the client is blocked only while a request that will unblock it is on
\* its way; and a choice of the model that is no longer marked as changed is the gateway's,
\* unless two messages of one conversation crossed (the handlers of the client's events).
THEOREM ButtonsComeBack == ChatSpec => [](FlagsHonest /\ ChoiceKept)
<1>1. ChatInv => FlagsHonest /\ ChoiceKept
  <2> SUFFICES ASSUME ChatInv PROVE FlagsHonest /\ ChoiceKept
    OBVIOUS
  <2>1. FlagsHonest
    BY DEF ChatInv, Unblocks, OnItsWay, WaitsCreation, WaitsContext, FlagsHonest, InFlight
  <2>2. ChoiceKept
    BY DEF ChatInv, ChoicesAgree, Agrees, ChoiceKept
  <2> QED BY <2>1, <2>2
<1> QED BY <1>1, ChatStarts, ChatKept, PTL DEF ChatSpec
=============================================================================
