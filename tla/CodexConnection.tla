-------------------------- MODULE CodexConnection --------------------------
(***************************************************************************)
(* The Codex provider's websocket of one session: a connection that stays  *)
(* open between requests, the continuation that lets the next request send *)
(* only what the provider has not seen, and the read loop that takes the   *)
(* events of the socket for the answer to the request that is waiting.     *)
(* The runner makes one request at a time and may abort it at any point.   *)
(*                                                                         *)
(* The provider is external: it serves the requests of a connection in     *)
(* turn and remembers, while the connection lives, the conversation behind *)
(* each response id.  An independent request has a connection of its own,  *)
(* sends its input in full and is not modelled.                            *)
(***************************************************************************)
EXTENDS Integers, Sequences, SequencesExt

CONSTANTS Profiles,          \* what a connection is made for: endpoint, model, secret
          Efforts,           \* request properties that leave the connection as it is
          MaxAsked,          \* requests ever made
          MaxProviderFaults  \* failures, repeated events and closed sockets

ASSUME CodexAssumption == MaxAsked \in Nat /\ MaxProviderFaults \in Nat

OutputSize == 2   \* items in the output of a response

VARIABLES
  transcript,      \* the items of the current generation
  asked,           \* the request the runner waits for
  link,            \* the session's cached connection
  frames,          \* events read from the socket that no request has taken
  serving,         \* requests the provider has not finished, the first in progress
  contexts,        \* the conversation the provider knows behind a response id
  providerFaults,  \* faults so far
  tainted,         \* a request was aborted after it was sent on this connection
  answers          \* every answer: the request, whose answer it was, tainted

codexVars == <<transcript, asked, link, frames, serving, contexts, providerFaults,
               tainted, answers>>

NoContinuation == [id |-> 0, effort |-> "", input |-> <<>>, items |-> <<>>]
NoLink == [socket |-> "none", profile |-> "", kept |-> NoContinuation]
NoAsk == [pc |-> "rest", id |-> 0, profile |-> "", effort |-> "", input |-> <<>>, got |-> <<>>]

Input(n) == [kind |-> "input", of |-> n, n |-> 0, profile |-> ""]
Document(n) == [kind |-> "document", of |-> n, n |-> 0, profile |-> ""]
Output(n, profile) ==
  [i \in 1..OutputSize |-> [kind |-> "output", of |-> n, n |-> i, profile |-> profile]]

(* An assistant message goes back as the items the provider produced only  *)
(* to the profile and model that produced them, else it is rebuilt.        *)
Rendered(profile) ==
  [i \in DOMAIN transcript |->
     IF transcript[i].kind = "output" /\ transcript[i].profile # profile
     THEN [transcript[i] EXCEPT !.kind = "rebuilt"] ELSE transcript[i]]

CodexInit ==
  /\ transcript = <<>> /\ asked = NoAsk /\ link = NoLink
  /\ frames = <<>> /\ serving = <<>> /\ contexts = [id \in 1..MaxAsked |-> <<>>]
  /\ providerFaults = 0 /\ tainted = FALSE /\ answers = {}
-----------------------------------------------------------------------------
(* Dropping the socket ends its pump, and with it the provider's side. *)
Reset ==
  /\ link' = NoLink /\ frames' = <<>> /\ serving' = <<>>
  /\ contexts' = [id \in 1..MaxAsked |-> <<>>] /\ tainted' = FALSE

\* Mutant: a failed request keeps the connection for the retry.
FailedKeeping ==
  /\ asked' = [NoAsk EXCEPT !.id = asked.id]
  /\ UNCHANGED <<link, frames, serving, contexts, tainted>>

(* A failed request leaves nothing behind. *)
Failed == Reset /\ asked' = [NoAsk EXCEPT !.id = asked.id]

(* The runner begins a step: new input or a result in the transcript, or   *)
(* the same transcript again after a failure.  Another identity drops the  *)
(* connection.                                                             *)
Begin(profile, effort, told) ==
  /\ asked.pc = "rest" /\ asked.id < MaxAsked
  /\ told \/ transcript # <<>>
  /\ transcript' = IF told THEN Append(transcript, Input(asked.id + 1)) ELSE transcript
  /\ asked' = [NoAsk EXCEPT !.pc = "lock", !.id = asked.id + 1, !.profile = profile,
                            !.effort = effort]
  /\ IF link.profile # profile THEN Reset ELSE UNCHANGED <<link, frames, serving, contexts, tainted>>
  /\ UNCHANGED <<providerFaults, answers>>

Connect ==
  /\ asked.pc = "lock" /\ link.socket = "none"
  /\ link' = [NoLink EXCEPT !.socket = "open", !.profile = asked.profile]
  /\ UNCHANGED <<transcript, asked, frames, serving, contexts, providerFaults, tainted, answers>>

ConnectFails ==
  /\ asked.pc = "lock" /\ link.socket = "none" /\ providerFaults < MaxProviderFaults
  /\ providerFaults' = providerFaults + 1 /\ Failed
  /\ UNCHANGED <<transcript, answers>>

(* The continuation fits when the properties are equal and what it stands  *)
(* for, its request and the answer, is how the input begins.               *)
Fits(kept, input) ==
  kept.id # 0 /\ kept.effort = asked.effort /\ IsPrefix(kept.input \o kept.items, input)

(* The request goes out in full, or as what follows the continuation.  The *)
(* provider puts it after what it knows behind the id.                     *)
Send ==
  /\ asked.pc = "lock" /\ link.socket = "open"
  /\ LET input == Rendered(asked.profile)
         delta == SubSeq(input, Len(link.kept.input \o link.kept.items) + 1, Len(input))
         seen == IF Fits(link.kept, input) THEN contexts[link.kept.id] \o delta ELSE input
     IN /\ asked' = [asked EXCEPT !.pc = "read", !.input = input]
        /\ serving' = Append(serving, [id |-> asked.id, profile |-> asked.profile, seen |-> seen,
                                       logical |-> input, sent |-> 0, tainted |-> tainted])
  /\ UNCHANGED <<transcript, link, frames, contexts, providerFaults, tainted, answers>>

(* The pump has ended: the provider closed the socket after the last       *)
(* request.                                                                *)
SendFails ==
  /\ asked.pc = "lock" /\ link.socket = "closed" /\ Failed
  /\ UNCHANGED <<transcript, providerFaults, answers>>
-----------------------------------------------------------------------------
Frame(type, request, n) == [type |-> type, of |-> request.id, n |-> n, profile |-> request.profile]

(* Each finished output item is an event, in order. *)
ServeItem ==
  /\ serving # <<>> /\ Head(serving).sent < OutputSize
  /\ LET request == Head(serving)
     IN /\ serving' = [serving EXCEPT ![1].sent = @ + 1]
        /\ frames' = Append(frames, Frame("item", request, request.sent + 1))
  /\ UNCHANGED <<transcript, asked, link, contexts, providerFaults, tainted, answers>>

ServeCompleted ==
  /\ serving # <<>> /\ Head(serving).sent = OutputSize
  /\ LET request == Head(serving)
     IN /\ serving' = Tail(serving)
        /\ contexts' = [contexts EXCEPT ![request.id] = request.seen \o Output(request.id, request.profile)]
        /\ frames' = Append(frames, Frame("completed", request, 0))
  /\ UNCHANGED <<transcript, asked, link, providerFaults, tainted, answers>>

ServeFailed ==
  /\ serving # <<>> /\ providerFaults < MaxProviderFaults
  /\ serving' = Tail(serving) /\ frames' = Append(frames, Frame("failed", Head(serving), 0))
  /\ providerFaults' = providerFaults + 1
  /\ UNCHANGED <<transcript, asked, link, contexts, tainted, answers>>

(* An item's event comes twice. *)
ServeAgain ==
  /\ serving # <<>> /\ Head(serving).sent > 0 /\ providerFaults < MaxProviderFaults
  /\ frames' = Append(frames, Frame("item", Head(serving), Head(serving).sent))
  /\ providerFaults' = providerFaults + 1
  /\ UNCHANGED <<transcript, asked, link, serving, contexts, tainted, answers>>

(* The close is the last the pump passes on. *)
Close ==
  /\ link.socket = "open" /\ providerFaults < MaxProviderFaults
  /\ link' = [link EXCEPT !.socket = "closed"] /\ serving' = <<>>
  /\ frames' = Append(frames, Frame("closed", [id |-> 0, profile |-> link.profile], 0))
  /\ providerFaults' = providerFaults + 1
  /\ UNCHANGED <<transcript, asked, contexts, tainted, answers>>
-----------------------------------------------------------------------------
Event(type) == asked.pc = "read" /\ frames # <<>> /\ Head(frames).type = type

(* An item is kept at its index; an index that comes twice ends the        *)
(* request.                                                                *)
ReadItem ==
  /\ Event("item") /\ Head(frames).n \notin DOMAIN asked.got
  /\ asked' = [asked EXCEPT !.got = [n \in DOMAIN @ \cup {Head(frames).n} |->
                                       IF n \in DOMAIN @ THEN @[n] ELSE Head(frames)]]
  /\ frames' = Tail(frames)
  /\ UNCHANGED <<transcript, link, serving, contexts, providerFaults, tainted, answers>>

(* An item twice, an index missing when the response is complete, the      *)
(* provider's own failure, or the end of the socket.                       *)
ReadFails ==
  /\ asked.pc = "read" /\ frames # <<>>
  /\ \/ Event("item") /\ Head(frames).n \in DOMAIN asked.got
     \/ Event("completed") /\ \E n \in DOMAIN asked.got : \E k \in 1..n : k \notin DOMAIN asked.got
     \/ Event("failed")
     \/ Event("closed")
  /\ Failed
  /\ UNCHANGED <<transcript, providerFaults, answers>>

(* No frame for the idle window. *)
IdleTimeout ==
  /\ asked.pc = "read" /\ frames = <<>> /\ providerFaults < MaxProviderFaults
  /\ providerFaults' = providerFaults + 1 /\ Failed
  /\ UNCHANGED <<transcript, answers>>

(* The response is complete: its items, or the output in the event when no *)
(* item came before it, are the answer, and the continuation of the next   *)
(* request.                                                                *)
ReadCompleted ==
  /\ Event("completed")
  /\ \A n \in DOMAIN asked.got : \A k \in 1..n : k \in DOMAIN asked.got
  /\ LET event == Head(frames)
         items == IF asked.got = <<>> THEN Output(event.of, event.profile)
                  ELSE [n \in DOMAIN asked.got |->
                          Output(asked.got[n].of, asked.got[n].profile)[n]]
     IN /\ link' = [link EXCEPT !.kept = [id |-> event.of, effort |-> asked.effort,
                                          input |-> asked.input, items |-> items]]
        /\ transcript' = transcript \o items
        /\ answers' = answers \cup {[asked |-> asked.id, of |-> event.of, tainted |-> tainted]}
  /\ asked' = [NoAsk EXCEPT !.id = asked.id] /\ frames' = Tail(frames)
  /\ UNCHANGED <<serving, contexts, providerFaults, tainted>>

(* The turn is cancelled, the circuit opens or the runner stops: the task  *)
(* is aborted where it waits, and the connection is as it was.             *)
Abort ==
  /\ asked.pc # "rest"
  /\ asked' = [NoAsk EXCEPT !.id = asked.id] /\ tainted' = (tainted \/ asked.pc = "read")
  /\ UNCHANGED <<transcript, link, frames, serving, contexts, providerFaults, answers>>

(* A new generation begins with its document and releases the connection. *)
NewGeneration ==
  /\ asked.pc = "rest" /\ transcript # <<>> /\ asked.id < MaxAsked
  /\ transcript' = <<Document(asked.id)>> /\ Reset
  /\ UNCHANGED <<asked, providerFaults, answers>>

(* The profile no longer streams: the request is refused and the           *)
(* connection released.                                                    *)
Refused ==
  /\ asked.pc = "rest" /\ asked.id < MaxAsked /\ providerFaults < MaxProviderFaults
  /\ asked' = [asked EXCEPT !.id = @ + 1] /\ providerFaults' = providerFaults + 1 /\ Reset
  /\ UNCHANGED <<transcript, answers>>

CodexNext ==
  \/ \E profile \in Profiles, effort \in Efforts, told \in BOOLEAN : Begin(profile, effort, told)
  \/ Connect \/ ConnectFails \/ Send \/ SendFails
  \/ ServeItem \/ ServeCompleted \/ ServeFailed \/ ServeAgain \/ Close
  \/ ReadItem \/ ReadFails \/ IdleTimeout \/ ReadCompleted
  \/ Abort \/ NewGeneration \/ Refused

CodexSpec == CodexInit /\ [][CodexNext]_codexVars
-----------------------------------------------------------------------------
(* What reaches the provider, put after what it remembers, is the whole    *)
(* logical input of the request, and an answer is the answer to the        *)
(* request that waits for it; except on a connection on which a request    *)
(* was aborted after it was sent, which nothing resets.                    *)
CodexExact ==
  /\ \A i \in DOMAIN serving : serving[i].tainted \/ serving[i].seen = serving[i].logical
  /\ \A a \in answers : a.tainted \/ a.of = a.asked

(* An answer is the answer to the request that waits for it. *)
AnswerOwn == \A a \in answers : a.of = a.asked
=============================================================================
