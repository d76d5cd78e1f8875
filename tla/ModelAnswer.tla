---------------------------- MODULE ModelAnswer ----------------------------
(***************************************************************************)
(* The answer of a model provider, other than Codex, to one request: the   *)
(* events of a stream that may interleave the items of the answer and may  *)
(* stop anywhere, what is gathered from them, and whether it is taken for  *)
(* an answer or for which kind of failure, which decides how the session   *)
(* goes on.                                                                *)
(*                                                                         *)
(* The provider and the library that reads its events are external: a      *)
(* provider sends the texts of an answer one after the other and mixes     *)
(* calls freely.  Of a stream that just stops, the library makes the calls *)
(* it has so far and a finish with no reason given, as it does for         *)
(* "completions", or nothing.  Reasoning items do not reach the answer.    *)
(***************************************************************************)
EXTENDS Integers, Sequences, SequencesExt, FiniteSets

CONSTANTS Apis,       \* "responses", "completions" and "messages", the protocols
          Items,      \* of an answer: "text", or a call whose arguments are an "object", "scalar" or "broken"
          MaxItems,   \* of one answer
          Parts       \* that each item is sent in

ASSUME AnswerAssumption ==
  /\ Apis \subseteq {"responses", "completions", "messages"}
  /\ Items \subseteq {"text", "object", "scalar", "broken"}
  /\ MaxItems \in Nat /\ Parts \in Nat \ {0}

VARIABLES
  wanted,   \* the request: its protocol, whether streaming, where it stands
  script,   \* the items of the provider's answer
  sent,     \* parts sent of every item, those completed, how the answer ended
  taken,    \* what the events sent so far have come to (ModelOutcomeAccumulator)
  outcome   \* what the session is given

answerVars == <<wanted, script, sent, taken, outcome>>

Whole == [k \in 1..Parts |-> k]
IsCall(i) == script[i] # "text"
Fitting == IF \E i \in DOMAIN script : IsCall(i) THEN "tool_calls" ELSE "stop"
Reasons == {"stop", "tool_calls", "length", "filter", "other"}

(* A call: whose item it is and the parts of its arguments. *)
PendingToolCall(i, input) == [id |-> i, input |-> input]
NothingTaken ==
  [text |-> <<>>, calls |-> <<>>, slots |-> <<>>, spoilt |-> FALSE, terminal |-> FALSE,
   finish |-> "none", explicit |-> FALSE, usage |-> FALSE]
NoOutcome == [as |-> "none", text |-> <<>>, calls |-> <<>>, items |-> <<>>, usage |-> FALSE]
Failure(kind, t) == [NoOutcome EXCEPT !.as = kind, !.usage = t.usage]

AnswerInit ==
  /\ wanted \in [api : Apis, streaming : BOOLEAN, pc : {"new"}]
  /\ script \in UNION {[1..n -> Items] : n \in 0..MaxItems}
  /\ sent = [parts |-> [i \in DOMAIN script |-> 0], done |-> {}, ended |-> "no", faulty |-> FALSE]
  /\ taken = NothingTaken /\ outcome = NoOutcome
-----------------------------------------------------------------------------
(* What an answer comes to. *)

(* What the provider says of an error, and which failure that is: only     *)
(* what certainly cannot succeed is not tried again.                       *)
Causes == {"server", "limit", "auth", "overflow"}
Permanent(cause) == cause = "auth"
Classified(cause) ==
  CASE cause = "overflow" -> "overflow" [] Permanent(cause) -> "permanent" [] OTHER -> "transient"

Arguments(c) == IF c.input = Whole THEN script[c.id] ELSE "broken"
Complete(t, items) ==
  CASE t.finish = "stop" /\ t.calls = <<>>
         -> [as |-> "answer", text |-> t.text, calls |-> <<>>, items |-> items, usage |-> t.usage]
    [] t.finish = "tool_calls" /\ t.calls # <<>>
         -> IF \E j \in DOMAIN t.calls : Arguments(t.calls[j]) # "object" THEN Failure("document", t)
            ELSE [as |-> "answer", text |-> t.text, calls |-> t.calls, items |-> items, usage |-> t.usage]
    [] t.finish \in {"length", "filter"} -> Failure("document", t)
    [] OTHER -> Failure("transient", t)

(* A stream that came to its end.  The raw items of a Responses answer     *)
(* are kept, by their index and not by their arrival.                      *)
Ordered(t) == ~t.spoilt /\ 0 \notin ToSet(t.slots)
\* Mutant: the finish the library adds is taken for the provider's.
FinishedLoosely(t) == t.finish # "none"
Finished(t) ==
  /\ t.finish # "none"
  /\ wanted.api = "responses" => t.terminal /\ Ordered(t)
  /\ wanted.api = "completions" => t.explicit
StreamOutcome(t) ==
  IF Finished(t) THEN Complete(t, IF wanted.api = "responses" THEN t.slots ELSE <<>>)
  ELSE Failure("transient", t)
-----------------------------------------------------------------------------
(* The request. *)
Conclude(o) == outcome' = o /\ wanted' = [wanted EXCEPT !.pc = "done"]
Streaming == wanted.pc = "open" /\ wanted.streaming /\ sent.ended = "no"

(* The profile is looked up, its limits and what was selected are compared *)
(* with the request.                                                       *)
NotSent ==
  /\ wanted.pc = "new"
  /\ \E kind \in {"permanent", "transient"} : Conclude(Failure(kind, NothingTaken))
  /\ UNCHANGED <<script, sent, taken>>

Sends ==
  /\ wanted.pc = "new"
  /\ wanted' = [wanted EXCEPT !.pc = "open"]
  /\ UNCHANGED <<script, sent, taken, outcome>>

(* Before the answer begins, or as an event of its own within it. *)
ErrorReported(cause) ==
  /\ wanted.pc = "open" /\ sent.ended = "no"
  /\ sent' = [sent EXCEPT !.ended = cause]
  /\ Conclude(Failure(Classified(cause), taken))
  /\ UNCHANGED <<script, taken>>

(* The connection breaks; whether inside an answer without a stream or     *)
(* not, nothing of it is used.                                             *)
Breaks ==
  /\ wanted.pc = "open"
  /\ sent' = [sent EXCEPT !.ended = "broken"]
  /\ Conclude(Failure("transient", taken))
  /\ UNCHANGED <<script, taken>>
-----------------------------------------------------------------------------
(* The events of a stream. *)
CallOf(t, i) == {j \in DOMAIN t.calls : t.calls[j].id = i}
SetInput(t, i, input) == [t EXCEPT !.calls = [j \in DOMAIN @ |-> IF @[j].id = i THEN PendingToolCall(i, input) ELSE @[j]]]

Begun(i) == IF IsCall(i) THEN CallOf(taken, i) # {} ELSE sent.parts[i] > 0
Turn(i) ==
  /\ i > 1 => Begun(i - 1) \/ i - 1 \in sent.done
  /\ ~IsCall(i) => \A j \in 1..i - 1 : IsCall(j) \/ j \in sent.done

(* ToolInputStart. *)
CallBegins(i) ==
  /\ Streaming /\ IsCall(i) /\ ~Begun(i) /\ Turn(i) /\ i \notin sent.done
  /\ taken' = [taken EXCEPT !.calls = Append(@, PendingToolCall(i, <<>>))]
  /\ UNCHANGED <<wanted, script, sent, outcome>>

(* TextDelta and ToolInputDelta. *)
Delta(i) ==
  LET k == sent.parts[i] + 1 IN
  /\ Streaming /\ k <= Parts /\ Turn(i) /\ i \notin sent.done
  /\ IsCall(i) => Begun(i)
  /\ sent' = [sent EXCEPT !.parts[i] = k]
  /\ taken' = IF IsCall(i) THEN SetInput(taken, i, Append(taken.calls[CHOOSE j \in CallOf(taken, i) : TRUE].input, k))
              ELSE [taken EXCEPT !.text = Append(@, <<i, k>>)]
  /\ UNCHANGED <<wanted, script, outcome>>

(* A part, or the end, of a call that never began. *)
Stray(i) ==
  /\ Streaming /\ IsCall(i) /\ ~Begun(i)
  /\ sent' = [sent EXCEPT !.ended = "stray"]
  /\ Conclude(Failure("transient", taken))
  /\ UNCHANGED <<script, taken>>

(* ToolCall has the arguments again, as a whole. *)
Called(t, i, input) ==
  IF CallOf(t, i) = {} THEN [t EXCEPT !.calls = Append(@, PendingToolCall(i, input))]
  ELSE SetInput(t, i, input)

(* response.output_item.done with its index; again, or without one, it     *)
(* spoils the items.                                                       *)
Observed(t, i, index) ==
  LET grown == t.slots \o [k \in 1..index - Len(t.slots) |-> 0] IN
  IF index = 0 THEN [t EXCEPT !.spoilt = TRUE]
  ELSE [t EXCEPT !.slots = [grown EXCEPT ![index] = i], !.spoilt = @ \/ grown[index] # 0]

ItemDone(i, index) ==
  /\ Streaming
  /\ \/ sent.parts[i] = Parts
     \/ IsCall(i) /\ sent.parts[i] = 0 /\ ~Begun(i) /\ Turn(i)
  /\ \/ index = i /\ i \notin sent.done
     \/ wanted.api = "responses" /\ ~sent.faulty
  /\ sent' = [sent EXCEPT !.done = @ \cup {i}, !.parts[i] = Parts,
                          !.faulty = @ \/ index # i \/ i \in sent.done]
  /\ LET call == IF IsCall(i) THEN Called(taken, i, Whole) ELSE taken
     IN taken' = IF wanted.api = "responses" THEN Observed(call, i, index) ELSE call
  /\ UNCHANGED <<wanted, script, outcome>>

Gap == \E i \in sent.done : \E j \in 1..i : j \notin sent.done

(* The last event.  A provider that completed no item on its own sends     *)
(* them all with it.                                                       *)
Ends(reason) ==
  /\ Streaming
  /\ reason \in {"stop", "tool_calls"} => reason = Fitting
  /\ reason = Fitting =>
       /\ \A i \in DOMAIN script : sent.parts[i] = Parts
       /\ wanted.api # "responses" => {i \in DOMAIN script : IsCall(i)} \subseteq sent.done
       /\ wanted.api = "responses" => sent.done \in {{}, DOMAIN script} \/ Gap
  /\ sent' = [sent EXCEPT !.ended = reason, !.faulty = @ \/ (wanted.api = "responses" /\ Gap)]
  /\ taken' = [taken EXCEPT !.finish = reason, !.explicit = TRUE, !.usage = TRUE, !.terminal = TRUE,
                            !.slots = IF wanted.api = "responses" /\ @ = <<>>
                                      THEN [i \in DOMAIN script |-> i] ELSE @]
  /\ UNCHANGED <<wanted, script, outcome>>

(* The stream is over, with or without its last event. *)
Synthesised(t, reason) ==
  IF reason = "none" \/ t.finish # "none" THEN t ELSE [t EXCEPT !.finish = reason, !.usage = TRUE]
Closes(reason) ==
  /\ wanted.pc = "open" /\ wanted.streaming
  /\ reason # "none" => wanted.api # "messages" /\ sent.ended = "no"
  /\ Conclude(StreamOutcome(Synthesised(taken, reason)))
  /\ UNCHANGED <<script, sent, taken>>

(* An answer without a stream comes as a whole.  One that was cut short    *)
(* has some of its items, the last of them in part.                        *)
Generated(n, last) ==
  [NothingTaken EXCEPT
     !.text = FlattenSeq([i \in 1..n |-> IF IsCall(i) THEN <<>> ELSE [k \in 1..(IF i = n THEN last ELSE Parts) |-> <<i, k>>]]),
     !.calls = [j \in 1..Cardinality({i \in 1..n : IsCall(i)}) |->
                  LET i == CHOOSE i \in 1..n : IsCall(i) /\ Cardinality({m \in 1..i : IsCall(m)}) = j
                  IN PendingToolCall(i, [k \in 1..(IF i = n THEN last ELSE Parts) |-> k])]]
Body(n, last, reason) ==
  /\ wanted.pc = "open" /\ ~wanted.streaming
  /\ reason \in {"stop", "tool_calls"} => reason = Fitting /\ n = Len(script) /\ last = Parts
  /\ sent' = [sent EXCEPT !.ended = reason]
  /\ taken' = [Generated(n, last) EXCEPT !.finish = reason, !.explicit = TRUE, !.usage = TRUE]
  /\ Conclude(Complete(taken', IF wanted.api = "responses" THEN [i \in 1..n |-> i] ELSE <<>>))
  /\ UNCHANGED script

AnswerNext ==
  \/ NotSent \/ Sends \/ Breaks
  \/ \E cause \in Causes : ErrorReported(cause)
  \/ \E i \in 1..Len(script) : CallBegins(i) \/ Delta(i) \/ Stray(i) \/ \E index \in {0, i} : ItemDone(i, index)
  \/ \E reason \in Reasons : Ends(reason)
  \/ \E reason \in {"none", "stop", "tool_calls"} : Closes(reason)
  \/ \E n \in 0..Len(script), last \in 0..Parts, reason \in Reasons : Body(n, last, reason)

AnswerSpec == AnswerInit /\ [][AnswerNext]_answerVars
-----------------------------------------------------------------------------
(* How the answer goes back to a provider with the next request: the items *)
(* it produced to the profile that produced them, else its text and calls. *)
CallItems(i) == [kind |-> "call", of |-> i, input |-> Whole]
TextItem(text) == [kind |-> "text", of |-> 0, input |-> text]
Presented(api, same) ==
  LET calls == [j \in DOMAIN outcome.calls |-> [kind |-> "call", of |-> outcome.calls[j].id, input |-> outcome.calls[j].input]]
      text == [j \in 1..1 |-> TextItem(outcome.text)]
  IN CASE api = "responses" /\ same
            -> [j \in DOMAIN outcome.items |->
                  IF IsCall(outcome.items[j]) THEN CallItems(outcome.items[j])
                  ELSE TextItem([k \in 1..Parts |-> <<outcome.items[j], k>>])]
       [] api = "completions" /\ calls # <<>> -> calls
       [] outcome.text = <<>> /\ calls # <<>> -> calls
       [] OTHER -> text \o calls
-----------------------------------------------------------------------------
AllText == FlattenSeq([i \in DOMAIN script |-> IF IsCall(i) THEN <<>> ELSE [k \in 1..Parts |-> <<i, k>>]])
AllCalls == SelectSeq([i \in DOMAIN script |-> i], IsCall)
WellFormed == \A i \in DOMAIN script : script[i] \in {"text", "object"}

(* An answer is taken for one when the provider finished it, and then it   *)
(* is the whole of what was sent, whatever order that came in.             *)
TakenWhole ==
  outcome.as = "answer" =>
    /\ sent.ended = Fitting /\ WellFormed /\ outcome.usage
    /\ outcome.text = AllText
    /\ outcome.calls = [j \in DOMAIN AllCalls |-> PendingToolCall(AllCalls[j], Whole)]
    /\ outcome.items = IF wanted.api = "responses" THEN [i \in DOMAIN script |-> i] ELSE <<>>

(* One that the provider finished is not lost, and the kind of a failure   *)
(* is that of its cause: in particular an answer cut off by the connection *)
(* is never an answer the model got wrong.                                 *)
RightKind ==
  wanted.pc = "done" =>
    /\ sent.ended = Fitting /\ WellFormed /\ ~sent.faulty => outcome.as = "answer"
    /\ outcome.as = "document" <=>
         ~sent.faulty /\ (sent.ended \in {"length", "filter"} \/ (sent.ended = Fitting /\ ~WellFormed))
    /\ outcome.as = "overflow" <=> sent.ended = "overflow"
    /\ sent.ended \in {"broken", "server", "limit", "stray"} => outcome.as = "transient"

(* Whoever the answer goes back to is told of the same calls.              *)
CallsPresented ==
  outcome.as = "answer" =>
    \A api \in Apis, same \in BOOLEAN :
      (same => api = wanted.api) =>
        SelectSeq(Presented(api, same), LAMBDA item : item.kind = "call")
          = [j \in DOMAIN AllCalls |-> CallItems(AllCalls[j])]

\* What the session is given of a stream that may mix, repeat or cut off what is
\* sent is the whole answer or the right failure (model_outcome_from_stream_result).
AnswersExact == TakenWhole /\ RightKind /\ CallsPresented
=============================================================================
