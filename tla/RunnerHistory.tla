--------------------------- MODULE RunnerHistory ----------------------------
(***************************************************************************)
(* The runner with history variables: which inputs and results the model   *)
(* has been shown, in a request that was at least sent or in one that was  *)
(* answered, and how many requests in a row have failed.                   *)
(***************************************************************************)
EXTENDS RunnerProperties

VARIABLES
  sent,       \* results that were part of a request of the conversation
  heard,      \* inputs and results covered by an answer or by a document
  stranded,   \* inputs of a request that ended with neither an answer nor a
              \* rejection as too large: the transcript keeps them
  row         \* provider failures since a request was answered

history == <<sent, heard, stranded, row>>
hvars == <<vars, history>>

HInit ==
  /\ Init
  /\ sent = {} /\ heard = [inputs |-> {}, results |-> {}] /\ stranded = {}
  /\ row = 0

\* Failures in a row are counted up to one more than the limit allows.
RowBound == AtLeastOne(RetryLimit) + 1

HNext ==
  /\ Next
  /\ sent' = IF s.step = "none" /\ s'.step = "conversation"
             THEN sent \cup s'.genResults ELSE sent
  /\ heard' = IF Answer \/ Document
              THEN [inputs |-> heard.inputs \cup s.genInputs,
                    results |-> heard.results \cup s.genResults]
              ELSE heard
  /\ stranded' = IF /\ s.step = "conversation" /\ s'.step = "none"
                   /\ ~Answer /\ s'.failure # "overflow"
                  THEN stranded \cup s.consumed ELSE stranded
  /\ row' = IF Answer \/ Document \/ NoDocument \/ (s.on /\ ~s'.on) THEN 0
            ELSE IF ~Failure THEN row
            ELSE IF IsContext(s.step) /\ s'.failure = "document" THEN 0
            ELSE IF row < RowBound THEN row + 1 ELSE row

HSpec == HInit /\ [][HNext]_hvars

-----------------------------------------------------------------------------
Returned == {c \in Calls : /\ s.result[c] # "none"
                           /\ s.kind[c] \notin EndKinds \cup {"refused"}}

\* Every result is waiting to be told, or is in the current generation, or was
\* part of a request of the conversation.  A result shown to a summariser or
\* a handoff model only does not count.
ResultsTold ==
  Returned \subseteq s.pending \cup s.genResults \cup sent

\* The same for requests that were answered: a result is not gone before the
\* model answered a request, or wrote a document, that covered it.
ResultsHeard ==
  Returned \subseteq s.pending \cup s.genResults \cup heard.results

\* An accepted input is in the mailbox, or the request under way took it, or the
\* model answered a request, or wrote a document, that covered it, or the request
\* that took it was interrupted or failed for a reason other than its size: then
\* only the transcript has it, and a context exit without a document drops that.
InputsHeard ==
  1..s.accepted \subseteq s.inputs \cup s.consumed \cup heard.inputs \cup stranded

\* Nothing is forgotten on the way to the model: neither results nor inputs.
NothingForgotten == ResultsTold /\ InputsHeard

\* A turn makes at most RetryLimit failing requests in a row.
RetriesBounded == row <= AtLeastOne(RetryLimit)
=============================================================================
