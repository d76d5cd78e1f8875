----------------------------- MODULE Retention -----------------------------
(***************************************************************************)
(* What a generation of the conversation consists of, entry by entry, and  *)
(* what a compaction keeps of it: the most recent entries that fit the     *)
(* bound, cut where no call waits for its tool message.  RunnerHistory     *)
(* follows the results and inputs through every kind of step as sets; here *)
(* they have an order and a size.                                          *)
(*                                                                         *)
(* The calls of one answer have different provider ids.  Notices, changes  *)
(* of tools and lists of unfinished items are left out: as entries they    *)
(* are kept or evicted like inputs.                                        *)
(***************************************************************************)
EXTENDS Integers, Sequences, SequencesExt, FiniteSetsExt

CONSTANTS MaxCalls, MaxInputs, MaxReplies,
          MaxRejections,   \* of requests, and turns that end before their time
          ResultSizes, SummarySize,   \* everything else has size 1
          KeepTokens,      \* keep_recent_tokens
          SummaryBudget, ToolLimit, TextLimit,   \* of a request for a summary
          AttemptLimit

ASSUME RetentionAssumption ==
  /\ {MaxCalls, MaxInputs, MaxRejections, MaxReplies, KeepTokens, SummarySize, SummaryBudget, ToolLimit, TextLimit} \subseteq Nat
  /\ ResultSizes \subseteq Nat \ {0} /\ AttemptLimit \in Nat \ {0}

VARIABLES
  entries,    \* of the current generation
  summary,    \* the size of the document it began with
  pending,    \* the pending calls, with the size of the result once there is one
  calls,
  inbox,      \* inputs that no request has consumed
  arrived,
  request,    \* what the request on its way is for, and the inputs it consumed
  progress,   \* of the compaction, over all its requests
  failure,    \* of the last request
  given,      \* results a model was given, in an answered request or for a summary
  dropped,    \* results there was no room for, or no document
  twice,      \* inputs given back by a rejected request of a turn that then ended
  replies, rejections,
  anchored    \* a request of this generation has come back, so that the next one's size can be told

retentionVars == <<entries, summary, pending, calls, inbox, arrived, request, progress, failure, given, dropped, twice, replies, rejections, anchored>>

Entry(kind, ids, size) == [kind |-> kind, ids |-> ids, size |-> size]
NoTool == [delivery |-> "none", result |-> 0]
NoRequest == [purpose |-> "none", consumed |-> {}]
NoProgress == [source |-> 0, retain |-> 0, attempts |-> 0, on |-> FALSE]
IdsOf(es, kinds) == UNION {es[i].ids : i \in {j \in 1..Len(es) : es[j].kind \in kinds}}
ResultsIn(es) == IdsOf(es, {"direct", "notification"})
SizeOf(es) ==
  LET sum[n \in 0..Len(es)] == IF n = 0 THEN 0 ELSE sum[n - 1] + es[n].size IN sum[Len(es)]
Unreturned == {c \in 1..calls : pending[c].delivery # "none" /\ pending[c].result = 0}

RetentionInit ==
  /\ entries = <<>> /\ summary = 0
  /\ pending = [c \in 1..MaxCalls |-> NoTool] /\ calls = 0 /\ inbox = {} /\ arrived = 0
  /\ request = NoRequest /\ progress = NoProgress /\ failure = "none"
  /\ given = {} /\ dropped = {} /\ twice = {} /\ replies = 0 /\ rejections = 0 /\ anchored = FALSE
-----------------------------------------------------------------------------
\* Mutant: the cut does not look at the calls that are open.
OpenNone(es, n) == {}
(* The calls of the first n entries that have no tool message there. *)
Open(es, n) == IdsOf(SubSeq(es, 1, n), {"assistant"}) \ IdsOf(SubSeq(es, 1, n), {"pending", "direct"})

(* How many entries are summarised: at least one complete group, and then  *)
(* as few as leave no more than the bound.                                 *)
RetentionStart(es) ==
  LET target == Min({n \in 0..Len(es) : SizeOf(SubSeq(es, n + 1, Len(es))) <= KeepTokens})
  IN Min({n \in 1..Len(es) : n >= target /\ Open(es, n) = {}} \cup {Len(es)})

(* What is told about the pending calls, in their order. *)
Delivery(c) ==
  CASE pending[c].result > 0 -> <<Entry(IF pending[c].delivery = "fresh" THEN "direct" ELSE "notification", {c}, pending[c].result)>>
    [] pending[c].result = 0 /\ pending[c].delivery = "fresh" -> <<Entry("pending", {c}, 1)>>
    [] OTHER -> <<>>
Deliveries == FlattenSeq([c \in 1..calls |-> Delivery(c)])

Consumed(ids) == IF ids = {} THEN <<>> ELSE <<Entry("inputs", ids, 1)>>

(* The request of the conversation takes the results it delivers off the   *)
(* books; the one that opens a compaction does not.                        *)
StartConversation ==
  /\ request = NoRequest /\ ~progress.on /\ failure # "overflow"
  /\ inbox # {} \/ entries # <<>>
  /\ request' = [purpose |-> "conversation", consumed |-> inbox] /\ inbox' = {}
  /\ entries' = entries \o Consumed(inbox) \o Deliveries
  /\ pending' = [c \in 1..MaxCalls |-> IF pending[c].result > 0 THEN NoTool
                                    ELSE [pending[c] EXCEPT !.delivery = IF @ = "fresh" THEN "sent" ELSE @]]
  /\ failure' = "none"
  /\ UNCHANGED <<summary, calls, arrived, progress, given, dropped, twice, replies, rejections, anchored>>

(* A compaction is due when the provider rejected the conversation as too  *)
(* large, or when the next request would be, as told from the use that an  *)
(* answer or a failure of this generation reported.                        *)
StartCompaction ==
  /\ request = NoRequest
  /\ progress.on \/ failure = "overflow" \/ (failure = "none" /\ anchored /\ entries # <<>>)
  /\ request' = [purpose |-> "compaction", consumed |-> {}] /\ failure' = "none"
  /\ IF progress.on THEN UNCHANGED <<entries, pending, progress>>
     ELSE /\ entries' = entries \o Deliveries
          /\ pending' = [c \in 1..MaxCalls |-> [pending[c] EXCEPT !.delivery = IF @ = "fresh" THEN "sent" ELSE @]]
          /\ progress' = [source |-> Len(entries'), retain |-> RetentionStart(entries'), attempts |-> 0, on |-> TRUE]
  /\ UNCHANGED <<summary, calls, inbox, arrived, given, dropped, twice, replies, rejections, anchored>>
-----------------------------------------------------------------------------
(* The request for a summary: the last one's document, the earliest input, *)
(* and of the rest as many of the newest as there is room for.             *)
Excerpt(size, limit) == IF size > limit THEN limit + 1 ELSE size
Evicted == SubSeq(entries, 1, progress.retain)
FirstInput == LET gone == Evicted IN Min({i \in 1..Len(gone) : gone[i].kind = "inputs"} \cup {Len(gone) + 1})
Preamble ==
  LET gone == Evicted  first == FirstInput
  IN Excerpt(summary, SummaryBudget \div 3)
       + IF first > Len(gone) THEN 0 ELSE Excerpt(gone[first].size, SummaryBudget \div 4)
Room == Max({0, SummaryBudget - Preamble})
Line(entry, room) ==
  [entry EXCEPT !.size = Excerpt(@, Min({room, IF entry.kind \in {"pending", "direct", "notification"} THEN ToolLimit ELSE TextLimit}))]
Lines ==
  LET gone == Evicted  first == FirstInput  room == Room
  IN [i \in 1..(Len(gone) - IF first > Len(gone) THEN 0 ELSE 1) |-> Line(gone[IF i < first THEN i ELSE i + 1], room)]

Shown(lines) ==
  LET room == Room
  IN SubSeq(lines, Min({n \in 1..Len(lines) + 1 : SizeOf(SubSeq(lines, n, Len(lines))) <= room}), Len(lines))
-----------------------------------------------------------------------------
(* What the request comes back with. *)
Answer(n) ==
  /\ request.purpose = "conversation" /\ replies < MaxReplies /\ replies' = replies + 1
  /\ calls + n <= MaxCalls /\ calls' = calls + n
  /\ entries' = Append(entries, Entry("assistant", calls + 1 .. calls + n, 1))
  /\ pending' = [c \in 1..MaxCalls |-> IF c \in calls + 1 .. calls + n THEN [delivery |-> "fresh", result |-> 0] ELSE pending[c]]
  /\ given' = given \cup ResultsIn(entries) /\ request' = NoRequest /\ anchored' = TRUE
  /\ UNCHANGED <<summary, inbox, arrived, progress, failure, dropped, twice, rejections>>

(* Only a request rejected as too large gives its inputs back. *)
Rejected(how) ==
  /\ request # NoRequest /\ rejections < MaxRejections /\ rejections' = rejections + 1
  /\ failure' = how /\ request' = NoRequest /\ anchored' = (anchored \/ request.purpose = "conversation")
  /\ inbox' = IF how = "overflow" THEN request.consumed \cup inbox ELSE inbox
  /\ UNCHANGED <<entries, summary, pending, calls, arrived, progress, given, dropped, twice, replies>>

(* The calls that are still pending afterwards; their outcomes will come   *)
(* as notifications.                                                       *)
Left(retained) == Unreturned \cup {c \in 1..calls : pending[c].result > 0 /\ c \notin ResultsIn(retained)}
Carried == IF Unreturned = {} THEN <<>> ELSE <<Entry("carried", Unreturned, 1)>>

(* An input that was given back is not also retained. *)
Without(entry) == IF entry.kind = "inputs" THEN [entry EXCEPT !.ids = @ \ inbox] ELSE entry
Emptied(entry) == entry.kind = "inputs" /\ entry.ids = {}
NewPrefix(retained) ==
  LET kept[n \in 0..Len(retained)] ==
        IF n = 0 THEN <<>>
        ELSE IF Emptied(Without(retained[n])) THEN kept[n - 1]
        ELSE Append(kept[n - 1], Without(retained[n]))
  IN kept[Len(retained)]

ContextApplied(retained, document) ==
  /\ pending' = [c \in 1..MaxCalls |-> IF c \in Left(retained) THEN [pending[c] EXCEPT !.delivery = "sent"] ELSE NoTool]
  /\ entries' = NewPrefix(retained) \o Carried /\ summary' = document
  /\ request' = NoRequest /\ progress' = NoProgress /\ failure' = "none" /\ anchored' = FALSE
  /\ UNCHANGED <<calls, inbox, arrived, twice>>

Summarised ==
  /\ request.purpose = "compaction" /\ replies < MaxReplies /\ replies' = replies + 1
  /\ ContextApplied(SubSeq(entries, progress.retain + 1, progress.source), SummarySize)
  /\ given' = given \cup ResultsIn(Shown(Lines)) /\ dropped' = dropped \cup (ResultsIn(Evicted) \ ResultsIn(Shown(Lines)))
  /\ UNCHANGED rejections

(* No document: after too many that were none, or when the request for it  *)
(* was too large itself.                                                   *)
Forsaken ==
  /\ ContextApplied(<<>>, 0) /\ dropped' = dropped \cup ResultsIn(entries) /\ UNCHANGED <<given, replies>>
NotADocument ==
  /\ request.purpose = "compaction" /\ rejections < MaxRejections /\ rejections' = rejections + 1
  /\ IF progress.attempts + 1 >= AttemptLimit THEN Forsaken
     ELSE /\ progress' = [progress EXCEPT !.attempts = @ + 1] /\ request' = NoRequest
          /\ UNCHANGED <<entries, summary, pending, calls, inbox, arrived, failure, given, dropped, twice, replies, anchored>>
TooLarge == request = NoRequest /\ progress.on /\ failure = "overflow" /\ Forsaken /\ UNCHANGED rejections
-----------------------------------------------------------------------------
ToolReturns(c, size) ==
  /\ c \in Unreturned /\ pending' = [pending EXCEPT ![c].result = size]
  /\ UNCHANGED <<entries, summary, calls, inbox, arrived, request, progress, failure, given, dropped, twice, replies, rejections, anchored>>

InputArrives ==
  /\ arrived < MaxInputs /\ arrived' = arrived + 1 /\ inbox' = inbox \cup {arrived + 1}
  /\ UNCHANGED <<entries, summary, pending, calls, request, progress, failure, given, dropped, twice, replies, rejections, anchored>>

(* Cancelled, or given up after its failures: the compaction ends with the *)
(* turn, and what its first request told stays in the conversation.        *)
TurnEnds ==
  /\ request # NoRequest \/ failure # "none" \/ progress.on
  /\ rejections < MaxRejections /\ rejections' = rejections + 1
  /\ request' = NoRequest /\ progress' = NoProgress /\ failure' = "none"
  /\ twice' = twice \cup (inbox \cap IdsOf(entries, {"inputs"}))
  /\ UNCHANGED <<entries, summary, pending, calls, inbox, arrived, given, dropped, replies, anchored>>

RetentionNext ==
  \/ StartConversation \/ StartCompaction
  \/ \E n \in 0..2 : Answer(n)
  \/ \E how \in {"overflow", "other"} : Rejected(how)
  \/ Summarised \/ NotADocument \/ TooLarge
  \/ \E c \in 1..MaxCalls, size \in ResultSizes : ToolReturns(c, size)
  \/ InputArrives \/ TurnEnds

RetentionSpec == RetentionInit /\ [][RetentionNext]_retentionVars
-----------------------------------------------------------------------------
(* In every request of the conversation each call of an answer has exactly *)
(* one tool message, between that answer and the next one, and no tool     *)
(* message stands alone: also after compactions that were cut short and    *)
(* results that came in between.                                           *)
Messages(c) == {i \in 1..Len(entries) : entries[i].kind \in {"pending", "direct"} /\ c \in entries[i].ids}
Paired ==
  request.purpose = "conversation" =>
    /\ IdsOf(entries, {"pending", "direct"}) \subseteq IdsOf(entries, {"assistant"})
    /\ \A i \in 1..Len(entries) : entries[i].kind = "assistant" =>
         \A c \in entries[i].ids : \E j \in (i + 1)..Len(entries) :
           /\ Messages(c) = {j}
           /\ \A k \in i + 1 .. j : entries[k].kind # "assistant"

(* A compaction keeps no more than the bound, and evicts something. *)
Shrinks ==
  progress.on =>
    /\ SizeOf(SubSeq(entries, progress.retain + 1, progress.source)) <= KeepTokens
    /\ progress.source > 0 => progress.retain > 0

(* A result is pending, or in the conversation, or a model was given it:   *)
(* compactions lose only what there was no room or no document for.        *)
ResultsKept ==
  \A c \in 1..calls : pending[c].delivery # "none" \/ c \in ResultsIn(entries) \cup given \cup dropped

(* No input stands twice in a request, but those of a turn that ended      *)
(* between the rejection of a request and the compaction it called for.    *)
InputsOnce ==
  request.purpose = "conversation" =>
    \A input \in (1..arrived) \ twice :
      Cardinality({i \in 1..Len(entries) : entries[i].kind = "inputs" /\ input \in entries[i].ids}) <= 1

(* A request for a summary is within its budget, whatever it summarises. *)
SummaryFits == progress.on => Preamble + SizeOf(Shown(Lines)) <= SummaryBudget

RetentionHonest == Paired /\ Shrinks /\ ResultsKept /\ InputsOnce /\ SummaryFits
=============================================================================
