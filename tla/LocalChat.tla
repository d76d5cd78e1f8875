----------------------------- MODULE LocalChat ------------------------------
(***************************************************************************)
(* The desktop client's view of its conversations and the gateway behind   *)
(* it: the visible messages the gateway stores and broadcasts, the pages   *)
(* and the event stream the client reads them from, the rows it shows with *)
(* the user's own messages before they are accepted, and the requests that *)
(* are in flight when the user goes to another conversation and back.      *)
(*                                                                         *)
(* The user and the agent's replies are free; the network loses requests   *)
(* and answers and breaks streams.  A row carries its number only for the  *)
(* properties: the client sees role and text.                              *)
(***************************************************************************)
EXTENDS Integers, Sequences, SequencesExt

CONSTANTS Chats,          \* conversations of the desktop entry
          Texts,          \* what the user types
          History,        \* how many messages the first conversation has at the start
          Habits,         \* what happens besides the user's going from chat to chat
          PageLimit,      \* messages of a page
          EventCapacity,  \* events the gateway keeps for a slow client
          MaxStored,      \* messages of all conversations
          MaxClicks,      \* operations of the user
          MaxOpen,        \* requests in flight
          MaxChatFaults   \* lost requests and answers, broken streams

ASSUME ChatAssumption ==
  /\ {PageLimit, EventCapacity, MaxOpen} \subseteq Nat \ {0}
  /\ {History, MaxStored, MaxClicks, MaxChatFaults} \subseteq Nat /\ Chats # {}

Nowhere == "nowhere"
Picks == {1, 2}   \* of a model, and of a context configuration

VARIABLES
  stored,     \* the visible messages of each conversation
  made,       \* the conversations that exist
  server,     \* the gateway's model choice and context of each conversation
  view,       \* the client's state
  channel,    \* the client's event stream and the events on their way
  open,       \* the requests in flight
  habit,      \* what happens in this behaviour
  seen,       \* the last message a page or an event brought to the view
  marred,     \* the rows miss a message for one of the causes listed below
  crossed,    \* two sends to one conversation were in flight together
  clicks, chatFaults

chatVars == <<stored, made, server, view, channel, open, habit, seen, marred, crossed, clicks, chatFaults>>

Row(chat, user, text, seq) == [chat |-> chat, user |-> user, text |-> text, seq |-> seq]
Alike(r, s) == r.user = s.user /\ r.text = s.text
NoConfig == [of |-> Nowhere, pick |-> 0]
NoChannel == [phase |-> "off", since |-> 0, page |-> <<>>, queue |-> <<>>]
FreshView(chat) == [selected |-> chat, rows |-> <<>>, waiting |-> <<>>, cursor |-> 0, older |-> FALSE,
                    sending |-> FALSE, canceling |-> FALSE, config |-> NoConfig, busy |-> FALSE, dirty |-> FALSE, touched |-> FALSE,
                    creating |-> FALSE, choice |-> 1, typed |-> "", listed |-> [c \in Chats |-> 0]]

First == CHOOSE c \in Chats : TRUE
Past == [n \in 1..History |-> Row(First, n = 1, IF n = 1 THEN CHOOSE t \in Texts : TRUE ELSE "reply", n)]

ChatInit ==
  /\ stored = [c \in Chats |-> IF c = First THEN Past ELSE <<>>]
  /\ habit \in Habits
  /\ made = IF "create" \in habit THEN {First} ELSE Chats
  /\ server = [c \in Chats |-> [choice |-> 1, context |-> 1]]
  /\ view = FreshView(Nowhere) /\ channel = NoChannel /\ open = <<>>
  /\ seen = 0 /\ marred = FALSE /\ crossed = FALSE /\ clicks = 0 /\ chatFaults = 0
-----------------------------------------------------------------------------
(* Requests and clicks. *)
InFlight(kind, chat) == \E i \in 1..Len(open) : open[i].kind = kind /\ open[i].chat = chat
Request(kind, chat, phase) ==
  [kind |-> kind, chat |-> chat, phase |-> phase, text |-> "", value |-> 0, at |-> 0,
   page |-> <<>>, upto |-> 0, updated |-> FALSE]

(* What a click needs of the model: the bound, and places for its requests. *)
Click(n) == clicks < MaxClicks /\ clicks' = clicks + 1 /\ Len(open) + n <= MaxOpen
ChatFault == chatFaults < MaxChatFaults /\ chatFaults' = chatFaults + 1

(* A context request whose number is no longer the view's is ignored.      *)
Outdate(requests) ==
  [i \in 1..Len(requests) |-> IF requests[i].kind = "context" THEN [requests[i] EXCEPT !.at = 0] ELSE requests[i]]
AskContext(chat, value) == [Request("context", chat, "sent") EXCEPT !.value = value, !.at = 1]

(* To another conversation: nothing of the last one stays on screen; what  *)
(* it asked for is still on its way.  The stream is opened and the latest  *)
(* page is asked for besides; the context only matters, and is only asked  *)
(* for, in behaviours whose user looks at it.                              *)
OpenChat(chat, requests, kept) ==
  /\ view' = [x \in DOMAIN view |->
       CASE x = "busy" -> "context" \in habit
         [] x = "choice" -> IF kept.listed[chat] # 0 THEN kept.listed[chat] ELSE kept.choice
         [] x \in {"creating", "typed", "listed"} -> kept[x]
         [] OTHER -> FreshView(chat)[x]]
  /\ LET paged == Append(Outdate(requests), Request("page", chat, "sent"))
     IN open' = IF "context" \in habit THEN Append(paged, AskContext(chat, 0)) ELSE paged
  /\ channel' = [NoChannel EXCEPT !.phase = "opening"]
  /\ seen' = 0 /\ marred' = FALSE

Select(chat) ==
  /\ chat \in made \ {view.selected} /\ Click(IF "context" \in habit THEN 2 ELSE 1)
  /\ OpenChat(chat, open, view)
  /\ UNCHANGED <<stored, made, server, habit, crossed, chatFaults>>

Deselect ==
  /\ view.selected # Nowhere /\ Click(0)
  /\ view' = [x \in DOMAIN view |-> IF x \in {"creating", "choice", "typed", "listed"} THEN view[x] ELSE FreshView(Nowhere)[x]]
  /\ open' = Outdate(open) /\ channel' = NoChannel /\ seen' = 0 /\ marred' = FALSE
  /\ UNCHANGED <<stored, made, server, habit, crossed, chatFaults>>
-----------------------------------------------------------------------------
(* The rows of a page, and below them the user's messages that wait for    *)
(* their echo and are not in it: a message of the page that is written     *)
(* like a waiting one is taken for its echo.                               *)
Shows(rows, text) == \E i \in 1..Len(rows) : rows[i].user /\ rows[i].text = text
Echoed(waiting, page) == FoldSeq(LAMBDA r, w : IF r.user THEN RemoveFirst(w, r.text) ELSE w, waiting, page)
PageRows(page, waiting) ==
  FoldLeft(LAMBDA rows, text : IF Shows(rows, text) THEN rows ELSE Append(rows, Row(view.selected, TRUE, text, 0)), page, waiting)

(* The rows of an older page, without the longest end of it that the view  *)
(* begins with.                                                            *)
SameRows(s, t) == Len(s) = Len(t) /\ \A i \in 1..Len(s) : Alike(s[i], t[i])
Overlap(page, rows) ==
  LET fits == {n \in 0..(IF Len(page) < Len(rows) THEN Len(page) ELSE Len(rows)) :
                 SameRows(SubSeq(page, Len(page) - n + 1, Len(page)), SubSeq(rows, 1, n))}
  IN CHOOSE n \in fits : \A m \in fits : m <= n

(* What a page of a conversation is: the last messages before the cursor,  *)
(* and the number of the first of them when there are older ones.          *)
PageOf(chat, before) ==
  LET last == IF before = 0 THEN Len(stored[chat]) ELSE before - 1
  IN SubSeq(stored[chat], IF last < PageLimit THEN 1 ELSE last - PageLimit + 1, last)
CursorOf(page) == IF page # <<>> /\ page[1].seq > 1 THEN page[1].seq ELSE 0

(* A page that was read before what the view has shown already hides it,   *)
(* and of waiting messages that read alike only one is shown.              *)
ShowPage(page, upto) ==
  LET waiting == Echoed(view.waiting, page)
      rows == PageRows(page, waiting)
  IN /\ view' = [view EXCEPT !.rows = rows, !.waiting = waiting,
                             !.cursor = CursorOf(page), !.older = FALSE]
     /\ marred' = (upto < seen \/ Len(rows) < Len(page) + Len(waiting))
     /\ seen' = IF upto < seen THEN seen ELSE upto

(* An older page that no longer joins the rows, or whose end is taken for  *)
(* the rows' beginning because it reads the same.                          *)
ShowOlder(r) ==
  LET n == Overlap(r.page, view.rows)
  IN /\ view' = [view EXCEPT !.cursor = CursorOf(r.page), !.older = FALSE,
                             !.rows = SubSeq(r.page, 1, Len(r.page) - n) \o @]
     /\ marred' = (marred \/ r.at # view.cursor \/ SubSeq(r.page, Len(r.page) - n + 1, Len(r.page)) # SubSeq(view.rows, 1, n))
     /\ UNCHANGED seen

LoadOlder ==
  /\ "older" \in habit /\ view.selected # Nowhere /\ view.cursor # 0 /\ ~view.older /\ Click(1)
  /\ view' = [view EXCEPT !.older = TRUE]
  /\ open' = Append(open, [Request("older", view.selected, "sent") EXCEPT !.at = view.cursor])
  /\ UNCHANGED <<stored, made, server, channel, habit, seen, marred, crossed, chatFaults>>
-----------------------------------------------------------------------------
(* The user's message is shown at once and waits for its echo.  A changed  *)
(* choice of the model is sent before it.                                  *)
SendComposer(text) ==
  /\ "send" \in habit /\ view.selected # Nowhere /\ ~view.sending /\ Click(1)
  /\ text \in (IF view.typed = "" THEN Texts ELSE {view.typed})
  /\ view' = [view EXCEPT !.sending = TRUE, !.typed = "", !.rows = Append(@, Row(view.selected, TRUE, text, 0)),
                          !.waiting = Append(@, text)]
  /\ open' = Append(open, [Request("send", view.selected, IF view.dirty THEN "update" ELSE "sent")
                            EXCEPT !.text = text, !.value = view.choice])
  /\ crossed' = (crossed \/ InFlight("send", view.selected))
  /\ UNCHANGED <<stored, made, server, channel, habit, seen, marred, chatFaults>>

CancelSession ==
  /\ "cancel" \in habit /\ view.selected # Nowhere /\ ~view.canceling /\ Click(1)
  /\ view' = [view EXCEPT !.canceling = TRUE] /\ open' = Append(open, Request("cancel", view.selected, "sent"))
  /\ UNCHANGED <<stored, made, server, channel, habit, seen, marred, crossed, chatFaults>>

CreateSession(text) ==
  /\ "create" \in habit /\ view.selected = Nowhere /\ ~view.creating /\ Click(1)
  /\ text \in (IF view.typed = "" THEN Texts ELSE {view.typed})
  /\ view' = [view EXCEPT !.creating = TRUE, !.typed = ""]
  /\ open' = Append(open, [Request("create", Nowhere, "create") EXCEPT !.text = text, !.value = view.choice])
  /\ UNCHANGED <<stored, made, server, channel, habit, seen, marred, crossed, chatFaults>>

Choose(value) ==
  /\ "choose" \in habit /\ value # view.choice /\ Click(0)
  /\ view' = [view EXCEPT !.choice = value, !.dirty = @ \/ view.selected # Nowhere,
                          !.touched = view.selected # Nowhere]
  /\ UNCHANGED <<stored, made, server, channel, open, habit, seen, marred, crossed, chatFaults>>

(* Without a configuration on screen the click asks for it again. *)
ChooseContext(value) ==
  /\ "context" \in habit /\ view.selected # Nowhere /\ ~view.busy /\ (view.config = NoConfig <=> value = 0) /\ Click(1)
  /\ view' = [view EXCEPT !.busy = TRUE]
  /\ open' = Append(open, AskContext(view.selected, value))
  /\ UNCHANGED <<stored, made, server, channel, habit, seen, marred, crossed, chatFaults>>

(* The list of conversations is polled; a choice is read from it only when *)
(* a conversation is opened.                                               *)
Poll ==
  /\ "choose" \in habit
  /\ view' = [view EXCEPT !.listed = [c \in Chats |-> IF c \in made THEN server[c].choice ELSE 0]]
  /\ UNCHANGED <<stored, made, server, channel, open, habit, seen, marred, crossed, clicks, chatFaults>>
-----------------------------------------------------------------------------
(* A message is stored and then broadcast to who listens to the            *)
(* conversation; the broadcast drops the oldest for a slow client.         *)
Listening(chat) == view.selected = chat /\ channel.phase \in {"subscribed", "read", "live"}
Record(chat, user, text) ==
  LET row == Row(chat, user, text, Len(stored[chat]) + 1)
      queue == Append(channel.queue, row)
      lags == Len(queue) > EventCapacity
  IN /\ FoldSet(LAMBDA c, n : n + Len(stored[c]), 0, Chats) < MaxStored
     /\ stored' = [stored EXCEPT ![chat] = Append(@, row)]
     /\ IF ~Listening(chat) THEN UNCHANGED <<channel, seen, marred>>
        ELSE /\ channel' = [channel EXCEPT !.queue = IF lags THEN Tail(queue) ELSE queue]
             /\ marred' = (marred \/ lags)
             /\ seen' = IF lags /\ queue[1].seq > seen THEN queue[1].seq ELSE seen

Reply(chat) ==
  /\ "reply" \in habit /\ chat \in made /\ Record(chat, FALSE, "reply")
  /\ UNCHANGED <<made, server, view, open, habit, crossed, clicks, chatFaults>>

(* The gateway handles a request; its answer may be lost, and a message    *)
(* that was shown may still be refused by the agent.                       *)
Answers(i, ok, request) ==
  /\ open' = [open EXCEPT ![i] = IF ok THEN request ELSE [request EXCEPT !.phase = "failed"]]
  /\ IF ok THEN UNCHANGED chatFaults ELSE ChatFault

ServePage(i, ok) ==
  /\ open[i].kind \in {"page", "older"} /\ open[i].phase = "sent"
  /\ LET page == PageOf(open[i].chat, open[i].at)
     IN Answers(i, ok, [open[i] EXCEPT !.phase = "done", !.page = page, !.upto = Len(stored[open[i].chat])])
  /\ UNCHANGED <<stored, made, server, view, channel, seen, marred>>

ServeChoice(i, ok) ==
  /\ open[i].kind = "send" /\ open[i].phase = "update"
  /\ server' = [server EXCEPT ![open[i].chat].choice = open[i].value]
  /\ Answers(i, ok, [open[i] EXCEPT !.phase = "sent", !.updated = ok])
  /\ UNCHANGED <<stored, made, view, channel, seen, marred>>

ServeMessage(i, ok) ==
  /\ open[i].kind \in {"send", "create"} /\ open[i].phase = "sent"
  /\ Record(open[i].chat, TRUE, open[i].text)
  /\ Answers(i, ok, [open[i] EXCEPT !.phase = "done"])
  /\ UNCHANGED <<made, server, view>>

ServeCreate(i, ok) ==
  /\ open[i].kind = "create" /\ open[i].phase = "create"
  /\ \E chat \in Chats \ made :
       /\ made' = made \cup {chat} /\ server' = [server EXCEPT ![chat].choice = open[i].value]
       /\ Answers(i, ok, [open[i] EXCEPT !.phase = "sent", !.chat = IF ok THEN chat ELSE Nowhere])
  /\ UNCHANGED <<stored, view, channel, seen, marred>>

ServeContext(i, ok) ==
  /\ open[i].kind = "context" /\ open[i].phase = "sent"
  /\ LET c == open[i].chat
         value == IF open[i].value = 0 THEN server[c].context ELSE open[i].value
     IN /\ server' = [server EXCEPT ![c].context = value]
        /\ Answers(i, ok, [open[i] EXCEPT !.phase = "done", !.value = value])
  /\ UNCHANGED <<stored, made, view, channel, seen, marred>>

ServeCancel(i, ok) ==
  /\ open[i].kind = "cancel" /\ open[i].phase = "sent" /\ Answers(i, ok, [open[i] EXCEPT !.phase = "done"])
  /\ UNCHANGED <<stored, made, server, view, channel, seen, marred>>

RequestLost(i) ==
  /\ open[i].phase \notin {"done", "failed"} /\ ChatFault
  /\ open' = [open EXCEPT ![i].phase = "failed"]
  /\ UNCHANGED <<stored, made, server, view, channel, seen, marred>>

Served ==
  /\ \E i \in 1..MaxOpen :
       /\ i <= Len(open)
       /\ \/ RequestLost(i)
          \/ \E ok \in BOOLEAN : ServePage(i, ok) \/ ServeChoice(i, ok) \/ ServeMessage(i, ok)
                                 \/ ServeCreate(i, ok) \/ ServeContext(i, ok) \/ ServeCancel(i, ok)
  /\ UNCHANGED <<habit, crossed, clicks>>
-----------------------------------------------------------------------------
(* An answer reaches the client.  What belongs to a conversation that is   *)
(* not on screen any more is dropped, except what is not its own: that a   *)
(* page failed or a cancellation ended.                                    *)
Takes(i, kind) == open[i].kind = kind /\ open[i].phase \in {"done", "failed"}
Dropped(i) == RemoveAt(open, i)
\* Mutant: the answer is shown whatever conversation is open.
OnScreenAnyway(i) == view.selected # Nowhere
OnScreen(i) == view.selected = open[i].chat

TakePage(i) ==
  /\ Takes(i, "page") /\ open' = Dropped(i)
  /\ IF OnScreen(i) /\ open[i].phase = "done" THEN ShowPage(open[i].page, open[i].upto)
     ELSE UNCHANGED <<view, seen, marred>>
  /\ UNCHANGED channel

TakeOlder(i) ==
  /\ Takes(i, "older") /\ open' = Dropped(i)
  /\ CASE open[i].phase = "failed" -> view' = [view EXCEPT !.older = FALSE] /\ UNCHANGED <<seen, marred>>
       [] open[i].phase = "done" /\ OnScreen(i) -> ShowOlder(open[i])
       [] OTHER -> UNCHANGED <<view, seen, marred>>
  /\ UNCHANGED channel

(* A failed message is taken back, with the last row that reads like it,   *)
(* and returns to the composer.                                            *)
Rollback(text) ==
  LET own == Shows(view.rows, text) /\ Contains(view.waiting, text)
      n == SelectLastInSubSeq(view.rows, 1, Len(view.rows), LAMBDA r : r.user /\ r.text = text)
  IN [rows |-> IF own THEN RemoveAt(view.rows, n) ELSE view.rows,
      waiting |-> RemoveFirst(view.waiting, text), hides |-> own /\ view.rows[n].seq # 0]

TakeSent(i) ==
  /\ Takes(i, "send") /\ open' = Dropped(i) /\ UNCHANGED <<channel, seen>>
  /\ LET dirty == view.dirty /\ ~(open[i].updated /\ open[i].value = view.choice)
         back == Rollback(open[i].text)
     IN CASE ~OnScreen(i) -> UNCHANGED <<view, marred>>
          [] OnScreen(i) /\ open[i].phase = "done" ->
               view' = [view EXCEPT !.sending = FALSE, !.dirty = dirty] /\ UNCHANGED marred
          [] OTHER ->
               /\ view' = [view EXCEPT !.sending = FALSE, !.dirty = dirty, !.typed = open[i].text,
                                       !.rows = back.rows, !.waiting = back.waiting]
               /\ marred' = (marred \/ back.hides)

TakeCancel(i) ==
  /\ Takes(i, "cancel") /\ open' = Dropped(i) /\ view' = [view EXCEPT !.canceling = FALSE]
  /\ UNCHANGED <<channel, seen, marred>>

TakeContext(i) ==
  /\ Takes(i, "context") /\ open' = Dropped(i)
  /\ IF OnScreen(i) /\ open[i].at = 1
     THEN view' = [view EXCEPT !.busy = FALSE, 
                              !.config = IF open[i].phase = "done" THEN [of |-> open[i].chat, pick |-> open[i].value] ELSE @]
     ELSE UNCHANGED view
  /\ UNCHANGED <<channel, seen, marred>>

(* A created conversation is opened wherever the user is by then. *)
TakeCreated(i) ==
  /\ Takes(i, "create")
  /\ LET chat == open[i].chat
         typed == IF open[i].phase = "failed" THEN open[i].text ELSE view.typed
     IN IF chat \in {Nowhere, view.selected}
        THEN /\ open' = Dropped(i) /\ view' = [view EXCEPT !.creating = FALSE, !.typed = typed]
             /\ UNCHANGED <<channel, seen, marred>>
        ELSE OpenChat(chat, Dropped(i), [view EXCEPT !.creating = FALSE, !.typed = typed])

Taken ==
  /\ \E i \in 1..MaxOpen :
       /\ i <= Len(open)
       /\ \/ TakePage(i) \/ TakeOlder(i) \/ TakeSent(i)
          \/ TakeCancel(i) \/ TakeContext(i) \/ TakeCreated(i)
  /\ UNCHANGED <<stored, made, server, habit, crossed, clicks, chatFaults>>
-----------------------------------------------------------------------------
(* The event stream: subscribed first, then the latest page, then what was *)
(* broadcast since.  When it ends, all again after a while.                *)
StreamOpens ==
  /\ channel.phase = "opening"
  /\ channel' = [channel EXCEPT !.phase = "subscribed", !.since = Len(stored[view.selected])]
  /\ UNCHANGED <<view, seen, marred, chatFaults>>

CatchUpRead ==
  /\ channel.phase = "subscribed"
  /\ channel' = [channel EXCEPT !.phase = "read", !.page = PageOf(view.selected, 0), !.since = Len(stored[view.selected])]
  /\ UNCHANGED <<view, seen, marred, chatFaults>>

(* Without the page the messages before the subscription stay unknown. *)
CatchUpFails ==
  /\ channel.phase = "subscribed" /\ ChatFault
  /\ channel' = [channel EXCEPT !.phase = "live"]
  /\ marred' = (marred \/ channel.since > seen)
  /\ seen' = IF channel.since > seen THEN channel.since ELSE seen
  /\ UNCHANGED view

CatchUpShown ==
  /\ channel.phase = "read" /\ ShowPage(channel.page, channel.since)
  /\ channel' = [channel EXCEPT !.phase = "live", !.page = <<>>]
  /\ UNCHANGED chatFaults

\* Mutant: every message of the user is taken for an echo.
IsEchoAlways(row) == row.user
(* The user's own message is already on screen. *)
IsEcho(row) == row.user /\ Contains(view.waiting, row.text)
ApplyEvent ==
  /\ channel.phase = "live" /\ channel.queue # <<>>
  /\ channel' = [channel EXCEPT !.queue = Tail(@)]
  /\ LET row == Head(channel.queue)
     IN /\ view' = IF IsEcho(row)
                   THEN [view EXCEPT !.waiting = RemoveFirst(@, row.text)]
                   ELSE [view EXCEPT !.rows = Append(@, row)]
        /\ seen' = IF row.seq > seen THEN row.seq ELSE seen
  /\ UNCHANGED <<marred, chatFaults>>

StreamEnds ==
  /\ channel.phase \in {"opening", "subscribed", "read", "live"} /\ ChatFault
  /\ channel' = [NoChannel EXCEPT !.phase = "backoff"]
  /\ UNCHANGED <<view, seen, marred>>

StreamAgain ==
  /\ channel.phase = "backoff" /\ channel' = [channel EXCEPT !.phase = "opening"]
  /\ UNCHANGED <<view, seen, marred, chatFaults>>

Streams ==
  /\ StreamOpens \/ CatchUpRead \/ CatchUpFails \/ CatchUpShown \/ ApplyEvent \/ StreamEnds \/ StreamAgain
  /\ UNCHANGED <<stored, made, server, open, habit, crossed, clicks>>

UserActs ==
  \/ \E chat \in Chats : Select(chat)
  \/ Deselect \/ LoadOlder \/ CancelSession
  \/ \E text \in Texts : SendComposer(text) \/ CreateSession(text)
  \/ \E value \in Picks : Choose(value)
  \/ \E value \in Picks \cup {0} : ChooseContext(value)

ChatNext == UserActs \/ Poll \/ (\E chat \in Chats : Reply(chat)) \/ Served \/ Taken \/ Streams
ChatSpec == ChatInit /\ [][ChatNext]_chatVars
-----------------------------------------------------------------------------
(* What is on screen belongs to the conversation that is open, whatever    *)
(* answers come in after the user has left others.                         *)
OwnRows ==
  /\ \A i \in 1..Len(view.rows) : view.rows[i].chat = view.selected
  /\ view.config.of \in {Nowhere, view.selected}

(* An operation is blocked only while the request that will unblock it is  *)
(* on its way.                                                             *)
FlagsHonest ==
  /\ view.sending => InFlight("send", view.selected)
  /\ view.canceling => InFlight("cancel", view.selected)
  /\ view.older => InFlight("older", view.selected)
  /\ view.creating => \E i \in 1..Len(open) : open[i].kind = "create"
  /\ view.busy => \E i \in 1..Len(open) : open[i].kind = "context" /\ open[i].chat = view.selected /\ open[i].at = 1

(* A choice of the model that is no longer marked as changed is the        *)
(* gateway's, unless two sends of one conversation crossed.                *)
ChoiceKept ==
  view.touched /\ ~view.dirty /\ ~crossed /\ ~InFlight("send", view.selected)
    => server[view.selected].choice = view.choice

(* When nothing is on its way, every stored message since the oldest on    *)
(* screen is on screen, as often as it was sent: the rows miss one only    *)
(* after a page that was read before what they showed, a catch-up without  *)
(* its page, events the broadcast dropped, an older page that does not     *)
(* join or ends like the rows begin, or messages that read alike of which  *)
(* one failed.                                                             *)
ChatAtRest ==
  /\ channel.phase = "live" /\ channel.queue = <<>>
  /\ \A i \in 1..Len(open) : open[i].chat # view.selected
Like(rows, row) == Len(SelectSeq(rows, LAMBDA r : Alike(r, row)))
RowsComplete ==
  ChatAtRest /\ ~marred =>
    LET kept == SubSeq(stored[view.selected], IF view.cursor = 0 THEN 1 ELSE view.cursor, Len(stored[view.selected]))
    IN \A i \in 1..Len(kept) : Like(kept, kept[i]) <= Like(view.rows, kept[i])

ChatHonest == OwnRows /\ FlagsHonest /\ ChoiceKept /\ RowsComplete
=============================================================================
