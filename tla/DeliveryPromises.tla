-------------------------- MODULE DeliveryPromises --------------------------
(***************************************************************************)
(* What the gateway promises of the messages of a conversation.            *)
(***************************************************************************)
EXTENDS Delivery

Pcs == {"rest", "down", "info", "create", "created", "follow", "append", "accepted",
        "cancel", "ack", "remove", "removed", "unfollow", "clear"}

\* The types: a row names a session that was created, a task at work holds what
\* it works on, and only messages that arrived were heard of.
TypeOK ==
  /\ mode \in Modes /\ source \in [Messages -> Sources]
  /\ box \in [Messages -> {"new", "sent", "acked"}]
  /\ row \in {Absent, Unbound} \union {a \in Agents : agent[a] # "unborn"}
  /\ inbound \in [Messages -> {"none", "delivered", "blocked"}]
  /\ agent \in [Agents -> {"unborn", "live", "deleted"}]
  /\ projected \in {0} \union {a \in Agents : agent[a] # "unborn"}
  /\ \A t \in Tasks : task[t].pc \in Pcs
  /\ \A m \in Messages : heard[m] > 0 => box[m] # "new"

\* The messenger forgets a message once it is acknowledged, so by then an agent
\* session has accepted it; replies to conversations the gateway takes no part in
\* go unheard (handle_inbound, before connect_once acknowledges).  The same holds of
\* what is recorded as delivered (record_inbound).
Stops(m) == mode = "thread" /\ source[m] = "stop"
AckedHeard ==
  \A m \in Messages :
    /\ box[m] = "acked" => heard[m] > 0 \/ m \in passed \/ Stops(m)
    /\ inbound[m] = "delivered" => heard[m] > 0

\* A message is accepted once, and once more at most for every acceptance that was
\* cut off from its record and every deletion of the records (inbound_status).
HeardOnce == \A m \in Messages : heard[m] <= 1 + unrecorded + wiped

\* The row names a deleted agent session only while whoever deleted it is about to
\* clear the row, or was kept from it (reset_session, delete_session).
BoundLive ==
  row \in Agents /\ agent[row] = "deleted" => cut \/ \E t \in Tasks : Halfway(t)

\* When a session accepts a message its status is being followed, unless a reset or
\* a deletion is under way or has overwritten the row (append_to_agent_with_projection).
FollowedWhenHeard ==
  [][heard' # heard /\ mode = "thread" =>
       \/ projected = task["socket"].id
       \/ raced \/ faults > 0 \/ wiped > 0
       \/ \E t \in {"reset", "delete"} \intersect Tasks : ~At(t, "rest")]_deliveryVars

\* Every message is acknowledged in the end, unless the row names a session that
\* was deleted by somebody who never came to clear the row (connect_once retries).
Stuck == cut /\ row \in Agents /\ agent[row] = "deleted"
MessagesHandled == \A m \in Messages : box[m] = "sent" ~> (box[m] = "acked" \/ Stuck)

\* What was acknowledged was heard, no oftener than failures repeated it, and the
\* session that hears is not one the row should have forgotten.
DeliverySafe == AckedHeard /\ HeardOnce /\ BoundLive

\* Every message comes through, and its session's status with it.
ComesThrough == FollowedWhenHeard /\ MessagesHandled
=============================================================================
