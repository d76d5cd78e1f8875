----------------------------- MODULE Selections -----------------------------
(***************************************************************************)
(* Which profile, model and thinking level a conversation's session works  *)
(* with.  Three handlers of the gateway choose for one conversation: the   *)
(* admin page's (it may leave the profile to the gateway), the       *)
(* desktop client's, and the one of a first message, which asks for the    *)
(* default.  Each reads the conversation's row, the first and the last     *)
(* list the profiles with their quota, all ask the agent, which looks at   *)
(* the profile's document again, and write the row; requests to the agent  *)
(* may be cut short, and the profiles change meanwhile.                    *)
(*                                                                         *)
(* A fourth handler is left out: the desktop client's creation of a        *)
(* conversation chooses for a row of its own that no other request knows,  *)
(* and deletes that row when the agent refuses.                            *)
(*                                                                         *)
(* A pair stands for a model with one of its thinking levels.  Profiles    *)
(* are numbered in the order of their ids.  Deleting a session or a row    *)
(* is left to Delivery, the renewal of credentials to Credentials.         *)
(***************************************************************************)
EXTENDS Integers, Sequences, FiniteSets

CONSTANTS ProfileIds,      \* numbers, in the order of the ids
          Subscribed,      \* the profiles billed by subscription
          Pairs,           \* model and thinking
          Quotas,          \* what a probe may find to be left
          Choosers,        \* places for requests under way; the first free one is taken
          Sessions,        \* agent sessions, numbered as they are created
          MaxOddities,     \* fields in which the documents may depart from Usual
          MaxChoices,      \* requests in all
          MaxShelfChanges, \* documents put and deleted, quotas probed
          MaxCuts          \* requests cut short

Automatic == 0            \* "auto" is no profile's id
NoPair == "none"

ASSUME SelectionsAssumption ==
  /\ ProfileIds \subseteq Nat \ {Automatic} /\ ProfileIds # {} /\ IsFiniteSet(ProfileIds)
  /\ Subscribed \subseteq ProfileIds /\ NoPair \notin Pairs
  /\ Quotas \subseteq Nat /\ 0 \in Quotas
  /\ Choosers \subseteq Nat /\ Sessions \subseteq Nat \ {0} /\ 1 \in Sessions /\ {MaxChoices, MaxShelfChanges, MaxCuts} \subseteq Nat

VARIABLES
  shelf,    \* the document of each profile, or Missing
  quota,    \* what the last probe found to be left of it; 0: nothing known
  row,      \* the conversation: the session it is bound to (0: none), its
            \* selection, and whether it is marked as blocked
  session,  \* the selection of each agent session, or Nothing
  choice,   \* what each request is at
  choices, changes, cuts,
  took,     \* the selections each session has ever taken
  raced,    \* two requests have been under way at one time
  torn      \* a request was cut short when the agent could have taken its choice

choiceVars == <<shelf, quota, row, session, choice, choices, changes, cuts, took, raced, torn>>

Selected(profile, pair) == [profile |-> profile, pair |-> pair]
Nothing == Selected(Automatic, NoPair)
Free == [pc |-> "rest", by |-> "nobody", id |-> 0, want |-> Nothing, heard |-> TRUE]

(* A document declares at least one pair, and its default is one of them.  *)
Declared == [pairs : SUBSET Pairs, default : Pairs \cup {NoPair}, limits : BOOLEAN, auth : BOOLEAN]
Valid(d) == d.pairs # {} /\ d.default \in d.pairs \cup {NoPair}
Usual == [pairs |-> Pairs, default |-> CHOOSE p \in Pairs : TRUE, limits |-> TRUE, auth |-> TRUE]
Odd(d) == {f \in DOMAIN Usual : d[f] # Usual[f]}
Declarations == {d \in Declared : Valid(d) /\ Cardinality(Odd(d)) <= MaxOddities}
Missing == [pairs |-> {}, default |-> NoPair, limits |-> FALSE, auth |-> FALSE]
Oddities(docs) ==
  UNION {{p} \X Odd(docs[p]) : p \in {q \in ProfileIds : docs[q] # Missing}}
Ordinary(docs) == Cardinality(Oddities(docs)) <= MaxOddities

NewRow == [id |-> 0, selection |-> Nothing, blocked |-> FALSE]

(* The conversation has its session already, or none.  Bounds of the       *)
(* instance: what is left is known only of usual documents, and before the *)
(* conversation has a session.                                             *)
SelectionsInit ==
  /\ shelf \in [ProfileIds -> Declarations \cup {Missing}] /\ Ordinary(shelf)
  /\ quota \in [ProfileIds -> Quotas]
  /\ \E bound \in {0, 1} :
       /\ row = [NewRow EXCEPT !.id = bound, !.selection = IF bound = 0 THEN Nothing ELSE Selected(CHOOSE p \in ProfileIds : TRUE, Usual.default)]
       /\ session = [s \in Sessions |-> IF s = bound THEN row.selection ELSE Nothing]
       /\ \A p \in ProfileIds : quota[p] > 0 => shelf[p] # Missing /\ Oddities(shelf) = {} /\ bound = 0
       /\ took = [s \in Sessions |-> {session[s]} \ {Nothing}]
  /\ choice = [c \in Choosers |-> Free]
  /\ choices = 0 /\ changes = 0 /\ cuts = 0 /\ raced = FALSE /\ torn = FALSE
-----------------------------------------------------------------------------
(* What the gateway makes of the listed profiles.                          *)
Listed == {p \in ProfileIds : shelf[p] # Missing}
Compatible(pair) == {p \in Listed : shelf[p].auth /\ pair \in shelf[p].pairs}

Foremost(pool) == CHOOSE p \in pool : \A q \in pool : quota[p] > quota[q] \/ (quota[p] = quota[q] /\ p <= q)
\* Mutant: how a profile is billed does not matter.
RecommendedAnyhow(profiles) ==
  LET scored == {p \in profiles : quota[p] > 0}
  IN Foremost(IF scored = {} THEN profiles ELSE scored)
Recommended(profiles) ==
  LET scored == {p \in profiles : quota[p] > 0}
      subscribed == scored \cap Subscribed
  IN Foremost(CASE scored = {} -> profiles
             [] scored # {} /\ subscribed = {} -> scored
             [] subscribed # {} -> subscribed)

(* Nothing, when no profile will do.                                       *)
ResolveSelection(want) ==
  LET profiles == Compatible(want.pair) IN
  CASE want.profile = Automatic /\ profiles # {} -> Selected(Recommended(profiles), want.pair)
    [] want.profile \in profiles -> want
    [] want.profile \notin profiles /\ (want.profile = Automatic => profiles = {}) -> Nothing

Defaulting == {p \in Listed : shelf[p].auth /\ shelf[p].default # NoPair}
DefaultSelection ==
  IF Defaulting = {} THEN Nothing
  ELSE LET first == CHOOSE p \in Defaulting : \A q \in Defaulting : p <= q
       IN ResolveSelection(Selected(Automatic, shelf[first].default))

(* What the agent makes of a selection: it needs the limits of the model,  *)
(* and does not ask for the credential.                                    *)
Selectable(s) == s.pair \in shelf[s.profile].pairs
AgentTakes(s) == s.profile \in ProfileIds /\ Selectable(s) /\ shelf[s.profile].limits
-----------------------------------------------------------------------------
(* The handlers, from one await to the next.                               *)
At(c, pc) == choice[c].pc = pc
Goes(c, pc) == choice' = [choice EXCEPT ![c].pc = pc]
Leaves(c) == choice' = [choice EXCEPT ![c] = Free]
Enters(c, request) ==
  /\ At(c, "rest") /\ (\A other \in Choosers : other < c => ~At(other, "rest"))
  /\ choice' = [choice EXCEPT ![c] = request]
  /\ choices < MaxChoices /\ choices' = choices + 1
  /\ raced' = (raced \/ \E other \in Choosers : ~At(other, "rest"))

Page(c, want) ==
  /\ Enters(c, [pc |-> "list", by |-> "page", id |-> row.id, want |-> want, heard |-> TRUE])
  /\ UNCHANGED <<shelf, quota, row, session, changes, cuts, took, torn>>

Desktop(c, want) ==
  /\ row.id # 0
  /\ Enters(c, [pc |-> "put", by |-> "nobody", id |-> row.id, want |-> want, heard |-> TRUE])
  /\ UNCHANGED <<shelf, quota, row, session, changes, cuts, took, torn>>

\* A message for a conversation that has its session chooses nothing.
Message(c) ==
  /\ row.id = 0
  /\ Enters(c, [pc |-> "list", by |-> "message", id |-> 0, want |-> Nothing, heard |-> TRUE])
  /\ UNCHANGED <<shelf, quota, row, session, changes, cuts, took, torn>>

Finding(c) == IF choice[c].by = "page" THEN ResolveSelection(choice[c].want) ELSE DefaultSelection
List(c) ==
  /\ At(c, "list")
  /\ LET found == Finding(c) IN
     CASE found # Nothing ->
            choice' = [choice EXCEPT ![c].want = found, ![c].by = "nobody",
                                     ![c].pc = IF choice[c].id = 0 THEN "create" ELSE "put"]
       [] found = Nothing /\ choice[c].by = "page" -> Leaves(c)
       [] found = Nothing /\ choice[c].by = "message" -> Goes(c, "block")
  /\ UNCHANGED <<shelf, quota, row, session, choices, changes, cuts, took, raced, torn>>

Block(c) ==
  /\ At(c, "block") /\ row' = [row EXCEPT !.blocked = TRUE] /\ Leaves(c)
  /\ UNCHANGED <<shelf, quota, session, choices, changes, cuts, took, raced, torn>>

(* The agent checks a selection and then asks the session's owner to make  *)
(* it the session's: the profile may have changed in between.  Nobody may  *)
(* be there any more to be told.                                           *)
Validate(c) ==
  /\ choice[c].pc \in {"put", "create"}
  /\ IF AgentTakes(choice[c].want) THEN Goes(c, IF At(c, "put") THEN "set" ELSE "open") ELSE Leaves(c)
  /\ UNCHANGED <<shelf, quota, row, session, choices, changes, cuts, took, raced, torn>>

Becomes(id, s) ==
  session' = [session EXCEPT ![id] = s] /\ took' = [took EXCEPT ![id] = @ \cup {s}]

UpdateSelection(c) ==
  /\ At(c, "set") /\ Becomes(choice[c].id, choice[c].want)
  /\ IF choice[c].heard THEN Goes(c, "read") ELSE Leaves(c)
  /\ UNCHANGED <<shelf, quota, row, choices, changes, cuts, raced, torn>>

Unopened == {id \in Sessions : session[id] = Nothing}
AgentOpens(c, id) ==
  /\ At(c, "open") /\ id \in Unopened /\ (\A other \in Unopened : id <= other)
  /\ Becomes(id, choice[c].want)
  /\ IF choice[c].heard THEN choice' = [choice EXCEPT ![c].pc = "write", ![c].id = id] ELSE Leaves(c)
  /\ UNCHANGED <<shelf, quota, row, choices, changes, cuts, raced, torn>>

\* The agent answers with the session's selection as it is by now.
ReadBack(c) ==
  /\ At(c, "read")
  /\ IF session[choice[c].id] = choice[c].want THEN Goes(c, "write") ELSE Leaves(c)
  /\ UNCHANGED <<shelf, quota, row, session, choices, changes, cuts, took, raced, torn>>

\* Mutant: an old mark is left.
BindMarked(c) == [id |-> choice[c].id, selection |-> choice[c].want, blocked |-> row.blocked]
Bind(c) == [id |-> choice[c].id, selection |-> choice[c].want, blocked |-> FALSE]
Write(c) ==
  /\ At(c, "write") /\ row' = Bind(c) /\ Leaves(c)
  /\ UNCHANGED <<shelf, quota, session, choices, changes, cuts, took, raced, torn>>

(* The client goes, the agent's answer is lost, a profile vanishes while   *)
(* the profiles are listed, a write fails: the handler ends where it is.   *)
(* What it has asked of the agent may still be done.                       *)
AskingAgent == {"put", "set", "create", "open"}
Cut(c) ==
  /\ ~At(c, "rest") /\ choice[c].heard /\ cuts < MaxCuts /\ cuts' = cuts + 1
  /\ torn' = (torn \/ choice[c].pc \in AskingAgent \cup {"read", "write"})
  /\ \/ Leaves(c)
     \/ choice[c].pc \in AskingAgent /\ choice' = [choice EXCEPT ![c].heard = FALSE]
  /\ UNCHANGED <<shelf, quota, row, session, choices, changes, took, raced>>
-----------------------------------------------------------------------------
(* The profiles, as others change them.                                    *)
Changing == changes < MaxShelfChanges /\ changes' = changes + 1

Shelved(p, d) == shelf' = [shelf EXCEPT ![p] = d]

PutProfile(p, d) ==
  /\ Changing /\ Shelved(p, d) /\ Ordinary(shelf')
  /\ UNCHANGED <<quota, row, session, choice, choices, cuts, took, raced, torn>>

DeleteProfile(p) ==
  /\ Changing /\ shelf[p] # Missing /\ Shelved(p, Missing)
  /\ UNCHANGED <<quota, row, session, choice, choices, cuts, took, raced, torn>>

\* A probe records what is left, and a put or a deletion drops what was recorded.
QuotaProbed(p, left) ==
  /\ Changing /\ quota[p] # left /\ quota' = [quota EXCEPT ![p] = left]
  /\ UNCHANGED <<shelf, row, session, choice, choices, cuts, took, raced, torn>>

SelectionsNext ==
  \/ \E c \in Choosers :
       \/ \E profile \in ProfileIds \cup {Automatic}, pair \in Pairs :
            Page(c, Selected(profile, pair)) \/ Desktop(c, Selected(profile, pair))
       \/ Message(c) \/ List(c) \/ Block(c) \/ Validate(c) \/ UpdateSelection(c) \/ ReadBack(c) \/ Write(c) \/ Cut(c)
       \/ \E id \in Sessions : AgentOpens(c, id)
  \/ \E p \in ProfileIds :
       (\E d \in Declarations : PutProfile(p, d)) \/ DeleteProfile(p) \/ \E left \in Quotas : QuotaProbed(p, left)

SelectionsSpec == SelectionsInit /\ [][SelectionsNext]_choiceVars
-----------------------------------------------------------------------------
(* The row never names a session or a selection that the agent has not     *)
(* taken.                                                                  *)
RowTaken == IF row.id = 0 THEN row.selection = Nothing ELSE row.selection \in took[row.id]

(* At rest the row says what its session has, every session created is     *)
(* the row's, and no bound conversation is marked as blocked, unless       *)
(* requests overlapped or one was cut short.                               *)
Resting == \A c \in Choosers : At(c, "rest")
RowCurrent ==
  Resting /\ ~raced /\ ~torn =>
    /\ row.id # 0 => row.selection = session[row.id] /\ ~row.blocked
    /\ \A s \in Sessions : session[s] # Nothing => s = row.id

(* Left to the gateway, the choice falls on a profile that can do what is  *)
(* asked, and none that can is better: with something left rather than     *)
(* nothing known, a subscription rather than by usage, with more left.     *)
Rank(p) == IF quota[p] = 0 THEN 0 ELSE IF p \in Subscribed THEN 2 ELSE 1
Better(p, q) == Rank(p) > Rank(q) \/ (Rank(p) = Rank(q) /\ quota[p] > quota[q])
BestChosen ==
  \A pair \in Pairs :
    LET found == ResolveSelection(Selected(Automatic, pair))
        able == {p \in ProfileIds : shelf[p].auth /\ pair \in shelf[p].pairs}
    IN IF able = {} THEN found = Nothing
       ELSE found.pair = pair /\ found.profile \in able /\ \A p \in able : ~Better(p, found.profile)

(* A new conversation finds a selection as soon as a profile that has its  *)
(* credential declares a default, and the agent takes it if its limits are *)
(* declared.                                                               *)
DefaultFound ==
  LET found == DefaultSelection IN
  /\ found = Nothing <=> \A p \in ProfileIds : ~shelf[p].auth \/ shelf[p].default = NoPair
  /\ found # Nothing => AgentTakes(found) \/ ~shelf[found.profile].limits

SelectionHonest == RowTaken /\ RowCurrent /\ BestChosen /\ DefaultFound
=============================================================================
